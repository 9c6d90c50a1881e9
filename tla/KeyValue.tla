------------------------------ MODULE KeyValue ------------------------------
(***************************************************************************)
(* What PersistencePort promises of a store, as the in-memory adapter      *)
(* keeps it: one payload per topic key, and a call that takes effect at    *)
(* one moment while it runs.  A call may fail instead, and its caller      *)
(* cannot tell then whether it took effect, or will yet.                   *)
(***************************************************************************)
EXTENDS Naturals

CONSTANTS
  Callers,   \* threads and processes that call the store
  Keys,      \* topic keys
  Contents,  \* payloads
  NoContent, \* what get returns of a key without one
  Ids        \* names of upserts

VARIABLES
  value, \* the payload under each key
  ask,   \* each caller's newest call, and how it ended
  late   \* upserts that failed and may take effect yet

Write == [id : Ids, key : Keys, content : Contents \cup {NoContent}]
Ended == {"idle", "ok", "failed"}

Init ==
  /\ value = [k \in Keys |-> NoContent]
  /\ \A c \in Callers : ask[c].state = "idle"
  /\ DOMAIN ask = Callers
  /\ late = {}

\* A caller begins upsert or get.
Ask(c) ==
  /\ ask[c].state \in Ended
  /\ \E op \in {"upsert", "get"}, w \in Write :
       /\ (op = "get") <=> (w.content = NoContent)
       /\ ask' = [ask EXCEPT ![c] = [state |-> "asked", op |-> op, write |-> w, found |-> NoContent]]
  /\ UNCHANGED <<value, late>>

\* It takes effect: an upsert replaces the payload, a get reads it.
Upsert(c) ==
  /\ ask[c].state = "asked" /\ ask[c].op = "upsert"
  /\ value' = [value EXCEPT ![ask[c].write.key] = ask[c].write.content]
  /\ ask' = [ask EXCEPT ![c].state = "taken"]
  /\ UNCHANGED late

Get(c) ==
  /\ ask[c].state = "asked" /\ ask[c].op = "get"
  /\ ask' = [ask EXCEPT ![c].state = "taken", ![c].found = value[ask[c].write.key]]
  /\ UNCHANGED <<value, late>>

\* It returns what it did.
Return(c) ==
  /\ ask[c].state = "taken"
  /\ ask' = [ask EXCEPT ![c].state = "ok"]
  /\ UNCHANGED <<value, late>>

\* It returns PersistenceError::Backend, having taken effect, or never, or not yet.
Fail(c) ==
  /\ ask[c].state \in {"asked", "taken"}
  /\ ask' = [ask EXCEPT ![c].state = "failed", ![c].found = NoContent]
  /\ \/ late' = late
     \/ /\ ask[c].state = "asked" /\ ask[c].op = "upsert"
        /\ late' = late \cup {ask[c].write}
  /\ UNCHANGED value

TakeLate ==
  /\ \E w \in late :
       /\ value' = [value EXCEPT ![w.key] = w.content]
       /\ late' = late \ {w}
  /\ UNCHANGED ask

Next ==
  \/ \E c \in Callers : Ask(c) \/ Upsert(c) \/ Get(c) \/ Return(c) \/ Fail(c)
  \/ TakeLate

Spec == Init /\ [][Next]_<<value, ask, late>>
=============================================================================

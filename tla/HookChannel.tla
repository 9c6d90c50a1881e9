---------------------------- MODULE HookChannel ----------------------------
(***************************************************************************)
(* The hook channel of one session: the agent runs the spectty-hook sidecar *)
(* once per lifecycle event; each invocation reads the counter of the      *)
(* session's state file, then renames a file with its own event and the    *)
(* counter plus one over it.  The session's StateFileReader polls the file *)
(* and returns an event when its counter is above the last one returned.   *)
(*                                                                         *)
(* The file is a single slot, its read-modify-write is not atomic, and     *)
(* nothing makes an invocation wait for the reader.                        *)
(***************************************************************************)
EXTENDS AgentStatus, FiniteSets

CONSTANTS Sidecars,      \* sidecar processes that can be alive at once
          MaxFires,      \* bound on the hook events of one session
          SidecarMayFail \* can a sidecar misread the prior file, or end unwritten?

ASSUME HookAssumption == /\ MaxFires \in Nat
                         /\ SidecarMayFail \in BOOLEAN

VARIABLES
  sidecar,   \* the sidecar processes: where each is and what it carries
  fired,     \* invocations started so far; an invocation's id is its number
  file,      \* the state file, {event, ts} plus the id of the writer
  last_ts,   \* StateFileReader.last_ts (0 for None)
  got,       \* got[i]: times poll returned the event of invocation i
  last_hook  \* the event poll returned last, "none" before the first

hookVars == <<sidecar, fired, file, last_ts, got, last_hook>>

Invocations == 1..MaxFires
Counters == 0..MaxFires

\* No state file yet: every parse failure and every absent file reads as ts 0.
NoFile == [event |-> "none", ts |-> 0, id |-> 0]
Gone == [pc |-> "gone", event |-> "none", id |-> 0, ts |-> 0]

HookTypeOK ==
  /\ sidecar \in [Sidecars -> [pc : {"gone", "read", "write"},
                               event : HookEvents \cup {"none"},
                               id : Counters, ts : Nat]]
  /\ fired \in Counters
  /\ file \in [event : HookEvents \cup {"none"}, ts : Nat, id : Counters]
  /\ last_ts \in Nat
  /\ got \in [Invocations -> Nat]
  /\ last_hook \in HookEvents \cup {"none"}

HookInit ==
  /\ sidecar = [p \in Sidecars |-> Gone]
  /\ fired = 0
  /\ file = NoFile
  /\ last_ts = 0
  /\ got = [i \in Invocations |-> 0]
  /\ last_hook = "none"
----------------------------------------------------------------------------
\* The agent runs a hook command for event e (external: what the provisioned
\* hook rows ask of it).  run_with checks the session id and the runtime dir,
\* which both exist for a provisioned session.
Fire(p, e) ==
  /\ sidecar[p].pc = "gone"
  /\ fired < MaxFires
  /\ fired' = fired + 1
  /\ sidecar' = [sidecar EXCEPT ![p] = [pc |-> "read", event |-> e, id |-> fired + 1, ts |-> 0]]
  /\ UNCHANGED <<file, last_ts, got, last_hook>>

\* Which process it is makes no difference: the first that is free.
FreeSidecar == CHOOSE p \in Sidecars : sidecar[p].pc = "gone"

\* handle_event's first half: the prior counter, 0 when the file is absent or
\* cannot be read, plus one.
SidecarRead(p) ==
  /\ sidecar[p].pc = "read"
  /\ \E prior \in {file.ts} \cup (IF SidecarMayFail THEN {0} ELSE {}) :
       sidecar' = [sidecar EXCEPT ![p].pc = "write", ![p].ts = prior + 1]
  /\ UNCHANGED <<fired, file, last_ts, got, last_hook>>

\* handle_event's second half: the rename replaces whatever is there by now.
SidecarWrite(p) ==
  /\ sidecar[p].pc = "write"
  /\ file' = [event |-> sidecar[p].event, ts |-> sidecar[p].ts, id |-> sidecar[p].id]
  /\ sidecar' = [sidecar EXCEPT ![p] = Gone]
  /\ UNCHANGED <<fired, last_ts, got, last_hook>>

\* run_with fails (no runtime directory, a write error): the sidecar exits
\* without a file and nobody hears of its event.
SidecarFails(p) ==
  /\ SidecarMayFail
  /\ sidecar[p].pc # "gone"
  /\ sidecar' = [sidecar EXCEPT ![p] = Gone]
  /\ UNCHANGED <<fired, file, last_ts, got, last_hook>>

\* StateFileReader::poll has something to return: strictly greater, so the
\* same file is never returned twice.
Fresh == file.ts > last_ts

\* Mutant: return the event without advancing last_ts.
PollTake_keeps_threshold ==
  /\ Fresh
  /\ got' = [got EXCEPT ![file.id] = @ + 1]
  /\ last_hook' = file.event
  /\ UNCHANGED <<sidecar, fired, file, last_ts>>

\* poll returns Some(file.event) and advances last_ts.
PollTake ==
  /\ Fresh
  /\ last_ts' = file.ts
  /\ got' = [got EXCEPT ![file.id] = @ + 1]
  /\ last_hook' = file.event
  /\ UNCHANGED <<sidecar, fired, file>>

HookNext ==
  \/ \E p \in Sidecars, e \in HookEvents : Fire(p, e)
  \/ \E p \in Sidecars : SidecarRead(p) \/ SidecarWrite(p) \/ SidecarFails(p)
  \/ PollTake

HookSpec == HookInit /\ [][HookNext]_hookVars
----------------------------------------------------------------------------
\* No hook event is applied twice, however invocations interleave, whatever
\* counters they computed, and however often poll runs over the same file
\* (reader.rs, consume-once).
ConsumedAtMostOnce == \A i \in Invocations : got[i] <= 1
=============================================================================

---------------------------- MODULE EngramStore ----------------------------
(***************************************************************************)
(* The store behind Spectty's documents: HTTP clients of the engram daemon *)
(* (engram_http.rs and engram.rs in the app, the MCP server's own copy in  *)
(* spectty-mcp/src/main.rs).  An upsert is two requests; a get fetches     *)
(* every row and picks the newest of its key.  The app's client waits      *)
(* without limit, the MCP server's gives up after 2 s, and what it gave up *)
(* on may be done later.                                                   *)
(*                                                                         *)
(* The daemon is external: it may replace a key's row or add one, may list *)
(* rows in either order, and stamps them by the second.                    *)
(***************************************************************************)
EXTENDS Naturals, Sequences, SequencesExt

CONSTANTS
  Callers,   \* threads of the app and MCP servers that call the store
  Patient,   \* those of the app, whose client has no timeout
  Keys,      \* topic keys, up to case: [session, document]
  Contents,  \* payloads
  NoContent, \* get of a key without a row
  Daemons,   \* how the daemon may keep and list rows: [appends, newestFirst]
  MayFallSilent, \* may it fall silent?
  MaxCalls,  \* bound: calls
  MaxSecond  \* bound: seconds

ASSUME StoreAssumption ==
  /\ Patient \subseteq Callers
  /\ \A k \in Keys : "session" \in DOMAIN k
  /\ NoContent \notin Contents
  /\ Daemons \subseteq [appends : BOOLEAN, newestFirst : BOOLEAN]
  /\ MayFallSilent \in BOOLEAN
  /\ MaxCalls \in Nat /\ MaxSecond \in Nat

VARIABLES
  daemon,   \* its kind, one of Daemons
  silent,   \* it accepts requests and answers none
  rows,     \* observations, oldest first: whose key, what, when
  sessions, \* session rows
  second,   \* its clock
  req,      \* each caller's newest call: where it is, and the answer to its request
  begun,    \* calls so far
  late      \* upserts given up by their client that the daemon has yet to handle

storeVars == <<daemon, silent, rows, sessions, second, req, begun, late>>
daemonVars == <<daemon, silent, second>>

Ids == 0 .. MaxCalls
Write == [id : Ids, key : Keys, content : Contents \cup {NoContent}]
Row == [key : Keys, content : Contents \cup {NoContent}, at : 0 .. MaxSecond]
Requests == [at : {"idle", "ok", "failed", "ensure", "post", "list"},
          reply : {"none", "ok", "error", "lost"}, op : {"upsert", "get"}, list : Seq(Row),
          write : Write, found : Contents \cup {NoContent}]
Returned == {"idle", "ok", "failed"}
Waiting(c) == req[c].at \notin Returned /\ req[c].reply = "none"

\* engram_session_id: the second segment of spectty/{session}/{document}.
SessionOf(key) == key.session
-----------------------------------------------------------------------------
\* The rows after the daemon handles an upsert.
Upserted(w) ==
  LET row == [key |-> w.key, content |-> w.content, at |-> second]
  IN  IF ~daemon.appends /\ \E i \in DOMAIN rows : rows[i].key = w.key
      THEN [i \in DOMAIN rows |-> IF rows[i].key = w.key THEN row ELSE rows[i]]
      ELSE Append(rows, row)

\* GET /observations, as the daemon lists them.
Listed == IF daemon.newestFirst THEN Reverse(rows) ELSE rows

\* get's choice: of the rows of the key the one of the newest second, of equals the last.
Matching(list, key) == {i \in DOMAIN list : list[i].key = key}
NewestRows_firstOfEquals(list, key) ==
  {i \in Matching(list, key) : \A j \in Matching(list, key) :
     list[j].at < list[i].at \/ (list[j].at = list[i].at /\ j >= i)}
NewestRows(list, key) ==
  {i \in Matching(list, key) : \A j \in Matching(list, key) :
     list[j].at < list[i].at \/ (list[j].at = list[i].at /\ j <= i)}
Latest(list, key) ==
  IF Matching(list, key) = {} THEN NoContent ELSE list[CHOOSE i \in NewestRows(list, key) : TRUE].content
-----------------------------------------------------------------------------
StoreInit ==
  /\ daemon \in Daemons
  /\ silent = FALSE
  /\ rows = <<>>
  /\ sessions = {}
  /\ second = 0
  /\ \E k \in Keys :
       req = [c \in Callers |-> [at |-> "idle", reply |-> "none", op |-> "get", list |-> <<>>,
                 write |-> [id |-> 0, key |-> k, content |-> NoContent], found |-> NoContent]]
  /\ begun = 0
  /\ late = {}

BeginCall(c, at, op, key, content) ==
  /\ req[c].at \in Returned
  /\ begun < MaxCalls
  /\ begun' = begun + 1
  /\ req' = [req EXCEPT ![c] = [at |-> at, reply |-> "none", op |-> op, list |-> <<>>,
                write |-> [id |-> begun + 1, key |-> key, content |-> content], found |-> NoContent]]
  /\ UNCHANGED <<daemonVars, rows, sessions, late>>

\* post_observation: POST /sessions first.
CallUpsert(c) == \E k \in Keys, v \in Contents : BeginCall(c, "ensure", "upsert", k, v)
\* get_observation: GET /observations.
CallGet(c) == \E k \in Keys : BeginCall(c, "list", "get", k, NoContent)

\* The session is there: POST /observations.
Ensured(c) ==
  /\ req[c].at = "ensure" /\ req[c].reply = "ok"
  /\ req' = [req EXCEPT ![c].at = "post", ![c].reply = "none"]
  /\ UNCHANGED <<daemonVars, rows, sessions, begun, late>>

\* The call returns what its last request came to.
Posted(c) ==
  /\ req[c].at = "post" /\ req[c].reply = "ok"
  /\ req' = [req EXCEPT ![c].at = "ok", ![c].reply = "none"]
  /\ UNCHANGED <<daemonVars, rows, sessions, begun, late>>

Got(c) ==
  /\ req[c].at = "list" /\ req[c].reply = "ok"
  /\ req' = [req EXCEPT ![c].at = "ok", ![c].reply = "none", ![c].list = <<>>,
                          ![c].found = Latest(req[c].list, req[c].write.key)]
  /\ UNCHANGED <<daemonVars, rows, sessions, begun, late>>

Failed(c) ==
  /\ req[c].at \notin Returned /\ req[c].reply \in {"error", "lost"}
  /\ req' = [req EXCEPT ![c].at = "failed", ![c].reply = "none", ![c].list = <<>>]
  /\ UNCHANGED <<daemonVars, rows, sessions, begun, late>>

\* The MCP server's client gives up after 2 s; the daemon has the request.  (A session row
\* that it adds late changes nothing: it answers every later POST /sessions the same.)
Timeout_readsOnly(c) ==
  /\ c \notin Patient
  /\ Waiting(c) /\ req[c].at = "list"
  /\ req' = [req EXCEPT ![c].at = "failed"]
  /\ UNCHANGED <<daemonVars, rows, sessions, begun, late>>
Timeout(c) ==
  /\ c \notin Patient
  /\ Waiting(c)
  /\ req' = [req EXCEPT ![c].at = "failed"]
  /\ late' = IF req[c].at = "post" THEN late \cup {req[c].write} ELSE late
  /\ UNCHANGED <<daemonVars, rows, sessions, begun>>

Client(c) ==
  CallUpsert(c) \/ CallGet(c) \/ Ensured(c) \/ Posted(c) \/ Got(c) \/ Failed(c) \/ Timeout(c)
-----------------------------------------------------------------------------
HandleSession(c) ==
  /\ Waiting(c) /\ req[c].at = "ensure" /\ ~silent
  /\ sessions' = sessions \cup {SessionOf(req[c].write.key)}
  /\ req' = [req EXCEPT ![c].reply = "ok"]
  /\ UNCHANGED <<daemonVars, rows, begun, late>>

\* An observation needs its session's row.
HandlePost(c) ==
  /\ Waiting(c) /\ req[c].at = "post" /\ ~silent
  /\ SessionOf(req[c].write.key) \in sessions
  /\ rows' = Upserted(req[c].write)
  /\ req' = [req EXCEPT ![c].reply = "ok"]
  /\ UNCHANGED <<daemonVars, sessions, begun, late>>

HandleList(c) ==
  /\ Waiting(c) /\ req[c].at = "list" /\ ~silent
  /\ req' = [req EXCEPT ![c].reply = "ok", ![c].list = Listed]
  /\ UNCHANGED <<daemonVars, rows, sessions, begun, late>>

\* It refuses the connection, or answers with another status than a success.
Refuse(c) ==
  /\ Waiting(c)
  /\ req' = [req EXCEPT ![c].reply = "error"]
  /\ UNCHANGED <<daemonVars, rows, sessions, begun, late>>

\* The answer does not reach the client, or not as JSON.
Lose(c) ==
  /\ req[c].at \notin Returned /\ req[c].reply = "ok"
  /\ req' = [req EXCEPT ![c].reply = "lost"]
  /\ UNCHANGED <<daemonVars, rows, sessions, begun, late>>

HandleLate ==
  /\ ~silent
  /\ \E w \in late :
       /\ rows' = Upserted(w)
       /\ late' = late \ {w}
  /\ UNCHANGED <<daemonVars, sessions, req, begun>>

NextSecond ==
  /\ second < MaxSecond
  /\ second' = second + 1
  /\ UNCHANGED <<daemon, silent, rows, sessions, req, begun, late>>

FallSilent ==
  /\ MayFallSilent /\ ~silent
  /\ silent' = TRUE
  /\ UNCHANGED <<daemon, rows, sessions, second, req, begun, late>>

Handle(c) == HandleSession(c) \/ HandlePost(c) \/ HandleList(c)

StoreNext ==
  \/ \E c \in Callers : Client(c) \/ Handle(c) \/ Refuse(c) \/ Lose(c)
  \/ HandleLate \/ NextSecond \/ FallSilent

StoreSpec == StoreInit /\ [][StoreNext]_storeVars

\* A client goes on when it has its answer or its time is up; a daemon that is not silent
\* handles what it was sent.
Progress(c) ==
  /\ WF_storeVars(Ensured(c) \/ Posted(c) \/ Got(c) \/ Failed(c) \/ Timeout(c))
  /\ WF_storeVars(Handle(c))

StoreFairSpec == StoreSpec /\ \A c \in Callers : Progress(c)
-----------------------------------------------------------------------------
\* Types; and an observation is only posted when its session's row is there, as the
\* daemon would refuse it (engram_http.rs 213-216).
StoreTypeOK ==
  /\ daemon \in Daemons
  /\ silent \in BOOLEAN
  /\ rows \in Seq(Row)
  /\ sessions \subseteq {SessionOf(k) : k \in Keys}
  /\ second \in 0 .. MaxSecond
  /\ req \in [Callers -> Requests]
  /\ begun \in Ids
  /\ late \subseteq Write
  /\ \A c \in Callers : req[c].at = "post" => SessionOf(req[c].write.key) \in sessions

\* The clients and the daemon are a store as PersistencePort has it, though a get is a
\* list, a filter and a maximum over timestamps of one second: that is so if the daemon
\* replaces rows or lists the oldest first.
Taken(r) == r.at \in {"post", "list"} /\ r.reply \in {"ok", "lost"}
Image(r) ==
  [state |-> IF r.at \in Returned THEN r.at ELSE IF Taken(r) THEN "taken" ELSE "asked",
   op |-> r.op, write |-> r.write,
   found |-> IF r.at = "list" /\ Taken(r) THEN Latest(r.list, r.write.key) ELSE r.found]
PortValue == [k \in Keys |-> Latest(Listed, k)]
PortAsk == [c \in Callers |-> Image(req[c])]
Port == INSTANCE KeyValue WITH value <- PortValue, ask <- PortAsk
ImplementsPort == Port!Spec

\* A call ends, unless it is the app's and the daemon has fallen silent: without a timeout
\* it then holds its thread, be it a poll's or the main thread under approve_prompt.
CallsEnd ==
  \A c \in Callers :
    req[c].at \notin Returned ~> req[c].at \in Returned \/ (c \in Patient /\ silent)
=============================================================================

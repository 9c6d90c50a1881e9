----------------------------- MODULE SessionView -----------------------------
(***************************************************************************)
(* useSession and the App around it against the backend of the sessions:   *)
(* what the badge, the terminal and the Close button are of.  Submits,     *)
(* closes, their replies, status_changed and session_closed cross each     *)
(* other on the way.  A status is the number of changes the session has    *)
(* made (0 is Starting), or the prompt of the approval loop, which the     *)
(* registry does not know of.                                              *)
(***************************************************************************)
EXTENDS Naturals, Sequences

CONSTANTS MaxSpawns,   \* bound on the submits of the spawn dialog
          MaxChanges,  \* bound on the status changes of a session
          MaxEvents,   \* bound on the events under way at once
          Closers      \* close calls that can be under way at once

ASSUME ViewAssumption == MaxSpawns \in Nat /\ MaxChanges \in Nat /\ MaxEvents \in Nat

VARIABLES
  session,    \* useSession.session: the submit whose session is shown, or 0
  ref,        \* sessionIdRef: session as of the last render
  badge,      \* useSession.status, with the session it came from
  channel,    \* outputChannelRef: the channel of the last submit
  listening,  \* listeners that are registered
  request,    \* request[r]: the spawn_session call of submit r
  status,     \* SessionRegistry: the status of r's session
  live,       \* sessions whose agent has a PTY
  closes,     \* the close_session calls
  events,     \* emitted and not yet delivered
  overlap     \* was a spawn submitted while another call was under way?

vars == <<session, ref, badge, channel, listening, request, status, live, closes, events, overlap>>
backendVars == <<request, status, live, closes, events>>

Submits == 1..MaxSpawns
Prompt == MaxChanges + 1
Blank == [id |-> 0, status |-> 0]
Idle == [at |-> "idle", id |-> 0]
Badges == [id : 0..MaxSpawns, status : 0..Prompt]
CloseCalls == [at : {"idle", "asked", "done", "fails"}, id : 0..MaxSpawns]

ViewTypeOK ==
  /\ session \in 0..MaxSpawns /\ ref \in 0..MaxSpawns /\ channel \in 0..MaxSpawns
  /\ badge \in Badges
  /\ listening \subseteq {"status_changed", "session_closed"}
  /\ request \in [Submits -> {"none", "asked", "up", "told", "fails", "failed"}]
  /\ status \in [Submits -> 0..MaxChanges]
  /\ live \subseteq Submits
  /\ closes \in [Closers -> CloseCalls]
  /\ overlap \in BOOLEAN

Init ==
  /\ session = 0 /\ ref = 0 /\ channel = 0 /\ badge = Blank
  /\ listening = {}
  /\ request = [r \in Submits |-> "none"]
  /\ status = [r \in Submits |-> 0]
  /\ live = {}
  /\ closes = [c \in Closers |-> Idle]
  /\ events = <<>>
  /\ overlap = FALSE
----------------------------------------------------------------------------
(* The webview.                                                            *)

\* The effect of useSession registers both listeners, asynchronously.
Listen(e) ==
  /\ e \notin listening
  /\ listening' = listening \cup {e}
  /\ UNCHANGED <<session, ref, badge, channel, backendVars, overlap>>

\* A spawn or close has not returned, or what it brought is not rendered yet.
CallUnderWay ==
  \/ session # ref
  \/ \E r \in Submits : request[r] \in {"asked", "up", "fails"}
  \/ \E c \in Closers : closes[c].at # "idle"

\* Mutant: one channel for the life of the app.
Submit_one_channel(r) ==
  /\ ref = 0 /\ request[r] = "none" /\ \A q \in 1..(r - 1) : request[q] # "none"
  /\ channel' = IF channel = 0 THEN r ELSE channel
  /\ request' = [request EXCEPT ![r] = "asked"]
  /\ overlap' = (overlap \/ CallUnderWay)
  /\ UNCHANGED <<session, ref, badge, listening, status, live, closes, events>>

\* The dialog is there as long as no session is, its button never disabled: App
\* mints a channel and calls spawn.
Submit(r) ==
  /\ ref = 0 /\ request[r] = "none" /\ \A q \in 1..(r - 1) : request[q] # "none"
  /\ channel' = r
  /\ request' = [request EXCEPT ![r] = "asked"]
  /\ overlap' = (overlap \/ CallUnderWay)
  /\ UNCHANGED <<session, ref, badge, listening, status, live, closes, events>>

\* spawn_session resolves: the hook adopts the session as Starting.
SpawnTold(r) ==
  /\ request[r] = "up"
  /\ request' = [request EXCEPT ![r] = "told"]
  /\ session' = r
  /\ badge' = [id |-> r, status |-> 0]
  /\ UNCHANGED <<ref, channel, listening, status, live, closes, events, overlap>>

\* It rejects: the error is shown, the session stays as it is.
SpawnRejected(r) ==
  /\ request[r] = "fails"
  /\ request' = [request EXCEPT ![r] = "failed"]
  /\ UNCHANGED <<session, ref, badge, channel, listening, status, live, closes, events, overlap>>

\* React renders: the listeners and the buttons see the session.
Render ==
  /\ ref # session
  /\ ref' = session
  /\ UNCHANGED <<session, badge, channel, listening, backendVars, overlap>>

\* The Close button.
Close(c) ==
  /\ ref # 0 /\ closes[c].at = "idle"
  /\ closes' = [closes EXCEPT ![c] = [at |-> "asked", id |-> ref]]
  /\ UNCHANGED <<session, ref, badge, channel, listening, request, status, live, events, overlap>>

\* close_session resolves: whatever session is current is cleared.
CloseTold(c) ==
  /\ closes[c].at = "done"
  /\ closes' = [closes EXCEPT ![c] = Idle]
  /\ session' = 0 /\ badge' = Blank
  /\ UNCHANGED <<ref, channel, listening, request, status, live, events, overlap>>

\* Mutant: the session is cleared whether or not the call succeeded.
CloseRejected_clears(c) ==
  /\ closes[c].at = "fails"
  /\ closes' = [closes EXCEPT ![c] = Idle]
  /\ session' = 0 /\ badge' = Blank
  /\ UNCHANGED <<ref, channel, listening, request, status, live, events, overlap>>

\* It rejects: nothing is cleared.
CloseRejected(c) ==
  /\ closes[c].at = "fails"
  /\ closes' = [closes EXCEPT ![c] = Idle]
  /\ UNCHANGED <<session, ref, badge, channel, listening, request, status, live, events, overlap>>

\* Mutant: the listener filters by the session of the render it was made in.
HandleStatus_stale_closure ==
  /\ events # <<>> /\ Head(events).name = "status_changed"
  /\ events' = Tail(events)
  /\ UNCHANGED badge
  /\ UNCHANGED <<session, ref, channel, listening, request, status, live, closes, overlap>>

\* A status_changed is for the current session, or not for this hook.
HandleStatus ==
  /\ events # <<>> /\ Head(events).name = "status_changed"
  /\ events' = Tail(events)
  /\ LET e == Head(events) IN
       badge' = IF "status_changed" \in listening /\ e.id = ref
                THEN [id |-> e.id, status |-> e.status] ELSE badge
  /\ UNCHANGED <<session, ref, channel, listening, request, status, live, closes, overlap>>

\* session_closed of the current session clears it.
HandleClosed ==
  /\ events # <<>> /\ Head(events).name = "session_closed"
  /\ events' = Tail(events)
  /\ LET mine == "session_closed" \in listening /\ Head(events).id = ref IN
       /\ session' = IF mine THEN 0 ELSE session
       /\ badge' = IF mine THEN Blank ELSE badge
  /\ UNCHANGED <<ref, channel, listening, request, status, live, closes, overlap>>
----------------------------------------------------------------------------
(* The backend: Lifecycle and SessionRuntime as the UI sees them.          *)

emit(name, r, v) ==
  /\ Len(events) < MaxEvents
  /\ events' = Append(events, [name |-> name, id |-> r, status |-> v])

SpawnDone(r) ==
  /\ request[r] = "asked"
  /\ \/ request' = [request EXCEPT ![r] = "up"] /\ live' = live \cup {r}
     \/ request' = [request EXCEPT ![r] = "fails"] /\ UNCHANGED live
  /\ UNCHANGED <<session, ref, badge, channel, listening, status, closes, events, overlap>>

\* The signal loop: the registry first, then the event.
StatusChange(r) ==
  /\ r \in live /\ status[r] < MaxChanges
  /\ status' = [status EXCEPT ![r] = @ + 1]
  /\ emit("status_changed", r, status[r] + 1)
  /\ UNCHANGED <<session, ref, badge, channel, listening, request, live, closes, overlap>>

\* The approval loop emits AwaitingInput past the registry.
PromptShown(r) ==
  /\ r \in live
  /\ emit("status_changed", r, Prompt)
  /\ UNCHANGED <<session, ref, badge, channel, listening, request, status, live, closes, overlap>>

\* close_session: the PTY goes and session_closed is emitted, once for every call;
\* an error of a retract ends the call after the kill, a poisoned mutex before it.
CloseDone(c) ==
  LET r == closes[c].id IN
  /\ closes[c].at = "asked"
  /\ \/ /\ closes' = [closes EXCEPT ![c].at = "done"]
        /\ emit("session_closed", r, 0)
        /\ live' = live \ {r}
     \/ closes' = [closes EXCEPT ![c].at = "fails"] /\ UNCHANGED <<events, live>>
     \/ closes' = [closes EXCEPT ![c].at = "fails"] /\ live' = live \ {r} /\ UNCHANGED events
  /\ UNCHANGED <<session, ref, badge, channel, listening, request, status, overlap>>
----------------------------------------------------------------------------
Handle == HandleStatus \/ HandleClosed

Next ==
  \/ \E e \in {"status_changed", "session_closed"} : Listen(e)
  \/ \E r \in Submits : \/ Submit(r) \/ SpawnTold(r) \/ SpawnRejected(r) \/ SpawnDone(r)
                        \/ StatusChange(r) \/ PromptShown(r)
  \/ \E c \in Closers : Close(c) \/ CloseTold(c) \/ CloseRejected(c) \/ CloseDone(c)
  \/ Render \/ Handle

Spec == Init /\ [][Next]_vars

\* The webview runs its handlers and renders.
FairSpec == Spec /\ WF_vars(Handle) /\ WF_vars(Render)
----------------------------------------------------------------------------
\* As long as no spawn was submitted over another call, badge and terminal are
\* those of the session the header names and the keys go to (App.tsx: "no
\* cross-session bleed").
OneSessionShown ==
  /\ ViewTypeOK
  /\ session # 0 /\ ~overlap => badge.id = session /\ channel = session

\* And no agent runs without a Close button: its session is shown, or its spawn
\* has not returned.
AgentsReachable ==
  ~overlap => \A r \in live : request[r] = "up" \/ session = r

\* A status that is on its way when the hook knows the session reaches the badge;
\* one that comes before may be lost, and the badge says Starting until the next.
StatusReachesBadge ==
  \A r \in Submits, v \in 1..Prompt :
    (ref = r /\ session = r /\ \E n \in DOMAIN events : events[n].id = r /\ events[n].status = v)
      ~> (badge = [id |-> r, status |-> v] \/ ref # r \/ session # r \/ "status_changed" \notin listening)
=============================================================================

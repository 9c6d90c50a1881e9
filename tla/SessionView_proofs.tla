-------------------------- MODULE SessionView_proofs --------------------------
(***************************************************************************)
(* Proofs about SessionView, for any number of submits, closes, status     *)
(* changes and events under way: as long as no spawn is submitted over     *)
(* another call, the badge, the terminal and the Close button are those of *)
(* one session, and no agent is without one.                               *)
(***************************************************************************)
EXTENDS SessionView, TLAPS

EventRec == [name : {"status_changed", "session_closed"}, id : Submits, status : 0..Prompt]

\* A spawn_session call that is under way is the only call, and the terminal is its own.
SpawnAlone ==
  \A r \in Submits : request[r] \in {"asked", "up", "fails"} =>
    /\ channel = r /\ session = 0 /\ ref = 0
    /\ \A c \in Closers : closes[c].at = "idle"

\* What the hook and the last render show.
ShownFacts ==
  /\ session # 0 => channel = session /\ badge.id = session /\ request[session] = "told"
  /\ ref # 0 => channel = ref /\ request[ref] = "told" /\ session \in {0, ref}

\* Every close is of the session whose terminal is there, and kills before it returns.
CloseFacts ==
  \A c \in Closers : closes[c].at # "idle" =>
    /\ closes[c].id = channel /\ request[closes[c].id] = "told"
    /\ closes[c].at = "done" => closes[c].id \notin live

\* session_closed is emitted of a session that has no PTY any more.
EventFacts ==
  \A n \in DOMAIN events : events[n].name = "session_closed" =>
    events[n].id \notin live /\ request[events[n].id] = "told"

LiveFacts == \A r \in live : request[r] = "up" \/ session = r

\* The inductive invariant.
ViewInv ==
  /\ ViewTypeOK
  /\ events \in Seq(EventRec)
  /\ \A c \in Closers : closes[c].at # "idle" => closes[c].id \in Submits
  /\ ~overlap => SpawnAlone /\ ShownFacts /\ CloseFacts /\ EventFacts /\ LiveFacts

\* Badges, closes and events are of sessions.
LEMMA BadgeOK ==
  /\ Blank \in Badges /\ Idle \in CloseCalls
  /\ \A r \in Submits, v \in 0..Prompt : [id |-> r, status |-> v] \in Badges
  /\ 0 \in 0..Prompt
  /\ \A r \in 0..MaxSpawns : r # 0 => [at |-> "asked", id |-> r] \in CloseCalls /\ r \in Submits
BY ViewAssumption DEF Blank, Idle, Badges, CloseCalls, Submits, Prompt

LEMMA EventIs ==
  ASSUME events \in Seq(EventRec), NEW n \in DOMAIN events
  PROVE  events[n] \in EventRec /\ events[n].id \in Submits
<1>1. events[n] \in EventRec
  OBVIOUS
<1> QED
  BY <1>1 DEF EventRec

LEMMA TailFacts ==
  ASSUME events \in Seq(EventRec), events # <<>>, events' = Tail(events)
  PROVE  /\ Head(events) = events[1] /\ 1 \in DOMAIN events /\ Head(events) \in EventRec
         /\ events' \in Seq(EventRec)
         /\ \A n \in DOMAIN events' : n + 1 \in DOMAIN events /\ events'[n] = events[n + 1]
OBVIOUS

LEMMA AppendFacts ==
  ASSUME events \in Seq(EventRec), NEW e \in EventRec, events' = Append(events, e)
  PROVE  /\ events' \in Seq(EventRec)
         /\ \A n \in DOMAIN events' : \/ n \in DOMAIN events /\ events'[n] = events[n]
                                    \/ events'[n] = e
OBVIOUS

LEMMA InitInv == Init => ViewInv
<1> SUFFICES ASSUME Init PROVE ViewInv
  OBVIOUS
<1>1. badge \in Badges /\ closes \in [Closers -> CloseCalls]
  BY BadgeOK DEF Init
<1>2. status \in [Submits -> 0..MaxChanges]
  BY ViewAssumption DEF Init
<1>3. ViewTypeOK /\ events \in Seq(EventRec)
  <2>1. session \in 0..MaxSpawns /\ ref \in 0..MaxSpawns /\ channel \in 0..MaxSpawns
    BY ViewAssumption DEF Init
  <2>2. /\ request \in [Submits -> {"none", "asked", "up", "told", "fails", "failed"}]
        /\ overlap \in BOOLEAN /\ live \subseteq Submits
        /\ listening \subseteq {"status_changed", "session_closed"}
    BY DEF Init
  <2>3. events \in Seq(EventRec)
    BY DEF Init
  <2> QED
    BY <1>1, <1>2, <2>1, <2>2, <2>3 DEF ViewTypeOK
<1>4. \A c \in Closers : closes[c].at = "idle"
  BY DEF Init, Idle
<1> QED
  BY <1>3, <1>4 DEF Init, ViewInv, SpawnAlone, ShownFacts, CloseFacts, EventFacts, LiveFacts
-----------------------------------------------------------------------------
\* The webview.
LEMMA SubmitInv ==
  ASSUME ViewInv, NEW r \in Submits, Submit(r)
  PROVE  ViewInv'
<1> USE ViewAssumption DEF ViewInv, Submit, Submits
<1>1. ViewTypeOK' /\ (events \in Seq(EventRec))'
  BY DEF ViewTypeOK, EventRec
<1>2. ASSUME ~overlap' PROVE (SpawnAlone /\ ShownFacts /\ CloseFacts /\ EventFacts /\ LiveFacts)'
  <2>1. ~overlap /\ session = 0 /\ ref = 0 /\ (\A c \in Closers : closes[c].at = "idle")
        /\ \A q \in Submits : request[q] \notin {"asked", "up", "fails"}
    BY <1>2 DEF CallUnderWay
  <2>2. request' = [request EXCEPT ![r] = "asked"] /\ request[r] = "none"
    OBVIOUS
  <2>3. SpawnAlone'
    BY <2>1, <2>2 DEF SpawnAlone, ViewTypeOK
  <2>4. ShownFacts' /\ CloseFacts'
    BY <2>1 DEF ShownFacts, CloseFacts
  <2>5. EventFacts'
    BY <2>1, <2>2 DEF EventFacts, ViewTypeOK, EventRec
  <2>6. LiveFacts'
    BY <2>1, <2>2 DEF LiveFacts, ViewTypeOK
  <2> QED
    BY <2>3, <2>4, <2>5, <2>6
<1> QED
  BY <1>1, <1>2

LEMMA SpawnReplyInv ==
  ASSUME ViewInv, NEW r \in Submits, SpawnTold(r) \/ SpawnRejected(r)
  PROVE  ViewInv'
<1> USE ViewAssumption DEF ViewInv, SpawnTold, SpawnRejected, Submits
<1>1. ViewTypeOK' /\ (events \in Seq(EventRec))'
  <2>1. badge' \in Badges
    BY BadgeOK DEF ViewTypeOK
  <2>2. request' \in [Submits -> {"none", "asked", "up", "told", "fails", "failed"}]
    BY DEF ViewTypeOK
  <2>3. session' \in 0..MaxSpawns
    BY DEF ViewTypeOK
  <2> QED
    BY <2>1, <2>2, <2>3 DEF ViewTypeOK
<1>2. ASSUME ~overlap' PROVE (SpawnAlone /\ ShownFacts /\ CloseFacts /\ EventFacts /\ LiveFacts)'
  <2>1. /\ ~overlap /\ channel = r /\ session = 0 /\ ref = 0
        /\ \A c \in Closers : closes[c].at = "idle"
    BY <1>2 DEF SpawnAlone
  <2>2. \A q \in Submits \ {r} : request[q] \notin {"asked", "up", "fails"} /\ request'[q] = request[q]
    BY <2>1 DEF SpawnAlone, ViewTypeOK
  <2>3. /\ request'[r] \in {"told", "failed"}
        /\ request[r] = "up" => session' = r /\ request'[r] = "told" /\ badge'.id = r
        /\ request[r] = "fails" => session' = 0
        /\ request[r] \in {"up", "fails"}
    BY <2>1 DEF ViewTypeOK
  <2>4. SpawnAlone' /\ CloseFacts'
    BY <2>1, <2>2, <2>3 DEF SpawnAlone, CloseFacts
  <2>5. ShownFacts'
    BY <2>1, <2>3 DEF ShownFacts
  <2>6. EventFacts'
    <3>1. \A q \in Submits : request[q] = "told" => request'[q] = "told"
      BY <2>2
    <3>2. events' = events /\ live' = live
      OBVIOUS
    <3> QED
      BY <2>1, <3>1, <3>2, EventIs DEF EventFacts
  <2>7. LiveFacts'
    <3>1. \A q \in live : request[q] = "up" /\ q = r
      BY <2>1, <2>2 DEF LiveFacts, ViewTypeOK
    <3> QED
      BY <2>1, <2>3, <3>1 DEF LiveFacts
  <2> QED
    BY <2>4, <2>5, <2>6, <2>7
<1> QED
  BY <1>1, <1>2

LEMMA RenderInv ==
  ASSUME ViewInv,
         Render \/ UNCHANGED vars \/ \E e \in {"status_changed", "session_closed"} : Listen(e)
  PROVE  ViewInv'
<1> USE DEF ViewInv
<1>1. CASE Render
  BY <1>1 DEF Render, backendVars, ViewTypeOK, SpawnAlone, ShownFacts, CloseFacts, EventFacts,
     LiveFacts, Submits
<1>2. CASE \E e \in {"status_changed", "session_closed"} : Listen(e)
  BY <1>2 DEF Listen, backendVars, ViewTypeOK, SpawnAlone, ShownFacts, CloseFacts, EventFacts, LiveFacts
<1>3. CASE UNCHANGED vars
  BY <1>3 DEF vars, ViewTypeOK, SpawnAlone, ShownFacts, CloseFacts, EventFacts, LiveFacts
<1> QED
  BY <1>1, <1>2, <1>3

LEMMA CloseInv ==
  ASSUME ViewInv, NEW c \in Closers, Close(c) \/ CloseTold(c) \/ CloseRejected(c)
  PROVE  ViewInv'
<1> USE ViewAssumption DEF ViewInv, Close, CloseTold, CloseRejected, Idle, Submits
<1>1. ViewTypeOK' /\ (events \in Seq(EventRec))'
  <2>1. badge' \in Badges
    BY BadgeOK DEF ViewTypeOK
  <2>2. closes' \in [Closers -> CloseCalls]
    BY BadgeOK DEF ViewTypeOK
  <2>3. session' \in 0..MaxSpawns
    BY DEF ViewTypeOK
  <2> QED
    BY <2>1, <2>2, <2>3 DEF ViewTypeOK
<1>2. ASSUME ~overlap' PROVE (SpawnAlone /\ ShownFacts /\ CloseFacts /\ EventFacts /\ LiveFacts)'
  <2>1. /\ ~overlap
        /\ \A d \in Closers \ {c} : closes'[d] = closes[d]
        /\ \/ closes'[c].at = "idle"
           \/ closes'[c].at = "asked" /\ closes'[c].id = ref /\ ref # 0
    BY <1>2 DEF ViewTypeOK
  <2>2. SpawnAlone'
    BY <2>1 DEF SpawnAlone, ShownFacts, CloseFacts
  <2>3. ShownFacts'
    BY <2>1 DEF ShownFacts
  <2>4. CloseFacts'
    <3>1. ref # 0 => channel = ref /\ request[ref] = "told"
      BY <2>1 DEF ShownFacts
    <3>2. channel' = channel /\ request' = request /\ live' = live
      OBVIOUS
    <3> QED
      BY <2>1, <3>1, <3>2 DEF CloseFacts
  <2>5. EventFacts'
    BY <2>1 DEF EventFacts
  <2>6. LiveFacts'
    <3>1. CASE CloseTold(c)
      <4>1. closes[c].id = channel /\ channel \notin live
        BY <2>1, <3>1 DEF CloseFacts
      <4>2. session # 0 => session = channel
        BY <2>1 DEF ShownFacts
      <4>3. \A q \in live : request[q] = "up"
        BY <2>1, <4>1, <4>2 DEF LiveFacts, ViewTypeOK
      <4> QED
        BY <3>1, <4>3 DEF LiveFacts
    <3>2. CASE Close(c) \/ CloseRejected(c)
      BY <2>1, <3>2 DEF LiveFacts
    <3> QED
      BY <3>1, <3>2
  <2> QED
    BY <2>2, <2>3, <2>4, <2>5, <2>6
<1>3. (\A d \in Closers : closes[d].at # "idle" => closes[d].id \in Submits)'
  <2>1. ref # 0 => ref \in Submits
    BY DEF ViewTypeOK
  <2>2. \A d \in Closers \ {c} : closes'[d] = closes[d]
    BY DEF ViewTypeOK
  <2>3. closes'[c].at # "idle" => closes'[c].id = ref /\ ref # 0
    BY DEF ViewTypeOK
  <2> QED
    BY <2>1, <2>2, <2>3
<1> QED
  BY <1>1, <1>2, <1>3

LEMMA HandleInv ==
  ASSUME ViewInv, Handle
  PROVE  ViewInv'
<1> USE ViewAssumption DEF ViewInv, Handle, HandleStatus, HandleClosed, Submits
<1>1. /\ Head(events) = events[1] /\ 1 \in DOMAIN events /\ Head(events) \in EventRec
      /\ events' \in Seq(EventRec)
      /\ \A n \in DOMAIN events' : n + 1 \in DOMAIN events /\ events'[n] = events[n + 1]
  BY TailFacts
<1>2. ViewTypeOK'
  <2>1. badge' \in Badges
    BY <1>1, BadgeOK DEF ViewTypeOK, EventRec
  <2>2. session' \in 0..MaxSpawns
    BY DEF ViewTypeOK
  <2> QED
    BY <2>1, <2>2 DEF ViewTypeOK
<1>3. ASSUME ~overlap' PROVE (SpawnAlone /\ ShownFacts /\ CloseFacts /\ EventFacts /\ LiveFacts)'
  <2>1. ~overlap /\ UNCHANGED <<ref, channel, request, status, live, closes>>
    BY <1>3
  <2>2. EventFacts'
    BY <1>1, <2>1 DEF EventFacts
  <2>3. SpawnAlone' /\ CloseFacts'
    BY <2>1 DEF SpawnAlone, CloseFacts
  <2>4. ShownFacts'
    BY <1>1, <2>1 DEF ShownFacts, EventRec
  <2>5. LiveFacts'
    BY <1>1, <2>1 DEF LiveFacts, ShownFacts, EventFacts, EventRec
  <2> QED
    BY <2>2, <2>3, <2>4, <2>5
<1> QED
  BY <1>1, <1>2, <1>3
-----------------------------------------------------------------------------
\* The backend.
LEMMA SpawnDoneInv ==
  ASSUME ViewInv, NEW r \in Submits, SpawnDone(r)
  PROVE  ViewInv'
<1> USE ViewAssumption DEF ViewInv, SpawnDone, Submits
<1>1. ViewTypeOK' /\ (events \in Seq(EventRec))'
  BY DEF ViewTypeOK, EventRec
<1>2. ASSUME ~overlap' PROVE (SpawnAlone /\ ShownFacts /\ CloseFacts /\ EventFacts /\ LiveFacts)'
  <2>1. /\ ~overlap /\ request[r] = "asked"
        /\ \A q \in Submits \ {r} : request'[q] = request[q]
        /\ \/ request'[r] = "up" /\ live' = live \cup {r}
           \/ request'[r] = "fails" /\ live' = live
    BY <1>2 DEF ViewTypeOK
  <2>2. SpawnAlone' /\ ShownFacts'
    BY <2>1 DEF SpawnAlone, ShownFacts, ViewTypeOK
  <2>3. CloseFacts'
    BY <2>1 DEF SpawnAlone, CloseFacts
  <2>4. EventFacts'
    BY <2>1, EventIs DEF EventFacts
  <2>5. LiveFacts'
    BY <2>1 DEF LiveFacts, SpawnAlone, ViewTypeOK
  <2> QED
    BY <2>2, <2>3, <2>4, <2>5
<1> QED
  BY <1>1, <1>2

LEMMA EmitInv ==
  ASSUME ViewInv, NEW r \in Submits, StatusChange(r) \/ PromptShown(r)
  PROVE  ViewInv'
<1> USE ViewAssumption DEF ViewInv, StatusChange, PromptShown, Submits
<1>1. \E e \in EventRec : e.name = "status_changed" /\ events' = Append(events, e)
  <2>1. \A v \in 0..Prompt : [name |-> "status_changed", id |-> r, status |-> v] \in EventRec
    BY DEF EventRec
  <2>2. Prompt \in 0..Prompt
    BY DEF Prompt
  <2>3. status[r] < MaxChanges => status[r] + 1 \in 0..Prompt
    BY DEF ViewTypeOK, Prompt
  <2> QED
    BY <2>1, <2>2, <2>3 DEF emit
<1>2. PICK e \in EventRec : e.name = "status_changed" /\ events' = Append(events, e)
  BY <1>1
<1>3. /\ events' \in Seq(EventRec)
      /\ \A n \in DOMAIN events' : \/ n \in DOMAIN events /\ events'[n] = events[n]
                                  \/ events'[n] = e
  BY <1>2, AppendFacts
<1>4. ViewTypeOK'
  <2>1. status \in [Submits -> 0..MaxChanges]
    BY DEF ViewTypeOK
  <2>2. \/ status' = status
        \/ status[r] < MaxChanges /\ status' = [status EXCEPT ![r] = status[r] + 1]
    OBVIOUS
  <2>3. status[r] < MaxChanges => status[r] + 1 \in 0..MaxChanges
    BY <2>1
  <2>4. status' \in [Submits -> 0..MaxChanges]
    <3>1. CASE status' = status
      BY <2>1, <3>1
    <3>2. CASE /\ status[r] < MaxChanges
               /\ status' = [status EXCEPT ![r] = status[r] + 1]
      BY <2>1, <2>3, <3>2
    <3> QED
      BY <2>2, <3>1, <3>2
  <2> QED
    BY <1>3, <2>4 DEF ViewTypeOK
<1>5. ASSUME ~overlap' PROVE (SpawnAlone /\ ShownFacts /\ CloseFacts /\ EventFacts /\ LiveFacts)'
  BY <1>2, <1>3, <1>5 DEF SpawnAlone, ShownFacts, CloseFacts, EventFacts, LiveFacts
<1> QED
  BY <1>3, <1>4, <1>5

LEMMA CloseDoneInv ==
  ASSUME ViewInv, NEW c \in Closers, CloseDone(c)
  PROVE  ViewInv'
<1> USE ViewAssumption DEF ViewInv, CloseDone, Submits
<1> DEFINE r == closes[c].id
           e == [name |-> "session_closed", id |-> r, status |-> 0]
<1>1. /\ closes[c].at = "asked" /\ closes'[c].at \in {"done", "fails"} /\ closes'[c].id = r
      /\ \A d \in Closers \ {c} : closes'[d] = closes[d]
      /\ live' \in {live, live \ {r}}
      /\ closes'[c].at = "done" => live' = live \ {r}
      /\ \/ events' = events
         \/ events' = Append(events, e) /\ live' = live \ {r}
      /\ UNCHANGED <<session, ref, badge, channel, listening, request, status, overlap>>
      /\ closes' \in [Closers -> CloseCalls]
  <2>1. closes[c].at = "asked" /\ closes[c] \in CloseCalls
    BY DEF ViewTypeOK
  <2>2. \E to \in {"done", "fails"} : closes' = [closes EXCEPT ![c].at = to]
    OBVIOUS
  <2>3. /\ closes'[c].at \in {"done", "fails"} /\ closes'[c].id = r
        /\ \A d \in Closers \ {c} : closes'[d] = closes[d]
        /\ closes' \in [Closers -> CloseCalls]
    BY <2>1, <2>2 DEF ViewTypeOK, CloseCalls
  <2>4. closes'[c].at = "done" => live' = live \ {r}
    <3>1. closes' = [closes EXCEPT ![c].at = "fails"] => closes'[c].at = "fails"
      BY DEF ViewTypeOK
    <3> QED
      BY <3>1
  <2> QED
    BY <2>1, <2>3, <2>4 DEF emit
<1>r. r \in Submits /\ e \in EventRec
  BY <1>1, BadgeOK DEF EventRec
<1>v. (events \in Seq(EventRec))'
  BY <1>1, <1>r, AppendFacts
<1>3. ViewTypeOK'
  BY <1>1 DEF ViewTypeOK
<1>4. ASSUME ~overlap' PROVE (SpawnAlone /\ ShownFacts /\ CloseFacts /\ EventFacts /\ LiveFacts)'
  <2>1. ~overlap /\ request[r] = "told" /\ r = channel
    BY <1>1, <1>4 DEF CloseFacts
  <2>3. \A n \in DOMAIN events' : \/ n \in DOMAIN events /\ events'[n] = events[n]
                                  \/ events'[n] = e /\ live' = live \ {r}
    BY <1>1, <1>r, AppendFacts
  <2>4. EventFacts'
    BY <1>1, <2>1, <2>3 DEF EventFacts
  <2>5. SpawnAlone' /\ ShownFacts' /\ LiveFacts'
    BY <1>1, <2>1 DEF SpawnAlone, ShownFacts, LiveFacts
  <2>6. CloseFacts'
    BY <1>1, <2>1 DEF CloseFacts
  <2> QED
    BY <2>4, <2>5, <2>6
<1>5. (\A d \in Closers : closes[d].at # "idle" => closes[d].id \in Submits)'
  BY <1>1, <1>r
<1> QED
  BY <1>v, <1>3, <1>4, <1>5
-----------------------------------------------------------------------------
\* The inductive invariant holds in every reachable state.
THEOREM Invariance == Spec => []ViewInv
<1>1. ViewInv /\ [Next]_vars => ViewInv'
  BY SubmitInv, SpawnReplyInv, RenderInv, CloseInv, HandleInv, SpawnDoneInv, EmitInv, CloseDoneInv
  DEF Next
<1> QED
  BY <1>1, InitInv, PTL DEF Spec

\* Unless a spawn is submitted over another call, the badge and the terminal are those of
\* the session whose header, keys and Close button are shown: no reply and no event that
\* comes late puts one session's state under another's name (useSession.ts).
THEOREM OneSession == Spec => []OneSessionShown
<1>1. ViewInv => OneSessionShown
  BY DEF ViewInv, OneSessionShown, ShownFacts
<1> QED
  BY <1>1, Invariance, PTL

\* Unless a spawn is submitted over another call, every agent with a PTY is the session
\* shown, or its spawn has not returned: none runs without a Close button.
THEOREM EveryAgentReachable == Spec => []AgentsReachable
<1>1. ViewInv => AgentsReachable
  BY DEF ViewInv, AgentsReachable, LiveFacts
<1> QED
  BY <1>1, Invariance, PTL
=============================================================================

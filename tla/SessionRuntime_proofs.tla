------------------------ MODULE SessionRuntime_proofs ------------------------
(***************************************************************************)
(* Proofs about HookChannel and SessionRuntime, for every number of        *)
(* sidecars and hook events, every signal-channel capacity and every idle  *)
(* timeout.                                                                *)
(*                                                                         *)
(* An event comes to the reader through the file, and an invocation writes *)
(* the file at most once; once it has been returned, the file cannot hold  *)
(* it with a counter above last_ts.  That needs the ids of the invocations *)
(* still running to be fresh: distinct from one another and from the       *)
(* file's, started, and not returned yet (HookInv).                        *)
(*                                                                         *)
(* The safety invariants are not inductive alone: what the EOF arm reaches *)
(* depends on the statuses a session can still have when its queue         *)
(* disconnects.  SessionInv adds these facts.                              *)
(***************************************************************************)
EXTENDS SessionRuntime, TLAPS

Alive(p) == sidecar[p].pc # "gone"

SidecarsFresh ==
  \A p \in Sidecars : Alive(p) =>
    /\ sidecar[p].id \in 1..fired
    /\ sidecar[p].event \in HookEvents
    /\ sidecar[p].id # file.id
    /\ got[sidecar[p].id] = 0
    /\ sidecar[p].pc = "write" => sidecar[p].ts > 0

SidecarsDistinct ==
  \A p, q \in Sidecars :
    Alive(p) /\ Alive(q) /\ sidecar[p].id = sidecar[q].id => p = q

FileHistory ==
  /\ file.id \in 0..fired
  /\ file.ts > 0 => file.id # 0 /\ file.event \in HookEvents
  /\ file.id # 0 => got[file.id] = 0 \/ file.ts <= last_ts

\* The inductive invariant of the hook channel.
HookInv ==
  /\ HookTypeOK
  /\ SidecarsFresh
  /\ SidecarsDistinct
  /\ FileHistory
  /\ \A i \in Invocations : i > fired => got[i] = 0
  /\ ConsumedAtMostOnce
-----------------------------------------------------------------------------
LEMMA HookInitInv == HookInit => HookInv
BY HookAssumption DEF HookInit, HookInv, HookTypeOK, SidecarsFresh, SidecarsDistinct,
   FileHistory, ConsumedAtMostOnce, Invocations, Counters, NoFile, Gone, Alive

LEMMA FireInv ==
  ASSUME HookInv, NEW p \in Sidecars, NEW e \in HookEvents, Fire(p, e)
  PROVE  HookInv'
<1> USE HookAssumption DEF HookInv, Invocations, Counters, Fire
<1>1. /\ fired' = fired + 1 /\ fired' \in 1..MaxFires
      /\ sidecar' = [sidecar EXCEPT ![p] = [pc |-> "read", event |-> e, id |-> fired + 1, ts |-> 0]]
      /\ UNCHANGED <<file, last_ts, got, last_hook>>
  BY DEF HookTypeOK
<1>2. HookTypeOK'
  BY <1>1 DEF HookTypeOK
<1>3. SidecarsFresh'
  BY <1>1 DEF HookTypeOK, SidecarsFresh, FileHistory, Alive
<1>4. SidecarsDistinct'
  BY <1>1 DEF HookTypeOK, SidecarsFresh, SidecarsDistinct, Alive
<1>5. FileHistory'
  BY <1>1 DEF HookTypeOK, FileHistory
<1>6. (\A i \in Invocations : i > fired => got[i] = 0)' /\ ConsumedAtMostOnce'
  BY <1>1 DEF HookTypeOK, ConsumedAtMostOnce
<1> QED BY <1>2, <1>3, <1>4, <1>5, <1>6

LEMMA SidecarReadInv ==
  ASSUME HookInv, NEW p \in Sidecars, SidecarRead(p)
  PROVE  HookInv'
<1> USE DEF HookInv, Invocations, Counters
<1>1. PICK t \in Nat : /\ t > 0
                       /\ sidecar' = [sidecar EXCEPT ![p].pc = "write", ![p].ts = t]
                       /\ UNCHANGED <<fired, file, last_ts, got, last_hook>>
  <2>1. PICK prior \in {file.ts} \cup (IF SidecarMayFail THEN {0} ELSE {}) :
          sidecar' = [sidecar EXCEPT ![p].pc = "write", ![p].ts = prior + 1]
    BY DEF SidecarRead
  <2>2. prior + 1 \in Nat /\ prior + 1 > 0
    BY DEF HookTypeOK
  <2> QED BY <2>1, <2>2 DEF SidecarRead
<1>2. HookTypeOK'
  BY <1>1, ZenonT(60) DEF HookTypeOK
<1>3. /\ sidecar[p].pc = "read" /\ sidecar'[p].pc = "write" /\ sidecar'[p].ts = t
      /\ sidecar'[p].id = sidecar[p].id /\ sidecar'[p].event = sidecar[p].event
      /\ \A q \in Sidecars \ {p} : sidecar'[q] = sidecar[q]
  BY <1>1 DEF SidecarRead, HookTypeOK
<1>4. SidecarsFresh'
  BY <1>1, <1>3, ZenonT(60) DEF SidecarsFresh, Alive
<1>5. SidecarsDistinct'
  BY <1>3 DEF SidecarsDistinct, Alive
<1>6. FileHistory' /\ (\A i \in Invocations : i > fired => got[i] = 0)' /\ ConsumedAtMostOnce'
  BY <1>1 DEF FileHistory, ConsumedAtMostOnce
<1> QED BY <1>2, <1>4, <1>5, <1>6

LEMMA SidecarWriteInv ==
  ASSUME HookInv, NEW p \in Sidecars, SidecarWrite(p)
  PROVE  HookInv'
<1> USE DEF HookInv, Invocations, Counters
<1>1. /\ Alive(p) /\ sidecar[p].pc = "write"
      /\ file' = [event |-> sidecar[p].event, ts |-> sidecar[p].ts, id |-> sidecar[p].id]
      /\ sidecar' = [sidecar EXCEPT ![p] = Gone]
      /\ UNCHANGED <<fired, last_ts, got, last_hook>>
  BY DEF SidecarWrite, Alive
<1>2. HookTypeOK'
  BY <1>1, HookAssumption DEF HookTypeOK, Gone
<1>3. SidecarsFresh'
  BY <1>1 DEF HookTypeOK, SidecarsFresh, SidecarsDistinct, Alive, Gone
<1>4. SidecarsDistinct'
  BY <1>1 DEF HookTypeOK, SidecarsDistinct, Alive, Gone
<1>5. FileHistory'
  BY <1>1 DEF HookTypeOK, SidecarsFresh, FileHistory
<1>6. (\A i \in Invocations : i > fired => got[i] = 0)' /\ ConsumedAtMostOnce'
  BY <1>1 DEF ConsumedAtMostOnce
<1> QED BY <1>2, <1>3, <1>4, <1>5, <1>6

LEMMA SidecarFailsInv ==
  ASSUME HookInv, NEW p \in Sidecars, SidecarFails(p)
  PROVE  HookInv'
<1> USE HookAssumption DEF HookInv, Invocations, Counters, SidecarFails, Gone
<1>1. HookTypeOK'
  BY DEF HookTypeOK
<1>2. SidecarsFresh' /\ SidecarsDistinct'
  BY DEF HookTypeOK, SidecarsFresh, SidecarsDistinct, Alive
<1>3. FileHistory' /\ (\A i \in Invocations : i > fired => got[i] = 0)' /\ ConsumedAtMostOnce'
  BY DEF FileHistory, ConsumedAtMostOnce
<1> QED BY <1>1, <1>2, <1>3

LEMMA PollTakeInv ==
  ASSUME HookInv, PollTake
  PROVE  HookInv'
<1> USE DEF HookInv, Invocations, Counters
<1>1. /\ file.ts > last_ts /\ last_ts' = file.ts /\ last_hook' = file.event
      /\ got' = [got EXCEPT ![file.id] = @ + 1]
      /\ UNCHANGED <<sidecar, fired, file>>
  BY DEF PollTake, Fresh
<1>2. /\ file.id \in Invocations /\ file.id <= fired
      /\ file.event \in HookEvents /\ got[file.id] = 0
  BY <1>1 DEF HookTypeOK, FileHistory
<1>3. HookTypeOK'
  BY <1>1, <1>2 DEF HookTypeOK
<1>4. SidecarsFresh' /\ SidecarsDistinct'
  BY <1>1, <1>2 DEF HookTypeOK, SidecarsFresh, SidecarsDistinct, Alive
<1>5. FileHistory'
  BY <1>1, <1>2 DEF HookTypeOK, FileHistory
<1>6. (\A i \in Invocations : i > fired => got[i] = 0)' /\ ConsumedAtMostOnce'
  BY <1>1, <1>2 DEF HookTypeOK, ConsumedAtMostOnce
<1> QED BY <1>3, <1>4, <1>5, <1>6

LEMMA HookStutterInv == HookInv /\ UNCHANGED hookVars => HookInv'
BY DEF HookInv, hookVars, HookTypeOK, SidecarsFresh, SidecarsDistinct, FileHistory,
   ConsumedAtMostOnce, Alive, Invocations, Counters
-----------------------------------------------------------------------------
\* The channel on its own keeps its inductive invariant, so an event is applied
\* at most once (reader.rs: consume-once).
THEOREM HookAtMostOnce == HookSpec => []ConsumedAtMostOnce
<1>1. HookInv /\ [HookNext]_hookVars => HookInv'
  <2> SUFFICES ASSUME HookInv, [HookNext]_hookVars PROVE HookInv' OBVIOUS
  <2> QED BY FireInv, SidecarReadInv, SidecarWriteInv, SidecarFailsInv, PollTakeInv,
             HookStutterInv DEF HookNext
<1>2. HookInv => ConsumedAtMostOnce
  BY DEF HookInv
<1> QED BY HookInitInv, <1>1, <1>2, PTL DEF HookSpec
-----------------------------------------------------------------------------
\* Only provisioned Claude sessions have hooks, and only they await input
\* or are past Starting without a tick having passed.
RunnerFacts ==
  /\ hooks_active => kind = "claude"
  /\ kind = "generic" => status # "AwaitingInput"
  /\ kind = "generic" /\ status = "Starting" /\ (Steady \/ loop = "eof") => idle = 0

\* What the quiescent snapshot of the EOF arm has reached.
EofFacts ==
  loop = "exit" /\ status # "Absent" /\ (kind = "claude" => "dialog" \notin window)
    => status \in {"Idle"} \cup Terminal

\* The inductive invariant of a session.
SessionInv ==
  /\ TypeOK
  /\ HookInv
  /\ RunnerFacts
  /\ EofFacts
  /\ HookVerdictStands
  /\ DialogNeedsPermission
  /\ ExitReachesTerminal
-----------------------------------------------------------------------------
(* The status machine.                                                     *)

\* transition follows an arrow of the lifecycle or stays, and keeps the type.
LEMMA TransitionFollowsArrows ==
  \A s \in AgentStatuses, o \in Observations :
    /\ transition(s, o) \in AgentStatuses
    /\ transition(s, o) = s \/ <<s, transition(s, o)>> \in Feed!Arrows
BY DEF transition, AgentStatuses, Observations, Terminal, Feed!Arrows

\* A terminal status is final.
LEMMA TerminalIsFinal ==
  \A s \in Terminal, o \in Observations : transition(s, o) = s
BY DEF transition, Terminal

LEMMA DetectType ==
  ASSUME NEW k \in AgentKinds, NEW w \in SUBSET Patterns, NEW a \in BOOLEAN,
         NEW x \in ExitCodes, NEW t \in Nat
  PROVE  detect_status(k, Signal(w, a, x, t)) \in Observations
BY DEF detect_status, detect_claude, detect_generic, ExitObserved, Signal, Observations,
       ExitCodes, AgentKinds

LEMMA EventType == \A e \in HookEvents : event_to_observed(e) \in Observations
BY DEF event_to_observed, HookEvents, Observations


LEMMA LaterType == ASSUME NEW t \in 0..IdleTimeout PROVE Later(t) \in 0..IdleTimeout
BY IdleTimeoutAssumption DEF Later
-----------------------------------------------------------------------------
LEMMA InitInv == Init => SessionInv
<1> SUFFICES ASSUME Init PROVE SessionInv OBVIOUS
<1>1. HookInv
  BY HookInitInv DEF Init
<1>2. TypeOK
  <2>1. queue \in Seq(Slices) /\ Len(queue) <= SignalCap
    BY SignalCapAssumption DEF Init
  <2>2. hooks_active \in BOOLEAN
    BY DEF Init
  <2>3. HookTypeOK
    BY <1>1 DEF HookInv
  <2>4. idle \in 0..IdleTimeout /\ slice \in Slices /\ window \in Slices
    BY IdleTimeoutAssumption DEF Init, Slices
  <2>5. kind \in AgentKinds /\ agent \in Phases /\ loop \in LoopStates
        /\ status \in AgentStatuses \cup {"Absent"}
    BY DEF Init, Phases, LoopStates, AgentStatuses
  <2> QED BY <2>1, <2>2, <2>3, <2>4, <2>5 DEF Init, TypeOK
<1>3. hooks_active => kind = "claude"
  <2>1. CASE kind = "claude"
    BY <2>1
  <2>2. CASE kind # "claude"
    BY <2>2 DEF Init
  <2> QED BY <2>1, <2>2
<1>4. RunnerFacts /\ EofFacts /\ ExitReachesTerminal
  BY <1>3 DEF Init, RunnerFacts, EofFacts, ExitReachesTerminal, Terminal
<1>5. HookVerdictStands /\ DialogNeedsPermission
  BY DEF Init, HookInit, HookVerdictStands, DialogNeedsPermission
<1> QED BY <1>1, <1>2, <1>4, <1>5 DEF SessionInv

\* A step that leaves the signal loop and the status alone and revives no
\* thread or process preserves the rest of the invariant.
LEMMA QuietStep ==
  ASSUME SessionInv, TypeOK', HookInv',
         UNCHANGED <<kind, hooks_active, loop, window, idle, status, last_hook>>,
         agent = "gone" => agent' = "gone",
         reader = "done" => reader' = "done"
  PROVE  SessionInv'
BY DEF SessionInv, RunnerFacts, EofFacts, HookVerdictStands, DialogNeedsPermission,
       ExitReachesTerminal, Steady

LEMMA AgentMovesInv ==
  ASSUME SessionInv, NEW a \in Phases \ {"gone"}, NEW b \in Phases, NEW e \in HookEvents,
         AgentMoves(a, b, e)
  PROVE  SessionInv'
<1>1. HookInv' /\ last_hook' = last_hook
  <2>1. CASE hooks_active
    BY <2>1, FireInv DEF AgentMoves, SessionInv, Fire
  <2>2. CASE ~hooks_active
    BY <2>2, HookStutterInv DEF AgentMoves, SessionInv, hookVars
  <2> QED BY <2>1, <2>2
<1>2. TypeOK'
  BY <1>1 DEF AgentMoves, SessionInv, TypeOK, HookInv
<1> QED BY <1>1, <1>2, QuietStep DEF AgentMoves

LEMMA AgentStepInv ==
  ASSUME SessionInv, AgentStep
  PROVE  SessionInv'
<1>1. CASE AgentSubmit \/ AgentStop \/ AgentAsk \/ AgentEnd
  BY <1>1, AgentMovesInv DEF AgentSubmit, AgentStop, AgentAsk, AgentEnd, Phases, HookEvents
<1>2. CASE AgentAnswered \/ AgentDies
  <2>1. HookInv' /\ last_hook' = last_hook
    BY <1>2, HookStutterInv DEF AgentAnswered, AgentDies, SessionInv, hookVars
  <2>2. TypeOK'
    BY <1>2, <2>1 DEF AgentAnswered, AgentDies, SessionInv, TypeOK, HookInv, Phases
  <2> QED BY <1>2, <2>1, <2>2, QuietStep DEF AgentAnswered, AgentDies
<1> QED BY <1>1, <1>2 DEF AgentStep

LEMMA SidecarStepInv ==
  ASSUME SessionInv, SidecarStep
  PROVE  SessionInv'
<1>1. PICK p \in Sidecars : SidecarRead(p) \/ SidecarWrite(p) \/ SidecarFails(p)
  BY DEF SidecarStep
<1>2. HookInv' /\ last_hook' = last_hook
  BY <1>1, SidecarReadInv, SidecarWriteInv, SidecarFailsInv
     DEF SessionInv, SidecarRead, SidecarWrite, SidecarFails
<1>3. TypeOK'
  BY <1>2 DEF SidecarStep, runtimeVars, SessionInv, TypeOK, HookInv
<1> QED BY <1>2, <1>3, QuietStep DEF SidecarStep, runtimeVars

LEMMA ReadStepInv ==
  ASSUME SessionInv, ReadStep
  PROVE  SessionInv'
<1>1. HookInv' /\ last_hook' = last_hook
  BY HookStutterInv DEF ReadStep, ReadCheckStop, ReadSlice, ReadEof, SessionInv, hookVars
<1>2. CASE ReadCheckStop \/ ReadEof
  <2>1. TypeOK'
    BY <1>1, <1>2 DEF ReadCheckStop, ReadEof, SessionInv, TypeOK, HookInv
  <2> QED BY <1>1, <1>2, <2>1, QuietStep DEF ReadCheckStop, ReadEof
<1>3. ASSUME NEW s \in Slices, ReadSlice(s) PROVE SessionInv'
  <2>1. queue' \in Seq(Slices) /\ Len(queue') <= SignalCap
    <3>1. CASE Len(queue) < SignalCap
      BY <1>3, <3>1, SignalCapAssumption DEF ReadSlice, signal_try_send, SessionInv, TypeOK
    <3>2. CASE ~(Len(queue) < SignalCap)
      BY <1>3, <3>2 DEF ReadSlice, signal_try_send, SessionInv, TypeOK
    <3> QED BY <3>1, <3>2
  <2>2. TypeOK'
    BY <1>1, <1>3, <2>1 DEF ReadSlice, SessionInv, TypeOK, HookInv
  <2> QED BY <1>1, <1>3, <2>2, QuietStep DEF ReadSlice
<1> QED BY <1>2, <1>3 DEF ReadStep

LEMMA RecvInv ==
  ASSUME SessionInv, RecvSlice \/ RecvTimeout \/ RecvDisconnected
  PROVE  SessionInv'
<1> USE DEF SessionInv
<1>1. HookInv' /\ last_hook' = last_hook
  BY HookStutterInv DEF RecvSlice, RecvTimeout, RecvDisconnected, hookVars
<1>2. TypeOK'
  <2>1. CASE RecvSlice
    <3>1. Head(queue) \in Slices /\ Tail(queue) \in Seq(Slices)
          /\ Len(Tail(queue)) <= SignalCap
      BY <2>1, SignalCapAssumption DEF RecvSlice, TypeOK
    <3> QED BY <1>1, <2>1, <3>1 DEF RecvSlice, TypeOK, HookInv, LoopStates
  <2>2. CASE RecvTimeout \/ RecvDisconnected
    BY <1>1, <2>2 DEF RecvTimeout, RecvDisconnected, TypeOK, HookInv, LoopStates
  <2> QED BY <2>1, <2>2
<1>3. /\ UNCHANGED <<kind, hooks_active, window, idle, status, agent, reader>>
      /\ loop = "recv" /\ loop' \in {"hook", "eof"}
  BY DEF RecvSlice, RecvTimeout, RecvDisconnected
<1>4. RunnerFacts' /\ EofFacts' /\ ExitReachesTerminal'
  BY <1>3 DEF RunnerFacts, EofFacts, ExitReachesTerminal, Steady
<1>5. HookVerdictStands' /\ DialogNeedsPermission'
  BY <1>1, <1>3 DEF HookVerdictStands, DialogNeedsPermission, Steady
<1> QED BY <1>1, <1>2, <1>4, <1>5

LEMMA PollHookInv ==
  ASSUME SessionInv, PollHook, status # "Absent"
  PROVE  SessionInv'
<1> USE DEF SessionInv
<1>1. /\ loop = "hook" /\ loop' = "scrape"
      /\ UNCHANGED <<kind, hooks_active, agent, reader, queue, stop, slice, active, window, idle>>
  BY DEF PollHook
<1>2. status \in AgentStatuses
  BY <1>1 DEF TypeOK
<1>3. CASE hooks_active /\ PollTake /\ apply_observed(event_to_observed(file.event))
  <2>1. HookInv'
    BY <1>3, PollTakeInv
  <2>2. PICK e \in HookEvents : /\ last_hook' = e
                                /\ status' = transition(status, event_to_observed(e))
    BY <1>2, <1>3 DEF PollTake, Fresh, HookInv, HookTypeOK, FileHistory, apply_observed, AgentStatuses
  <2>3. status' \in AgentStatuses
    BY <1>2, <2>2, TransitionFollowsArrows, EventType
  <2>4. TypeOK'
    BY <1>1, <2>1, <2>3 DEF TypeOK, HookInv, LoopStates
  <2>5. RunnerFacts' /\ EofFacts' /\ ExitReachesTerminal'
    BY <1>1, <1>3, <2>3 DEF RunnerFacts, EofFacts, ExitReachesTerminal, AgentStatuses
  <2>6. HookVerdictStands'
    BY <1>1, <1>2, <2>2 DEF HookVerdictStands, transition, event_to_observed, AgentStatuses, Terminal
  <2>7. DialogNeedsPermission'
    BY <1>1, <1>2, <2>2 DEF DialogNeedsPermission, transition, event_to_observed, AgentStatuses,
                            Terminal, HookEvents
  <2> QED BY <2>1, <2>4, <2>5, <2>6, <2>7
<1>4. CASE UNCHANGED <<hookVars, status>>
  <2>1. HookInv' /\ last_hook' = last_hook
    BY <1>4, HookStutterInv DEF hookVars
  <2>2. TypeOK'
    BY <1>1, <1>4, <2>1 DEF TypeOK, HookInv, LoopStates
  <2>3. RunnerFacts' /\ EofFacts' /\ ExitReachesTerminal'
    BY <1>1, <1>4 DEF RunnerFacts, EofFacts, ExitReachesTerminal, Steady
  <2>4. HookVerdictStands' /\ DialogNeedsPermission'
    BY <1>1, <1>4, <2>1 DEF HookVerdictStands, DialogNeedsPermission, Steady
  <2> QED BY <2>1, <2>2, <2>3, <2>4
<1> QED BY <1>3, <1>4 DEF PollHook

\* The loop goes on over a session a second close has removed, and changes nothing.
LEMMA UnlistedInv ==
  ASSUME SessionInv, LoopStep, status = "Absent"
  PROVE  SessionInv'
<1> USE DEF SessionInv
<1>1. status' = "Absent"
  BY DEF LoopStep, RecvSlice, RecvTimeout, RecvDisconnected, PollHook, Scrape, emit_scraping_guarded,
         EofQuiescent, EofTerminal, apply_observed
<1>2. HookInv'
  <2>1. CASE PollHook
    BY <2>1, PollTakeInv, HookStutterInv DEF PollHook, hookVars
  <2>2. CASE LoopStep /\ ~PollHook
    BY <2>2, HookStutterInv DEF LoopStep, RecvSlice, RecvTimeout, RecvDisconnected, Scrape,
                               EofQuiescent, EofTerminal, hookVars
  <2> QED BY <2>1, <2>2
<1>3. UNCHANGED <<kind, hooks_active, agent, reader, stop>> /\ loop' \in LoopStates
  BY DEF LoopStep, RecvSlice, RecvTimeout, RecvDisconnected, PollHook, Scrape, EofQuiescent,
         EofTerminal, LoopStates
<1>4. TypeOK'
  <2>1. queue' \in Seq(Slices) /\ Len(queue') <= SignalCap /\ slice' \in Slices /\ active' \in BOOLEAN
    <3>1. CASE RecvSlice
      <4>1. queue \in Seq(Slices) /\ queue # <<>> /\ queue' = Tail(queue) /\ slice' = Head(queue)
        BY <3>1 DEF RecvSlice, TypeOK
      <4>2. Tail(queue) \in Seq(Slices) /\ Head(queue) \in Slices /\ Len(Tail(queue)) <= Len(queue)
        BY <4>1
      <4>3. Len(queue) <= SignalCap /\ Len(queue) \in Nat /\ Len(Tail(queue)) \in Nat /\ active' = TRUE
        BY <3>1, <4>1, <4>2 DEF RecvSlice, TypeOK
      <4> QED BY <4>1, <4>2, <4>3, SignalCapAssumption
    <3>2. CASE LoopStep /\ ~RecvSlice
      BY <3>2 DEF LoopStep, RecvTimeout, RecvDisconnected, PollHook, Scrape, EofQuiescent, EofTerminal,
                  TypeOK, Slices
    <3> QED BY <3>1, <3>2
  <2>2. window' \in Slices /\ idle' \in 0..IdleTimeout
    <3>1. CASE Scrape
      BY <3>1, LaterType, IdleTimeoutAssumption DEF Scrape, ingest, TypeOK, Slices
    <3>2. CASE LoopStep /\ ~Scrape
      BY <3>2 DEF LoopStep, RecvSlice, RecvTimeout, RecvDisconnected, PollHook, EofQuiescent,
                  EofTerminal, TypeOK
    <3> QED BY <3>1, <3>2
  <2> QED BY <1>1, <1>2, <1>3, <2>1, <2>2 DEF TypeOK, HookInv
<1>5. RunnerFacts' /\ EofFacts' /\ ExitReachesTerminal' /\ HookVerdictStands' /\ DialogNeedsPermission'
  BY <1>1, <1>3 DEF RunnerFacts, EofFacts, ExitReachesTerminal, HookVerdictStands,
                    DialogNeedsPermission, Steady
<1> QED BY <1>2, <1>4, <1>5

\* What a tick or a slice does to the status.
LEMMA ScrapeInv ==
  ASSUME SessionInv, Scrape, status # "Absent"
  PROVE  SessionInv'
<1> USE DEF SessionInv
<1>1. /\ loop = "scrape" /\ loop' = "recv" /\ slice' = {} /\ active' = FALSE
      /\ UNCHANGED <<hookVars, kind, hooks_active, agent, reader, queue, stop>>
  BY DEF Scrape, ingest
<1>2. HookInv' /\ last_hook' = last_hook
  BY <1>1, HookStutterInv DEF hookVars
<1>3. window' \in SUBSET Patterns
  BY DEF Scrape, ingest, TypeOK, Slices
<1>4. idle' \in 0..IdleTimeout /\ (active => idle' = 0) /\ (~active => idle' = Later(idle))
  BY LaterType, IdleTimeoutAssumption DEF Scrape, ingest, TypeOK
<1>5. status \in AgentStatuses
  BY <1>1 DEF TypeOK
<1> DEFINE obs == detect_status(kind, Signal(window', active, "none", idle'))
<1>6. obs \in Observations
  <2>1. idle' \in Nat /\ "none" \in ExitCodes /\ active \in BOOLEAN /\ kind \in AgentKinds
    BY <1>4, IdleTimeoutAssumption DEF ExitCodes, TypeOK
  <2> QED BY <1>3, <2>1, DetectType
<1>7. \/ status' = status
      \/ status' = transition(status, obs) /\ ~(hooks_active /\ Suppressed(status, obs))
  BY <1>5 DEF Scrape, ingest, emit_scraping_guarded, apply_observed, AgentStatuses
<1>8. ~hooks_active => status' = transition(status, obs)
  BY <1>5 DEF Scrape, ingest, emit_scraping_guarded, apply_observed, AgentStatuses
<1>9. kind = "claude" => obs \in {"NeedsInput", "Ready", "Working"}
  BY DEF detect_status, detect_claude, Signal
<1>10. kind = "generic" =>
         /\ obs \in {"Ready", "Working", "Finished"}
         /\ active => obs = "Working"
         /\ idle' < IdleTimeout => obs # "Finished"
  <2> SUFFICES ASSUME kind = "generic"
               PROVE  obs = IF active THEN "Working"
                            ELSE IF idle' >= IdleTimeout THEN "Finished" ELSE "Ready"
    BY <1>4, IdleTimeoutAssumption
  <2> QED BY DEF detect_status, detect_generic, Signal, TypeOK
<1>11. status' \in AgentStatuses
  BY <1>5, <1>6, <1>7, TransitionFollowsArrows
<1>12. TypeOK'
  BY <1>1, <1>2, <1>3, <1>4, <1>11 DEF TypeOK, HookInv, LoopStates, Slices
<1>13. RunnerFacts'
  <2> HIDE DEF obs
  <2>1. hooks_active' => kind' = "claude"
    BY <1>1 DEF RunnerFacts
  <2>2. ASSUME kind = "generic" PROVE status' # "AwaitingInput"
    BY <2>2, <1>5, <1>7, <1>10 DEF RunnerFacts, transition, AgentStatuses, Terminal
  <2>3. ASSUME kind = "generic", status' = "Starting" PROVE FALSE
    <3>1. ~hooks_active /\ status' = transition(status, obs)
      BY <2>3, <1>8 DEF RunnerFacts
    <3>2. status = "Starting"
      BY <2>3, <3>1, <1>5 DEF transition, AgentStatuses, Terminal
    <3>3. idle = 0
      BY <1>1, <2>3, <3>2 DEF RunnerFacts, Steady
    <3>4. obs \in {"Ready", "Working"}
      BY <2>3, <3>3, <1>4, <1>10, IdleTimeoutAssumption DEF Later
    <3> QED BY <2>3, <3>1, <3>2, <3>4 DEF transition, Terminal
  <2> QED BY <1>1, <2>1, <2>2, <2>3 DEF RunnerFacts
<1>14. EofFacts' /\ ExitReachesTerminal'
  BY <1>1, <1>11 DEF EofFacts, ExitReachesTerminal, AgentStatuses
<1>15. HookVerdictStands' /\ DialogNeedsPermission'
  <2> HIDE DEF obs
  <2>1. CASE ~hooks_active
    BY <1>1, <2>1 DEF HookVerdictStands, DialogNeedsPermission
  <2>2. CASE hooks_active
    <3>1. obs \in {"NeedsInput", "Ready", "Working"}
      BY <2>2, <1>9 DEF RunnerFacts
    <3>2. \/ status' = status
          \/ status' = transition(status, obs) /\ ~Suppressed(status, obs)
      BY <2>2, <1>7
    <3>3. HookVerdictStands'
      BY <1>1, <1>2, <1>5, <3>1, <3>2
         DEF HookVerdictStands, Steady, transition, Suppressed, AgentStatuses, Terminal
    <3>4. DialogNeedsPermission'
      BY <1>1, <1>2, <1>5, <3>1, <3>2
         DEF DialogNeedsPermission, Steady, transition, Suppressed, AgentStatuses, Terminal
    <3> QED BY <3>3, <3>4
  <2> QED BY <2>1, <2>2
<1> QED BY <1>2, <1>12, <1>13, <1>14, <1>15

LEMMA EofQuiescentInv ==
  ASSUME SessionInv, EofQuiescent, status # "Absent"
  PROVE  SessionInv'
<1> USE DEF SessionInv
<1>1. /\ loop = "eof" /\ loop' = "exit"
      /\ UNCHANGED <<hookVars, kind, hooks_active, agent, reader, queue, stop, slice, active,
                     window, idle>>
  BY DEF EofQuiescent
<1>2. HookInv'
  BY <1>1, HookStutterInv DEF hookVars
<1>3. status \in AgentStatuses
  BY <1>1 DEF TypeOK
<1>4. PICK t \in {idle, Later(idle)} :
        status' = transition(status, detect_status(kind, Signal(window, FALSE, "none", t)))
  BY <1>3 DEF EofQuiescent, apply_observed, AgentStatuses
<1> DEFINE obs == detect_status(kind, Signal(window, FALSE, "none", t))
<1>5. t \in 0..IdleTimeout /\ (idle = 0 => t < IdleTimeout)
  BY LaterType, IdleTimeoutAssumption DEF TypeOK, Later
<1>6. obs \in Observations
  <2>1. /\ t \in Nat /\ FALSE \in BOOLEAN /\ "none" \in ExitCodes
        /\ kind \in AgentKinds /\ window \in SUBSET Patterns
    BY <1>5, IdleTimeoutAssumption DEF TypeOK, Slices, ExitCodes
  <2> QED BY <2>1, DetectType
<1>7. kind = "claude" /\ "dialog" \notin window => obs = "Ready"
  BY DEF detect_status, detect_claude, Signal
<1>8. kind = "generic" => obs = IF t >= IdleTimeout THEN "Finished" ELSE "Ready"
  BY DEF detect_status, detect_generic, Signal
<1>9. status' \in AgentStatuses
  BY <1>3, <1>4, <1>6, TransitionFollowsArrows
<1>10. TypeOK'
  BY <1>1, <1>2, <1>9 DEF TypeOK, HookInv, LoopStates
<1> HIDE DEF obs
<1>11. RunnerFacts'
  BY <1>1, <1>3, <1>4, <1>8 DEF RunnerFacts, Steady, transition, AgentStatuses, Terminal, obs
<1>12. EofFacts'
  <2> SUFFICES ASSUME kind = "claude" => "dialog" \notin window
               PROVE  status' \in {"Idle"} \cup Terminal
    BY <1>1 DEF EofFacts
  <2>0. status' = transition(status, obs)
    BY <1>4 DEF obs
  <2>1. CASE kind = "claude"
    BY <2>0, <2>1, <1>3, <1>7 DEF transition, AgentStatuses, Terminal
  <2>2. CASE kind = "generic"
    <3>1. status # "AwaitingInput" /\ (status = "Starting" => obs = "Ready")
      BY <1>1, <1>5, <1>8, <2>2, IdleTimeoutAssumption DEF RunnerFacts
    <3>2. obs \in {"Finished", "Ready"}
      BY <1>8, <2>2
    <3> QED BY <2>0, <3>1, <3>2, <1>3 DEF transition, AgentStatuses, Terminal
  <2> QED BY <2>1, <2>2 DEF TypeOK, AgentKinds
<1>13. ExitReachesTerminal' /\ HookVerdictStands' /\ DialogNeedsPermission'
  BY <1>1, <1>9 DEF ExitReachesTerminal, HookVerdictStands,
                    DialogNeedsPermission, Steady, AgentStatuses
<1> QED BY <1>2, <1>10, <1>11, <1>12, <1>13

LEMMA EofTerminalInv ==
  ASSUME SessionInv, EofTerminal, status # "Absent"
  PROVE  SessionInv'
<1> USE DEF SessionInv
<1>1. /\ loop = "exit" /\ loop' = "done"
      /\ UNCHANGED <<hookVars, kind, hooks_active, agent, reader, queue, stop, slice, active,
                     window, idle>>
  BY DEF EofTerminal
<1>2. HookInv'
  BY <1>1, HookStutterInv DEF hookVars
<1>3. status \in AgentStatuses
  BY <1>1 DEF TypeOK
<1>4. status' = transition(status, "Finished")
  BY <1>3 DEF EofTerminal, apply_observed, AgentStatuses, TypeOK, AgentKinds, detect_status,
              detect_claude, detect_generic, Signal, ExitObserved
<1>5. status' \in AgentStatuses
  BY <1>3, <1>4, TransitionFollowsArrows DEF Observations
<1>6. TypeOK'
  BY <1>1, <1>2, <1>5 DEF TypeOK, HookInv, LoopStates
<1>7. RunnerFacts' /\ EofFacts'
  BY <1>1, <1>3, <1>4 DEF RunnerFacts, EofFacts, Steady, transition, AgentStatuses, Terminal
<1>8. ExitReachesTerminal'
  BY <1>1, <1>3, <1>4 DEF EofFacts, ExitReachesTerminal, transition, AgentStatuses, Terminal
<1>9. HookVerdictStands' /\ DialogNeedsPermission'
  BY <1>1, <1>5 DEF HookVerdictStands, DialogNeedsPermission, Steady,
                    AgentStatuses
<1> QED BY <1>2, <1>6, <1>7, <1>8, <1>9

LEMMA CloseStepInv ==
  ASSUME SessionInv, CloseStep
  PROVE  SessionInv'
<1> USE DEF SessionInv
<1>1. HookInv' /\ last_hook' = last_hook
  BY HookStutterInv DEF CloseStep, CloseStop, CloseKill, AgentDies, CloseRemove, CloseAgain, RemoveEntry, hookVars
<1>2. CASE CloseStop
  <2>1. TypeOK'
    BY <1>1, <1>2 DEF CloseStop, TypeOK, HookInv
  <2> QED BY <1>1, <1>2, <2>1, QuietStep DEF CloseStop
<1>3. CASE CloseKill
  BY <1>3, AgentStepInv DEF CloseKill, AgentStep
<1>4. CASE CloseRemove \/ CloseAgain
  <2>1. TypeOK'
    BY <1>1, <1>4 DEF CloseRemove, CloseAgain, RemoveEntry, TypeOK, HookInv
  <2>2. RunnerFacts' /\ EofFacts' /\ ExitReachesTerminal'
    BY <1>4 DEF CloseRemove, CloseAgain, RemoveEntry, RunnerFacts, EofFacts, ExitReachesTerminal, Steady
  <2>3. HookVerdictStands' /\ DialogNeedsPermission'
    BY <1>4 DEF CloseRemove, CloseAgain, RemoveEntry, HookVerdictStands, DialogNeedsPermission, Steady
  <2> QED BY <1>1, <2>1, <2>2, <2>3
<1> QED BY <1>2, <1>3, <1>4 DEF CloseStep

LEMMA StutterInv == SessionInv /\ UNCHANGED vars => SessionInv'
<1> SUFFICES ASSUME SessionInv, UNCHANGED vars PROVE SessionInv' OBVIOUS
<1>1. HookInv' /\ last_hook' = last_hook
  BY HookStutterInv DEF SessionInv, vars, hookVars
<1>2. TypeOK'
  BY <1>1 DEF SessionInv, vars, runtimeVars, TypeOK, HookInv
<1> QED BY <1>1, <1>2, QuietStep DEF vars, runtimeVars
-----------------------------------------------------------------------------
LEMMA NextInv == SessionInv /\ [Next]_vars => SessionInv'
BY AgentStepInv, SidecarStepInv, ReadStepInv, RecvInv, UnlistedInv, PollHookInv, ScrapeInv,
   EofQuiescentInv, EofTerminalInv, CloseStepInv, StutterInv DEF Next, LoopStep

\* The invariant everything below follows from.
THEOREM Invariance == Spec => []SessionInv
BY InitInv, NextInv, PTL DEF Spec

\* The session's state keeps its type.
THEOREM TypeCorrect == Spec => []TypeOK
<1>1. SessionInv => TypeOK
  BY DEF SessionInv
<1> QED BY <1>1, Invariance, PTL

\* No hook event is applied twice to a session.
THEOREM AtMostOnce == Spec => []ConsumedAtMostOnce
<1>1. SessionInv => ConsumedAtMostOnce
  BY DEF SessionInv, HookInv
<1> QED BY <1>1, Invariance, PTL

\* The last Submit or Stop a hooked session heard decides whether it shows
\* Running or Idle, whatever its terminal prints in the meantime.
THEOREM VerdictStands == Spec => []HookVerdictStands
<1>1. SessionInv => HookVerdictStands
  BY DEF SessionInv
<1> QED BY <1>1, Invariance, PTL

\* A hooked session never awaits input without a Permission hook.
THEOREM DialogOnlyByHook == Spec => []DialogNeedsPermission
<1>1. SessionInv => DialogNeedsPermission
  BY DEF SessionInv
<1> QED BY <1>1, Invariance, PTL

\* A session whose loop ended without a dialog on screen is Completed or Error.
THEOREM EofIsTerminal == Spec => []ExitReachesTerminal
<1>1. SessionInv => ExitReachesTerminal
  BY DEF SessionInv
<1> QED BY <1>1, Invariance, PTL
-----------------------------------------------------------------------------
(* Refinement: the status of a session follows the lifecycle.              *)

LEMMA ApplyFollows ==
  ASSUME NEW o \in Observations, status \in AgentStatuses \cup {"Absent"}, apply_observed(o)
  PROVE  [Feed!Next]_status
BY TransitionFollowsArrows DEF apply_observed, Feed!Next, Feed!Move

LEMMA StepFollows == SessionInv /\ [Next]_vars => [Feed!Next]_status
<1> SUFFICES ASSUME SessionInv, [Next]_vars, status' # status PROVE Feed!Next
  OBVIOUS
<1>1. status \in AgentStatuses \cup {"Absent"} /\ idle \in 0..IdleTimeout
      /\ kind \in AgentKinds /\ window \in SUBSET Patterns /\ active \in BOOLEAN
  BY DEF SessionInv, TypeOK, Slices
<1>2. CASE CloseRemove \/ CloseAgain
  BY <1>2 DEF CloseRemove, CloseAgain, RemoveEntry, Feed!Next, Feed!Close
<1>3. CASE PollHook
  <2>1. file.event \in HookEvents /\ apply_observed(event_to_observed(file.event))
    BY <1>3 DEF PollHook, PollTake, Fresh, SessionInv, HookInv, HookTypeOK, FileHistory
  <2> QED BY <1>1, <2>1, EventType, ApplyFollows
<1>4. CASE Scrape
  <2>1. idle' \in Nat /\ window' \in SUBSET Patterns
    BY <1>4, <1>1, LaterType, IdleTimeoutAssumption DEF Scrape, ingest, SessionInv, TypeOK, Slices
  <2>2. apply_observed(detect_status(kind, Signal(window', active, "none", idle')))
    BY <1>4 DEF Scrape, ingest, emit_scraping_guarded
  <2>3. detect_status(kind, Signal(window', active, "none", idle')) \in Observations
    BY <1>1, <2>1, DetectType DEF ExitCodes
  <2> QED BY <1>1, <2>2, <2>3, ApplyFollows
<1>5. CASE EofQuiescent
  <2>1. PICK t \in {idle, Later(idle)} :
          apply_observed(detect_status(kind, Signal(window, FALSE, "none", t)))
    BY <1>5 DEF EofQuiescent
  <2>2. t \in Nat /\ FALSE \in BOOLEAN /\ "none" \in ExitCodes
    BY <1>1, LaterType, IdleTimeoutAssumption DEF ExitCodes
  <2>3. detect_status(kind, Signal(window, FALSE, "none", t)) \in Observations
    BY <1>1, <2>2, DetectType
  <2> QED BY <1>1, <2>1, <2>3, ApplyFollows
<1>6. CASE EofTerminal
  <2>1. idle \in Nat /\ FALSE \in BOOLEAN /\ "zero" \in ExitCodes
    BY <1>1, IdleTimeoutAssumption DEF ExitCodes
  <2>2. detect_status(kind, Signal(window, FALSE, "zero", idle)) \in Observations
    BY <1>1, <2>1, DetectType
  <2> QED BY <1>1, <1>6, <2>2, ApplyFollows DEF EofTerminal
<1>7. CASE AgentStep \/ SidecarStep \/ ReadStep
  BY <1>7 DEF AgentStep, AgentSubmit, AgentStop, AgentAsk, AgentAnswered, AgentEnd, AgentDies,
              AgentMoves, SidecarStep, runtimeVars, ReadStep, ReadCheckStop, ReadSlice, ReadEof
<1>8. CASE RecvSlice \/ RecvTimeout \/ RecvDisconnected \/ CloseStop \/ CloseKill
  BY <1>8 DEF RecvSlice, RecvTimeout, RecvDisconnected, CloseStop, CloseKill, AgentDies
<1>9. CASE UNCHANGED vars
  BY <1>9 DEF vars, runtimeVars
<1> QED BY <1>2, <1>3, <1>4, <1>5, <1>6, <1>7, <1>8, <1>9 DEF Next, LoopStep, CloseStep

\* The detailed session implements the status lifecycle its observers rely on.
THEOREM Refinement == Spec => FollowsLifecycle
<1>1. Init => Feed!Init
  BY DEF Init, Feed!Init
<1> QED BY <1>1, StepFollows, Invariance, PTL DEF Spec, FollowsLifecycle, Feed!Spec
-----------------------------------------------------------------------------
(* Refinement: what a session does to its hook channel, the channel does.  *)

LEMMA StepIsHookStep == [Next]_vars => [HookNext]_hookVars
<1> SUFFICES ASSUME [Next]_vars PROVE HookNext \/ UNCHANGED hookVars
  OBVIOUS
<1>1. CASE AgentStep
  <2>1. ASSUME NEW a, NEW b, NEW e \in HookEvents, AgentMoves(a, b, e)
        PROVE  HookNext \/ UNCHANGED hookVars
    BY <2>1 DEF AgentMoves, HookNext
  <2>2. {"Submit", "Stop", "Permission", "SessionEnd"} \subseteq HookEvents
    BY DEF HookEvents
  <2> QED BY <1>1, <2>1, <2>2 DEF AgentStep, AgentSubmit, AgentStop, AgentAsk, AgentAnswered,
                                  AgentEnd, AgentDies
<1>2. CASE SidecarStep
  BY <1>2 DEF SidecarStep, HookNext
<1>3. CASE PollHook
  BY <1>3 DEF PollHook, HookNext
<1>4. CASE ReadStep \/ CloseStep
  BY <1>4 DEF ReadStep, ReadCheckStop, ReadSlice, ReadEof, CloseStep, CloseStop, CloseKill,
              AgentDies, CloseRemove, CloseAgain, RemoveEntry
<1>5. CASE LoopStep /\ ~PollHook
  BY <1>5 DEF LoopStep, RecvSlice, RecvTimeout, RecvDisconnected, Scrape, EofQuiescent,
              EofTerminal
<1>6. CASE UNCHANGED vars
  BY <1>6 DEF vars
<1> QED BY <1>1, <1>2, <1>3, <1>4, <1>5, <1>6 DEF Next

\* A session uses its hook channel as the channel on its own allows.
THEOREM RuntimeUsesHookChannel == Spec => HookSpec
<1>1. Init => HookInit
  BY DEF Init
<1> QED BY <1>1, StepIsHookStep, PTL DEF Spec, HookSpec
-----------------------------------------------------------------------------
(* What the newest event says of the agent, wherever it has got to.         *)

\* The event in the file, once returned, is what poll returned last.
HeardIsLast == file.id # 0 /\ got[file.id] = 1 => last_hook = file.event

\* The newest invocation, running or in the file, is of event e; it may have been lost.
NewestIs(e) ==
  /\ \A q \in Sidecars : Alive(q) /\ sidecar[q].id = fired => sidecar[q].event = e
  /\ file.id = fired => file.event = e

\* An agent that has fired is at its prompt on its Stop.
PromptAfterStop == hooks_active /\ agent = "prompt" /\ fired > 0 => NewestIs("Stop")

\* While the agent lives, nothing has said that it ended.
TurnEvents == {"Submit", "Stop", "Permission"}
NoEndYet ==
  agent # "gone" =>
    /\ \A q \in Sidecars : Alive(q) => sidecar[q].event \in TurnEvents
    /\ file.id # 0 => file.event \in TurnEvents
    /\ hooks_active /\ Steady => status \notin Terminal

LEMMA HeardStep == HookInv /\ HeardIsLast /\ [HookNext]_hookVars => HeardIsLast'
<1> SUFFICES ASSUME HookInv, HeardIsLast, [HookNext]_hookVars PROVE HeardIsLast'
  OBVIOUS
<1> USE DEF HeardIsLast
<1>1. ASSUME NEW p \in Sidecars, NEW e \in HookEvents, Fire(p, e) PROVE HeardIsLast'
  BY <1>1 DEF Fire
<1>2. ASSUME NEW p \in Sidecars, SidecarRead(p) \/ SidecarFails(p) PROVE HeardIsLast'
  BY <1>2 DEF SidecarRead, SidecarFails
<1>3. ASSUME NEW p \in Sidecars, SidecarWrite(p) PROVE HeardIsLast'
  <2>1. file'.id = sidecar[p].id /\ got' = got /\ got[sidecar[p].id] = 0
    BY <1>3 DEF SidecarWrite, HookInv, SidecarsFresh, Alive
  <2> QED BY <2>1
<1>4. CASE PollTake
  BY <1>4 DEF PollTake
<1>5. CASE UNCHANGED hookVars
  BY <1>5 DEF hookVars
<1> QED BY <1>1, <1>2, <1>3, <1>4, <1>5 DEF HookNext

LEMMA FireIsNewest ==
  ASSUME HookInv, NEW p \in Sidecars, NEW e \in HookEvents, Fire(p, e)
  PROVE  NewestIs(e)'
<1>1. fired' = fired + 1 /\ file' = file /\ fired \in Nat
  BY DEF Fire, HookInv, HookTypeOK, Counters
<1>2. file'.id # fired'
  BY <1>1 DEF HookInv, FileHistory
<1>3. ASSUME NEW q \in Sidecars, Alive(q)', sidecar'[q].id = fired' PROVE sidecar'[q].event = e
  <2>1. CASE q = p
    BY <2>1 DEF Fire, HookInv, HookTypeOK
  <2>2. CASE q # p
    <3>1. sidecar'[q] = sidecar[q]
      BY <2>2 DEF Fire, HookInv, HookTypeOK
    <3> QED BY <1>1, <1>3, <3>1 DEF HookInv, SidecarsFresh, Alive
  <2> QED BY <2>1, <2>2
<1> QED BY <1>2, <1>3 DEF NewestIs

LEMMA NewestStays ==
  ASSUME HookInv, NEW e, NewestIs(e), [HookNext]_hookVars, fired' = fired
  PROVE  NewestIs(e)'
<1> USE DEF NewestIs, Alive
<1>1. ASSUME NEW p \in Sidecars, SidecarRead(p) \/ SidecarWrite(p) \/ SidecarFails(p)
      PROVE  NewestIs(e)'
  <2>1. \A q \in Sidecars : Alive(q)' => /\ Alive(q) /\ sidecar'[q].event = sidecar[q].event
                                        /\ sidecar'[q].id = sidecar[q].id
    BY <1>1 DEF SidecarRead, SidecarWrite, SidecarFails, Gone, HookInv, HookTypeOK
  <2>2. file' = file \/ (Alive(p) /\ file'.event = sidecar[p].event /\ file'.id = sidecar[p].id)
    <3>1. CASE SidecarRead(p) \/ SidecarFails(p)
      BY <3>1 DEF SidecarRead, SidecarFails
    <3>2. CASE SidecarWrite(p)
      BY <3>2 DEF SidecarWrite
    <3> QED BY <1>1, <3>1, <3>2
  <2> QED BY <2>1, <2>2
<1>2. ASSUME NEW p \in Sidecars, NEW h \in HookEvents, Fire(p, h) PROVE FALSE
  BY <1>2 DEF Fire, HookInv, HookTypeOK, Counters
<1>3. CASE PollTake
  BY <1>3 DEF PollTake
<1>4. CASE UNCHANGED hookVars
  BY <1>4 DEF hookVars
<1> QED BY <1>1, <1>2, <1>3, <1>4 DEF HookNext

LEMMA PromptStep == SessionInv /\ PromptAfterStop /\ [Next]_vars => PromptAfterStop'
<1> SUFFICES ASSUME SessionInv, PromptAfterStop, [Next]_vars PROVE PromptAfterStop'
  OBVIOUS
<1>1. NewestIs("Stop") /\ fired' = fired => NewestIs("Stop")'
  BY NewestStays, StepIsHookStep DEF SessionInv
<1>2. hooks_active' = hooks_active
  BY DEF Next, AgentStep, AgentSubmit, AgentStop, AgentAsk, AgentAnswered, AgentEnd, AgentDies,
         AgentMoves, SidecarStep, runtimeVars, ReadStep, ReadCheckStop, ReadSlice, ReadEof, LoopStep,
         RecvSlice, RecvTimeout, RecvDisconnected, PollHook, Scrape, EofQuiescent, EofTerminal,
         CloseStep, CloseStop, CloseKill, CloseRemove, CloseAgain, RemoveEntry, vars
<1>3. CASE hooks_active /\ AgentStop
  <2>1. PICK p \in Sidecars : Fire(p, "Stop")
    BY <1>3 DEF AgentStop, AgentMoves
  <2>2. NewestIs("Stop")'
    BY <2>1, FireIsNewest DEF SessionInv, HookEvents
  <2> QED BY <2>2 DEF PromptAfterStop
<1>4. CASE hooks_active /\ agent' = agent /\ fired' = fired
  BY <1>1, <1>2, <1>4 DEF PromptAfterStop
<1>5. CASE agent' # "prompt" \/ ~hooks_active
  BY <1>2, <1>5 DEF PromptAfterStop
<1>6. hooks_active => AgentStop \/ agent' # "prompt" \/ (agent' = agent /\ fired' = fired)
  <2>1. CASE AgentStep
    BY <2>1 DEF AgentStep, AgentSubmit, AgentAsk, AgentAnswered, AgentEnd, AgentDies, AgentMoves
  <2>2. CASE SidecarStep \/ ReadStep \/ CloseStep
    BY <2>2 DEF SidecarStep, SidecarRead, SidecarWrite, SidecarFails, runtimeVars, ReadStep,
                ReadCheckStop, ReadSlice, ReadEof, CloseStep, CloseStop, CloseKill, AgentDies,
                CloseRemove, CloseAgain, RemoveEntry, hookVars
  <2>3. CASE LoopStep
    BY <2>3 DEF LoopStep, RecvSlice, RecvTimeout, RecvDisconnected, PollHook, PollTake, Scrape,
                EofQuiescent, EofTerminal, hookVars
  <2>4. CASE UNCHANGED vars
    BY <2>4 DEF vars, hookVars, runtimeVars
  <2> QED BY <2>1, <2>2, <2>3, <2>4 DEF Next
<1> QED BY <1>3, <1>4, <1>5, <1>6

LEMMA NoEndStep == SessionInv /\ NoEndYet /\ [Next]_vars => NoEndYet'
<1> SUFFICES ASSUME SessionInv, NoEndYet, [Next]_vars, agent' # "gone" PROVE NoEndYet'
  BY DEF NoEndYet
<1> USE DEF NoEndYet
<1>1. ASSUME UNCHANGED <<hookVars, hooks_active, status>>, agent # "gone", Steady' => Steady
      PROVE  NoEndYet'
  BY <1>1 DEF hookVars, Alive
<1>2. CASE AgentStep
  <2>1. ASSUME NEW a \in Phases \ {"gone"}, NEW b, NEW e \in TurnEvents, AgentMoves(a, b, e)
        PROVE  NoEndYet'
    <3>1. CASE hooks_active
      <4>1. PICK p \in Sidecars : Fire(p, e)
        BY <2>1, <3>1 DEF AgentMoves
      <4>2. \A q \in Sidecars : Alive(q)' => sidecar'[q].event \in TurnEvents
        BY <2>1, <4>1 DEF AgentMoves, Fire, Alive, SessionInv, HookInv, HookTypeOK
      <4> QED BY <2>1, <4>1, <4>2 DEF AgentMoves, Fire, Steady
    <3>2. CASE ~hooks_active
      BY <2>1, <3>2, <1>1 DEF AgentMoves, Steady
    <3> QED BY <3>1, <3>2
  <2>2. CASE AgentAnswered
    BY <2>2, <1>1 DEF AgentAnswered, Steady
  <2>3. ~AgentEnd /\ ~AgentDies
    BY DEF AgentEnd, AgentMoves, AgentDies
  <2> QED BY <1>2, <2>1, <2>2, <2>3 DEF AgentStep, AgentSubmit, AgentStop, AgentAsk, TurnEvents, Phases
<1>3. CASE SidecarStep
  <2>1. PICK p \in Sidecars : SidecarRead(p) \/ SidecarWrite(p) \/ SidecarFails(p)
    BY <1>3 DEF SidecarStep
  <2>2. \A q \in Sidecars : Alive(q)' => Alive(q) /\ sidecar'[q].event = sidecar[q].event
    BY <2>1 DEF SidecarRead, SidecarWrite, SidecarFails, Alive, Gone, SessionInv, HookInv, HookTypeOK
  <2>3. file' = file \/ (Alive(p) /\ file'.event = sidecar[p].event)
    <3>1. CASE SidecarRead(p) \/ SidecarFails(p)
      BY <3>1 DEF SidecarRead, SidecarFails
    <3>2. CASE SidecarWrite(p)
      BY <3>2 DEF SidecarWrite, Alive
    <3> QED BY <2>1, <3>1, <3>2
  <2>4. UNCHANGED <<agent, hooks_active, status, loop>>
    BY <1>3 DEF SidecarStep, runtimeVars
  <2> QED BY <2>2, <2>3, <2>4 DEF Steady
<1>4. CASE PollHook
  <2>1. UNCHANGED <<agent, hooks_active, sidecar, file>> /\ loop = "hook"
    BY <1>4 DEF PollHook, PollTake, hookVars
  <2>2. hooks_active /\ Steady' => status' \notin Terminal
    <3>1. hooks_active /\ status # "Absent" => status \in AgentStatuses \ Terminal
      BY <2>1, <1>4 DEF Steady, SessionInv, TypeOK
    <3>2. CASE PollTake /\ apply_observed(event_to_observed(file.event))
      <4>1. file.event \in TurnEvents
        BY <2>1, <3>2 DEF PollTake, Fresh, SessionInv, HookInv, HookTypeOK, FileHistory
      <4> QED BY <3>1, <3>2, <4>1 DEF apply_observed, event_to_observed, TurnEvents, transition,
                                      AgentStatuses, Terminal, Steady
    <3>3. CASE UNCHANGED status
      BY <2>1, <3>1, <3>3 DEF Steady
    <3> QED BY <1>4, <3>2, <3>3 DEF PollHook
  <2> QED BY <2>1, <2>2 DEF Alive
<1>5. CASE Scrape
  <2>1. UNCHANGED <<agent, hooks_active, sidecar, file>> /\ loop = "scrape"
    BY <1>5 DEF Scrape, hookVars
  <2>2. hooks_active /\ status' # "Absent" => status' \notin Terminal
    <3>1. hooks_active => status \in (AgentStatuses \cup {"Absent"}) \ Terminal /\ kind = "claude"
      BY <2>1 DEF Steady, SessionInv, TypeOK, RunnerFacts, Terminal
    <3> DEFINE o == detect_status(kind, Signal(window', active, "none", idle'))
    <3>2. hooks_active => o \in {"NeedsInput", "Ready", "Working"}
      BY <3>1 DEF detect_status, detect_claude, Signal
    <3>3. UNCHANGED status \/ apply_observed(o)
      BY <1>5 DEF Scrape, emit_scraping_guarded
    <3> HIDE DEF o
    <3> QED BY <3>1, <3>2, <3>3 DEF apply_observed, transition, AgentStatuses, Terminal
  <2> QED BY <2>1, <2>2 DEF Alive, Steady
<1>6. CASE RecvSlice \/ RecvTimeout \/ RecvDisconnected
  BY <1>1, <1>6 DEF RecvSlice, RecvTimeout, RecvDisconnected, Steady
<1>7. CASE EofQuiescent \/ EofTerminal
  BY <1>7 DEF EofQuiescent, EofTerminal, Steady, hookVars, Alive
<1>8. CASE ReadStep \/ CloseStop
  BY <1>1, <1>8 DEF ReadStep, ReadCheckStop, ReadSlice, ReadEof, CloseStop, Steady
<1>9. ~CloseKill /\ ~CloseRemove
  BY DEF CloseKill, AgentDies, CloseRemove, RemoveEntry
<1>11. CASE CloseAgain
  <2>1. status' = "Absent" /\ UNCHANGED <<hookVars, agent>>
    BY <1>11 DEF CloseAgain, RemoveEntry
  <2> QED BY <2>1 DEF Steady, hookVars, Alive
<1>10. CASE UNCHANGED vars
  BY <1>1, <1>10 DEF vars, runtimeVars, Steady
<1> QED BY <1>2, <1>3, <1>4, <1>5, <1>6, <1>7, <1>8, <1>9, <1>10, <1>11 DEF Next, LoopStep, CloseStep

\* Whatever became of the hooks before, and however sidecars overlapped or failed: a
\* hooked session whose newest event is in the file and was heard shows what the agent
\* is doing, Idle at its prompt, Running in a turn.
THEOREM CaughtUpIsTrue == Spec => []CaughtUpTellsTruth
<1> DEFINE Inv == SessionInv /\ HeardIsLast /\ PromptAfterStop /\ NoEndYet
<1>1. Init => Inv
  <2> SUFFICES ASSUME Init PROVE Inv
    OBVIOUS
  <2>1. /\ \A q \in Sidecars : ~Alive(q)
        /\ fired = 0 /\ file.id = 0 /\ status \notin Terminal
    BY DEF Init, HookInit, Alive, Gone, NoFile, Terminal
  <2>2. HeardIsLast /\ PromptAfterStop /\ NoEndYet
    BY <2>1 DEF HeardIsLast, PromptAfterStop, NoEndYet
  <2> QED BY <2>2, InitInv
<1>2. Inv /\ [Next]_vars => Inv'
  <2> SUFFICES ASSUME Inv, [Next]_vars PROVE Inv'
    OBVIOUS
  <2>1. SessionInv' /\ NoEndYet' /\ PromptAfterStop'
    BY NextInv, NoEndStep, PromptStep
  <2>2. HeardIsLast'
    BY HeardStep, StepIsHookStep DEF SessionInv
  <2> QED BY <2>1, <2>2
<1>3. Inv => CaughtUpTellsTruth
  <2> SUFFICES ASSUME Inv, hooks_active, Steady, NewestWritten, got[file.id] = 1, agent # "gone"
               PROVE  /\ agent = "prompt" => status = "Idle"
                      /\ agent = "turn" /\ last_hook = "Submit" => status = "Running"
    BY DEF CaughtUpTellsTruth
  <2>1. status \notin Terminal
    BY DEF NoEndYet
  <2>2. fired > 0 /\ file.id = fired /\ file.id # 0
    BY DEF NewestWritten, SessionInv, HookInv, HookTypeOK, Counters
  <2>3. last_hook = file.event
    BY <2>2 DEF HeardIsLast
  <2>4. agent = "prompt" => last_hook = "Stop"
    BY <2>2, <2>3 DEF PromptAfterStop, NewestIs
  <2> QED BY <2>1, <2>4 DEF SessionInv, HookVerdictStands
<1> QED BY <1>1, <1>2, <1>3, PTL DEF Spec
=============================================================================

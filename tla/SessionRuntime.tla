-------------------------- MODULE SessionRuntime ---------------------------
(***************************************************************************)
(* One live session: the agent process, the PTY read thread, the signal    *)
(* thread running run_signal_loop, the hook channel, the session's entry   *)
(* in the SessionRegistry, and close_session.                              *)
(*                                                                         *)
(*   agent --bytes--> read thread --bounded queue--> signal loop --> status *)
(*   agent --hook--> sidecar --state file--> signal loop                   *)
(*                                                                         *)
(* The signal loop is the only writer of the status.  close_session joins  *)
(* it (through the read thread) before it removes the entry, a second      *)
(* close_session of the session does not.                                  *)
(***************************************************************************)
EXTENDS HookChannel, Sequences

CONSTANT SignalCap  \* SIGNAL_CHANNEL_CAP: slices the signal queue holds

ASSUME SignalCapAssumption == SignalCap \in Nat \ {0}

VARIABLES
  kind,          \* the runner of this session
  hooks_active,  \* were hooks provisioned, and is there a runtime directory?
  agent,     \* what the agent process is really doing
  reader,    \* the read thread: about to test stop, blocked in read, finished
  queue,     \* the signal channel: slices, as the patterns each contains
  stop,      \* PtyState.stop
  loop,      \* the signal loop: where it is
  slice,     \* the slice this iteration ingests; empty between iterations
  active,    \* is this iteration an Ingest?
  window,    \* patterns in the producer's rolling window
  idle,      \* a generic session's quiescent ticks since the last byte, capped at
             \* IdleTimeout; Claude's detection does not look at them
  status     \* the registry entry's status, "Absent" once removed

runtimeVars == <<kind, hooks_active, agent, reader, queue, stop, loop, slice, active,
                 window, idle, status>>
vars == <<hookVars, runtimeVars>>

Phases == {"prompt", "turn", "asking", "gone"}
LoopStates == {"recv", "hook", "scrape", "eof", "exit", "done"}
Slices == SUBSET Patterns

TypeOK ==
  /\ HookTypeOK
  /\ kind \in AgentKinds
  /\ hooks_active \in BOOLEAN
  /\ agent \in Phases
  /\ reader \in {"check", "read", "done"}
  /\ queue \in Seq(Slices) /\ Len(queue) <= SignalCap
  /\ stop \in BOOLEAN
  /\ loop \in LoopStates
  /\ slice \in Slices
  /\ active \in BOOLEAN
  /\ window \in Slices
  /\ idle \in 0..IdleTimeout
  /\ status \in AgentStatuses \cup {"Absent"}

\* spawn_session has inserted the session as Starting and started the threads;
\* the agent boots at its prompt.
Init ==
  /\ HookInit
  /\ kind \in AgentKinds
  /\ hooks_active \in (IF kind = "claude" THEN BOOLEAN ELSE {FALSE})
  /\ agent = "prompt"
  /\ reader = "check"
  /\ queue = <<>>
  /\ stop = FALSE
  /\ loop = "recv"
  /\ slice = {}
  /\ active = FALSE
  /\ window = {}
  /\ idle = 0
  /\ status = "Starting"
----------------------------------------------------------------------------
(* The agent process (external).                                           *)

\* A turn of a provisioned agent moves from phase a to b and runs the hook
\* command registered for that event; an agent without hooks runs none.
AgentMoves(a, b, e) ==
  /\ agent = a
  /\ agent' = b
  /\ IF hooks_active THEN \E p \in Sidecars : Fire(p, e) /\ p = FreeSidecar ELSE UNCHANGED hookVars
  /\ UNCHANGED <<kind, hooks_active, reader, queue, stop, loop, slice, active, window, idle, status>>

AgentSubmit == AgentMoves("prompt", "turn", "Submit")
AgentStop == AgentMoves("turn", "prompt", "Stop")
AgentAsk == AgentMoves("turn", "asking", "Permission")

\* The user answers the permission prompt: no hook is registered for that.
AgentAnswered ==
  /\ agent = "asking"
  /\ agent' = "turn"
  /\ UNCHANGED <<hookVars, kind, hooks_active, reader, queue, stop, loop, slice, active,
                 window, idle, status>>

\* The agent exits in good order, running its SessionEnd hook.
AgentEnd == \E a \in Phases \ {"gone"} : AgentMoves(a, "gone", "SessionEnd")

\* The agent dies, or its child is killed by shutdown.
AgentDies ==
  /\ agent # "gone"
  /\ agent' = "gone"
  /\ UNCHANGED <<hookVars, kind, hooks_active, reader, queue, stop, loop, slice, active,
                 window, idle, status>>

SidecarStep ==
  /\ \E p \in Sidecars : SidecarRead(p) \/ SidecarWrite(p) \/ SidecarFails(p)
  /\ UNCHANGED runtimeVars
----------------------------------------------------------------------------
(* The PTY read thread.                                                    *)

ReadCheckStop ==
  /\ reader = "check"
  /\ reader' = IF stop THEN "done" ELSE "read"
  /\ UNCHANGED <<hookVars, kind, hooks_active, agent, queue, stop, loop, slice, active,
                 window, idle, status>>

\* Mutant: an unbounded channel.
signal_try_send_unbounded(s) == queue' = Append(queue, s)

\* signal_try_send: a full queue drops the newest slice and never blocks.
signal_try_send(s) ==
  queue' = IF Len(queue) < SignalCap THEN Append(queue, s) ELSE queue

\* read returns bytes; what the agent printed before it died is still readable.
\* s holds the patterns these bytes complete: READ_BUF is not above the window.
ReadSlice(s) ==
  /\ reader = "read"
  /\ signal_try_send(s)
  /\ reader' = "check"
  /\ UNCHANGED <<hookVars, kind, hooks_active, agent, stop, loop, slice, active, window, idle, status>>

\* Mutant: EOF is retried like an interrupted read.
ReadEof_retried ==
  /\ reader = "read"
  /\ agent = "gone"
  /\ reader' = "check"
  /\ UNCHANGED <<hookVars, kind, hooks_active, agent, queue, stop, loop, slice, active,
                 window, idle, status>>

\* read returns 0 or fails for good.
ReadEof ==
  /\ reader = "read"
  /\ agent = "gone"
  /\ reader' = "done"
  /\ UNCHANGED <<hookVars, kind, hooks_active, agent, queue, stop, loop, slice, active,
                 window, idle, status>>
----------------------------------------------------------------------------
(* The signal loop.                                                        *)

\* recv_timeout returns a buffered slice even after the sender is dropped.
RecvSlice ==
  /\ loop = "recv"
  /\ queue # <<>>
  /\ slice' = Head(queue)
  /\ queue' = Tail(queue)
  /\ active' = TRUE
  /\ loop' = "hook"
  /\ UNCHANGED <<hookVars, kind, hooks_active, agent, reader, stop, window, idle, status>>

RecvTimeout ==
  /\ loop = "recv"
  /\ queue = <<>>
  /\ reader # "done"
  /\ loop' = "hook"
  /\ UNCHANGED <<hookVars, kind, hooks_active, agent, reader, queue, stop, slice, active,
                 window, idle, status>>

RecvDisconnected ==
  /\ loop = "recv"
  /\ queue = <<>>
  /\ reader = "done"
  /\ loop' = "eof"
  /\ UNCHANGED <<hookVars, kind, hooks_active, agent, reader, queue, stop, slice, active,
                 window, idle, status>>

\* SessionRegistry::apply_observed, under its lock: an absent session stays absent.
apply_observed(observed) ==
  status' = IF status = "Absent" THEN "Absent" ELSE transition(status, observed)

\* emit_hook_if_present: the hook is polled before the PTY is looked at.
PollHook ==
  /\ loop = "hook"
  /\ loop' = "scrape"
  /\ \/ hooks_active /\ PollTake /\ apply_observed(event_to_observed(file.event))
     \/ (~hooks_active \/ ~Fresh) /\ UNCHANGED <<hookVars, status>>
  /\ UNCHANGED <<kind, hooks_active, agent, reader, queue, stop, slice, active, window, idle>>

Signal(patterns, is_active, exit_code, ticks) ==
  [text_window |-> patterns, is_active |-> is_active, exit_code |-> exit_code, idle |-> ticks]

\* Mutant: the gate lets a quiet tick end a turn.
emit_scraping_guarded_quiet_ends_turn(observed) ==
  IF hooks_active /\ Suppressed(status, observed) /\ <<status, observed>> # <<"Running", "Ready">>
  THEN UNCHANGED status
  ELSE apply_observed(observed)

\* Mutant: the gate lets a redraw start a turn.
emit_scraping_guarded_redraw_starts_turn(observed) ==
  IF hooks_active /\ Suppressed(status, observed) /\ observed # "Working"
  THEN UNCHANGED status
  ELSE apply_observed(observed)

\* Mutant: the gate lets dialog text left in the window re-pin AwaitingInput.
emit_scraping_guarded_scrapes_dialogs(observed) ==
  IF hooks_active /\ Suppressed(status, observed) /\ observed # "NeedsInput"
  THEN UNCHANGED status
  ELSE apply_observed(observed)

\* When hooks are active, a scraped observation of a transition hooks own is dropped.
emit_scraping_guarded(observed) ==
  IF hooks_active /\ Suppressed(status, observed)
  THEN UNCHANGED status
  ELSE apply_observed(observed)

\* The quiet time one tick on.
Later(ticks) == IF kind = "generic" /\ ticks < IdleTimeout THEN ticks + 1 ELSE ticks

\* ingest strips the escapes, appends what is left, and truncates from the front:
\* any part of the older text may still fit.
ingest(s) == \E kept \in SUBSET window : window' = s \cup kept

\* Ingest folds the slice into the window; Quiesce only advances the quiet time.
\* Both then observe the snapshot through the gate.
Scrape ==
  /\ loop = "scrape"
  /\ loop' = "recv"
  /\ IF active THEN ingest(slice) ELSE window' = window
  /\ idle' = IF active THEN 0 ELSE Later(idle)
  /\ emit_scraping_guarded(detect_status(kind, Signal(window', active, "none", idle')))
  /\ slice' = {}
  /\ active' = FALSE
  /\ UNCHANGED <<hookVars, kind, hooks_active, agent, reader, queue, stop>>

\* Mutant: the EOF arm goes straight to the exit code.
EofQuiescent_skipped ==
  /\ loop = "eof"
  /\ loop' = "exit"
  /\ UNCHANGED <<hookVars, kind, hooks_active, agent, reader, queue, stop, slice, active,
                 window, idle, status>>

\* EOF, first half: one quiescent snapshot, neither hook-polled nor gated, less
\* than a tick after the last one.
EofQuiescent ==
  /\ loop = "eof"
  /\ loop' = "exit"
  /\ \E ticks \in {idle, Later(idle)} :
       apply_observed(detect_status(kind, Signal(window, FALSE, "none", ticks)))
  /\ UNCHANGED <<hookVars, kind, hooks_active, agent, reader, queue, stop, slice, active,
                 window, idle>>

\* EOF, second half: the snapshot with the exit code, which the wiring in
\* spawn_session_threads always gives as 0.
EofTerminal ==
  /\ loop = "exit"
  /\ loop' = "done"
  /\ apply_observed(detect_status(kind, Signal(window, FALSE, "zero", idle)))
  /\ UNCHANGED <<hookVars, kind, hooks_active, agent, reader, queue, stop, slice, active,
                 window, idle>>

LoopStep ==
  \/ RecvSlice \/ RecvTimeout \/ RecvDisconnected
  \/ PollHook \/ Scrape
  \/ EofQuiescent \/ EofTerminal
----------------------------------------------------------------------------
(* close_session.                                                          *)

\* The first close_session takes the PtyState, and its shutdown latches stop...
CloseStop ==
  /\ ~stop
  /\ stop' = TRUE
  /\ UNCHANGED <<hookVars, kind, hooks_active, agent, reader, queue, loop, slice, active,
                 window, idle, status>>

\* ...and kills the child, whose PTY then reports EOF.
CloseKill == stop /\ AgentDies

RemoveEntry ==
  /\ status # "Absent"
  /\ status' = "Absent"
  /\ UNCHANGED <<hookVars, kind, hooks_active, agent, reader, queue, stop, loop, slice, active,
                 window, idle>>

\* shutdown joins the read thread, which joins the signal thread; the registry
\* entry goes last.
CloseRemove ==
  /\ stop
  /\ agent = "gone"
  /\ reader = "done"
  /\ loop = "done"
  /\ RemoveEntry

\* A second close_session finds no PtyState: there is nothing for it to kill or to
\* join, and the entry goes while the first is at it.
CloseAgain == stop /\ RemoveEntry
----------------------------------------------------------------------------
AgentStep == AgentSubmit \/ AgentStop \/ AgentAsk \/ AgentAnswered \/ AgentEnd \/ AgentDies

ReadStep == ReadCheckStop \/ (\E s \in Slices : ReadSlice(s)) \/ ReadEof

CloseStep == CloseStop \/ CloseKill \/ CloseRemove \/ CloseAgain

Next == AgentStep \/ SidecarStep \/ ReadStep \/ LoopStep \/ CloseStep

Spec == Init /\ [][Next]_vars

\* Sidecars run to completion, recv_timeout wakes the loop every QUIESCE, the
\* read thread is scheduled, the output left by a dead process is finite, so
\* EOF is read (strong fairness: slices may be read first), and a close that
\* began goes on.  The agent and the user owe nothing.
Fairness ==
  /\ \A p \in Sidecars : WF_vars((SidecarRead(p) \/ SidecarWrite(p)) /\ UNCHANGED runtimeVars)
  /\ WF_vars(LoopStep)
  /\ WF_vars(ReadCheckStop)
  /\ SF_vars(ReadEof)
  /\ WF_vars(CloseKill)
  /\ WF_vars(CloseRemove)

FairSpec == Spec /\ Fairness
----------------------------------------------------------------------------
\* The session is listed and its loop goes round.
Steady == loop \in {"recv", "hook", "scrape"} /\ status # "Absent"

\* While a hooked session lives, what the last consumed Submit or Stop said
\* stands: no redraw, quiet spell or leftover text overrides it until the next
\* hook (session_runtime.rs, the C1 and Working-bounce gates).
HookVerdictStands ==
  hooks_active /\ Steady =>
    /\ last_hook = "Stop" => status \in {"Idle"} \cup Terminal
    /\ last_hook = "Submit" => status \in {"Running"} \cup Terminal

\* A hooked session asks for input only on the word of a Permission hook that no
\* Submit or Stop has followed, never because a dialog's text lingers in the
\* window (the AwaitingInput gate).
DialogNeedsPermission ==
  hooks_active /\ Steady /\ status = "AwaitingInput" => last_hook \in {"Permission", "SessionEnd"}

\* When the signal loop has ended, the session is Completed, unless a Claude
\* window still shows dialog text (the EOF arm's fast-exit ordering).
ExitReachesTerminal ==
  loop = "done" /\ status # "Absent" /\ (kind = "claude" => "dialog" \notin window)
    => status \in Terminal

\* The statuses a session shows follow the domain model's arrows and end when it closes.
Feed == INSTANCE StatusLifecycle WITH shown <- status
FollowsLifecycle == Feed!Spec

\* The newest hook fired is in the state file: no sidecar lost or overtook it.
NewestWritten == fired > 0 /\ file.id = fired

\* Once the newest hook fired has been read, the status is what the agent is doing:
\* Idle at its prompt, Running in a turn no dialog has interrupted, whatever became
\* of the hooks before it (the hook-first order of the Ingest and Quiesce arms).
CaughtUpTellsTruth ==
  hooks_active /\ Steady /\ NewestWritten /\ got[file.id] = 1 =>
    /\ agent = "prompt" => status = "Idle"
    /\ agent = "turn" /\ last_hook = "Submit" => status = "Running"

\* A hooked agent that settles at its prompt is shown Idle and stays so, however
\* often its idle screen redraws (the stuck-Running fix), unless its Stop was lost
\* or hides behind the counter of an earlier hook.
SettledAtPrompt ==
  agent = "prompt" /\ ~stop /\ NewestWritten /\ (Fresh \/ got[file.id] = 1)
PromptSettles == hooks_active /\ <>[]SettledAtPrompt => <>[](status = "Idle")

\* A session ends: an agent process that is gone is noticed and its loop ends, and
\* a close that began removes the session and joins its threads, also when a second
\* close has taken the entry away from under the loop.
SessionEnds ==
  agent = "gone" \/ stop ~> loop = "done" /\ (stop => status = "Absent")
=============================================================================

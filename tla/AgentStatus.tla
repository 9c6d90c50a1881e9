---------------------------- MODULE AgentStatus ----------------------------
(***************************************************************************)
(* The pure part of agent supervision: the status of a session, what a     *)
(* runner can observe, the legal-transition policy, the two runners' status *)
(* detectors and the gate that keeps scraped observations away from the    *)
(* transitions hooks own.  Nothing here has state; SessionRuntime applies  *)
(* these operators inside the steps of the signal loop.                    *)
(***************************************************************************)
EXTENDS Naturals

CONSTANT IdleTimeout  \* quiescent ticks (of QUIESCE ms) after which a generic
                      \* session counts as finished

\* DEFAULT_GENERIC_IDLE_TIMEOUT_MS is 3000, QUIESCE 200: the timeout is longer
\* than one tick.
ASSUME IdleTimeoutAssumption == IdleTimeout \in Nat \ {0, 1}

AgentStatuses == {"Starting", "Idle", "Running", "AwaitingInput", "Completed", "Error"}

Terminal == {"Completed", "Error"}

Observations == {"Ready", "Working", "NeedsInput", "Finished", "Failed"}

HookEvents == {"Submit", "Stop", "Permission", "SessionEnd", "StopFailure"}

AgentKinds == {"claude", "generic"}

\* What the pattern tables can find in the rolling text window.
Patterns == {"dialog", "ready"}

\* An OutputSignal: the patterns its text window contains, whether bytes are
\* arriving, the exit code once known, and the quiet time in ticks.
ExitCodes == {"none", "zero", "nonzero"}
OutputSignals == [text_window : SUBSET Patterns, is_active : BOOLEAN,
                  exit_code : ExitCodes, idle : Nat]
----------------------------------------------------------------------------
\* Mutant: Finished reaches Completed from every live status.
transition_blanket_finish(current, observed) ==
  CASE current \in Terminal                                     -> current
    [] current \notin Terminal /\ observed = "Failed"           -> "Error"
    [] current \notin Terminal /\ observed = "Finished"         -> "Completed"
    [] current \in {"Starting", "Running", "AwaitingInput"} /\ observed = "Ready" -> "Idle"
    [] current \in {"Starting", "Idle", "AwaitingInput"} /\ observed = "Working" -> "Running"
    [] current = "Running" /\ observed = "NeedsInput"           -> "AwaitingInput"
    [] OTHER                                                    -> current

\* The legal-transition policy; an illegal observation leaves the status alone.
transition(current, observed) ==
  CASE current \in Terminal                                     -> current
    [] current \notin Terminal /\ observed = "Failed"           -> "Error"
    [] current \in {"Running", "Idle"} /\ observed = "Finished" -> "Completed"
    [] current \in {"Starting", "Running", "AwaitingInput"} /\ observed = "Ready" -> "Idle"
    [] current \in {"Starting", "Idle", "AwaitingInput"} /\ observed = "Working" -> "Running"
    [] current = "Running" /\ observed = "NeedsInput"           -> "AwaitingInput"
    [] OTHER                                                    -> current

event_to_observed(event) ==
  CASE event = "Submit"      -> "Working"
    [] event = "Stop"        -> "Ready"
    [] event = "Permission"  -> "NeedsInput"
    [] event = "SessionEnd"  -> "Finished"
    [] event = "StopFailure" -> "Failed"

ExitObserved(exit_code) == IF exit_code = "zero" THEN "Finished" ELSE "Failed"

\* ClaudeCodeRunner::detect_status: exit code, dialog text, ready text, activity.
detect_claude(signal) ==
  CASE signal.exit_code # "none"        -> ExitObserved(signal.exit_code)
    [] signal.exit_code = "none" /\ "dialog" \in signal.text_window -> "NeedsInput"
    [] signal.exit_code = "none" /\ signal.text_window = {"ready"}  -> "Ready"
    [] OTHER -> IF signal.is_active THEN "Working" ELSE "Ready"

\* GenericRunner::detect_status: exit code, activity, idle timeout.
detect_generic(signal) ==
  CASE signal.exit_code # "none"                      -> ExitObserved(signal.exit_code)
    [] signal.exit_code = "none" /\ signal.is_active  -> "Working"
    [] OTHER -> IF signal.idle >= IdleTimeout THEN "Finished" ELSE "Ready"

detect_status(kind, signal) ==
  IF kind = "claude" THEN detect_claude(signal) ELSE detect_generic(signal)

\* The (status, observation) pairs emit_scraping_guarded drops when hooks are active.
Suppressed(current, observed) ==
  \/ current = "Running" /\ observed = "Ready"
  \/ current \in {"Idle", "Starting"} /\ observed = "Working"
  \/ observed = "NeedsInput"
  \/ current = "AwaitingInput" /\ observed = "Ready"
=============================================================================

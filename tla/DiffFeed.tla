------------------------------ MODULE DiffFeed ------------------------------
(***************************************************************************)
(* The diff pipeline of one session and what triggers it: the debounced    *)
(* file watcher of a generic agent, or the poll loop over the document     *)
(* that a cooperative agent's spectty_diff upserts.                        *)
(*                                                                         *)
(*   edit --notify--> debounce thread ----------------.                    *)
(*   spectty_diff --> document --> poll loop --task--> run_once --> emit   *)
(*                                                                         *)
(* The watcher runs the pipeline on its own thread, one run after another; *)
(* each poll change runs it on a task of its own.  A diff is abstracted to *)
(* the version of the working tree it is of.                               *)
(***************************************************************************)
EXTENDS Naturals

CONSTANTS Trees,        \* the diffs the working tree can have, Clean among them
          Clean,        \* the empty diff
          Runners,      \* pipeline runs that can be under way at once
          MaxEdits,     \* bound on the edits of the working tree
          MaxTriggers,  \* bound on the spectty_diff calls
          GitMayFail    \* can git diff fail?

ASSUME DiffAssumption == /\ Clean \in Trees
                         /\ {"none", "error"} \cap Trees = {}
                         /\ MaxEdits \in Nat
                         /\ MaxTriggers \in Nat
                         /\ GitMayFail \in BOOLEAN

VARIABLES
  emits_diff_signals, \* the runner's capability: cooperative or generic
  tree,      \* the diff of the working tree now
  edits,     \* edits so far
  queued,    \* paths in the notify channel: workspace files, git's own files
  pending,   \* paths in the Debouncer
  watcher,   \* the debounce thread
  trigger,   \* the trigger document: the nonce of the newest spectty_diff
  bus,       \* the poll loop: stage, and the nonce its reader saw last
  runs,      \* the run_once calls: stage, and the diff each read
  in_flight, \* PipelineState.in_flight
  last,      \* PipelineState.last_hash and last_explanation
  failed,    \* did git fail in the newest run that asked it?
  emitted,   \* the explanation of the newest diff_updated
  stopping   \* PtyState::shutdown was called

vars == <<emits_diff_signals, tree, edits, queued, pending, watcher, trigger, bus, runs,
          in_flight, last, failed, emitted, stopping>>

Paths == {"file", "git"}
IdleRun == [at |-> "idle", diff |-> Clean]
RunStages == {"idle", "claim", "diff", "explain", "emit", "release"}
HoldsSlot == RunStages \ {"idle", "claim"}

DiffTypeOK ==
  /\ emits_diff_signals \in BOOLEAN
  /\ tree \in Trees
  /\ edits \in 0..MaxEdits
  /\ queued \subseteq Paths /\ pending \subseteq Paths
  /\ watcher \in {"recv", "run", "final", "done"}
  /\ trigger \in 0..MaxTriggers
  /\ bus \in [at : {"wait", "emit", "done"}, seen : 0..MaxTriggers]
  /\ runs \in [Runners -> [at : RunStages, diff : Trees]]
  /\ in_flight = (\E r \in Runners : runs[r].at \in HoldsSlot)
  /\ last \in Trees \cup {"none"}
  /\ failed \in BOOLEAN
  /\ emitted \in Trees \cup {"none"}
  /\ stopping \in BOOLEAN

\* A session comes up over a working tree in any state.
Init ==
  /\ emits_diff_signals \in BOOLEAN
  /\ tree \in Trees
  /\ edits = 0
  /\ queued = {} /\ pending = {}
  /\ watcher = IF emits_diff_signals THEN "done" ELSE "recv"
  /\ trigger = 0
  /\ bus = [at |-> "wait", seen |-> 0]
  /\ runs = [r \in Runners |-> IdleRun]
  /\ in_flight = FALSE
  /\ last = "none"
  /\ failed = FALSE
  /\ emitted = "none"
  /\ stopping = FALSE
----------------------------------------------------------------------------
(* The workspace and the agent (external).                                 *)

\* notify forwards an event to a watch that is there.
Notified(path) == IF emits_diff_signals THEN queued ELSE queued \cup {path}

Edit(t) ==
  /\ edits < MaxEdits
  /\ t # tree
  /\ edits' = edits + 1
  /\ tree' = t
  /\ queued' = Notified("file")
  /\ UNCHANGED <<emits_diff_signals, pending, watcher, trigger, bus, runs, in_flight,
                 last, failed, emitted, stopping>>

\* spectty_diff upserts a document with a fresh nonce; a failed upsert triggers
\* nothing and is left out.
Trigger ==
  /\ emits_diff_signals
  /\ trigger < MaxTriggers
  /\ trigger' = trigger + 1
  /\ UNCHANGED <<emits_diff_signals, tree, edits, queued, pending, watcher, bus, runs, in_flight,
                 last, failed, emitted, stopping>>
----------------------------------------------------------------------------
(* DiffPipeline::run_once, in the thread that calls it.                    *)

StartRun == \E r \in Runners : /\ runs[r].at = "idle"
                               /\ runs' = [runs EXCEPT ![r].at = "claim"]
AllIdle == \A r \in Runners : runs[r].at = "idle"

RunAt(r, from, to) == runs[r].at = from /\ runs' = [runs EXCEPT ![r].at = to]

\* Mutant: a run does not look whether another one is under way.
Claim_unguarded(r) ==
  /\ RunAt(r, "claim", "diff")
  /\ in_flight' = TRUE
  /\ UNCHANGED <<emits_diff_signals, tree, edits, queued, pending, watcher, trigger, bus,
                 last, failed, emitted, stopping>>

\* The in-flight guard: a second run ends at once and its trigger is spent.
Claim(r) ==
  /\ \/ in_flight /\ RunAt(r, "claim", "idle")
     \/ ~in_flight /\ RunAt(r, "claim", "diff")
  /\ in_flight' = TRUE
  /\ UNCHANGED <<emits_diff_signals, tree, edits, queued, pending, watcher, trigger, bus,
                 last, failed, emitted, stopping>>

\* GitCliAdapter::diff_head, against HEAD or the empty tree: git cannot be started,
\* ends with an error, or prints the diff.
diff_head == {tree} \cup (IF GitMayFail THEN {"error"} ELSE {})

\* An error or a hash like the last one ends the run; the empty diff is cached
\* and not emitted.  Git touches its own files when it looks.
ReadDiff(r) ==
  /\ runs[r].at = "diff"
  /\ queued' = Notified("git")
  /\ \E diff \in diff_head :
       /\ failed' = (diff = "error")
       /\ IF diff = "error"
          THEN RunAt(r, "diff", "release") /\ UNCHANGED last
          ELSE /\ runs' = [runs EXCEPT ![r] =
                            [diff |-> diff, at |-> IF diff \in {Clean, last} THEN "release" ELSE "explain"]]
               /\ last' = IF diff = Clean THEN Clean ELSE last
  /\ UNCHANGED <<emits_diff_signals, tree, edits, pending, watcher, trigger, bus,
                 in_flight, emitted, stopping>>

\* Mutant: the hash of an explained diff is not kept.
Explain_keeps_hash(r) ==
  /\ RunAt(r, "explain", "emit")
  /\ UNCHANGED <<emits_diff_signals, tree, edits, queued, pending, watcher, trigger, bus,
                 in_flight, last, failed, emitted, stopping>>

\* The explainer builds its text and pushes it to VibeLens, which may take
\* seconds; it never fails.  Hash and explanation are then cached...
Explain(r) ==
  /\ RunAt(r, "explain", "emit")
  /\ last' = runs[r].diff
  /\ UNCHANGED <<emits_diff_signals, tree, edits, queued, pending, watcher, trigger, bus,
                 in_flight, failed, emitted, stopping>>

\* ... and diff_updated is emitted.
Emit(r) ==
  /\ RunAt(r, "emit", "release")
  /\ emitted' = runs[r].diff
  /\ UNCHANGED <<emits_diff_signals, tree, edits, queued, pending, watcher, trigger, bus,
                 in_flight, last, failed, stopping>>

Release(r) ==
  /\ runs[r].at = "release"
  /\ runs' = [runs EXCEPT ![r] = IdleRun]
  /\ in_flight' = FALSE
  /\ UNCHANGED <<emits_diff_signals, tree, edits, queued, pending, watcher, trigger, bus,
                 last, failed, emitted, stopping>>
----------------------------------------------------------------------------
(* The watcher's debounce thread.                                          *)

\* recv_timeout returns paths as they come.
WatchRecv ==
  /\ watcher = "recv"
  /\ queued # {}
  /\ pending' = pending \cup queued
  /\ queued' = {}
  /\ UNCHANGED <<emits_diff_signals, tree, edits, watcher, trigger, bus, runs, in_flight,
                 last, failed, emitted, stopping>>

\* Mutant: git's own files count.
batch_should_trigger_any(paths) == paths # {}

\* Does a batch hold anything but git's own files?
batch_should_trigger(paths) == "file" \in paths

\* A batch is flushed: into a run, which the thread stays in, or into nothing.
FlushTo(running, otherwise) ==
  /\ pending' = {}
  /\ IF batch_should_trigger(pending)
     THEN StartRun /\ watcher' = running
     ELSE UNCHANGED runs /\ watcher' = otherwise

\* The window passes without another path.
WatchFlush ==
  /\ watcher = "recv"
  /\ queued = {} /\ pending # {}
  /\ FlushTo("run", "recv")
  /\ UNCHANGED <<emits_diff_signals, tree, edits, queued, trigger, bus, in_flight, last,
                 failed, emitted, stopping>>

\* The guard is dropped: what the debouncer holds is flushed, what is still in
\* the channel is not read.
WatchStop ==
  /\ watcher = "recv"
  /\ stopping
  /\ FlushTo("final", "done")
  /\ UNCHANGED <<emits_diff_signals, tree, edits, queued, trigger, bus, in_flight, last,
                 failed, emitted, stopping>>

\* on_change returns.
WatchReturn ==
  /\ watcher \in {"run", "final"}
  /\ AllIdle
  /\ watcher' = IF watcher = "run" THEN "recv" ELSE "done"
  /\ UNCHANGED <<emits_diff_signals, tree, edits, queued, pending, trigger, bus, runs,
                 in_flight, last, failed, emitted, stopping>>
----------------------------------------------------------------------------
(* The poll loop over the trigger document, which runs for every session.  *)

\* A tick that finds another nonce than the last; a failed get does nothing.
BusTick ==
  /\ bus.at = "wait"
  /\ trigger # bus.seen
  /\ bus' = [at |-> "emit", seen |-> trigger]
  /\ UNCHANGED <<emits_diff_signals, tree, edits, queued, pending, watcher, trigger, runs,
                 in_flight, last, failed, emitted, stopping>>

\* The change starts a run on a task nobody joins.
BusEmit ==
  /\ bus.at = "emit"
  /\ StartRun
  /\ bus' = [bus EXCEPT !.at = "wait"]
  /\ UNCHANGED <<emits_diff_signals, tree, edits, queued, pending, watcher, trigger,
                 in_flight, last, failed, emitted, stopping>>

\* Mutant: the shutdown is heard only when a tick finds a change.
BusStop_on_change ==
  /\ bus.at = "emit"
  /\ stopping
  /\ bus' = [bus EXCEPT !.at = "done"]
  /\ UNCHANGED <<emits_diff_signals, tree, edits, queued, pending, watcher, trigger, runs,
                 in_flight, last, failed, emitted, stopping>>

\* The shutdown is heard between ticks.
BusStop ==
  /\ bus.at = "wait"
  /\ stopping
  /\ bus' = [bus EXCEPT !.at = "done"]
  /\ UNCHANGED <<emits_diff_signals, tree, edits, queued, pending, watcher, trigger, runs,
                 in_flight, last, failed, emitted, stopping>>

\* PtyState::shutdown sends the shutdown and drops the watch guard.
Shutdown ==
  /\ ~stopping
  /\ stopping' = TRUE
  /\ UNCHANGED <<emits_diff_signals, tree, edits, queued, pending, watcher, trigger, bus,
                 runs, in_flight, last, failed, emitted>>
----------------------------------------------------------------------------
RunStep(r) == Claim(r) \/ ReadDiff(r) \/ Explain(r) \/ Emit(r) \/ Release(r)
WatchStep == WatchRecv \/ WatchFlush \/ WatchStop \/ WatchReturn

Next ==
  \/ \E t \in Trees : Edit(t)
  \/ Trigger \/ Shutdown
  \/ \E r \in Runners : RunStep(r)
  \/ WatchStep
  \/ BusTick \/ BusEmit \/ BusStop

Spec == Init /\ [][Next]_vars

\* Threads and tasks are scheduled, the loop ticks, and a shutdown that was sent
\* is heard; edits, calls and the close are nobody's duty.
Fairness ==
  /\ \A r \in Runners : WF_vars(RunStep(r))
  /\ WF_vars(WatchRecv \/ WatchFlush \/ WatchReturn)
  /\ WF_vars(WatchStop)
  /\ WF_vars(BusTick \/ BusEmit)
  /\ WF_vars(BusStop)

FairSpec == Spec /\ Fairness
----------------------------------------------------------------------------
\* What the panel was sent last is the explanation the pipeline caches, or the
\* tree has become clean since, which is not announced (run_once's in-flight slot is held
\* until after the emit, so two runs never emit in the other order).
EmitsInOrder ==
  /\ DiffTypeOK
  /\ (\A r \in Runners : runs[r].at # "emit") => last = emitted \/ last = Clean

\* A generic agent's edits are explained: once the tree stays as it is, its
\* explanation is what the pipeline caches, unless git failed the last run.
EditsAreExplained ==
  \A t \in Trees :
    <>[](~emits_diff_signals /\ edits > 0 /\ tree = t /\ ~stopping) => <>[](last = t \/ failed)

\* The pipeline comes to rest when the tree does: what git does to its own files
\* while it looks triggers no further look (is_triggering_path's self-trigger loop).
QuietWhenUnchanged == <>[]AllIdle

\* A close ends the poll loop and the watcher, whose last batch is run by then.
LoopsEnd == stopping ~> bus.at = "done" /\ watcher = "done"
=============================================================================

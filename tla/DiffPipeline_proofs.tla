------------------------- MODULE DiffPipeline_proofs -------------------------
(***************************************************************************)
(* Proofs about the diff pipeline and its panel, for any number of trees,  *)
(* runs under way and triggers: the slot admits one run at a time, so what *)
(* the panel is sent stays in step with what the pipeline caches, and the  *)
(* panel, which only observes, does not disturb that.                      *)
(***************************************************************************)
EXTENDS DiffPanel, FiniteSetTheorems, TLAPS

\* PipelineState.in_flight is a mutex: one run holds the slot.
OneHolder ==
  \A r, q \in Runners : runs[r].at \in HoldsSlot /\ runs[q].at \in HoldsSlot => r = q

\* A run that is about to emit has cached what it will emit.
EmitsCached == \A r \in Runners : runs[r].at = "emit" => last = runs[r].diff

\* The inductive invariant.
DiffInv ==
  /\ DiffTypeOK
  /\ OneHolder
  /\ EmitsCached
  /\ (\A r \in Runners : runs[r].at # "emit") => last = emitted \/ last = Clean

LEMMA InitInv == Init => DiffInv
<1> SUFFICES ASSUME Init PROVE DiffInv
  OBVIOUS
<1>1. \A r \in Runners : runs[r].at = "idle"
  BY DEF Init, IdleRun
<1>2. runs \in [Runners -> [at : RunStages, diff : Trees]]
  BY DiffAssumption DEF Init, IdleRun, RunStages
<1>3. in_flight = (\E r \in Runners : runs[r].at \in HoldsSlot)
  BY <1>1 DEF Init, HoldsSlot
<1>4. /\ edits \in 0..MaxEdits /\ trigger \in 0..MaxTriggers
      /\ bus \in [at : {"wait", "emit", "done"}, seen : 0..MaxTriggers]
  BY DiffAssumption DEF Init
<1>5. DiffTypeOK
  BY DiffAssumption, <1>2, <1>3, <1>4 DEF Init, DiffTypeOK
<1> QED
  BY <1>1, <1>5 DEF Init, DiffInv, OneHolder, EmitsCached, HoldsSlot

\* Run r alone moves: to `to`, with `diff`.
RunIs(r, to, diff) ==
  /\ runs' \in [Runners -> [at : RunStages, diff : Trees]]
  /\ runs'[r].at = to /\ runs'[r].diff = diff
  /\ \A q \in Runners \ {r} : runs'[q] = runs[q]

LEMMA RunAtIs ==
  ASSUME DiffTypeOK, NEW r \in Runners, NEW from, NEW to \in RunStages, RunAt(r, from, to)
  PROVE  RunIs(r, to, runs[r].diff)
BY DEF DiffTypeOK, RunAt, RunIs

LEMMA ClaimInv ==
  ASSUME DiffInv, NEW r \in Runners, Claim(r)
  PROVE  DiffInv'
<1> USE DEF DiffInv
<1>1. /\ runs[r].at = "claim" /\ in_flight' = TRUE
      /\ \/ in_flight /\ RunIs(r, "idle", runs[r].diff)
         \/ ~in_flight /\ RunIs(r, "diff", runs[r].diff)
      /\ UNCHANGED <<emits_diff_signals, tree, edits, queued, pending, watcher, trigger, bus,
                     last, failed, emitted, stopping>>
  BY RunAtIs DEF Claim, RunAt, RunStages
<1>2. in_flight' = (\E q \in Runners : runs'[q].at \in HoldsSlot)
  BY <1>1 DEF DiffTypeOK, RunIs, HoldsSlot, RunStages
<1>3. DiffTypeOK'
  BY <1>1, <1>2 DEF DiffTypeOK, RunIs
<1>4. OneHolder'
  BY <1>1 DEF DiffTypeOK, OneHolder, RunIs, HoldsSlot, RunStages
<1>5. EmitsCached'
  BY <1>1 DEF EmitsCached, RunIs
<1>6. ((\A q \in Runners : runs[q].at # "emit") => last = emitted \/ last = Clean)'
  BY <1>1 DEF RunIs
<1> QED
  BY <1>3, <1>4, <1>5, <1>6

\* A step of the run that holds the slot, which keeps it.
LEMMA HolderInv ==
  ASSUME DiffInv, NEW r \in Runners, ReadDiff(r) \/ Explain(r) \/ Emit(r)
  PROVE  DiffInv'
<1> USE DiffAssumption DEF DiffInv
<1>1. runs[r].at \in {"diff", "explain", "emit"} /\ in_flight
  BY DEF ReadDiff, Explain, Emit, RunAt, DiffTypeOK, HoldsSlot, RunStages
<1>2. \A q \in Runners \ {r} : runs[q].at \notin HoldsSlot
  BY <1>1 DEF OneHolder, HoldsSlot, RunStages
<1>3. \E to \in {"explain", "emit", "release"}, diff \in Trees :
        /\ RunIs(r, to, diff)
        /\ to = "emit" => last' = diff
        /\ to # "emit" => last' = emitted' \/ last' = Clean
  <2>1. CASE ReadDiff(r)
    <3>1. CASE runs' = [runs EXCEPT ![r].at = "release"] /\ last' = last
      <4>1. RunIs(r, "release", runs[r].diff)
        BY <3>1 DEF DiffTypeOK, RunIs, RunStages
      <4> QED
        BY <1>1, <1>2, <2>1, <3>1, <4>1 DEF ReadDiff, DiffTypeOK, HoldsSlot, RunStages
    <3>2. ASSUME NEW diff \in Trees, NEW to \in {"explain", "release"},
                 runs' = [runs EXCEPT ![r] = [diff |-> diff, at |-> to]],
                 last' = last \/ last' = Clean
          PROVE  RunIs(r, to, diff) /\ (last' = emitted' \/ last' = Clean)
      <4>1. RunIs(r, to, diff)
        BY <3>2 DEF DiffTypeOK, RunIs, RunStages
      <4> QED
        BY <1>1, <1>2, <2>1, <3>2, <4>1 DEF ReadDiff, HoldsSlot, RunStages
    <3>3. PICK diff \in diff_head :
            IF diff = "error"
            THEN runs' = [runs EXCEPT ![r].at = "release"] /\ last' = last
            ELSE /\ runs' = [runs EXCEPT ![r] = [diff |-> diff,
                      at |-> IF diff \in {Clean, last} THEN "release" ELSE "explain"]]
                 /\ last' = IF diff = Clean THEN Clean ELSE last
      BY <2>1 DEF ReadDiff, RunAt
    <3>4. diff # "error" => diff \in Trees
      BY DEF diff_head, DiffTypeOK
    <3>5. CASE diff = "error"
      BY <3>1, <3>3, <3>5, <1>1, <1>2, <2>1 DEF ReadDiff, DiffTypeOK, RunIs, HoldsSlot, RunStages
    <3>6. CASE diff # "error"
      BY <3>2, <3>3, <3>4, <3>6
    <3> QED
      BY <3>5, <3>6
  <2>2. CASE Explain(r)
    <3>1. RunIs(r, "emit", runs[r].diff)
      BY <2>2, RunAtIs DEF Explain, RunStages
    <3> QED
      BY <2>2, <3>1 DEF Explain, DiffTypeOK
  <2>3. CASE Emit(r)
    <3>1. RunIs(r, "release", runs[r].diff) /\ runs[r].at = "emit"
      BY <2>3, RunAtIs DEF Emit, RunAt, RunStages
    <3> QED
      BY <2>3, <3>1 DEF Emit, EmitsCached, DiffTypeOK
  <2> QED
    BY <2>1, <2>2, <2>3
<1>4. PICK to \in {"explain", "emit", "release"}, diff \in Trees :
        /\ RunIs(r, to, diff)
        /\ to = "emit" => last' = diff
        /\ to # "emit" => last' = emitted' \/ last' = Clean
  BY <1>3
<1>5. /\ UNCHANGED <<emits_diff_signals, tree, edits, pending, watcher, trigger, bus, in_flight,
                     stopping>>
      /\ queued' \subseteq Paths /\ failed' \in BOOLEAN
      /\ last' \in Trees \cup {"none"} /\ emitted' \in Trees \cup {"none"}
  BY DEF DiffTypeOK, ReadDiff, Explain, Emit, Notified, Paths
<1>6. in_flight' = (\E q \in Runners : runs'[q].at \in HoldsSlot)
  BY <1>1, <1>4, <1>5 DEF DiffTypeOK, RunIs, HoldsSlot, RunStages
<1>7. DiffTypeOK'
  BY <1>4, <1>5, <1>6 DEF DiffTypeOK, RunIs
<1>8. OneHolder'
  BY <1>2, <1>4 DEF OneHolder, RunIs
<1>9. EmitsCached'
  BY <1>2, <1>4 DEF EmitsCached, RunIs, HoldsSlot, RunStages
<1>10. ((\A q \in Runners : runs[q].at # "emit") => last = emitted \/ last = Clean)'
  BY <1>4 DEF RunIs
<1> QED
  BY <1>7, <1>8, <1>9, <1>10

LEMMA ReleaseInv ==
  ASSUME DiffInv, NEW r \in Runners, Release(r)
  PROVE  DiffInv'
<1> USE DiffAssumption DEF DiffInv
<1>1. /\ runs[r].at = "release" /\ in_flight' = FALSE /\ RunIs(r, "idle", Clean)
      /\ UNCHANGED <<emits_diff_signals, tree, edits, queued, pending, watcher, trigger, bus,
                     last, failed, emitted, stopping>>
  BY DEF Release, DiffTypeOK, RunIs, IdleRun, RunStages
<1>2. \A q \in Runners \ {r} : runs[q].at \notin HoldsSlot
  BY <1>1 DEF OneHolder, HoldsSlot, RunStages
<1>3. in_flight' = (\E q \in Runners : runs'[q].at \in HoldsSlot)
  BY <1>1, <1>2 DEF RunIs, HoldsSlot, RunStages
<1>4. DiffTypeOK'
  BY <1>1, <1>3 DEF DiffTypeOK, RunIs
<1>5. OneHolder'
  BY <1>1, <1>2 DEF OneHolder, RunIs
<1>6. EmitsCached'
  BY <1>1, <1>2 DEF EmitsCached, RunIs
<1>7. ((\A q \in Runners : runs[q].at # "emit") => last = emitted \/ last = Clean)'
  BY <1>1 DEF RunIs
<1> QED
  BY <1>4, <1>5, <1>6, <1>7
-----------------------------------------------------------------------------
\* A run that starts is not in the slot yet.
LEMMA StartKeeps ==
  ASSUME DiffInv, StartRun \/ runs' = runs, UNCHANGED <<last, in_flight, emitted>>
  PROVE  /\ runs' \in [Runners -> [at : RunStages, diff : Trees]]
         /\ in_flight' = (\E q \in Runners : runs'[q].at \in HoldsSlot)
         /\ OneHolder' /\ EmitsCached'
         /\ ((\A q \in Runners : runs[q].at # "emit") => last = emitted \/ last = Clean)'
<1> USE DEF DiffInv
<1>1. CASE StartRun
  <2>1. PICK r \in Runners : runs[r].at = "idle" /\ runs' = [runs EXCEPT ![r].at = "claim"]
    BY <1>1 DEF StartRun
  <2>2. RunIs(r, "claim", runs[r].diff)
    BY <2>1 DEF DiffTypeOK, RunIs, RunStages
  <2>3. in_flight' = (\E q \in Runners : runs'[q].at \in HoldsSlot)
    BY <2>1, <2>2 DEF DiffTypeOK, RunIs, HoldsSlot
  <2>4. OneHolder' /\ EmitsCached'
    BY <2>2 DEF OneHolder, EmitsCached, RunIs, HoldsSlot
  <2>5. ((\A q \in Runners : runs[q].at # "emit") => last = emitted \/ last = Clean)'
    BY <2>1, <2>2 DEF RunIs
  <2> QED
    BY <2>2, <2>3, <2>4, <2>5 DEF RunIs
<1>2. CASE runs' = runs
  BY <1>2 DEF DiffTypeOK, OneHolder, EmitsCached
<1> QED
  BY <1>1, <1>2

\* The triggers, the watcher and the poll loop start runs at most.
TriggerStep ==
  \/ \E t \in Trees : Edit(t)
  \/ Trigger \/ Shutdown \/ WatchStep \/ BusTick \/ BusEmit \/ BusStop
  \/ UNCHANGED vars

LEMMA TriggerInv == DiffInv /\ TriggerStep => DiffInv'
<1> SUFFICES ASSUME DiffInv, TriggerStep PROVE DiffInv'
  OBVIOUS
<1> USE DiffAssumption DEF DiffInv
<1>1. (StartRun \/ runs' = runs) /\ UNCHANGED <<last, in_flight, emitted>>
  BY DEF TriggerStep, Edit, Trigger, Shutdown, WatchStep, WatchRecv, WatchFlush, WatchStop,
         WatchReturn, FlushTo, BusTick, BusEmit, BusStop, vars
<1>2. /\ emits_diff_signals' \in BOOLEAN /\ tree' \in Trees /\ failed' \in BOOLEAN
      /\ stopping' \in BOOLEAN /\ edits' \in 0..MaxEdits /\ trigger' \in 0..MaxTriggers
  <2>1. CASE \E t \in Trees : Edit(t)
    BY <2>1 DEF DiffTypeOK, Edit
  <2>2. CASE Trigger
    BY <2>2 DEF DiffTypeOK, Trigger
  <2>3. CASE Shutdown
    BY <2>3 DEF DiffTypeOK, Shutdown
  <2>4. CASE WatchStep
    BY <2>4 DEF DiffTypeOK, WatchStep, WatchRecv, WatchFlush, WatchStop, WatchReturn
  <2>5. CASE BusTick \/ BusEmit \/ BusStop \/ UNCHANGED vars
    BY <2>5 DEF DiffTypeOK, BusTick, BusEmit, BusStop, vars
  <2> QED
    BY <2>1, <2>2, <2>3, <2>4, <2>5 DEF TriggerStep
<1>3. /\ queued' \subseteq Paths /\ pending' \subseteq Paths
      /\ watcher' \in {"recv", "run", "final", "done"}
  BY DEF DiffTypeOK, TriggerStep, Edit, Notified, Paths, Trigger, Shutdown, WatchStep, WatchRecv,
         WatchFlush, WatchStop, WatchReturn, FlushTo, BusTick, BusEmit, BusStop, vars
<1>4. bus' \in [at : {"wait", "emit", "done"}, seen : 0..MaxTriggers]
  <2>1. CASE BusTick
    BY <2>1 DEF DiffTypeOK, BusTick
  <2>2. CASE BusEmit \/ BusStop
    BY <2>2 DEF DiffTypeOK, BusEmit, BusStop
  <2>3. CASE bus' = bus
    BY <2>3 DEF DiffTypeOK
  <2> QED
    BY <2>1, <2>2, <2>3 DEF TriggerStep, Edit, Trigger, Shutdown, WatchStep, WatchRecv, WatchFlush,
       WatchStop, WatchReturn, vars
<1>5. DiffTypeOK'
  BY <1>1, <1>2, <1>3, <1>4, StartKeeps DEF DiffTypeOK
<1> QED
  BY <1>1, <1>5, StartKeeps
-----------------------------------------------------------------------------
\* One run at a time holds the slot, and what the panel was sent is what is cached.
THEOREM Invariance == Spec => []DiffInv
<1>1. DiffInv /\ [Next]_vars => DiffInv'
  BY ClaimInv, HolderInv, ReleaseInv, TriggerInv DEF Next, RunStep, TriggerStep
<1> QED
  BY <1>1, InitInv, PTL DEF Spec

\* The panel is never left with another explanation than the cached one, however many
\* runs the watcher and the poll loop start: the slot is held until after the emit.
THEOREM PanelInStep == Spec => []EmitsInOrder
<1>1. DiffInv => EmitsInOrder
  BY DEF DiffInv, EmitsInOrder
<1> QED
  BY <1>1, Invariance, PTL
-----------------------------------------------------------------------------
\* The panel beside the pipeline is no more than an observer of it: every step of the two
\* is a step of the pipeline or leaves it alone, whatever the user does with the panel.
THEOREM PanelObserves == PanelSpec => Spec
<1>1. PanelInit => Init
  BY DEF PanelInit
<1>2. [PanelNext]_allVars => [Next]_vars
  <2> SUFFICES ASSUME [PanelNext]_allVars PROVE [Next]_vars
    OBVIOUS
  <2>1. CASE PipelineStep
    BY <2>1 DEF PipelineStep, Next, RunStep
  <2>2. CASE \E r \in Runners : PanelEmit(r)
    BY <2>2 DEF PanelEmit, Next, RunStep
  <2>3. CASE PanelMount \/ PanelUnmount \/ GetDiffExplanation \/ PanelStep \/ Refresh \/ RefreshReply
    BY <2>3 DEF PanelMount, PanelUnmount, GetDiffExplanation, PanelStep, Refresh, RefreshReply
  <2>4. CASE UNCHANGED allVars
    BY <2>4 DEF allVars
  <2> QED
    BY <2>1, <2>2, <2>3, <2>4 DEF PanelNext
<1> QED
  BY <1>1, <1>2, PTL DEF PanelSpec, Spec

\* So what holds of the pipeline holds with the panel mounted, unmounted and refreshed
\* at any moment: it was last sent what is cached, or the tree is clean.
THEOREM PanelKeepsStep == PanelSpec => []EmitsInOrder
BY PanelObserves, PanelInStep, PTL
=============================================================================

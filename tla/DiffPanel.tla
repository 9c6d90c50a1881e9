------------------------------ MODULE DiffPanel ------------------------------
(***************************************************************************)
(* The VibeLens panel of one session beside its diff pipeline: the panel   *)
(* fetches the explanation the pipeline caches, hears diff_updated, and    *)
(* fetches again when the user asks for it.                                *)
(***************************************************************************)
EXTENDS DiffFeed, LivePane

CONSTANT MaxRefreshes \* bound on the user's refreshes

ASSUME DiffPanelAssumption == MaxRefreshes \in Nat

VARIABLES
  mounted,   \* has the panel been mounted before?
  refreshes, \* refreshes so far
  refreshed, \* the reply of a refresh that is not handled yet
  fetched,   \* content the fetch at the mount read
  heard      \* was the listener registered at the newest emit?

panelVars == <<paneVars, mounted, refreshes, refreshed, fetched, heard>>

Shown(diff) == IF diff = "none" THEN Nothing ELSE [content |-> diff, version |-> 0]

PanelInit ==
  /\ Init /\ PaneInit
  /\ mounted = FALSE /\ refreshes = 0 /\ refreshed = Nothing /\ fetched = "none" /\ heard = FALSE

\* An emit reaches the panel's listener if there is one.
PanelEmit(r) ==
  /\ Emit(r)
  /\ Announce(Shown(runs[r].diff))
  /\ heard' = pane.listens
  /\ UNCHANGED <<mounted, refreshes, refreshed, fetched>>

PanelMount ==
  /\ ~mounted
  /\ Mount
  /\ mounted' = TRUE /\ heard' = FALSE
  /\ UNCHANGED <<vars, refreshes, refreshed, fetched>>

PanelUnmount ==
  /\ Unmount
  /\ refreshed' = Nothing
  /\ UNCHANGED <<vars, mounted, refreshes, fetched, heard>>

\* get_diff_explanation is answered from memory and does not fail.
GetDiffExplanation ==
  /\ FetchRead(Shown(last))
  /\ fetched' = last
  /\ UNCHANGED <<vars, mounted, refreshes, refreshed, heard>>

PanelStep ==
  /\ Register \/ FetchReply \/ HandleEvent
  /\ UNCHANGED <<vars, mounted, refreshes, refreshed, fetched, heard>>

\* The user's refresh reads...
Refresh ==
  /\ pane.on /\ refreshes < MaxRefreshes /\ refreshed = Nothing
  /\ refreshes' = refreshes + 1
  /\ refreshed' = Shown(last)
  /\ UNCHANGED <<vars, paneVars, mounted, fetched, heard>>

\* ... and its reply is adopted whatever is shown by then.
RefreshReply ==
  /\ refreshed # Nothing
  /\ pane' = [pane EXCEPT !.shows = refreshed, !.from = "refresh"]
  /\ refreshed' = Nothing
  /\ UNCHANGED <<vars, events, mounted, refreshes, fetched, heard>>

PipelineStep ==
  /\ \/ \E t \in Trees : Edit(t)
     \/ Trigger \/ Shutdown
     \/ \E r \in Runners : Claim(r) \/ ReadDiff(r) \/ Explain(r) \/ Release(r)
     \/ WatchStep
     \/ BusTick \/ BusEmit \/ BusStop
  /\ UNCHANGED panelVars

PanelNext ==
  \/ PipelineStep \/ \E r \in Runners : PanelEmit(r)
  \/ PanelMount \/ PanelUnmount \/ GetDiffExplanation \/ PanelStep
  \/ Refresh \/ RefreshReply

allVars == <<vars, panelVars>>

\* The pipeline's fairness is DiffFeed's; the UI's event loop turns.
PanelSpec ==
  /\ PanelInit /\ [][PanelNext]_allVars
  /\ Fairness
  /\ WF_allVars(GetDiffExplanation) /\ WF_allVars(PanelStep) /\ WF_allVars(RefreshReply)
----------------------------------------------------------------------------
\* The panel catches up: once the pipeline is at rest, the panel shows the newest
\* explanation it was sent (or the empty one, of a tree that became clean), for
\* every order of emit, mount, fetch and registration.  Excepted are an emit before
\* the panel listened whose fetch had read an older one, and the user's refresh, whose
\* late reply is adopted over a newer event (setExplanation in refresh has no guard).
PanelCatchesUp ==
  \A t \in Trees \ {Clean} :
    <>[](pane.on /\ emitted = t /\ AllIdle)
      => <>[](\/ pane.shows.content \in {t, Clean}
              \/ ~heard /\ fetched # t
              \/ pane.from = "refresh")
=============================================================================

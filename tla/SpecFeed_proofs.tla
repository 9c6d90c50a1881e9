--------------------------- MODULE SpecFeed_proofs ---------------------------
(***************************************************************************)
(* Proofs about SpecFeed, for any messages and any number of sessions and  *)
(* mounts: what the agent is told of spectty_spec is so, and the pane      *)
(* never goes back among events.                                           *)
(*                                                                         *)
(* The first rests on the server's being the document's only writer, one   *)
(* message at a time; the second on versions that only grow on their way   *)
(* from the store through the poll loop's change and the queue of events   *)
(* to the pane.                                                            *)
(***************************************************************************)
EXTENDS SpecFeed, TLAPS

Values == [content : Hashes, version : Nat]
AppStates == [at : {"off", "wait", "emit"}, hash : Hashes, revision : Nat, last : Nat, change : Values]
Panes == [on : BOOLEAN, shows : Values, from : {"none", "fetch", "event"},
          fetch : {"none", "asked", "replied", "failed"}, reply : Values, listens : BOOLEAN]
McpBusy == [at : {"dispatch", "session", "post"}, msg : Messages, before : Values]

FeedTypes ==
  /\ mcp = McpIdle \/ mcp \in McpBusy
  /\ messages \in Nat /\ store \in Values
  /\ app \in AppStates
  /\ pane \in Panes /\ events \in Seq(Values)

\* A message under way is the only writer: the document is as it found it.
McpFacts ==
  mcp # McpIdle => /\ store = mcp.before
                   /\ mcp.at \in {"session", "post"} => refusal(mcp.msg) = "none"

\* The newest version that is on its way to the pane, or may be next.
Newest == IF app.at = "emit" THEN app.change.version ELSE store.version

\* Versions go one way.
VersionFacts ==
  /\ Newest <= store.version /\ store.version <= messages
  /\ \A n \in DOMAIN events : events[n].version <= Newest
  /\ \A m, n \in DOMAIN events : m <= n => events[m].version <= events[n].version
  /\ pane.from = "event" =>
       /\ pane.shows.version <= Newest
       /\ \A n \in DOMAIN events : pane.shows.version <= events[n].version
  /\ pane.from = "none" => pane.shows = Nothing

\* The inductive invariant.
FeedInv == FeedTypes /\ McpFacts /\ VersionFacts

LEMMA NothingOK ==
  Nothing \in Values /\ Nothing.version = 0 /\ Unmounted \in Panes /\ AppOff \in AppStates
BY DEF Nothing, Values, Hashes, Unmounted, Panes, AppOff, AppStates

LEMMA EventIs ==
  ASSUME events \in Seq(Values), NEW n \in DOMAIN events
  PROVE  events[n] \in Values /\ events[n].version \in Nat /\ n \in Nat
<1>1. events[n] \in Values /\ n \in Nat
  OBVIOUS
<1> QED
  BY <1>1 DEF Values

LEMMA AppendIs ==
  ASSUME events \in Seq(Values), NEW v \in Values, events' = Append(events, v)
  PROVE  /\ events' \in Seq(Values)
         /\ \A n \in DOMAIN events' :
              \/ n \in DOMAIN events /\ events'[n] = events[n]
              \/ events'[n] = v /\ (\A m \in DOMAIN events' : m <= n)
         /\ \A n \in DOMAIN events' : n \in Nat
OBVIOUS

LEMMA SpecOK == \A m \in Messages : m.spec \in Hashes
BY SpecFeedAssumption DEF Message, Hashes

LEMMA InitInv == Init => FeedInv
<1> SUFFICES ASSUME Init PROVE FeedInv
  OBVIOUS
<1>1. FeedTypes
  BY NothingOK DEF Init, PaneInit, FeedTypes
<1>2. VersionFacts
  BY NothingOK DEF Init, PaneInit, VersionFacts, Newest, AppOff, Unmounted
<1> QED
  BY <1>1, <1>2 DEF Init, FeedInv, McpFacts
-----------------------------------------------------------------------------
\* The server.
LEMMA ReceiveInv ==
  ASSUME FeedInv, NEW m \in Messages, Receive(m)
  PROVE  FeedInv'
<1> USE DEF FeedInv, Receive, appVars, paneVars
<1>1. FeedTypes'
  BY DEF FeedTypes, McpBusy
<1>2. McpFacts'
  BY DEF McpFacts
<1>3. VersionFacts'
  BY DEF FeedTypes, Values, VersionFacts, Newest
<1> QED
  BY <1>1, <1>2, <1>3

LEMMA DispatchInv ==
  ASSUME FeedInv, Dispatch \/ PostSession
  PROVE  FeedInv'
<1> USE DEF FeedInv, Dispatch, PostSession, Respond, appVars, paneVars
<1>1. mcp # McpIdle
  BY DEF McpIdle
<1>2. mcp' = McpIdle \/ \E to \in {"session", "post"} :
                          mcp' = [mcp EXCEPT !.at = to] /\ refusal(mcp.msg) = "none"
  BY <1>1 DEF McpFacts
<1>3. mcp' = McpIdle \/ (mcp' \in McpBusy /\ mcp'.msg = mcp.msg /\ mcp'.before = mcp.before
                          /\ refusal(mcp.msg) = "none")
  BY <1>1, <1>2 DEF FeedTypes, McpBusy
<1>4. FeedTypes'
  BY <1>3 DEF FeedTypes
<1>5. McpFacts'
  BY <1>1, <1>3 DEF McpFacts
<1>6. VersionFacts'
  BY DEF VersionFacts, Newest
<1> QED
  BY <1>4, <1>5, <1>6

LEMMA PostObservationInv ==
  ASSUME FeedInv, PostObservation
  PROVE  FeedInv'
<1> USE DEF FeedInv, PostObservation, Respond, appVars, paneVars
<1>1. mcp \in McpBusy
  BY DEF FeedTypes, McpIdle
<1>2. [content |-> mcp.msg.spec, version |-> messages] \in Values
  BY <1>1, SpecOK DEF FeedTypes, McpBusy, Values
<1>3. store' = store \/ (store' \in Values /\ store'.version = messages)
  BY <1>2 DEF Put
<1>4. FeedTypes' /\ McpFacts'
  BY <1>3 DEF FeedTypes, McpFacts
<1>5. store.version <= store'.version /\ store'.version <= messages
  BY <1>3 DEF FeedTypes, VersionFacts, Values
<1>6. Newest <= Newest' /\ Newest' <= store'.version /\ Newest \in Nat /\ Newest' \in Nat
  BY <1>3, <1>5 DEF FeedTypes, VersionFacts, Values, AppStates, Newest
<1>7. VersionFacts'
  <2>1. \A n \in DOMAIN events : events[n].version \in Nat
    BY EventIs DEF FeedTypes
  <2>2. pane.shows.version \in Nat
    BY DEF FeedTypes, Values, Panes
  <2> QED
    BY <1>5, <1>6, <2>1, <2>2 DEF VersionFacts
<1> QED
  BY <1>4, <1>7
-----------------------------------------------------------------------------
\* The app.
LEMMA LoopInv ==
  ASSUME FeedInv, Hydrate \/ Tick
  PROVE  FeedInv'
<1> USE DEF FeedInv, Hydrate, Tick, mcpVars, paneVars
<1>1. app' \in AppStates
  <2>1. store.content \in Hashes /\ Revision \in Nat /\ store \in Values
    BY DEF FeedTypes, AppStates, Values, Revision
  <2>2. CASE Hydrate
    <3>1. [AppOff EXCEPT !.at = "wait"] \in AppStates /\ Seed(store.content) \in AppStates
      BY <2>1, NothingOK DEF Seed, AppOff, AppStates, Hashes
    <3> QED
      BY <2>2, <3>1
  <2>3. CASE Tick
    <3>1. [app EXCEPT !.hash = store.content, !.revision = Revision] \in AppStates
      BY <2>1 DEF FeedTypes, AppStates
    <3> QED
      BY <2>1, <2>3, <3>1 DEF AppStates
  <2> QED
    BY <2>2, <2>3
<1>2. FeedTypes' /\ McpFacts'
  BY <1>1 DEF FeedTypes, McpFacts
<1>3. Newest' = store.version /\ Newest <= store.version
  <2>1. app'.at = "emit" => app'.change.version = store.version
    <3>1. CASE Hydrate
      BY <3>1 DEF Seed, AppOff
    <3>2. CASE Tick
      <4>1. [app EXCEPT !.hash = store.content, !.revision = Revision].at = "wait"
        BY <3>2 DEF FeedTypes, AppStates
      <4> QED
        BY <3>2, <4>1
    <3> QED
      BY <3>1, <3>2
  <2> QED
    BY <2>1 DEF Newest, VersionFacts
<1>4. VersionFacts'
  <2>1. \A n \in DOMAIN events : events[n].version \in Nat
    BY EventIs DEF FeedTypes
  <2>2. pane.shows.version \in Nat /\ store.version \in Nat /\ Newest \in Nat
    BY DEF FeedTypes, Values, Panes, AppStates, Newest
  <2> QED
    BY <1>3, <2>1, <2>2 DEF FeedTypes, VersionFacts, Values
<1> QED
  BY <1>2, <1>4

LEMMA EmitChangeInv ==
  ASSUME FeedInv, EmitChange
  PROVE  FeedInv'
<1> USE DEF FeedInv, EmitChange, mcpVars
<1>1. app' \in AppStates /\ app'.at = "wait" /\ app.at = "emit" /\ app.change \in Values
  BY NothingOK DEF FeedTypes, AppStates
<1>2. pane' = pane /\ (events' = events \/ events' = Append(events, app.change))
  BY DEF Announce, paneVars
<1>3. /\ events' \in Seq(Values)
      /\ \A n \in DOMAIN events' :
           \/ n \in DOMAIN events /\ events'[n] = events[n]
           \/ events'[n] = app.change /\ (\A m \in DOMAIN events' : m <= n)
      /\ \A n \in DOMAIN events' : n \in Nat
  <2>1. CASE events' = events
    BY <2>1, EventIs DEF FeedTypes
  <2>2. CASE events' = Append(events, app.change)
    BY <1>1, <2>2, AppendIs DEF FeedTypes
  <2> QED
    BY <1>2, <2>1, <2>2
<1>4. FeedTypes' /\ McpFacts'
  BY <1>1, <1>2, <1>3 DEF FeedTypes, McpFacts
<1>5. Newest = app.change.version /\ Newest' = store.version /\ Newest <= store.version
      /\ Newest \in Nat /\ store.version \in Nat /\ messages \in Nat
  BY <1>1 DEF Newest, VersionFacts, FeedTypes, Values
<1>6. /\ \A n \in DOMAIN events : events[n].version \in Nat /\ n \in Nat
      /\ \A n \in DOMAIN events' : n \in Nat
      /\ pane.shows.version \in Nat
  BY <1>3, EventIs DEF FeedTypes, Values, Panes
<1>7. VersionFacts'
  <2>1. \A n \in DOMAIN events' : events'[n].version <= Newest /\ events'[n].version \in Nat
    BY <1>3, <1>5, <1>6 DEF VersionFacts
  <2>2. \A m, n \in DOMAIN events' : m <= n => events'[m].version <= events'[n].version
    <3> SUFFICES ASSUME NEW m \in DOMAIN events', NEW n \in DOMAIN events', m <= n
                 PROVE  events'[m].version <= events'[n].version
      OBVIOUS
    <3>1. CASE events'[n] = app.change
      BY <2>1, <3>1, <1>5
    <3>2. CASE n \in DOMAIN events /\ events'[n] = events[n]
      <4>1. m \in DOMAIN events
        BY <3>2, <1>2, <1>3 DEF FeedTypes
      <4>2. CASE events'[m] = events[m]
        BY <3>2, <4>1, <4>2 DEF VersionFacts
      <4>3. CASE \A k \in DOMAIN events' : k <= m
        <5>1. m = n
          BY <4>3, <1>6
        <5> QED
          BY <5>1, <2>1
      <4> QED
        BY <1>3, <4>2, <4>3
    <3> QED
      BY <1>3, <3>1, <3>2
  <2>3. pane'.from = "event" =>
          /\ pane'.shows.version <= Newest
          /\ \A n \in DOMAIN events' : pane'.shows.version <= events'[n].version
    BY <1>2, <1>3, <1>5 DEF VersionFacts
  <2>4. pane'.from = "none" => pane'.shows = Nothing
    BY <1>2 DEF VersionFacts
  <2> QED
    BY <1>5, <1>6, <1>2, <2>1, <2>2, <2>3, <2>4 DEF VersionFacts
<1> QED
  BY <1>4, <1>7

LEMMA EndInv ==
  ASSUME FeedInv, End
  PROVE  FeedInv'
<1> USE DEF FeedInv, End
<1>1. FeedTypes' /\ McpFacts'
  BY NothingOK DEF FeedTypes, McpFacts
<1>2. VersionFacts'
  BY NothingOK DEF FeedTypes, VersionFacts, Newest, AppOff, Unmounted, Values
<1> QED
  BY <1>1, <1>2
-----------------------------------------------------------------------------
\* The pane.
LEMMA PaneInv ==
  ASSUME FeedInv, PaneMount \/ PaneUnmount \/ GetSpec \/ PaneStep \/ UNCHANGED vars
  PROVE  FeedInv'
<1> USE DEF FeedInv
<1>1. UNCHANGED <<mcp, messages, store, app>>
  BY DEF PaneMount, PaneUnmount, GetSpec, PaneStep, mcpVars, appVars, vars
<1>2. CASE PaneMount \/ PaneUnmount
  <2>1. /\ pane' \in Panes /\ pane'.from = "none" /\ pane'.shows = Nothing
        /\ events' = events \/ events' = <<>>
    <3>1. CASE PaneUnmount
      BY <3>1, NothingOK DEF PaneUnmount, Unmount, Unmounted
    <3>2. CASE PaneMount
      <4>1. pane' = [Unmounted EXCEPT !.on = TRUE, !.fetch = "asked"] /\ events' = events
        BY <3>2 DEF PaneMount, Mount
      <4> QED
        BY <4>1, NothingOK DEF Unmounted, Panes
    <3> QED
      BY <1>2, <3>1, <3>2
  <2>2. FeedTypes' /\ McpFacts'
    <3>1. events' \in Seq(Values)
      <4>1. <<>> \in Seq(Values) /\ events \in Seq(Values)
        BY DEF FeedTypes
      <4> QED
        BY <2>1, <4>1
    <3> QED
      BY <1>1, <2>1, <3>1 DEF FeedTypes, McpFacts
  <2>3. Newest' = Newest
    BY <1>1 DEF Newest
  <2>4. VersionFacts'
    BY <1>1, <2>1, <2>3 DEF VersionFacts
  <2> QED
    BY <2>2, <2>4
<1>3. CASE GetSpec
  <2>1. pane' \in Panes /\ pane'.from = pane.from /\ pane'.shows = pane.shows /\ events' = events
    BY <1>3, NothingOK DEF GetSpec, get_spec, FetchRead, FetchFails, FeedTypes, Panes
  <2> QED
    BY <1>1, <2>1 DEF FeedTypes, McpFacts, VersionFacts, Newest
<1>4. CASE PaneStep
  <2>1. CASE Register
    <3>1. pane' \in Panes /\ pane'.from = pane.from /\ pane'.shows = pane.shows /\ events' = events
      BY <2>1 DEF Register, FeedTypes, Panes
    <3> QED
      BY <1>1, <3>1 DEF FeedTypes, McpFacts, VersionFacts, Newest
  <2>2. CASE FetchReply
    <3>1. /\ pane' \in Panes /\ events' = events
          /\ \/ pane'.from = pane.from /\ pane'.shows = pane.shows
             \/ pane'.from = "fetch"
      BY <2>2 DEF FetchReply, FeedTypes, Panes
    <3> QED
      BY <1>1, <3>1 DEF FeedTypes, McpFacts, VersionFacts, Newest
  <2>3. CASE HandleEvent
    <3>1. /\ Head(events) = events[1] /\ 1 \in DOMAIN events /\ Head(events) \in Values
          /\ events' \in Seq(Values)
          /\ \A n \in DOMAIN events' : /\ n \in Nat /\ n + 1 \in DOMAIN events
                                       /\ events'[n] = events[n + 1] /\ 1 <= n + 1
      BY <2>3 DEF HandleEvent, FeedTypes
    <3>2. pane' \in Panes /\ pane'.from = "event" /\ pane'.shows = events[1]
      BY <2>3, <3>1 DEF HandleEvent, FeedTypes, Panes
    <3>3. Newest' = Newest
      BY <1>1 DEF Newest
    <3>4. VersionFacts'
      BY <1>1, <3>1, <3>2, <3>3 DEF VersionFacts
    <3> QED
      BY <1>1, <3>1, <3>2, <3>4 DEF FeedTypes, McpFacts
  <2> QED
    BY <1>4, <2>1, <2>2, <2>3 DEF PaneStep
<1>5. CASE UNCHANGED vars
  BY <1>5 DEF vars, paneVars, FeedTypes, McpFacts, VersionFacts, Newest
<1> QED
  BY <1>2, <1>3, <1>4, <1>5
-----------------------------------------------------------------------------
\* The inductive invariant holds in every reachable state.
THEOREM Invariance == Spec => []FeedInv
<1>1. FeedInv /\ [Next]_vars => FeedInv'
  BY ReceiveInv, DispatchInv, PostObservationInv, LoopInv, EmitChangeInv, EndInv, PaneInv
  DEF Next, McpStep
<1> QED
  BY <1>1, InitInv, PTL DEF Spec

\* A spectty_spec that is answered ok is stored, and a message that is answered with an
\* error code has changed nothing (spectty_spec_effect checks before it upserts).
THEOREM ToldTheTruth == Spec => RepliesTellTruth
<1>1. FeedInv /\ [Next]_vars
        => [mcp # McpIdle /\ mcp' = McpIdle =>
              /\ reply' = "ok" => store'.content = mcp.msg.spec
              /\ reply' \in Codes => store' = mcp.before]_vars
  <2> SUFFICES ASSUME FeedInv, Next, mcp # McpIdle, mcp' = McpIdle
               PROVE  /\ reply' = "ok" => store'.content = mcp.msg.spec
                      /\ reply' \in Codes => store' = mcp.before
    OBVIOUS
  <2>1. store = mcp.before
    BY DEF FeedInv, McpFacts
  <2>2. CASE Dispatch \/ PostSession
    <3>1. refusal(mcp.msg) # "ok"
      BY DEF refusal
    <3>2. \A to \in {"session", "post"} : [mcp EXCEPT !.at = to] # McpIdle
      <4>1. mcp \in McpBusy
        BY DEF FeedInv, FeedTypes
      <4> QED
        BY <4>1 DEF McpBusy, McpIdle
    <3>3. reply' # "ok" /\ store' = store
      BY <2>2, <3>1, <3>2 DEF Dispatch, PostSession, Respond
    <3> QED
      BY <2>1, <3>3
  <2>3. CASE PostObservation
    BY <2>1, <2>3 DEF PostObservation, Put, Respond, Codes
  <2>4. CASE End
    BY <2>4 DEF End, Codes
  <2>5. mcp' = mcp \/ McpStep \/ End \/ \E m \in Messages : Receive(m)
    BY DEF Next, Hydrate, Tick, EmitChange, PaneMount, PaneUnmount, GetSpec, PaneStep, mcpVars
  <2>6. CASE \E m \in Messages : Receive(m)
    BY <2>6 DEF Receive
  <2> QED
    BY <2>2, <2>3, <2>4, <2>5, <2>6 DEF McpStep
<1> QED
  BY <1>1, Invariance, PTL DEF Spec, RepliesTellTruth

\* Among events, and from an event on, the pane never goes back to an older contract:
\* only over what its fetch brought may an event that was on its way be older.
THEOREM NeverBack == Spec => BackOnlyOverFetch
<1>1. FeedInv /\ [Next]_vars
        => [pane.on /\ pane'.on /\ pane'.shows.version < pane.shows.version => pane.from = "fetch"]_vars
  <2> SUFFICES ASSUME FeedInv, Next, pane.on, pane'.on,
                      pane'.shows.version < pane.shows.version, pane.from # "fetch"
               PROVE  FALSE
    OBVIOUS
  <2>1. pane \in Panes /\ events \in Seq(Values)
    BY DEF FeedInv, FeedTypes
  <2>2. pane.from = "event"
    <3>1. pane'.shows.version \in Nat
      <4>1. FeedInv'
        BY ReceiveInv, DispatchInv, PostObservationInv, LoopInv, EmitChangeInv, EndInv, PaneInv
        DEF Next, McpStep
      <4> QED
        BY <4>1 DEF FeedInv, FeedTypes, Panes, Values
    <3>2. pane.from = "none" => pane.shows.version = 0
      BY NothingOK DEF FeedInv, VersionFacts
    <3> QED
      BY <2>1, <3>1, <3>2 DEF Panes
  <2>3. pane'.shows # pane.shows /\ pane.shows.version \in Nat
    BY <2>1 DEF Panes, Values
  <2>4. CASE HandleEvent
    <3>1. pane'.shows = events[1] /\ 1 \in DOMAIN events
      BY <2>1, <2>4 DEF HandleEvent, Panes
    <3>2. events[1].version \in Nat
      BY <2>1, <3>1, EventIs
    <3> QED
      BY <2>2, <2>3, <3>1, <3>2 DEF FeedInv, VersionFacts
  <2>5. CASE FetchReply
    <3>1. pane.shows = Nothing /\ pane'.shows.version \in Nat
      BY <2>1, <2>3, <2>5 DEF FetchReply, Panes, Values
    <3> QED
      BY <3>1, NothingOK
  <2>6. CASE PaneMount \/ PaneUnmount \/ End
    BY <2>6 DEF PaneMount, PaneUnmount, Mount, Unmount, Unmounted, End
  <2>7. CASE GetSpec \/ Register \/ pane' = pane
    BY <2>1, <2>3, <2>7 DEF GetSpec, FetchRead, FetchFails, Register, Panes
  <2> QED
    BY <2>4, <2>5, <2>6, <2>7
    DEF Next, Receive, McpStep, Dispatch, PostSession, PostObservation, Hydrate, Tick, EmitChange,
        Announce, PaneStep, paneVars
<1> QED
  BY <1>1, Invariance, PTL DEF Spec, BackOnlyOverFetch
-----------------------------------------------------------------------------
(* The type invariant.  What is not obvious of it is the bound on the      *)
(* reader's revisions: a revision is another content than the last, so the *)
(* store has another version, and versions are messages.                   *)

ContractValues == [content : Contracts, version : 1..MaxMessages]
MaybeStored == Stored \cup {Nothing}
MaybeContract == ContractValues \cup {Nothing}

ServerTyped ==
  /\ mcp \in {McpIdle} \cup [at : {"dispatch", "session", "post"}, msg : Messages, before : MaybeStored]
  /\ reply \in {"none", "waiting", "silent", "ok", "ack", "isError"} \cup Codes
  /\ messages \in 0..MaxMessages
  /\ store \in MaybeStored /\ store.content # "junk"
LoopTyped ==
  /\ app \in [at : {"off", "wait", "emit"}, hash : Hashes, revision : Nat, last : Nat, change : MaybeStored]
  /\ starts \in 0..MaxStarts /\ announced \in [content : Hashes, heard : BOOLEAN]
PaneTyped ==
  /\ mounts \in 0..MaxMounts /\ fetched \in Hashes
  /\ pane \in [on : BOOLEAN, shows : MaybeContract, from : {"none", "fetch", "event"},
               fetch : {"none", "asked", "replied", "failed"}, reply : MaybeContract, listens : BOOLEAN]
  /\ events \in Seq(ContractValues)
PaneShape ==
  /\ (pane.from = "none") = (pane.shows = Nothing)
  /\ events # <<>> => pane.listens
  /\ pane.listens => pane.on
  /\ pane.on => app.at # "off"

\* A call under way has a number of its own, and spectty_spec alone gets past dispatch.
CallFacts ==
  mcp # McpIdle => /\ store.version < messages
                   /\ mcp.at \in {"session", "post"} => Calls(mcp.msg, "spectty_spec") /\ refusal(mcp.msg) = "none"

\* The reader has counted at most one revision for each version and one for the
\* seed, and the one after the newest only if it has read that.
RevisionFacts ==
  /\ app.last = app.revision
  /\ app.revision <= store.version + 1
  /\ store.content # app.hash => app.revision <= store.version

TypeInv == ServerTyped /\ LoopTyped /\ PaneTyped /\ PaneShape /\ CallFacts /\ RevisionFacts

LEMMA ConstantsTyped ==
  /\ MaxMessages \in Nat /\ MaxStarts \in Nat /\ MaxMounts \in Nat
  /\ Nothing \in MaybeStored /\ Nothing \in MaybeContract
  /\ Nothing.content = "none" /\ Nothing.version = 0
  /\ Nothing \notin Stored /\ Nothing \notin ContractValues
  /\ "none" \notin Contracts /\ "none" \in Hashes
BY SpecFeedAssumption DEF Nothing, MaybeStored, MaybeContract, Stored, ContractValues, Hashes

LEMMA StoredIs ==
  ASSUME NEW v \in MaybeStored
  PROVE  /\ v.content \in Hashes /\ v.version \in Nat
         /\ v = Nothing \/ (v.version \in 1..MaxMessages /\ v.content \in Contracts \cup {"partial", "junk"})
         /\ v.content \in Contracts => v \in ContractValues
<1>1. CASE v \in Stored
  BY <1>1, ConstantsTyped DEF Stored, ContractValues, Hashes
<1>2. CASE v = Nothing
  BY <1>2, ConstantsTyped DEF Hashes
<1> QED
  BY <1>1, <1>2 DEF MaybeStored

LEMMA TypedInit == Init => TypeInv
<1> SUFFICES ASSUME Init PROVE TypeInv
  OBVIOUS
<1>1. ServerTyped
  BY ConstantsTyped DEF Init, ServerTyped
<1>2. LoopTyped
  BY ConstantsTyped DEF Init, LoopTyped, AppOff, Hashes
<1>3. PaneTyped
  BY ConstantsTyped DEF Init, PaneInit, PaneTyped, Unmounted, Hashes
<1>4. PaneShape /\ CallFacts
  BY DEF Init, PaneInit, PaneShape, CallFacts, Unmounted
<1>5. RevisionFacts
  BY ConstantsTyped DEF Init, RevisionFacts, AppOff
<1> QED
  BY <1>1, <1>2, <1>3, <1>4, <1>5 DEF TypeInv

LEMMA ReceiveTyped ==
  ASSUME TypeInv, FeedInv, NEW m \in Messages, Receive(m)
  PROVE  TypeInv'
<1> USE DEF TypeInv, Receive, appVars, paneVars
<1>1. ServerTyped'
  BY ConstantsTyped DEF ServerTyped
<1>2. CallFacts'
  BY DEF CallFacts, FeedInv, VersionFacts, FeedTypes, Values
<1>3. LoopTyped' /\ PaneTyped' /\ PaneShape' /\ RevisionFacts'
  BY DEF LoopTyped, PaneTyped, PaneShape, RevisionFacts
<1> QED
  BY <1>1, <1>2, <1>3

LEMMA McpStepTyped ==
  ASSUME TypeInv, FeedInv, McpStep
  PROVE  TypeInv'
<1> USE DEF TypeInv, McpStep, Dispatch, PostSession, PostObservation, appVars, paneVars
<1>1. mcp # McpIdle
  BY DEF McpIdle
<1>2. mcp \in [at : {"dispatch", "session", "post"}, msg : Messages, before : MaybeStored]
  BY <1>1 DEF ServerTyped
<1>3. refusal(mcp.msg) \in Codes \cup {"none"}
  BY DEF refusal, Codes
<1>4. reply' \in {"none", "waiting", "silent", "ok", "ack", "isError"} \cup Codes
  BY <1>3 DEF Respond, ServerTyped
<1>5. mcp' = McpIdle \/ \E to \in {"session", "post"} :
         mcp' = [mcp EXCEPT !.at = to] /\ store' = store /\ messages' = messages
           /\ Calls(mcp.msg, "spectty_spec") /\ refusal(mcp.msg) = "none"
  BY <1>1 DEF Respond, CallFacts
<1>6. store' = store \/ (mcp.at = "post" /\ mcp' = McpIdle /\ Put)
  BY DEF Respond
<1>7. CASE store' = store
  <2>1. ServerTyped'
    BY <1>2, <1>4, <1>5, <1>7 DEF ServerTyped
  <2>2. CallFacts'
    BY <1>1, <1>2, <1>5, <1>7 DEF CallFacts
  <2>3. RevisionFacts'
    BY <1>7 DEF RevisionFacts
  <2> QED
    BY <2>1, <2>2, <2>3 DEF LoopTyped, PaneTyped, PaneShape
<1>8. CASE mcp.at = "post" /\ mcp' = McpIdle /\ Put
  <2>1. Calls(mcp.msg, "spectty_spec") /\ refusal(mcp.msg) = "none" /\ store.version < messages
    BY <1>1, <1>8 DEF CallFacts
  <2>2. mcp.msg \in Messages /\ mcp.msg.spec \in Contracts \cup {"partial", "junk"}
    BY <1>2, SpecFeedAssumption DEF Message
  <2>3. mcp.msg.spec # "junk"
    BY <2>1 DEF refusal, Calls
  <2>4. messages \in 1..MaxMessages /\ store.version \in Nat
    BY <2>1, StoredIs, ConstantsTyped DEF ServerTyped
  <2>5. store' \in Stored /\ store'.content # "junk" /\ store'.version = messages
    BY <1>8, <2>2, <2>3, <2>4 DEF Put, Stored
  <2>6. ServerTyped' /\ CallFacts'
    BY <1>4, <1>8, <2>5 DEF ServerTyped, CallFacts, MaybeStored
  <2>7. RevisionFacts'
    BY <2>1, <2>4, <2>5 DEF RevisionFacts, LoopTyped
  <2> QED
    BY <2>6, <2>7 DEF LoopTyped, PaneTyped, PaneShape
<1> QED
  BY <1>6, <1>7, <1>8

LEMMA LoopTypedStep ==
  ASSUME TypeInv, FeedInv, Hydrate \/ Tick
  PROVE  TypeInv'
<1> USE DEF TypeInv, mcpVars, paneVars
<1>1. store \in MaybeStored /\ store.content \in Hashes /\ store.version \in Nat
      /\ (store # Nothing => store.version >= 1)
  BY StoredIs DEF ServerTyped
<1>2. CASE Hydrate
  <2>1. starts' \in 0..MaxStarts
    <3>1. starts' = starts + 1 /\ starts < MaxStarts
      BY <1>2 DEF Hydrate
    <3> QED
      BY <3>1, ConstantsTyped DEF LoopTyped
  <2>2. \/ /\ store # Nothing /\ app' = Seed(store.content)
           /\ announced' = [content |-> store.content, heard |-> FALSE]
        \/ /\ app' = [AppOff EXCEPT !.at = "wait"]
           /\ announced' = [content |-> "none", heard |-> FALSE]
    BY <1>2 DEF Hydrate
  <2>3. LoopTyped' /\ RevisionFacts' /\ app'.at # "off"
    <3>1. store' = store
      BY <1>2 DEF Hydrate
    <3>2. CASE /\ store # Nothing /\ app' = Seed(store.content)
               /\ announced' = [content |-> store.content, heard |-> FALSE]
      <4>1. app' = [at |-> "wait", hash |-> store.content, revision |-> 1, last |-> 1, change |-> Nothing]
        BY <3>2 DEF Seed, AppOff
      <4>2. LoopTyped'
        BY <1>1, <2>1, <3>2, <4>1, ConstantsTyped DEF LoopTyped
      <4> QED
        BY <1>1, <3>1, <3>2, <4>1, <4>2 DEF RevisionFacts
    <3>3. CASE /\ app' = [AppOff EXCEPT !.at = "wait"]
               /\ announced' = [content |-> "none", heard |-> FALSE]
      <4>1. app' = [at |-> "wait", hash |-> "none", revision |-> 0, last |-> 0, change |-> Nothing]
        BY <3>3 DEF AppOff
      <4>2. announced' \in [content : Hashes, heard : BOOLEAN]
        BY <3>3, ConstantsTyped
      <4>3. app' \in [at : {"off", "wait", "emit"}, hash : Hashes, revision : Nat, last : Nat,
                      change : MaybeStored]
        BY <4>1, ConstantsTyped
      <4>4. LoopTyped'
        BY <2>1, <4>2, <4>3 DEF LoopTyped
      <4> QED
        BY <1>1, <3>1, <4>1, <4>4 DEF RevisionFacts
    <3> QED
      BY <2>2, <3>2, <3>3
  <2> QED
    BY <1>2, <2>3 DEF Hydrate, ServerTyped, PaneTyped, PaneShape, CallFacts
<1>3. CASE Tick
  <2> USE DEF Tick
  <2>1. Revision = app.revision + 1 /\ Revision \in Nat /\ Revision > app.last
    BY <1>3 DEF Revision, LoopTyped, RevisionFacts
  <2>2. app' = [at |-> "emit", hash |-> store.content, revision |-> Revision,
                last |-> Revision, change |-> store]
    BY <1>3, <2>1
  <2>3. LoopTyped' /\ app'.at # "off"
    BY <1>1, <1>3, <2>1, <2>2 DEF LoopTyped
  <2>4. RevisionFacts'
    BY <1>1, <1>3, <2>1, <2>2 DEF RevisionFacts, LoopTyped
  <2> QED
    BY <1>3, <2>3, <2>4 DEF ServerTyped, PaneTyped, PaneShape, CallFacts
<1> QED
  BY <1>2, <1>3

LEMMA EmitChangeTyped ==
  ASSUME TypeInv, FeedInv, EmitChange
  PROVE  TypeInv'
<1> USE DEF TypeInv, EmitChange, mcpVars
<1>1. app.change \in MaybeStored /\ app.change.content \in Hashes
      /\ (app.change.content \in Contracts => app.change \in ContractValues)
  BY StoredIs DEF LoopTyped
<1>2. LoopTyped' /\ app'.at # "off"
  BY <1>1, ConstantsTyped DEF LoopTyped, PaneTyped
<1>3. PaneTyped' /\ PaneShape'
  <2>1. pane' = pane
    BY DEF Announce, paneVars
  <2>2. events' = events \/ (events' = Append(events, app.change) /\ pane.listens
                             /\ app.change \in ContractValues)
    BY <1>1 DEF Announce, paneVars
  <2>3. events' \in Seq(ContractValues) /\ (events' # <<>> => pane.listens)
    BY <2>2 DEF PaneTyped, PaneShape
  <2> QED
    BY <1>2, <2>1, <2>3 DEF PaneTyped, PaneShape
<1>4. app'.hash = app.hash /\ app'.revision = app.revision /\ app'.last = app.last
  BY DEF LoopTyped
<1>5. ServerTyped' /\ CallFacts' /\ RevisionFacts'
  BY <1>4 DEF ServerTyped, CallFacts, RevisionFacts
<1> QED
  BY <1>2, <1>3, <1>5

LEMMA EndTyped ==
  ASSUME TypeInv, FeedInv, End
  PROVE  TypeInv'
<1> USE DEF TypeInv, End
<1>1. ServerTyped' /\ CallFacts'
  BY DEF ServerTyped, CallFacts
<1>2. LoopTyped' /\ RevisionFacts'
  BY ConstantsTyped, StoredIs DEF LoopTyped, RevisionFacts, AppOff, Hashes, ServerTyped
<1>3. PaneTyped' /\ PaneShape'
  BY ConstantsTyped DEF PaneTyped, PaneShape, Unmounted, AppOff
<1> QED
  BY <1>1, <1>2, <1>3

LEMMA PaneStepTyped ==
  ASSUME TypeInv, FeedInv, PaneMount \/ PaneUnmount \/ GetSpec \/ PaneStep \/ UNCHANGED vars
  PROVE  TypeInv'
<1> USE DEF TypeInv
<1>1. UNCHANGED <<mcp, reply, messages, store, app, starts>>
  BY DEF PaneMount, PaneUnmount, GetSpec, PaneStep, mcpVars, appVars, vars
<1>2. announced' = announced \/ announced' = [announced EXCEPT !.heard = FALSE]
  BY DEF PaneMount, PaneUnmount, GetSpec, PaneStep, appVars, vars
<1>3. ServerTyped' /\ LoopTyped' /\ CallFacts' /\ RevisionFacts'
  BY <1>1, <1>2 DEF ServerTyped, LoopTyped, CallFacts, RevisionFacts
<1>4. mounts' \in 0..MaxMounts /\ fetched' \in Hashes
  <2>1. get_spec.content \in Hashes
    BY ConstantsTyped, StoredIs DEF get_spec, ServerTyped, Hashes
  <2> QED
    BY <2>1, ConstantsTyped
    DEF PaneMount, PaneUnmount, GetSpec, PaneStep, appVars, vars, PaneTyped, Hashes
<1>5. CASE PaneMount
  <2>1. pane' = [Unmounted EXCEPT !.on = TRUE, !.fetch = "asked"] /\ events' = <<>> /\ app.at # "off"
    BY <1>5 DEF PaneMount, Mount, PaneShape
  <2> QED
    <3>1. pane' = [on |-> TRUE, shows |-> Nothing, from |-> "none", fetch |-> "asked",
                   reply |-> Nothing, listens |-> FALSE]
      BY <2>1 DEF Unmounted
    <3>2. pane' \in [on : BOOLEAN, shows : MaybeContract, from : {"none", "fetch", "event"},
                     fetch : {"none", "asked", "replied", "failed"}, reply : MaybeContract, listens : BOOLEAN]
      BY <3>1, ConstantsTyped
    <3>3. PaneTyped' /\ PaneShape'
      <4>1. events' \in Seq(ContractValues)
        BY <2>1
      <4>2. PaneTyped'
        BY <1>4, <3>2, <4>1 DEF PaneTyped
      <4>3. (pane'.from = "none") = (pane'.shows = Nothing)
        BY <3>1
      <4> QED
        BY <1>1, <2>1, <3>1, <4>2, <4>3 DEF PaneShape
    <3> QED
      BY <1>3, <3>3
<1>6. CASE PaneUnmount
  BY <1>1, <1>3, <1>4, <1>6, ConstantsTyped DEF PaneUnmount, Unmount, PaneTyped, PaneShape, Unmounted
<1>7. CASE GetSpec
  <2>1. get_spec \in MaybeContract
    BY ConstantsTyped, StoredIs DEF get_spec, ServerTyped, MaybeContract
  <2> QED
    BY <1>1, <1>3, <1>4, <1>7, <2>1 DEF GetSpec, FetchRead, FetchFails, PaneTyped, PaneShape
<1>8. CASE PaneStep
  <2>1. CASE Register
    BY <1>1, <1>3, <1>4, <2>1 DEF Register, PaneTyped, PaneShape
  <2>2. CASE FetchReply
    BY <1>1, <1>3, <1>4, <2>2 DEF FetchReply, PaneTyped, PaneShape
  <2>3. CASE HandleEvent
    <3>1. Head(events) \in ContractValues /\ Tail(events) \in Seq(ContractValues) /\ Head(events) # Nothing
      BY <2>3, ConstantsTyped DEF HandleEvent, PaneTyped
    <3> QED
      BY <1>1, <1>3, <1>4, <2>3, <3>1 DEF HandleEvent, PaneTyped, PaneShape, MaybeContract
  <2> QED
    BY <1>8, <2>1, <2>2, <2>3 DEF PaneStep
<1>9. CASE UNCHANGED vars
  BY <1>3, <1>9 DEF vars, paneVars, PaneTyped, PaneShape
<1> QED
  BY <1>5, <1>6, <1>7, <1>8, <1>9

\* The feed stays well-typed: the reader's revisions are bounded by the messages, and a
\* spec that is no object is never stored.
THEOREM TypeCorrect == Spec => []SpecFeedTypeOK
<1>1. FeedInv /\ TypeInv /\ [Next]_vars => TypeInv'
  BY ReceiveTyped, McpStepTyped, LoopTypedStep, EmitChangeTyped, EndTyped, PaneStepTyped DEF Next
<1>2. FeedInv /\ TypeInv => SpecFeedTypeOK
  <2> SUFFICES ASSUME FeedInv, TypeInv PROVE SpecFeedTypeOK
    OBVIOUS
  <2> USE DEF TypeInv
  <2>1. app.revision \in Revisions /\ app.last \in Revisions
    BY ConstantsTyped DEF RevisionFacts, LoopTyped, ServerTyped, FeedInv, FeedTypes, VersionFacts, Values, Revisions
  <2>2. app \in [at : {"off", "wait", "emit"}, hash : Hashes, revision : Revisions, last : Revisions,
                 change : Stored \cup {Nothing}]
    BY <2>1 DEF LoopTyped, MaybeStored
  <2>3. PaneTypeOK(ContractValues)
    BY DEF PaneTyped, PaneShape, PaneTypeOK, MaybeContract
  <2> QED
    BY <2>2, <2>3 DEF ServerTyped, LoopTyped, PaneTyped, PaneShape, SpecFeedTypeOK, MaybeStored, ContractValues
<1> QED
  BY <1>1, <1>2, TypedInit, Invariance, PTL DEF Spec
=============================================================================

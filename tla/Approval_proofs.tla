-------------------------- MODULE Approval_proofs --------------------------
(***************************************************************************)
(* Proofs about Approval, for any number of calls, polls and failures: the *)
(* answers the agent gets are decisions the user made on that action, and  *)
(* a request that is resolved stays as it is.                              *)
(*                                                                         *)
(* Both rest on what approve_prompt may hold between its get and its       *)
(* upsert: the document of a call that is either still pending or has been *)
(* overtaken by a later one.                                               *)
(***************************************************************************)
EXTENDS Approval, TLAPS

\* Calls are numbered in their order; one that was not made has no answer.
CallFacts ==
  /\ doc.req <= requests
  /\ mcp.pc = "poll" => requests \in Requests
  /\ \A r \in Requests : r > requests => answers[r] = "none"

\* A decision in the document, or on its way there, is one the user clicked.
DecisionFacts ==
  /\ doc.resolution \in Decisions => <<doc.action, doc.resolution>> \in clicked
  /\ approve.pc = "write" => /\ approve.doc.resolution \in Decisions
                             /\ <<approve.doc.action, approve.doc.resolution>> \in clicked

\* The document approve_prompt has read is pending yet, or was overtaken.
ReadFacts ==
  approve.pc = "write" => /\ approve.doc.req <= requests
                          /\ approve.doc.req = doc.req => doc.resolution = "pending"

\* The inductive invariant.
ApprovalInv ==
  /\ ApprovalTypeOK
  /\ CallFacts
  /\ DecisionFacts
  /\ ReadFacts
  /\ \A r \in Requests : answers[r] \in Decisions => <<asked[r], answers[r]>> \in clicked

McpStates ==
  [pc : {"idle", "poll"}, polls : 0..(MaxPolls - 1), failures : 0..(MaxFailures - 1)]

LEMMA McpIdleOK == McpIdle \in McpStates /\ McpIdle.pc = "idle"
BY ApprovalAssumption DEF McpIdle, McpStates

LEMMA DocOK ==
  /\ NoDoc \in Docs
  /\ \A a \in ActionIds, r \in Requests : [action |-> a, resolution |-> "pending", req |-> r] \in Docs
  /\ \A d \in Docs : /\ Content(d) \in Contents
                    /\ \A x \in Decisions : [d EXCEPT !.resolution = x] \in Docs
BY ApprovalAssumption DEF NoDoc, Docs, Content, Contents, Resolutions, Requests

LEMMA InitInv == Init => ApprovalInv
<1> SUFFICES ASSUME Init PROVE ApprovalInv
  OBVIOUS
<1>1. ApprovalTypeOK
  <2>1. doc \in Docs /\ approve \in [pc : {"idle", "write"}, doc : Docs]
    BY DocOK DEF Init, ApproveIdle
  <2>2. seen \in Contents /\ pane \in Contents
    BY DEF Init, NoContent, Contents, Resolutions
  <2>3. /\ asked \in [Requests -> ActionIds \cup {"none"}]
        /\ answers \in [Requests -> {"none", "pending", "unavailable"} \cup Decisions]
    BY DEF Init
  <2>4. mcp \in McpStates /\ requests \in 0..MaxRequests
    BY ApprovalAssumption, McpIdleOK DEF Init
  <2> QED
    BY <2>1, <2>2, <2>3, <2>4 DEF Init, ApprovalTypeOK, McpStates
<1>2. CallFacts /\ DecisionFacts /\ ReadFacts
  BY ApprovalAssumption, McpIdleOK
  DEF Init, CallFacts, DecisionFacts, ReadFacts, NoDoc, ApproveIdle
<1>3. \A r \in Requests : answers[r] \notin Decisions
  BY ApprovalAssumption DEF Init
<1> QED
  BY <1>1, <1>2, <1>3 DEF ApprovalInv
-----------------------------------------------------------------------------
\* The MCP server.
LEMMA RegisterInv ==
  ASSUME ApprovalInv, NEW a \in ActionIds, Register(a) \/ RegisterFails(a)
  PROVE  ApprovalInv'
<1> USE ApprovalAssumption DEF ApprovalInv, Register, RegisterFails, Requests
<1>0. /\ requests + 1 \in Requests /\ requests' = requests + 1
      /\ mcp' = mcp \/ mcp' = [McpIdle EXCEPT !.pc = "poll"]
      /\ doc' = doc \/ doc' = [action |-> a, resolution |-> "pending", req |-> requests + 1]
      /\ doc' \in Docs
  BY DocOK DEF ApprovalTypeOK
<1>1. ApprovalTypeOK'
  <2>1. mcp' \in McpStates
    BY <1>0, McpIdleOK DEF ApprovalTypeOK, McpStates
  <2>2. offered' \subseteq Requests /\ missed' \subseteq Requests /\ ticked' \in BOOLEAN
    BY <1>0 DEF ApprovalTypeOK
  <2>3. /\ asked' \in [Requests -> ActionIds \cup {"none"}]
        /\ answers' \in [Requests -> {"none", "pending", "unavailable"} \cup Decisions]
    <3> DEFINE A == ActionIds \cup {"none"}
               B == {"none", "pending", "unavailable"} \cup Decisions
    <3>1. asked \in [Requests -> A] /\ answers \in [Requests -> B]
      BY DEF ApprovalTypeOK
    <3>2. a \in A /\ "unavailable" \in B
      OBVIOUS
    <3> HIDE DEF A, B
    <3>3. asked' = [asked EXCEPT ![requests + 1] = a]
      OBVIOUS
    <3>4. answers' = answers \/ answers' = [answers EXCEPT ![requests + 1] = "unavailable"]
      OBVIOUS
    <3>5. asked' \in [Requests -> A] /\ answers' \in [Requests -> B]
      BY <1>0, <3>1, <3>2, <3>3, <3>4
    <3> QED
      BY <3>5 DEF A, B
  <2> QED
    BY <1>0, <2>1, <2>2, <2>3 DEF ApprovalTypeOK, McpStates
<1>2. CallFacts'
  <2>1. doc'.req <= requests + 1 /\ requests \in Nat
    BY <1>0 DEF ApprovalTypeOK, CallFacts, Docs
  <2>2. \A r \in Requests : r # requests + 1 => answers'[r] = answers[r]
    BY <1>0 DEF ApprovalTypeOK
  <2>3. \A r \in Requests : r > requests + 1 => answers'[r] = "none"
    BY <2>1, <2>2 DEF CallFacts
  <2> QED
    BY <1>0, <2>1, <2>3 DEF CallFacts
<1>3. DecisionFacts'
  BY DEF DecisionFacts
<1>4. ReadFacts'
  BY DEF ApprovalTypeOK, ReadFacts, CallFacts, Docs
<1>5. (\A r \in Requests : answers[r] \in Decisions => <<asked[r], answers[r]>> \in clicked)'
  BY SMTT(30) DEF ApprovalTypeOK, CallFacts
<1> QED
  BY <1>1, <1>2, <1>3, <1>4, <1>5

LEMMA PollInv ==
  ASSUME ApprovalInv, McpPoll \/ McpPollFails
  PROVE  ApprovalInv'
<1> USE ApprovalAssumption DEF ApprovalInv, Requests
<1>1. /\ UNCHANGED <<doc, requests, asked, approve, seen, notified, pane, clicked, offered, missed, ticked>>
      /\ mcp.pc = "poll"
      /\ \/ mcp' = McpIdle
         \/ /\ mcp.polls + 1 < MaxPolls
            /\ \E f \in 0..(MaxFailures - 1) :
                 mcp' = [mcp EXCEPT !.polls = @ + 1, !.failures = f]
  <2>1. 0 \in 0..(MaxFailures - 1)
    OBVIOUS
  <2>2. mcp.failures \in 0..(MaxFailures - 1)
    BY DEF ApprovalTypeOK
  <2>3. CASE McpPoll
    BY <2>1, <2>3 DEF McpPoll, Spend, Answer
  <2>4. CASE McpPollFails
    <3>1. CASE mcp.failures + 1 >= MaxFailures
      BY <2>4, <3>1 DEF McpPollFails, Answer
    <3>2. CASE ~(mcp.failures + 1 >= MaxFailures)
      <4>1. mcp.failures + 1 \in 0..(MaxFailures - 1)
        BY <2>2, <3>2
      <4> QED
        BY <2>4, <3>2, <4>1 DEF McpPollFails, Spend, Answer
    <3> QED
      BY <3>1, <3>2
  <2> QED
    BY <2>3, <2>4
<1>2. \/ answers' = answers
      \/ \E reply \in {"pending", "unavailable"} \cup ResolutionOf(asked[requests]) :
           answers' = [answers EXCEPT ![requests] = reply]
  BY DEF McpPoll, McpPollFails, Spend, Answer
<1>3. ApprovalTypeOK'
  <2>1. mcp' \in McpStates
    <3>1. mcp \in McpStates
      BY DEF ApprovalTypeOK, McpStates
    <3>2. CASE mcp' = McpIdle
      BY <3>2, McpIdleOK
    <3>3. ASSUME NEW f \in 0..(MaxFailures - 1), mcp.polls + 1 < MaxPolls,
                 mcp' = [mcp EXCEPT !.polls = @ + 1, !.failures = f]
          PROVE  mcp' \in McpStates
      <4>1. mcp.polls + 1 \in 0..(MaxPolls - 1)
        BY <3>1, <3>3 DEF McpStates
      <4> QED
        BY <3>1, <3>3, <4>1 DEF McpStates
    <3> QED
      BY <1>1, <3>2, <3>3
  <2>2. answers' \in [Requests -> {"none", "pending", "unavailable"} \cup Decisions]
    BY <1>1, <1>2 DEF ApprovalTypeOK, ResolutionOf
  <2> QED
    BY <1>1, <2>1, <2>2 DEF ApprovalTypeOK, McpStates
<1>4. CallFacts'
  <2>1. requests \in Requests
    BY <1>1 DEF CallFacts
  <2>2. \A r \in Requests : r > requests => answers'[r] = "none"
    BY <1>2, <2>1 DEF ApprovalTypeOK, CallFacts
  <2> QED
    BY <1>1, <2>1, <2>2 DEF CallFacts
<1>5. DecisionFacts' /\ ReadFacts'
  BY <1>1 DEF DecisionFacts, ReadFacts
<1>6. (\A r \in Requests : answers[r] \in Decisions => <<asked[r], answers[r]>> \in clicked)'
  BY <1>1, <1>2, ZenonT(60) DEF ApprovalTypeOK, CallFacts, DecisionFacts, ResolutionOf
<1> QED
  BY <1>3, <1>4, <1>5, <1>6
-----------------------------------------------------------------------------
\* approve_prompt.
LEMMA ApproveReadInv ==
  ASSUME ApprovalInv, NEW d \in Decisions, ApproveRead(d)
  PROVE  ApprovalInv'
<1> USE ApprovalAssumption DEF ApprovalInv, ApproveRead, Resolvable, Requests
<1>1. ApprovalTypeOK'
  <2>1. pane.action \in ActionIds
    BY DEF ApprovalTypeOK, Contents
  <2>2. clicked' \in SUBSET (ActionIds \X Decisions)
    BY <2>1 DEF ApprovalTypeOK
  <2>3. [doc EXCEPT !.resolution = d] \in Docs
    BY DocOK DEF ApprovalTypeOK
  <2>4. approve' \in [pc : {"idle", "write"}, doc : Docs]
    <3>1. approve \in [pc : {"idle", "write"}, doc : Docs]
      BY DEF ApprovalTypeOK
    <3>2. \/ approve' = approve
          \/ approve' = [pc |-> "write", doc |-> [doc EXCEPT !.resolution = d]]
      OBVIOUS
    <3> QED
      BY ONLY <2>3, <3>1, <3>2
  <2> QED
    BY <2>2, <2>4 DEF ApprovalTypeOK
<1>2. CallFacts'
  BY DEF CallFacts
<1>3. DecisionFacts'
  BY DEF ApprovalTypeOK, DecisionFacts, Docs
<1>4. ReadFacts'
  <2>1. UNCHANGED <<doc, requests>> /\ doc \in Docs
    BY DEF ApprovalTypeOK
  <2>2. CASE UNCHANGED approve
    BY <2>1, <2>2 DEF ReadFacts
  <2>3. CASE /\ doc.resolution = "pending"
             /\ approve' = [pc |-> "write", doc |-> [doc EXCEPT !.resolution = d]]
    BY <2>1, <2>3 DEF ReadFacts, CallFacts, Docs
  <2> QED
    BY <2>2, <2>3
<1>5. (\A r \in Requests : answers[r] \in Decisions => <<asked[r], answers[r]>> \in clicked)'
  OBVIOUS
<1> QED
  BY <1>1, <1>2, <1>3, <1>4, <1>5

LEMMA ApproveWriteInv ==
  ASSUME ApprovalInv, ApproveWrite
  PROVE  ApprovalInv'
<1> USE ApprovalAssumption DEF ApprovalInv, ApproveWrite, upsert, ApproveIdle, Requests
<1>1. ApprovalTypeOK'
  BY DEF ApprovalTypeOK, NoDoc, Docs, Resolutions
<1>2. CallFacts'
  BY DEF CallFacts, ReadFacts
<1>3. DecisionFacts' /\ ReadFacts'
  BY DEF DecisionFacts, ReadFacts
<1>4. (\A r \in Requests : answers[r] \in Decisions => <<asked[r], answers[r]>> \in clicked)'
  OBVIOUS
<1> QED
  BY <1>1, <1>2, <1>3, <1>4
-----------------------------------------------------------------------------
\* Surfacing leaves the document, the calls and the command alone.
LEMMA SurfaceInv ==
  ASSUME ApprovalInv, ApprovalTick \/ PaneRefetch \/ PaneRefetchFails \/ UNCHANGED vars
  PROVE  ApprovalInv'
<1> USE DEF ApprovalInv, ApprovalTick, PaneRefetch, PaneRefetchFails, vars
<1>1. ApprovalTypeOK'
  <2>1. Content(doc) \in Contents
    BY DocOK DEF ApprovalTypeOK
  <2>2. Showing(Content(doc), doc) => doc.req \in Requests
    BY DEF ApprovalTypeOK, Showing, Docs, Requests
  <2>3. CASE ApprovalTick
    BY <2>1, <2>3 DEF ApprovalTypeOK
  <2>4. CASE PaneRefetch
    BY <2>1, <2>2, <2>4 DEF ApprovalTypeOK
  <2>5. CASE UNCHANGED vars
    BY <2>5 DEF ApprovalTypeOK
  <2>6. CASE PaneRefetchFails
    <3>1. doc.req # 0 => doc.req \in Requests
      BY DEF ApprovalTypeOK, Docs, Requests
    <3> QED
      BY <2>6, <3>1 DEF ApprovalTypeOK
  <2> QED
    BY <2>3, <2>4, <2>5, <2>6
<1>2. CallFacts' /\ DecisionFacts' /\ ReadFacts'
  BY DEF CallFacts, DecisionFacts, ReadFacts
<1>3. (\A r \in Requests : answers[r] \in Decisions => <<asked[r], answers[r]>> \in clicked)'
  OBVIOUS
<1> QED
  BY <1>1, <1>2, <1>3
-----------------------------------------------------------------------------
\* The inductive invariant holds in every reachable state.
THEOREM Invariance == Spec => []ApprovalInv
<1>1. ApprovalInv /\ [Next]_vars => ApprovalInv'
  BY RegisterInv, PollInv, ApproveReadInv, ApproveWriteInv, SurfaceInv DEF Next
<1> QED
  BY <1>1, InitInv, PTL DEF Spec

\* No agent is told a decision that the user did not click on that very action, however
\* stale the pane was and whatever calls came between (resolution_of's and
\* resolve_approval_impl's action_id guards).
THEOREM OnlyClicksAnswer == Spec => []AnswersAreClicks
<1>1. ApprovalInv => AnswersAreClicks
  BY DEF ApprovalInv, AnswersAreClicks
<1> QED
  BY <1>1, Invariance, PTL

\* approve_prompt never changes a decision: its upsert finds the request it read pending,
\* or another request (resolve_approval_impl, "already resolved" is a no-op).
THEOREM DecisionsStand == Spec => NeverReResolved
<1>1. ApprovalInv /\ [Next]_vars
        => [doc.resolution \in Decisions /\ doc'.req = doc.req => doc' = doc]_doc
  <2> SUFFICES ASSUME ApprovalInv, Next, doc.resolution \in Decisions, doc'.req = doc.req
               PROVE  doc' = doc
    BY DEF vars
  <2> USE ApprovalAssumption DEF ApprovalInv
  <2>1. CASE \E a \in ActionIds : Register(a) \/ RegisterFails(a)
    BY <2>1 DEF Register, RegisterFails, ApprovalTypeOK, CallFacts, Docs
  <2>2. CASE ApproveWrite
    BY <2>2 DEF ApproveWrite, upsert, ReadFacts
  <2>3. CASE McpPoll \/ McpPollFails \/ ApprovalTick \/ PaneRefetch \/ PaneRefetchFails
    BY <2>3 DEF McpPoll, McpPollFails, ApprovalTick, PaneRefetch, PaneRefetchFails
  <2>4. CASE \E d \in Decisions : ApproveRead(d)
    BY <2>4 DEF ApproveRead
  <2> QED
    BY <2>1, <2>2, <2>3, <2>4 DEF Next
<1> QED
  BY <1>1, Invariance, PTL DEF Spec, NeverReResolved
-----------------------------------------------------------------------------
(* What is offered.  A call's request that no earlier call shares is       *)
(* announced by the loop's first tick after it, and the refetch that       *)
(* handles the announcement shows it or fails.                             *)

\* No earlier call asked for the newest call's action.
Fresh == \A q \in Requests : asked[q] = asked[requests] => q >= requests

\* What is stored, on its way to the store or seen by the loop was asked.
AskedFacts ==
  /\ doc.action = IF doc.req = 0 THEN "none" ELSE asked[doc.req]
  /\ approve.pc = "write" => approve.doc.req # 0 /\ approve.doc.action = asked[approve.doc.req]
  /\ seen.action = "none" \/ \E q \in Requests : q <= requests /\ seen.action = asked[q]

\* Until a fresh request is offered or missed it is pending, not shown and never read
\* for a decision, and the loop has yet to see it or the pane to handle its event.
OfferFacts ==
  mcp.pc = "poll" /\ Fresh /\ requests \notin offered =>
    /\ approve.pc = "write" => approve.doc.req # requests
    /\ doc.req = requests =>
         /\ doc.resolution = "pending"
         /\ pane # Content(doc)
         /\ \/ seen # Content(doc) /\ ~ticked
            \/ seen = Content(doc) /\ (notified \/ requests \in missed)

OfferInv == AskedFacts /\ OfferFacts

LEMMA OfferInit == Init => OfferInv
BY McpIdleOK DEF Init, OfferInv, AskedFacts, OfferFacts, NoDoc, NoContent, ApproveIdle

LEMMA RegisterOffer ==
  ASSUME ApprovalInv, OfferInv, NEW a \in ActionIds, Register(a) \/ RegisterFails(a)
  PROVE  OfferInv'
<1> USE DEF ApprovalInv, OfferInv
<1>1. /\ requests \in Nat /\ requests + 1 \in Requests /\ requests' = requests + 1
      /\ asked' = [asked EXCEPT ![requests + 1] = a]
      /\ UNCHANGED <<approve, seen, notified, pane>>
      /\ doc' = doc \/ doc' = [action |-> a, resolution |-> "pending", req |-> requests + 1]
      /\ mcp.pc = "idle"
  BY ApprovalAssumption DEF Register, RegisterFails, ApprovalTypeOK, Requests
<1>2. asked'[requests + 1] = a /\ \A q \in Requests : q <= requests => asked'[q] = asked[q]
  BY <1>1 DEF ApprovalTypeOK
<1>3. /\ doc.req \in Nat /\ doc.req <= requests /\ (doc.req # 0 => doc.req \in Requests)
      /\ approve.pc = "write" => approve.doc.req \in Nat /\ approve.doc.req <= requests
                                 /\ (approve.doc.req # 0 => approve.doc.req \in Requests)
  BY ApprovalAssumption DEF ApprovalTypeOK, Docs, CallFacts, ReadFacts, Requests
<1>4. AskedFacts'
  <2>1. (doc.action = IF doc.req = 0 THEN "none" ELSE asked[doc.req])'
    BY <1>1, <1>2, <1>3 DEF AskedFacts
  <2>2. (approve.pc = "write" => approve.doc.req # 0 /\ approve.doc.action = asked[approve.doc.req])'
    BY <1>1, <1>2, <1>3 DEF AskedFacts
  <2>3. (seen.action = "none" \/ \E q \in Requests : q <= requests /\ seen.action = asked[q])'
    <3>1. CASE seen.action = "none"
      BY <1>1, <3>1
    <3>2. ASSUME NEW q \in Requests, q <= requests, seen.action = asked[q]
          PROVE  \E p \in Requests : p <= requests + 1 /\ seen.action = asked'[p]
      BY <1>1, <1>2, <3>2 DEF Requests
    <3> QED
      BY <1>1, <3>1, <3>2 DEF AskedFacts
  <2> QED
    BY <2>1, <2>2, <2>3 DEF AskedFacts
<1>5. OfferFacts'
  <2>1. CASE RegisterFails(a)
    BY <1>1, <2>1 DEF RegisterFails, OfferFacts
  <2>2. CASE Register(a)
    <3> SUFFICES ASSUME Fresh', requests' \notin offered'
                 PROVE  (/\ approve.pc = "write" => approve.doc.req # requests
                         /\ doc.req = requests =>
                              /\ doc.resolution = "pending"
                              /\ pane # Content(doc)
                              /\ \/ seen # Content(doc) /\ ~ticked
                                 \/ seen = Content(doc) /\ (notified \/ requests \in missed))'
      BY DEF OfferFacts
    <3>1. /\ doc' = [action |-> a, resolution |-> "pending", req |-> requests + 1] /\ ticked' = FALSE
          /\ offered' = IF Showing(pane, doc') THEN offered \cup {requests + 1} ELSE offered
      BY <2>2 DEF Register
    <3>2. pane # Content(doc')
      BY <1>1, <3>1 DEF Showing
    <3>3. seen # Content(doc')
      <4>1. SUFFICES ASSUME seen = Content(doc') PROVE FALSE
        OBVIOUS
      <4>2. seen.action = a /\ a # "none"
        BY <3>1, <4>1, ApprovalAssumption DEF Content
      <4>3. PICK q \in Requests : q <= requests /\ seen.action = asked[q]
        BY <4>2 DEF AskedFacts
      <4>4. asked'[q] = asked'[requests']
        BY <1>1, <1>2, <4>2, <4>3
      <4>5. q >= requests + 1
        BY <1>1, <4>4 DEF Fresh
      <4> QED
        BY <1>1, <4>3, <4>5 DEF Requests
    <3> QED
      BY <1>1, <1>3, <3>1, <3>2, <3>3
  <2> QED
    BY <2>1, <2>2
<1> QED
  BY <1>4, <1>5

LEMMA OtherOffer ==
  ASSUME ApprovalInv, OfferInv,
         \/ McpPoll \/ McpPollFails \/ ApproveWrite \/ ApprovalTick \/ PaneRefetch \/ PaneRefetchFails
         \/ UNCHANGED vars
         \/ \E d \in Decisions : ApproveRead(d)
  PROVE  OfferInv'
<1> USE DEF ApprovalInv, OfferInv
<1>1. UNCHANGED <<requests, asked>>
  BY DEF McpPoll, McpPollFails, ApproveWrite, ApprovalTick, PaneRefetch, PaneRefetchFails, ApproveRead, vars
<1>2. Fresh' = Fresh
  BY <1>1 DEF Fresh
<1>3. doc.req \in Nat /\ doc.req <= requests /\ requests \in Nat /\ (doc.req # 0 => doc.req \in Requests)
  BY ApprovalAssumption DEF ApprovalTypeOK, Docs, CallFacts, Requests
<1>4. CASE McpPoll \/ McpPollFails
  <2>1. UNCHANGED <<doc, approve, seen, notified, pane, clicked, offered, missed, ticked>> /\ mcp.pc = "poll"
    BY <1>4 DEF McpPoll, McpPollFails
  <2> QED
    BY <1>1, <1>2, <2>1 DEF AskedFacts, OfferFacts
<1>5. CASE ApproveWrite
  <2>1. /\ UNCHANGED <<mcp, seen, notified, pane, offered, missed, ticked>>
        /\ approve.pc = "write" /\ approve'.pc = "idle" /\ (doc' = approve.doc \/ doc' = doc)
    BY <1>5 DEF ApproveWrite, ApproveIdle, upsert
  <2>2. AskedFacts'
    BY <1>1, <2>1 DEF AskedFacts
  <2>3. OfferFacts'
    BY <1>1, <1>2, <2>1 DEF OfferFacts
  <2> QED
    BY <2>2, <2>3
<1>6. CASE ApprovalTick
  <2>1. /\ UNCHANGED <<doc, mcp, approve, pane, offered, missed>> /\ doc.req # 0 /\ seen' = Content(doc)
        /\ notified' = (notified \/ (Content(doc) # seen /\ doc.resolution = "pending"))
    BY <1>6 DEF ApprovalTick
  <2>2. AskedFacts'
    <3>1. seen'.action = asked[doc.req] /\ doc.req \in Requests
      BY <1>3, <2>1 DEF AskedFacts, Content
    <3> QED
      BY <1>1, <1>3, <2>1, <3>1 DEF AskedFacts
  <2>3. OfferFacts'
    BY <1>1, <1>2, <2>1 DEF OfferFacts
  <2> QED
    BY <2>2, <2>3
<1>7. CASE PaneRefetch
  <2>1. /\ UNCHANGED <<doc, mcp, approve, seen, missed, ticked>> /\ pane' = Content(doc)
        /\ offered' = IF Showing(pane', doc) THEN offered \cup {doc.req} ELSE offered
    BY <1>7 DEF PaneRefetch
  <2>2. AskedFacts'
    BY <1>1, <2>1 DEF AskedFacts
  <2>3. OfferFacts'
    <3> SUFFICES ASSUME mcp.pc = "poll", Fresh, requests \notin offered'
                 PROVE  /\ approve.pc = "write" => approve.doc.req # requests
                        /\ doc.req # requests
      BY <1>1, <1>2, <2>1 DEF OfferFacts
    <3>1. requests # 0 /\ requests \notin offered
      BY <2>1 DEF CallFacts, Requests
    <3>2. doc.req = requests => doc.resolution = "pending" /\ Showing(pane', doc)
      BY <2>1, <3>1 DEF OfferFacts, Showing
    <3> QED
      BY <2>1, <3>1, <3>2 DEF OfferFacts
  <2> QED
    BY <2>2, <2>3
<1>8. ASSUME NEW d \in Decisions, ApproveRead(d) PROVE OfferInv'
  <2>1. UNCHANGED <<doc, mcp, seen, notified, pane, offered, missed, ticked>> /\ pane.resolution = "pending"
    BY <1>8 DEF ApproveRead
  <2>2. CASE UNCHANGED approve
    BY <1>1, <1>2, <2>1, <2>2 DEF AskedFacts, OfferFacts
  <2>3. CASE /\ Resolvable(pane.action)
             /\ approve' = [pc |-> "write", doc |-> [doc EXCEPT !.resolution = d]]
    <3>1. approve'.doc.req = doc.req /\ approve'.doc.action = doc.action
      BY <2>3 DEF ApprovalTypeOK, Docs
    <3>2. pane = Content(doc)
      BY <2>1, <2>3 DEF ApprovalTypeOK, Contents, Content, Resolvable
    <3>3. doc.req # 0
      <4>1. pane.action # "none"
        BY <1>8 DEF ApproveRead
      <4> QED
        BY <2>3, <4>1 DEF Resolvable, AskedFacts
    <3>4. AskedFacts'
      BY <1>1, <2>1, <3>1, <3>3 DEF AskedFacts
    <3>5. OfferFacts'
      BY <1>1, <1>2, <2>1, <3>1, <3>2 DEF OfferFacts
    <3> QED
      BY <3>4, <3>5
  <2> QED
    BY <1>8, <2>2, <2>3 DEF ApproveRead
<1>9. CASE PaneRefetchFails
  <2>1. /\ UNCHANGED <<doc, mcp, approve, seen, pane, offered, ticked>>
        /\ missed' = IF doc.req # 0 /\ seen = Content(doc) THEN missed \cup {doc.req} ELSE missed
    BY <1>9 DEF PaneRefetchFails
  <2>2. mcp.pc = "poll" => requests # 0
    BY DEF CallFacts, Requests
  <2> QED
    BY <1>1, <1>2, <2>1, <2>2 DEF AskedFacts, OfferFacts
<1>10. CASE UNCHANGED vars
  BY <1>1, <1>2, <1>10 DEF vars, AskedFacts, OfferFacts
<1> QED
  BY <1>4, <1>5, <1>6, <1>7, <1>8, <1>9, <1>10

\* An agent told "still pending" had its request in the pane, unless the pane's one
\* fetch for it failed or an earlier call asked for the same action: the tick within
\* its poll budget announced it.
THEOREM PendingWasOffered == Spec => TimedOutWasOffered
<1>1. ASSUME ApprovalInv, OfferInv, Next, NEW r \in Requests,
             answers[r] = "none", answers'[r] = "pending", doc.req = r,
             \A q \in Requests : asked[q] = asked[r] => q >= r
      PROVE  r \in offered \cup missed
  <2> USE DEF ApprovalInv, OfferInv
  <2>1. answers \in [Requests -> {"none", "pending", "unavailable"} \cup Decisions] /\ "pending" \notin Decisions
    BY <1>1, ApprovalAssumption DEF ApprovalTypeOK
  <2>2. /\ mcp.pc = "poll" /\ (Answer("pending") => ticked /\ ~notified) /\ Answer("pending")
    <3>1. answers' # answers
      BY <1>1
    <3>2. \A a \in ActionIds : ~RegisterFails(a)
      BY <1>1, <2>1 DEF RegisterFails
    <3>3. ASSUME NEW reply, reply # "pending", Answer(reply) PROVE FALSE
      BY <1>1, <2>1, <3>3 DEF Answer
    <3>4. "unavailable" # "pending"
      OBVIOUS
    <3>5. CASE McpPoll
      <4>1. Spend(0)
        BY <2>1, <3>3, <3>5 DEF McpPoll, ResolutionOf
      <4> QED
        BY <3>1, <3>5, <4>1 DEF McpPoll, Spend
    <3>6. CASE McpPollFails
      <4>1. Spend(mcp.failures + 1)
        BY <3>3, <3>4, <3>6 DEF McpPollFails
      <4> QED
        BY <3>1, <3>6, <4>1 DEF McpPollFails, Spend
    <3> QED
      BY <1>1, <3>1, <3>2, <3>5, <3>6
      DEF Next, Register, ApproveRead, ApproveWrite, ApprovalTick, PaneRefetch, PaneRefetchFails
  <2>3. r = requests
    BY <1>1, <2>1, <2>2 DEF Answer
  <2>4. Fresh
    BY <1>1, <2>3 DEF Fresh
  <2> QED
    BY <1>1, <2>2, <2>3, <2>4 DEF OfferFacts
<1>2. ApprovalInv /\ OfferInv /\ [Next]_vars
        => [\A r \in Requests :
              (/\ answers[r] = "none" /\ answers'[r] = "pending"
               /\ doc.req = r
               /\ \A q \in Requests : asked[q] = asked[r] => q >= r)
              => r \in offered \cup missed]_vars
  BY <1>1
<1>3. ApprovalInv /\ OfferInv /\ [Next]_vars => OfferInv'
  BY RegisterOffer, OtherOffer DEF Next
<1> QED
  BY <1>2, <1>3, OfferInit, Invariance, PTL DEF Spec, TimedOutWasOffered
=============================================================================

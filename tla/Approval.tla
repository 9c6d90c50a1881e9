------------------------------ MODULE Approval ------------------------------
(***************************************************************************)
(* The plan approval of one session.  The agent's blocking spectty_approval *)
(* tool (the spectty-mcp process) registers a request in the document      *)
(* spectty/{session_id}/approval and long-polls it; the app's poll loop    *)
(* surfaces a pending request to the SpecPane, whose gate calls            *)
(* approve_prompt, which writes the decision into the same document.       *)
(*                                                                         *)
(*   mcp --upsert--> document --approval tick--> status_changed --> pane   *)
(*   mcp <----get--- document <--get; upsert--- approve_prompt <--click--  *)
(*                                                                         *)
(* The store has get and upsert, each atomic, and nothing that joins them. *)
(***************************************************************************)
EXTENDS Naturals, FiniteSets

CONSTANTS ActionIds,     \* action ids the agent uses (free-form)
          Decisions,     \* non-Pending ApprovalStates
          MaxRequests,   \* bound on the spectty_approval calls of the session
          MaxPolls,      \* APPROVAL_MAX_POLLS: gets one call may spend
          MaxFailures,   \* APPROVAL_MAX_CONSECUTIVE_GET_FAILURES
          EngramMayFail  \* can calls to the store fail?

ASSUME ApprovalAssumption == /\ MaxRequests \in Nat
                             /\ MaxPolls \in Nat \ {0}
                             /\ MaxFailures \in Nat \ {0}
                             /\ EngramMayFail \in BOOLEAN
                             /\ {"none", "pending", "unavailable"} \cap Decisions = {}
                             /\ "none" \notin ActionIds

VARIABLES
  doc,       \* the stored ApprovalRequest, and the call that registered it
  mcp,       \* the MCP server: idle, or polling for the newest call
  requests,  \* calls so far; a call is named by its number
  asked,     \* asked[r]: the action id of call r
  answers,   \* answers[r]: what call r returned to the agent
  approve,   \* approve_prompt between its get and its upsert
  seen,      \* the content the poll loop's PortPollReader saw last
  notified,  \* a status_changed(AwaitingInput) the pane has not handled yet
  pane,      \* the request SpecPane holds in its state
  clicked,   \* every <<action id, decision>> the user clicked
  offered,   \* calls whose pending request the pane has held
  missed,    \* calls announced to the pane by an event whose fetch failed
  ticked     \* has the approval loop read since the newest registration?

vars == <<doc, mcp, requests, asked, answers, approve, seen, notified, pane, clicked,
          offered, missed, ticked>>

Requests == 1..MaxRequests
Resolutions == {"pending"} \cup Decisions
NoContent == [action |-> "none", resolution |-> "pending"]
NoDoc == [action |-> "none", resolution |-> "pending", req |-> 0]
Contents == [action : ActionIds \cup {"none"}, resolution : Resolutions]
Docs == [action : ActionIds \cup {"none"}, resolution : Resolutions, req : 0..MaxRequests]

\* What get returns: the call that registered a request is not part of it.
Content(d) == [action |-> d.action, resolution |-> d.resolution]

ApproveIdle == [pc |-> "idle", doc |-> NoDoc]
McpIdle == [pc |-> "idle", polls |-> 0, failures |-> 0]

ApprovalTypeOK ==
  /\ doc \in Docs
  /\ mcp \in [pc : {"idle", "poll"}, polls : 0..(MaxPolls - 1), failures : 0..(MaxFailures - 1)]
  /\ requests \in 0..MaxRequests
  /\ asked \in [Requests -> ActionIds \cup {"none"}]
  /\ answers \in [Requests -> {"none", "pending", "unavailable"} \cup Decisions]
  /\ approve \in [pc : {"idle", "write"}, doc : Docs]
  /\ seen \in Contents
  /\ notified \in BOOLEAN
  /\ pane \in Contents
  /\ clicked \in SUBSET (ActionIds \X Decisions)
  /\ offered \in SUBSET Requests
  /\ missed \in SUBSET Requests
  /\ ticked \in BOOLEAN

Init ==
  /\ doc = NoDoc
  /\ mcp = McpIdle
  /\ requests = 0
  /\ asked = [r \in Requests |-> "none"]
  /\ answers = [r \in Requests |-> "none"]
  /\ approve = ApproveIdle
  /\ seen = NoContent
  /\ notified = FALSE
  /\ pane = NoContent
  /\ clicked = {}
  /\ offered = {}
  /\ missed = {}
  /\ ticked = FALSE
----------------------------------------------------------------------------
(* The spectty-mcp process: one request at a time.                         *)

\* The pane, mounted and listening throughout, holds the stored pending request.
Showing(p, d) == d.req # 0 /\ p = Content(d) /\ d.resolution = "pending"

\* spectty_approval_effect registers the pending request and starts to poll.
Register(a) ==
  /\ mcp.pc = "idle"
  /\ requests < MaxRequests
  /\ requests' = requests + 1
  /\ asked' = [asked EXCEPT ![requests + 1] = a]
  /\ doc' = [action |-> a, resolution |-> "pending", req |-> requests + 1]
  /\ mcp' = [McpIdle EXCEPT !.pc = "poll"]
  /\ ticked' = FALSE
  /\ offered' = IF Showing(pane, doc') THEN offered \cup {requests + 1} ELSE offered
  /\ UNCHANGED <<answers, approve, seen, notified, pane, clicked, missed>>

\* The upsert fails: the call ends, and the store may have taken it all the same.
RegisterFails(a) ==
  /\ EngramMayFail
  /\ mcp.pc = "idle"
  /\ requests < MaxRequests
  /\ requests' = requests + 1
  /\ asked' = [asked EXCEPT ![requests + 1] = a]
  /\ answers' = [answers EXCEPT ![requests + 1] = "unavailable"]
  /\ doc' \in {doc, [action |-> a, resolution |-> "pending", req |-> requests + 1]}
  /\ UNCHANGED <<mcp, approve, seen, notified, pane, clicked, offered, missed, ticked>>

Answer(reply) ==
  /\ answers' = [answers EXCEPT ![requests] = reply]
  /\ mcp' = McpIdle

\* One attempt of the budget is spent; after the last one the call returns
\* "still pending".  The budget (600 polls of 500 ms) outlasts the approval
\* loop's period (2 s): the pane has handled a tick by then.
Spend(failures) ==
  IF mcp.polls + 1 < MaxPolls
  THEN /\ mcp' = [mcp EXCEPT !.polls = @ + 1, !.failures = failures]
       /\ UNCHANGED answers
  ELSE /\ ticked /\ ~notified
       /\ Answer("pending")

\* Mutant: any resolution in the document is taken for the answer.
ResolutionOf_any_action(a) == IF doc.resolution \in Decisions THEN {doc.resolution} ELSE {}

\* resolution_of: the decision on action a, if the document holds one.
ResolutionOf(a) ==
  IF doc.action = a /\ doc.resolution \in Decisions THEN {doc.resolution} ELSE {}

\* poll_for_resolution, a get that succeeds.
McpPoll ==
  /\ mcp.pc = "poll"
  /\ \/ \E d \in ResolutionOf(asked[requests]) : Answer(d)
     \/ ResolutionOf(asked[requests]) = {} /\ Spend(0)
  /\ UNCHANGED <<doc, requests, asked, approve, seen, notified, pane, clicked, offered, missed, ticked>>

\* Mutant: a failed get does not count towards giving up.
McpPollFails_uncounted ==
  /\ EngramMayFail
  /\ mcp.pc = "poll"
  /\ Spend(mcp.failures)
  /\ UNCHANGED <<doc, requests, asked, approve, seen, notified, pane, clicked, offered, missed, ticked>>

\* poll_for_resolution, a get that fails: a sustained outage ends the call.
McpPollFails ==
  /\ EngramMayFail
  /\ mcp.pc = "poll"
  /\ IF mcp.failures + 1 >= MaxFailures
     THEN Answer("unavailable")
     ELSE Spend(mcp.failures + 1)
  /\ UNCHANGED <<doc, requests, asked, approve, seen, notified, pane, clicked, offered, missed, ticked>>
----------------------------------------------------------------------------
(* approve_prompt: a synchronous command, so one at a time.                *)

\* Mutant: an already resolved request can be resolved again.
Resolvable_again(a) == doc.action = a

\* Only the addressed, still pending request resolves.
Resolvable(a) == doc.action = a /\ doc.resolution = "pending"

\* The user clicks decision d on the request the pane holds; the command gets
\* the document.
ApproveRead(d) ==
  /\ approve.pc = "idle"
  /\ pane.action # "none" /\ pane.resolution = "pending"
  /\ clicked' = clicked \cup {<<pane.action, d>>}
  /\ \/ /\ Resolvable(pane.action)
        /\ approve' = [pc |-> "write", doc |-> [doc EXCEPT !.resolution = d]]
     \/ /\ ~Resolvable(pane.action) \/ EngramMayFail
        /\ UNCHANGED approve
  /\ UNCHANGED <<doc, mcp, requests, asked, answers, seen, notified, pane, offered, missed, ticked>>

\* The app's upsert: the session's row first, then the document, which may fail
\* before or after it is stored.
upsert(d) ==
  \/ doc' = d
  \/ EngramMayFail /\ UNCHANGED doc

\* ... and upserts what it got with the decision in it.
ApproveWrite ==
  /\ approve.pc = "write"
  /\ upsert(approve.doc)
  /\ approve' = ApproveIdle
  /\ UNCHANGED <<mcp, requests, asked, answers, seen, notified, pane, clicked, offered, missed, ticked>>
----------------------------------------------------------------------------
(* Surfacing: the approval poll loop and the pane.                         *)

\* Mutant: the content's hash is the token: a change to a lower hash is swallowed.
ApprovalTick_by_hash_order ==
  /\ doc.req # 0
  /\ seen' = Content(doc)
  /\ notified' \in {notified, notified \/ (Content(doc) # seen /\ doc.resolution = "pending")}
  /\ ticked' = TRUE
  /\ UNCHANGED <<doc, mcp, requests, asked, answers, approve, pane, clicked, offered, missed>>

\* One tick of run_poll_loop: emit when the content is not the one seen last,
\* and only for a pending request (approval_status_from_change).  A failed get
\* is a tick that does nothing.
ApprovalTick ==
  /\ doc.req # 0
  /\ seen' = Content(doc)
  /\ notified' = (notified \/ (Content(doc) # seen /\ doc.resolution = "pending"))
  /\ ticked' = TRUE
  /\ UNCHANGED <<doc, mcp, requests, asked, answers, approve, pane, clicked, offered, missed>>

\* refetchApproval: on status_changed(AwaitingInput), and whenever the agent
\* updates a Pending spec, the pane gets the document again.
PaneRefetch ==
  /\ pane' = Content(doc)
  /\ notified' = FALSE
  /\ offered' = IF Showing(pane', doc) THEN offered \cup {doc.req} ELSE offered
  /\ UNCHANGED <<doc, mcp, requests, asked, answers, approve, seen, clicked, missed, ticked>>
\* The fetch an event asked for fails: nothing catches it, the event is spent and the
\* pane keeps what it has.  The loop does not announce that content again.
PaneRefetchFails ==
  /\ EngramMayFail
  /\ notified
  /\ notified' = FALSE
  /\ missed' = IF doc.req # 0 /\ seen = Content(doc) THEN missed \cup {doc.req} ELSE missed
  /\ UNCHANGED <<doc, mcp, requests, asked, answers, approve, seen, pane, clicked, offered, ticked>>
----------------------------------------------------------------------------
Next ==
  \/ \E a \in ActionIds : Register(a) \/ RegisterFails(a)
  \/ McpPoll \/ McpPollFails
  \/ \E d \in Decisions : ApproveRead(d)
  \/ ApproveWrite
  \/ ApprovalTick \/ PaneRefetch \/ PaneRefetchFails

Spec == Init /\ [][Next]_vars

\* The MCP server keeps polling, a command that began goes on, the approval loop
\* ticks and an emitted event reaches the pane; the agent and the user owe nothing.
FairSpec ==
  /\ Spec
  /\ WF_vars(McpPoll \/ McpPollFails)
  /\ WF_vars(ApproveWrite)
  /\ WF_vars(ApprovalTick)
  /\ WF_vars((notified /\ PaneRefetch) \/ PaneRefetchFails)
----------------------------------------------------------------------------
\* A decision an agent is told is one the user clicked on that very action,
\* whatever the pane's request, the document and the calls have become since
\* (resolution_of's and resolve_approval_impl's action_id guards).
AnswersAreClicks ==
  /\ ApprovalTypeOK
  /\ \A r \in Requests : answers[r] \in Decisions => <<asked[r], answers[r]>> \in clicked

\* A resolved request is never resolved again: clicks on a stale pane change
\* nothing (resolve_approval_impl, "already resolved" is a no-op).
NeverReResolved ==
  [][doc.resolution \in Decisions /\ doc'.req = doc.req => doc' = doc]_doc

\* A decision written while the agent still has the polls to see an outage out
\* is told to it, or the outage is: never "still pending"
\* (poll_for_resolution's tolerance is spent from the same budget).
DecisionDelivered ==
  \A r \in Requests :
    (/\ requests = r /\ mcp.pc = "poll"
     /\ doc.req = r /\ doc.resolution \in Decisions
     /\ MaxPolls - mcp.polls >= MaxFailures)
      ~> (answers[r] \in Decisions \cup {"unavailable"})

\* An agent told "still pending" had its request in the pane, unless the pane's one
\* fetch for it failed, or an earlier call asked for the same action: its content
\* may be the one the loop saw last, and the surfacing goes by content.
TimedOutWasOffered ==
  [][\A r \in Requests :
       (/\ answers[r] = "none" /\ answers'[r] = "pending"
        /\ doc.req = r
        /\ \A q \in Requests : asked[q] = asked[r] => q >= r)
       => r \in offered \cup missed]_vars
=============================================================================

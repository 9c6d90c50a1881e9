------------------------------ MODULE SpecFeed ------------------------------
(***************************************************************************)
(* The living spec of one session: the agent calls spectty_spec, the MCP   *)
(* server upserts the contract, the app's poll loop announces a change,    *)
(* and the SpecPane shows it.                                              *)
(*                                                                         *)
(*   agent --tools/call--> mcp --upsert--> store --poll--> spec_updated --> pane *)
(*                                         store <------ get_spec --------- pane *)
(*                                                                         *)
(* The store outlives the app: spawn_session reads it once to seed the     *)
(* reader, and session ids start over, so a new session may find the       *)
(* contract of an old one.  The spec_updated that spawn_session emits      *)
(* itself reaches nobody: its pane is mounted after the command returned.  *)
(***************************************************************************)
EXTENDS LivePane

CONSTANTS Contracts,    \* objects that deserialize to a SpecContract
          Messages,     \* what the agent sends: see Message
          MaxMessages,  \* bound on the messages of the agents
          MaxStarts,    \* bound on the sessions that get this id
          MaxMounts,    \* bound on the mounts of the pane
          EngramMayFail \* can calls to the store fail?

\* spectty_spec and the stubs; spectty_approval and spectty_diff are the subject of
\* Approval and DiffFeed.
Tools == {"spectty_spec", "spectty_status", "spectty_cost"}

\* A line of the agent's: is it JSON, has it an id, its method, and of a call
\* the tool, whether the session is named, and the spec.  "partial" is an object that
\* is no SpecContract, "junk" anything that is not an object.
Message == [json : BOOLEAN, id : BOOLEAN,
            method : {"initialize", "tools/list", "tools/call", "other"},
            tool : Tools \cup {"none", "other"}, session : BOOLEAN,
            spec : Contracts \cup {"partial", "junk"}]

ASSUME SpecFeedAssumption == /\ Messages \subseteq Message
                             /\ {"none", "partial", "junk"} \cap Contracts = {}
                             /\ MaxMessages \in Nat /\ MaxStarts \in Nat /\ MaxMounts \in Nat
                             /\ EngramMayFail \in BOOLEAN

VARIABLES
  mcp,       \* the MCP server: where it is with which message
  reply,     \* what its newest reply said
  messages,  \* messages so far
  store,     \* the document spectty/{session_id}/spec
  app,       \* the session's poll loop: stage, its reader, its change
  starts,    \* sessions started so far under this id
  mounts,    \* mounts of the pane so far
  announced, \* content the loop was seeded with or announced last, and whether
             \* the pane's listener was there
  fetched    \* content the pane's fetch read, "none" if it failed

vars == <<mcp, reply, messages, store, app, starts, mounts, announced, fetched, paneVars>>
mcpVars == <<mcp, reply, messages, store>>
appVars == <<app, announced>>

Codes == {"PARSE_ERROR", "METHOD_NOT_FOUND", "INVALID_PARAMS"}
Stored == [content : Contracts \cup {"partial", "junk"}, version : 1..MaxMessages]
Hashes == Contracts \cup {"partial", "junk", "none"}
AppOff == [at |-> "off", hash |-> "none", revision |-> 0, last |-> 0, change |-> Nothing]
McpIdle == [at |-> "idle"]
Revisions == 0..(MaxMessages + 1)

SpecFeedTypeOK ==
  /\ mcp \in {McpIdle} \cup [at : {"dispatch", "session", "post"}, msg : Messages, before : Stored \cup {Nothing}]
  /\ reply \in {"none", "waiting", "silent", "ok", "ack", "isError"} \cup Codes
  /\ messages \in 0..MaxMessages
  /\ store \in Stored \cup {Nothing} /\ store.content # "junk"
  /\ app \in [at : {"off", "wait", "emit"}, hash : Hashes, revision : Revisions, last : Revisions,
              change : Stored \cup {Nothing}]
  /\ starts \in 0..MaxStarts /\ mounts \in 0..MaxMounts
  /\ announced \in [content : Hashes, heard : BOOLEAN]
  /\ fetched \in Hashes
  /\ PaneTypeOK([content : Contracts, version : 1..MaxMessages])
  /\ pane.on => app.at # "off"

Init ==
  /\ mcp = McpIdle /\ reply = "none" /\ messages = 0
  /\ store = Nothing
  /\ app = AppOff /\ starts = 0 /\ mounts = 0
  /\ announced = [content |-> "none", heard |-> FALSE]
  /\ fetched = "none"
  /\ PaneInit
----------------------------------------------------------------------------
(* The MCP server: one message at a time.                                  *)

\* The message is read from stdin.
Receive(m) ==
  /\ mcp = McpIdle /\ app.at # "off"
  /\ messages < MaxMessages
  /\ messages' = messages + 1
  /\ mcp' = [at |-> "dispatch", msg |-> m, before |-> store]
  /\ reply' = "waiting"
  /\ UNCHANGED <<store, appVars, starts, mounts, fetched, paneVars>>

Calls(m, tool) == m.json /\ m.method = "tools/call" /\ m.tool = tool

\* The error of a message, decided before anything is done.
refusal(m) ==
  CASE ~m.json -> "PARSE_ERROR"
    [] m.json /\ m.method = "other" -> "METHOD_NOT_FOUND"
    [] Calls(m, "none")
       \/ (Calls(m, "spectty_spec") /\ (~m.session \/ m.spec = "junk")) -> "INVALID_PARAMS"
    [] Calls(m, "other") -> "METHOD_NOT_FOUND"
    [] OTHER -> "none"

\* A message without an id is a notification: it has its effect and no reply.
Respond(outcome) ==
  /\ mcp' = McpIdle
  /\ reply' = IF mcp.msg.id \/ outcome = "PARSE_ERROR" THEN outcome ELSE "silent"

\* dispatch: an error, a result without effect, or spectty_spec_effect.
Dispatch ==
  /\ mcp.at = "dispatch"
  /\ \/ refusal(mcp.msg) # "none" /\ Respond(refusal(mcp.msg))
     \/ /\ refusal(mcp.msg) = "none"
        /\ ~Calls(mcp.msg, "spectty_spec")
        /\ Respond("ack")
     \/ /\ refusal(mcp.msg) = "none"
        /\ Calls(mcp.msg, "spectty_spec")
        /\ mcp' = [mcp EXCEPT !.at = "session"]
        /\ UNCHANGED reply
  /\ UNCHANGED <<messages, store, appVars, starts, mounts, fetched, paneVars>>

\* upsert ensures the session's row...
PostSession ==
  /\ mcp.at = "session"
  /\ \/ EngramMayFail /\ Respond("isError")
     \/ mcp' = [mcp EXCEPT !.at = "post"] /\ UNCHANGED reply
  /\ UNCHANGED <<messages, store, appVars, starts, mounts, fetched, paneVars>>

Put == store' = [content |-> mcp.msg.spec, version |-> messages]

\* Mutant: a response is a success, whatever its status.
PostObservation_any_status ==
  /\ mcp.at = "post"
  /\ \/ Put
     \/ EngramMayFail /\ UNCHANGED store
  /\ Respond("ok")
  /\ UNCHANGED <<messages, appVars, starts, mounts, fetched, paneVars>>

\* ... and posts the document, which may fail before or after it is stored.
PostObservation ==
  /\ mcp.at = "post"
  /\ \/ Put /\ Respond("ok")
     \/ EngramMayFail /\ (Put \/ UNCHANGED store) /\ Respond("isError")
  /\ UNCHANGED <<messages, appVars, starts, mounts, fetched, paneVars>>
----------------------------------------------------------------------------
(* The app: spawn_session's seed, and the poll loop of the session.        *)

\* Mutant: the seeded reader counts its first revision as 0.
Seed_token(content) == [AppOff EXCEPT !.at = "wait", !.hash = content, !.last = 1]

\* PortPollReader::seeded and SpecBus::seeded
Seed(content) == [AppOff EXCEPT !.at = "wait", !.hash = content, !.revision = 1, !.last = 1]

\* spec_port.get at hydration: what it finds is the seed, as it is; absent or
\* unreadable, the loop starts without one.
Hydrate ==
  /\ app.at = "off" /\ starts < MaxStarts
  /\ starts' = starts + 1
  /\ \/ /\ store # Nothing
        /\ app' = Seed(store.content)
        /\ announced' = [content |-> store.content, heard |-> FALSE]
     \/ /\ store = Nothing \/ EngramMayFail
        /\ app' = [AppOff EXCEPT !.at = "wait"]
        /\ announced' = [content |-> "none", heard |-> FALSE]
  /\ UNCHANGED <<mcpVars, mounts, fetched, paneVars>>

\* PortPollReader::read: another content than the last is another revision.
Revision == IF store.content # app.hash THEN app.revision + 1 ELSE app.revision

\* A tick's poll; a failed get or an absent document does nothing.  decide takes
\* a strictly greater token only.
Tick ==
  /\ app.at = "wait"
  /\ store # Nothing /\ store.content # app.hash
  /\ app' = IF Revision > app.last
            THEN [at |-> "emit", hash |-> store.content, revision |-> Revision,
                  last |-> Revision, change |-> store]
            ELSE [app EXCEPT !.hash = store.content, !.revision = Revision]
  /\ UNCHANGED <<mcpVars, starts, mounts, announced, fetched, paneVars>>

\* spec_updated_from_change drops what is no SpecContract.
EmitChange ==
  /\ app.at = "emit"
  /\ app' = [app EXCEPT !.at = "wait", !.change = Nothing]
  /\ IF app.change.content \in Contracts
     THEN Announce(app.change) ELSE UNCHANGED paneVars
  /\ announced' = [content |-> app.change.content, heard |-> pane.listens]
  /\ UNCHANGED <<mcpVars, starts, mounts, fetched>>

\* The session, or the app, ends, its agent's server with it; the store stays.
End ==
  /\ app.at # "off" /\ starts < MaxStarts
  /\ app' = AppOff
  /\ mcp' = McpIdle /\ reply' = "none"
  /\ pane' = Unmounted /\ events' = <<>>
  /\ UNCHANGED <<messages, store, starts, mounts, announced, fetched>>
----------------------------------------------------------------------------
(* The pane.                                                               *)

PaneMount ==
  /\ app.at # "off" /\ mounts < MaxMounts
  /\ mounts' = mounts + 1
  /\ Mount
  /\ fetched' = "none"
  /\ announced' = [announced EXCEPT !.heard = FALSE]
  /\ UNCHANGED <<mcpVars, app, starts>>

PaneUnmount ==
  /\ mounts < MaxMounts
  /\ Unmount
  /\ UNCHANGED <<mcpVars, appVars, starts, mounts, fetched>>

\* get_spec_impl: absent or corrupt is null.
get_spec == IF store.content \in Contracts THEN store ELSE Nothing

GetSpec ==
  /\ \/ FetchRead(get_spec) /\ fetched' = get_spec.content
     \/ EngramMayFail /\ FetchFails /\ UNCHANGED fetched
  /\ UNCHANGED <<mcpVars, appVars, starts, mounts>>

PaneStep ==
  /\ Register \/ FetchReply \/ HandleEvent
  /\ UNCHANGED <<mcpVars, appVars, starts, mounts, fetched>>
----------------------------------------------------------------------------
McpStep == Dispatch \/ PostSession \/ PostObservation

Next ==
  \/ \E m \in Messages : Receive(m)
  \/ McpStep
  \/ Hydrate \/ Tick \/ EmitChange \/ End
  \/ PaneMount \/ PaneUnmount \/ GetSpec \/ PaneStep

Spec == Init /\ [][Next]_vars

\* The loop ticks and the UI's event loop turns; a get that keeps being tried
\* succeeds some time.
FairSpec ==
  /\ Spec
  /\ WF_vars(Tick) /\ WF_vars(EmitChange)
  /\ WF_vars(GetSpec) /\ WF_vars(PaneStep)
  /\ WF_vars(McpStep)
----------------------------------------------------------------------------
\* What the agent is told of spectty_spec is so: a call that succeeded is stored,
\* and one that was refused changed nothing (the checks of spectty_spec_effect come
\* before the upsert).  "isError" promises neither.
RepliesTellTruth ==
  [][mcp # McpIdle /\ mcp' = McpIdle =>
       /\ reply' = "ok" => store'.content = mcp.msg.spec
       /\ reply' \in Codes => store' = mcp.before]_vars

\* A contract shown is replaced by an older one only when it came with the
\* fetch, which may be ahead of the poll loop; among events, and over an event, the
\* pane never goes back (prev ?? stored in SpecPane's effect).
BackOnlyOverFetch ==
  [][pane.on /\ pane'.on /\ pane'.shows.version < pane.shows.version => pane.from = "fetch"]_vars

\* The pane catches up: a contract that stays in the store is shown in the end,
\* for every order of upsert, seed, tick, mount, fetch and registration.  Excepted is
\* the pane whose loop had the contract announced (or as its seed) before the pane
\* listened and whose fetch failed or read another one.
PaneCatchesUp ==
  \A c \in Contracts :
    <>[](pane.on /\ store.content = c)
      => <>[](\/ pane.shows.content = c
              \/ announced = [content |-> c, heard |-> FALSE] /\ fetched # c)
=============================================================================

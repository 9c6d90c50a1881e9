------------------------------ MODULE Lifecycle ------------------------------
(***************************************************************************)
(* spawn_session and close_session as the app runs them: asynchronous      *)
(* commands, any number of which are under way at once, over what they     *)
(* share: the SessionRegistry, the PtyRegistry, the DiffPipelines, the two *)
(* Claude config files of each scope, and the hook state files.  The app   *)
(* may be killed at any step; config and state files outlive it, session   *)
(* ids start over.                                                         *)
(*                                                                         *)
(* One provisioner call is one step here: how its write reaches the disk   *)
(* is below this module, what happens when it fails is in it.              *)
(***************************************************************************)
EXTENDS Naturals, FiniteSets

CONSTANTS MaxSessions,  \* bound on the ids minted in one run of the app
          Scopes,       \* ProvisioningScopes: Global, or a git-tracked project
          Closers,      \* close_session calls that can be under way at once
          MaxCrashes,   \* bound on the times the app is killed
          MayFail       \* can a provisioner call or a PTY spawn fail?

ASSUME LifecycleAssumption == /\ MaxSessions \in Nat
                              /\ Scopes # {}
                              /\ MaxCrashes \in Nat
                              /\ MayFail \in BOOLEAN

VARIABLES
  minted,     \* SessionRegistry.next_id: ids handed out
  spawn,      \* spawn[i]: where spawn_session for id i is
  provision,  \* provision[i]: does the agent require provisioning?
  scope,      \* scope[i]: the scope resolved for i
  sessions,   \* SessionRegistry.sessions
  ptys,       \* PtyRegistry
  pipelines,  \* DiffPipelines
  agent,      \* agent[i]: is the agent process of i running?
  mcp,        \* scopes whose MCP config holds the spectty entry
  hooks,      \* scopes whose settings.json holds the spectty hook rows
  state_file, \* state_file[i]: absent, written by a hook of this run, or older
  closer,     \* the close_session calls
  refused,    \* sessions whose last close returned an error
  spoiled,    \* scopes where a call failed, or that a crash left as they were
  crashes     \* times the app was killed

vars == <<minted, spawn, provision, scope, sessions, ptys, pipelines, agent, mcp, hooks,
          state_file, closer, refused, spoiled, crashes>>

Ids == 1..MaxSessions

Undoing == {"undo_mcp", "undo_hooks", "undo_entry"}
SpawnStages == {"none", "mcp", "hooks", "insert", "sweep", "open", "wire", "register", "up", "failed"}
               \cup Undoing
CloseStages == {"idle", "take", "take_pty", "kill", "mcp", "hooks", "files", "remove"}

\* A close_session call: its stage, its session, and whether it took the PtyState.
IdleCloser == [at |-> "idle", id |-> 0, holds |-> FALSE]

LifecycleTypeOK ==
  /\ minted \in 0..MaxSessions
  /\ spawn \in [Ids -> SpawnStages]
  /\ provision \in [Ids -> BOOLEAN]
  /\ scope \in [Ids -> Scopes]
  /\ sessions \subseteq Ids /\ ptys \subseteq Ids /\ pipelines \subseteq Ids
  /\ agent \in [Ids -> BOOLEAN]
  /\ mcp \subseteq Scopes /\ hooks \subseteq Scopes
  /\ state_file \in [Ids -> {"absent", "own", "old"}]
  /\ closer \in [Closers -> [at : CloseStages, id : 0..MaxSessions, holds : BOOLEAN]]
  /\ refused \subseteq Ids
  /\ spoiled \subseteq Scopes
  /\ crashes \in 0..MaxCrashes

\* The app starts over what an earlier run may have left in the state files.
Init ==
  /\ minted = 0
  /\ spawn = [i \in Ids |-> "none"]
  /\ provision = [i \in Ids |-> FALSE]
  /\ scope = [i \in Ids |-> CHOOSE s \in Scopes : TRUE]
  /\ sessions = {} /\ ptys = {} /\ pipelines = {}
  /\ agent = [i \in Ids |-> FALSE]
  /\ mcp = {} /\ hooks = {}
  /\ state_file \in [Ids -> {"absent", "old"}]
  /\ closer = [c \in Closers |-> IdleCloser]
  /\ refused = {}
  /\ spoiled = {}
  /\ crashes = 0
----------------------------------------------------------------------------
(* spawn_session.                                                          *)

MoveSpawn(i, from, to) == spawn[i] = from /\ spawn' = [spawn EXCEPT ![i] = to]

\* Project for a workspace whose .mcp.json git tracks, else Global; the scope stays
\* that of the spawn for both config files.
resolve_scope(i, s) == scope' = [scope EXCEPT ![i] = s]

\* resolve_scope, then mint_id: ids are handed out in order.
Mint(needs, s) ==
  /\ minted < MaxSessions
  /\ minted' = minted + 1
  /\ MoveSpawn(minted + 1, "none", IF needs THEN "mcp" ELSE "insert")
  /\ provision' = [provision EXCEPT ![minted + 1] = needs]
  /\ resolve_scope(minted + 1, s)
  /\ UNCHANGED <<sessions, ptys, pipelines, agent, mcp, hooks, state_file, closer, refused,
                 spoiled, crashes>>

InjectMcp(i) ==
  /\ MoveSpawn(i, "mcp", "hooks")
  /\ mcp' = mcp \cup {scope[i]}
  /\ UNCHANGED <<minted, provision, scope, sessions, ptys, pipelines, agent, hooks, state_file,
                 closer, refused, spoiled, crashes>>

InjectHooks(i) ==
  /\ MoveSpawn(i, "hooks", "insert")
  /\ hooks' = hooks \cup {scope[i]}
  /\ UNCHANGED <<minted, provision, scope, sessions, ptys, pipelines, agent, mcp, state_file,
                 closer, refused, spoiled, crashes>>

\* Either inject fails: spawn_session returns at once, nothing is taken back.
InjectFails(i) ==
  /\ MayFail
  /\ MoveSpawn(i, "mcp", "failed") \/ MoveSpawn(i, "hooks", "failed")
  /\ spoiled' = spoiled \cup {scope[i]}
  /\ UNCHANGED <<minted, provision, scope, sessions, ptys, pipelines, agent, mcp, hooks,
                 state_file, closer, refused, crashes>>

\* The session enters the registry as Starting.
Insert(i) ==
  /\ MoveSpawn(i, "insert", "sweep")
  /\ sessions' = sessions \cup {i}
  /\ UNCHANGED <<minted, provision, scope, ptys, pipelines, agent, mcp, hooks, state_file,
                 closer, refused, spoiled, crashes>>

\* Mutant: the sweep is skipped.
Sweep_skipped(i) ==
  /\ MoveSpawn(i, "sweep", "open")
  /\ UNCHANGED <<minted, provision, scope, sessions, ptys, pipelines, agent, mcp, hooks,
                 state_file, closer, refused, spoiled, crashes>>

\* remove_stale_state_file: what an earlier run left under this id goes.
Sweep(i) ==
  /\ MoveSpawn(i, "sweep", "open")
  /\ state_file' = [state_file EXCEPT ![i] = "absent"]
  /\ UNCHANGED <<minted, provision, scope, sessions, ptys, pipelines, agent, mcp, hooks,
                 closer, refused, spoiled, crashes>>

\* PtyAdapter::spawn starts the agent.
OpenPty(i) ==
  /\ MoveSpawn(i, "open", "wire")
  /\ agent' = [agent EXCEPT ![i] = TRUE]
  /\ UNCHANGED <<minted, provision, scope, sessions, ptys, pipelines, mcp, hooks, state_file,
                 closer, refused, spoiled, crashes>>

\* The PTY does not open, or a thread does not start and the dropped master
\* hangs up on the agent.
OpenFails(i) ==
  /\ MayFail
  /\ MoveSpawn(i, "open", "undo_mcp") \/ MoveSpawn(i, "wire", "undo_mcp")
  /\ agent' = [agent EXCEPT ![i] = FALSE]
  /\ UNCHANGED <<minted, provision, scope, sessions, ptys, pipelines, mcp, hooks, state_file,
                 closer, refused, spoiled, crashes>>

\* The threads run, the pane is hydrated, the pipeline is registered; the loops and
\* the watcher that share it start next.
InsertPipeline(i) ==
  /\ MoveSpawn(i, "wire", "register")
  /\ pipelines' = pipelines \cup {i}
  /\ UNCHANGED <<minted, provision, scope, sessions, ptys, agent, mcp, hooks, state_file, closer,
                 refused, spoiled, crashes>>

\* The PtyState is registered, under the lock of the PtyRegistry; session_created
\* and the returned id tell the UI.
RegisterPty(i) ==
  /\ MoveSpawn(i, "register", "up")
  /\ ptys' = ptys \cup {i}
  /\ UNCHANGED <<minted, provision, scope, sessions, pipelines, agent, mcp, hooks, state_file,
                 closer, refused, spoiled, crashes>>
----------------------------------------------------------------------------
(* cleanup_failed_spawn: both retracts ignore their errors.                *)

\* retract takes the entries of i's scope out of one config file, or fails.
Retract(file, i) ==
  \/ file' = (IF provision[i] THEN file \ {scope[i]} ELSE file) /\ UNCHANGED spoiled
  \/ MayFail /\ provision[i] /\ UNCHANGED file /\ spoiled' = spoiled \cup {scope[i]}

UndoMcp(i) ==
  /\ MoveSpawn(i, "undo_mcp", "undo_hooks")
  /\ Retract(mcp, i)
  /\ UNCHANGED <<minted, provision, scope, sessions, ptys, pipelines, agent, hooks, state_file,
                 closer, refused, crashes>>

UndoHooks(i) ==
  /\ MoveSpawn(i, "undo_hooks", "undo_entry")
  /\ Retract(hooks, i)
  /\ UNCHANGED <<minted, provision, scope, sessions, ptys, pipelines, agent, mcp, state_file,
                 closer, refused, crashes>>

UndoEntry(i) ==
  /\ MoveSpawn(i, "undo_entry", "failed")
  /\ sessions' = sessions \ {i}
  /\ UNCHANGED <<minted, provision, scope, ptys, pipelines, agent, mcp, hooks, state_file,
                 closer, refused, spoiled, crashes>>
----------------------------------------------------------------------------
(* close_session, for an id the UI knows; nothing keeps a second call out. *)

MoveCloser(c, from, to) == closer[c].at = from /\ closer' = [closer EXCEPT ![c].at = to]

CloseBegin(c, i) ==
  /\ spawn[i] = "up"
  /\ closer[c].at = "idle"
  /\ i \in sessions
  /\ closer' = [closer EXCEPT ![c] = [at |-> "take", id |-> i, holds |-> FALSE]]
  /\ refused' = refused \ {i}
  /\ UNCHANGED <<minted, spawn, provision, scope, sessions, ptys, pipelines, agent, mcp, hooks,
                 state_file, spoiled, crashes>>

\* The pipeline goes.
CloseDropsPipeline(c) ==
  /\ MoveCloser(c, "take", "take_pty")
  /\ pipelines' = pipelines \ {closer[c].id}
  /\ UNCHANGED <<minted, spawn, provision, scope, sessions, ptys, agent, mcp, hooks, state_file,
                 refused, spoiled, crashes>>

\* Mutant: the call looks the PtyState up and leaves it registered.
CloseTake_keeps_pty(c) ==
  /\ closer[c].at = "take_pty"
  /\ closer' = [closer EXCEPT ![c].at = "kill", ![c].holds = closer[c].id \in ptys]
  /\ UNCHANGED <<minted, spawn, provision, scope, sessions, ptys, pipelines, agent, mcp, hooks,
                 state_file, refused, spoiled, crashes>>

\* The PtyState is taken, with both handles: by the first call only.
CloseTake(c) ==
  /\ closer[c].at = "take_pty"
  /\ closer' = [closer EXCEPT ![c].at = "kill", ![c].holds = closer[c].id \in ptys]
  /\ ptys' = ptys \ {closer[c].id}
  /\ UNCHANGED <<minted, spawn, provision, scope, sessions, pipelines, agent, mcp, hooks,
                 state_file, refused, spoiled, crashes>>

\* Mutant: the PtyState is dropped without its shutdown.
CloseKill_skipped(c) ==
  /\ MoveCloser(c, "kill", "mcp")
  /\ UNCHANGED <<minted, spawn, provision, scope, sessions, ptys, pipelines, agent, mcp, hooks,
                 state_file, refused, spoiled, crashes>>

\* PtyState::shutdown kills the child and joins the threads.
CloseKill(c) ==
  /\ MoveCloser(c, "kill", "mcp")
  /\ agent' = IF closer[c].holds THEN [agent EXCEPT ![closer[c].id] = FALSE] ELSE agent
  /\ UNCHANGED <<minted, spawn, provision, scope, sessions, ptys, pipelines, mcp, hooks,
                 state_file, refused, spoiled, crashes>>

\* A retract of the close: an error ends the call (the ? operator).
CloseRetract(c, file, from, to) ==
  LET i == closer[c].id IN
  \/ /\ MoveCloser(c, from, to)
     /\ file' = IF closer[c].holds /\ provision[i] THEN file \ {scope[i]} ELSE file
     /\ UNCHANGED <<refused, spoiled>>
  \/ /\ MayFail
     /\ closer[c].holds /\ provision[i]
     /\ closer[c].at = from
     /\ closer' = [closer EXCEPT ![c] = IdleCloser]
     /\ refused' = refused \cup {i}
     /\ spoiled' = spoiled \cup {scope[i]}
     /\ UNCHANGED file

CloseRetractMcp(c) ==
  /\ CloseRetract(c, mcp, "mcp", "hooks")
  /\ UNCHANGED <<minted, spawn, provision, scope, sessions, ptys, pipelines, agent, hooks,
                 state_file, crashes>>

\* Mutant: the hook rows are not retracted.
CloseRetractHooks_skipped(c) ==
  /\ MoveCloser(c, "hooks", "files")
  /\ UNCHANGED <<minted, spawn, provision, scope, sessions, ptys, pipelines, agent, mcp, hooks,
                 state_file, refused, spoiled, crashes>>

CloseRetractHooks(c) ==
  /\ CloseRetract(c, hooks, "hooks", "files")
  /\ UNCHANGED <<minted, spawn, provision, scope, sessions, ptys, pipelines, agent, mcp,
                 state_file, crashes>>

\* The state file and its temporaries go; without a PtyState the path is empty
\* and nothing is found.
CloseFiles(c) ==
  /\ MoveCloser(c, "files", "remove")
  /\ state_file' = IF closer[c].holds THEN [state_file EXCEPT ![closer[c].id] = "absent"]
                                      ELSE state_file
  /\ UNCHANGED <<minted, spawn, provision, scope, sessions, ptys, pipelines, agent, mcp, hooks,
                 refused, spoiled, crashes>>

\* The file cannot be deleted (NotFound is no error): the call ends.
CloseFilesFails(c) ==
  /\ MayFail
  /\ closer[c].at = "files" /\ closer[c].holds
  /\ closer' = [closer EXCEPT ![c] = IdleCloser]
  /\ refused' = refused \cup {closer[c].id}
  /\ UNCHANGED <<minted, spawn, provision, scope, sessions, ptys, pipelines, agent, mcp, hooks,
                 state_file, spoiled, crashes>>

\* The registry entry goes last, then session_closed is emitted.
CloseRemove(c) ==
  /\ closer[c].at = "remove"
  /\ closer' = [closer EXCEPT ![c] = IdleCloser]
  /\ sessions' = sessions \ {closer[c].id}
  /\ UNCHANGED <<minted, spawn, provision, scope, ptys, pipelines, agent, mcp, hooks,
                 state_file, refused, spoiled, crashes>>
----------------------------------------------------------------------------
(* The agents (external), and the end of the app.                          *)

\* The agent ends by itself: the session stays, Completed.
AgentExit(i) ==
  /\ agent[i]
  /\ agent' = [agent EXCEPT ![i] = FALSE]
  /\ UNCHANGED <<minted, spawn, provision, scope, sessions, ptys, pipelines, mcp, hooks,
                 state_file, closer, refused, spoiled, crashes>>

\* A sidecar of i writes the state file, maybe after the agent that ran it died.
HookWrite(i) ==
  /\ provision[i]
  /\ spawn[i] \in {"wire", "register", "up"}
  /\ state_file' = [state_file EXCEPT ![i] = "own"]
  /\ UNCHANGED <<minted, spawn, provision, scope, sessions, ptys, pipelines, agent, mcp, hooks,
                 closer, refused, spoiled, crashes>>

\* The app is killed: agents lose their terminals, every registry and command
\* is gone, ids start over, the files stay.
Crash ==
  /\ crashes < MaxCrashes
  /\ crashes' = crashes + 1
  /\ minted' = 0
  /\ spawn' = [i \in Ids |-> "none"]
  /\ sessions' = {} /\ ptys' = {} /\ pipelines' = {}
  /\ agent' = [i \in Ids |-> FALSE]
  /\ closer' = [c \in Closers |-> IdleCloser]
  /\ refused' = {}
  /\ spoiled' = spoiled \cup mcp \cup hooks
  /\ state_file' = [i \in Ids |-> IF state_file[i] = "absent" THEN "absent" ELSE "old"]
  /\ UNCHANGED <<provision, scope, mcp, hooks>>
----------------------------------------------------------------------------
SpawnStep(i) ==
  \/ InjectMcp(i) \/ InjectHooks(i) \/ InjectFails(i) \/ Insert(i) \/ Sweep(i)
  \/ OpenPty(i) \/ OpenFails(i) \/ InsertPipeline(i) \/ RegisterPty(i)
  \/ UndoMcp(i) \/ UndoHooks(i) \/ UndoEntry(i)

CloseStep(c) ==
  \/ CloseDropsPipeline(c) \/ CloseTake(c) \/ CloseKill(c)
  \/ CloseRetractMcp(c) \/ CloseRetractHooks(c)
  \/ CloseFiles(c) \/ CloseFilesFails(c) \/ CloseRemove(c)

Next ==
  \/ \E needs \in BOOLEAN, s \in Scopes : Mint(needs, s)
  \/ \E i \in Ids : SpawnStep(i) \/ AgentExit(i) \/ HookWrite(i)
  \/ \E c \in Closers, i \in Ids : CloseBegin(c, i)
  \/ \E c \in Closers : CloseStep(c)
  \/ Crash

Spec == Init /\ [][Next]_vars
----------------------------------------------------------------------------
Spawning(i) == spawn[i] \notin {"none", "up", "failed"}
ClosedBy(c, i) == closer[c].at # "idle" /\ closer[c].id = i
HeldBy(c, i) == ClosedBy(c, i) /\ closer[c].holds

\* No agent process runs that no command and no PtyRegistry entry could kill:
\* its PtyState is registered, still being wired, or in the hands of a close
\* that has yet to shut it down.
AgentHasOwner ==
  \A i \in Ids : agent[i] =>
    spawn[i] \in {"wire", "register"} \/ i \in ptys \/ \E c \in Closers : HeldBy(c, i) /\ closer[c].at = "kill"

\* A pipeline has a PtyState, but for a spawn that has yet to register it.
PipelinesHavePtys == \A i \in pipelines : i \in ptys \/ spawn[i] = "register"

\* A PtyState belongs to a listed session that came up, and has a pipeline, but for
\* a close that has yet to take it.
PtysAreListed ==
  \A i \in ptys :
    /\ i \in sessions /\ spawn[i] = "up"
    /\ i \in pipelines \/ \E c \in Closers : closer[c].at = "take_pty" /\ closer[c].id = i

\* A listed session is being spawned, has a PTY, is being closed, or its close
\* returned an error.
NoPhantoms ==
  \A i \in sessions :
    Spawning(i) \/ i \in ptys \/ i \in refused \/ \E c \in Closers : ClosedBy(c, i)

\* The three registries part only while a command is between two of them, whatever
\* commands overlap, and no session is left in one that nothing accounts for
\* (cleanup_failed_spawn, and the order of spawn_session and close_session).
RegistriesAgree == LifecycleTypeOK /\ PipelinesHavePtys /\ PtysAreListed /\ NoPhantoms

\* An entry in a user's config is there for a session that will retract it,
\* unless a failed call or a crash left it (cleanup_failed_spawn and
\* close_session take back both injections).
WillRetract(i, undo, close) ==
  provision[i] /\
    \/ spawn[i] \in {"hooks", "insert", "sweep", "open", "wire", "register"} \cup undo
    \/ i \in ptys
    \/ \E c \in Closers : HeldBy(c, i) /\ closer[c].at \in {"kill"} \cup close
EntriesHaveReason ==
  /\ \A s \in mcp \ spoiled :
       \E i \in Ids : scope[i] = s /\ WillRetract(i, {"undo_mcp"}, {"mcp"})
  /\ \A s \in hooks \ spoiled :
       \E i \in Ids : scope[i] = s /\ WillRetract(i, {"undo_mcp", "undo_hooks"}, {"mcp", "hooks"})

\* The signal loop of a session never finds a state file an earlier run of the
\* app left under the same id, which StateFileReader's session check would let
\* through: ids start over with the app.
NoStaleVerdict == \A i \in Ids : spawn[i] \in {"wire", "register", "up"} => state_file[i] # "old"
=============================================================================

----------------------------- MODULE SpawnPanic -----------------------------
(***************************************************************************)
(* Lifecycle with the real store behind the hydration of the spec pane.    *)
(* spawn_session is an async command: finish_spawn_impl runs its closure   *)
(* on a worker of the app's runtime, and the closure reads the spec through *)
(* PersistencePort::get, which EngramAdapter bridges with Handle::block_on. *)
(* tokio panics on a block_on under a running runtime, whosever it is, and *)
(* the unwinding passes by cleanup_failed_spawn, which only an Err reaches. *)
(***************************************************************************)
EXTENDS Lifecycle

\* The threads run, the agent runs, the session is listed and the config holds
\* its entries; the pipeline and the PtyState are not yet there and no one gets
\* the id.
HydratePanics(i) ==
  /\ MoveSpawn(i, "wire", "panicked")
  /\ UNCHANGED <<minted, provision, scope, sessions, ptys, pipelines, agent, mcp, hooks,
                 state_file, closer, refused, spoiled, crashes>>

PanicNext == Next \/ \E i \in Ids : HydratePanics(i)

PanicSpec == Init /\ [][PanicNext]_vars

\* What spawn_session promises of its failures, of a provisioned agent: a failed
\* spawn never leaks a phantom session or an entry in the config.  An entry may
\* stay for another session of the scope, or because a call failed.
FailedSpawnLeavesNothing ==
  \A i \in Ids : provision[i] /\ spawn[i] \in {"failed", "panicked"} =>
    /\ i \notin sessions
    /\ \/ scope[i] \notin mcp \cup hooks
       \/ scope[i] \in spoiled
       \/ \E j \in Ids \ {i} : spawn[j] # "none" /\ scope[j] = scope[i]
=============================================================================

-------------------------- MODULE Lifecycle_proofs --------------------------
(***************************************************************************)
(* Proofs about Lifecycle: its four invariants hold for any number of      *)
(* sessions, scopes, concurrent closes and kills of the app.               *)
(*                                                                         *)
(* They support each other.  A listed session is no phantom because only a *)
(* session that came up is closed, and what a close has taken out of the   *)
(* PtyRegistry nobody puts back; an entry has a reason because whoever     *)
(* moves on from the last step that would retract it has retracted it or   *)
(* recorded why not.                                                       *)
(***************************************************************************)
EXTENDS Lifecycle, TLAPS

\* What the position of a spawn says of the agent, the registry and the state file.
SpawnFacts ==
  \A i \in Ids :
    /\ spawn[i] \in {"none", "mcp", "hooks", "insert", "failed"} => i \notin sessions
    /\ spawn[i] \in {"mcp", "hooks"} => provision[i]
    /\ spawn[i] \in {"sweep", "open", "wire", "register"} => i \in sessions
    /\ spawn[i] = "register" => i \in pipelines
    /\ spawn[i] \in {"open", "wire", "register", "up"} => state_file[i] # "old"

\* A close is of a session that came up; after its first step that session has no
\* pipeline any more, after its second no PtyState.
CloserFacts ==
  \A c \in Closers : closer[c].at # "idle" =>
    /\ closer[c].id \in Ids
    /\ spawn[closer[c].id] = "up"
    /\ closer[c].at # "take" => closer[c].id \notin pipelines
    /\ closer[c].at \notin {"take", "take_pty"} => closer[c].id \notin ptys

\* The inductive invariant.
LifecycleInv ==
  /\ RegistriesAgree
  /\ AgentHasOwner
  /\ EntriesHaveReason
  /\ SpawnFacts
  /\ CloserFacts

-----------------------------------------------------------------------------
\* A close that holds i's PtyState is at one of these stages.
HeldAt(i, stages) == \E c \in Closers : HeldBy(c, i) /\ closer[c].at \in stages

Unfinished == {"hooks", "insert", "sweep", "open", "wire", "register", "undo_mcp"}
RetractsMcp(i) ==
  provision[i] /\ (spawn[i] \in Unfinished \/ i \in ptys \/ HeldAt(i, {"kill", "mcp"}))
RetractsHooks(i) ==
  provision[i] /\ (\/ spawn[i] \in Unfinished \cup {"undo_hooks"}
                   \/ i \in ptys \/ HeldAt(i, {"kill", "mcp", "hooks"}))

\* What the invariant calls a reason, in terms of HeldAt.
LEMMA ReasonForms ==
  /\ \A i : RetractsMcp(i) <=> WillRetract(i, {"undo_mcp"}, {"mcp"})
  /\ \A i : RetractsHooks(i) <=> WillRetract(i, {"undo_mcp", "undo_hooks"}, {"mcp", "hooks"})
  /\ \A i : RetractsMcp(i)' <=> WillRetract(i, {"undo_mcp"}, {"mcp"})'
  /\ \A i : RetractsHooks(i)' <=> WillRetract(i, {"undo_mcp", "undo_hooks"}, {"mcp", "hooks"})'
BY DEF RetractsMcp, RetractsHooks, WillRetract, HeldAt, Unfinished

\* Entries keep their reasons if no entry is new and whoever could retract one
\* still can.
LEMMA ReasonKept ==
  ASSUME EntriesHaveReason,
         mcp' \ spoiled' \subseteq mcp \ spoiled /\ hooks' \ spoiled' \subseteq hooks \ spoiled,
         \A i \in Ids : scope[i] \in mcp' \ spoiled' /\ RetractsMcp(i)
           => scope'[i] = scope[i] /\ RetractsMcp(i)',
         \A i \in Ids : scope[i] \in hooks' \ spoiled' /\ RetractsHooks(i)
           => scope'[i] = scope[i] /\ RetractsHooks(i)'
  PROVE  EntriesHaveReason'
BY ReasonForms DEF EntriesHaveReason

\* One lemma per action, one step per conjunct: first the steps of a spawn, which leave
\* every close alone.
LEMMA InitInv == Init => LifecycleInv
BY LifecycleAssumption DEF Init, LifecycleInv, RegistriesAgree, PipelinesHavePtys,
   PtysAreListed, NoPhantoms, LifecycleTypeOK, AgentHasOwner,
   EntriesHaveReason, SpawnFacts, CloserFacts, IdleCloser, Ids, SpawnStages, CloseStages, Undoing

LEMMA MintInv ==
  ASSUME LifecycleInv, NEW needs \in BOOLEAN, NEW s \in Scopes, Mint(needs, s)
  PROVE  LifecycleInv'
<1> USE LifecycleAssumption DEF LifecycleInv, RegistriesAgree, Ids, Mint, MoveSpawn, resolve_scope
<1>1. LifecycleTypeOK'
  BY DEF LifecycleTypeOK, SpawnStages, CloseStages, Undoing
<1>2. RegistriesAgree'
  <2>1. PipelinesHavePtys'
    BY DEF LifecycleTypeOK, SpawnFacts, CloserFacts, PipelinesHavePtys, PtysAreListed
  <2>2. PtysAreListed'
    BY DEF LifecycleTypeOK, SpawnFacts, CloserFacts, PtysAreListed
  <2>3. NoPhantoms'
    BY DEF LifecycleTypeOK, SpawnFacts, CloserFacts, PtysAreListed, NoPhantoms, Spawning, ClosedBy
  <2> QED BY <1>1, <2>1, <2>2, <2>3
<1>3. AgentHasOwner'
  BY DEF LifecycleTypeOK, AgentHasOwner, HeldBy, ClosedBy
<1>4. SpawnFacts'
  BY DEF LifecycleTypeOK, SpawnFacts, CloserFacts
<1>5. CloserFacts'
  BY DEF LifecycleTypeOK, CloserFacts
<1>6. EntriesHaveReason'
  <2>1. mcp' \ spoiled' \subseteq mcp \ spoiled /\ hooks' \ spoiled' \subseteq hooks \ spoiled
    OBVIOUS
  <2>2. \A j \in Ids : scope[j] \in mcp' \ spoiled' /\ RetractsMcp(j)
          => scope'[j] = scope[j] /\ RetractsMcp(j)'
    BY DEF LifecycleTypeOK, CloserFacts, PtysAreListed, RetractsMcp, Unfinished, HeldAt, HeldBy,
       ClosedBy
  <2>3. \A j \in Ids : scope[j] \in hooks' \ spoiled' /\ RetractsHooks(j)
          => scope'[j] = scope[j] /\ RetractsHooks(j)'
    BY DEF LifecycleTypeOK, CloserFacts, PtysAreListed, RetractsHooks, Unfinished, HeldAt, HeldBy,
       ClosedBy
  <2> QED
    BY <2>1, <2>2, <2>3, ReasonKept
<1> QED
  BY <1>2, <1>3, <1>4, <1>5, <1>6

LEMMA InjectMcpInv ==
  ASSUME LifecycleInv, NEW i \in Ids, InjectMcp(i)
  PROVE  LifecycleInv'
<1> USE LifecycleAssumption DEF LifecycleInv, RegistriesAgree, Ids, InjectMcp, MoveSpawn
<1>1. LifecycleTypeOK'
  BY DEF LifecycleTypeOK, SpawnStages, CloseStages, Undoing
<1>2. RegistriesAgree'
  <2>1. PipelinesHavePtys'
    BY DEF LifecycleTypeOK, SpawnFacts, CloserFacts, PipelinesHavePtys, PtysAreListed
  <2>2. PtysAreListed'
    BY DEF LifecycleTypeOK, SpawnFacts, CloserFacts, PtysAreListed
  <2>3. NoPhantoms'
    BY DEF LifecycleTypeOK, SpawnFacts, CloserFacts, PtysAreListed, NoPhantoms, Spawning, ClosedBy
  <2> QED BY <1>1, <2>1, <2>2, <2>3
<1>3. AgentHasOwner'
  BY DEF LifecycleTypeOK, AgentHasOwner, HeldBy, ClosedBy
<1>4. SpawnFacts'
  BY DEF LifecycleTypeOK, SpawnFacts, CloserFacts
<1>5. CloserFacts'
  BY DEF LifecycleTypeOK, CloserFacts
<1>6. EntriesHaveReason'
  <2>1. scope' = scope /\ spoiled' = spoiled /\ mcp' = mcp \cup {scope[i]} /\ hooks' = hooks
    OBVIOUS
  <2>2. RetractsMcp(i)'
    BY DEF LifecycleTypeOK, SpawnFacts, RetractsMcp, Unfinished
  <2>3. \A j \in Ids : /\ RetractsMcp(j) => RetractsMcp(j)'
                       /\ RetractsHooks(j) => RetractsHooks(j)'
    BY DEF LifecycleTypeOK, RetractsMcp, RetractsHooks, Unfinished, HeldAt, HeldBy, ClosedBy
  <2> QED
    BY <2>1, <2>2, <2>3, ReasonForms DEF EntriesHaveReason
<1> QED
  BY <1>2, <1>3, <1>4, <1>5, <1>6

LEMMA InjectHooksInv ==
  ASSUME LifecycleInv, NEW i \in Ids, InjectHooks(i)
  PROVE  LifecycleInv'
<1> USE LifecycleAssumption DEF LifecycleInv, RegistriesAgree, Ids, InjectHooks, MoveSpawn
<1>1. LifecycleTypeOK'
  BY DEF LifecycleTypeOK, SpawnStages, CloseStages, Undoing
<1>2. RegistriesAgree'
  <2>1. PipelinesHavePtys'
    BY DEF LifecycleTypeOK, SpawnFacts, CloserFacts, PipelinesHavePtys, PtysAreListed
  <2>2. PtysAreListed'
    BY DEF LifecycleTypeOK, SpawnFacts, CloserFacts, PtysAreListed
  <2>3. NoPhantoms'
    BY DEF LifecycleTypeOK, SpawnFacts, CloserFacts, PtysAreListed, NoPhantoms, Spawning, ClosedBy
  <2> QED BY <1>1, <2>1, <2>2, <2>3
<1>3. AgentHasOwner'
  BY DEF LifecycleTypeOK, AgentHasOwner, HeldBy, ClosedBy
<1>4. SpawnFacts'
  BY DEF LifecycleTypeOK, SpawnFacts, CloserFacts
<1>5. CloserFacts'
  BY DEF LifecycleTypeOK, CloserFacts
<1>6. EntriesHaveReason'
  <2>1. scope' = scope /\ spoiled' = spoiled /\ hooks' = hooks \cup {scope[i]} /\ mcp' = mcp
    OBVIOUS
  <2>2. RetractsHooks(i)'
    BY DEF LifecycleTypeOK, SpawnFacts, RetractsHooks, Unfinished
  <2>3. \A j \in Ids : /\ RetractsMcp(j) => RetractsMcp(j)'
                       /\ RetractsHooks(j) => RetractsHooks(j)'
    BY DEF LifecycleTypeOK, RetractsMcp, RetractsHooks, Unfinished, HeldAt, HeldBy, ClosedBy
  <2> QED
    BY <2>1, <2>2, <2>3, ReasonForms DEF EntriesHaveReason
<1> QED
  BY <1>2, <1>3, <1>4, <1>5, <1>6

LEMMA InjectFailsInv ==
  ASSUME LifecycleInv, NEW i \in Ids, InjectFails(i)
  PROVE  LifecycleInv'
<1> USE LifecycleAssumption DEF LifecycleInv, RegistriesAgree, Ids, InjectFails, MoveSpawn
<1>1. LifecycleTypeOK'
  BY DEF LifecycleTypeOK, SpawnStages, CloseStages, Undoing
<1>2. RegistriesAgree'
  <2>1. PipelinesHavePtys'
    BY DEF LifecycleTypeOK, SpawnFacts, CloserFacts, PipelinesHavePtys, PtysAreListed
  <2>2. PtysAreListed'
    BY DEF LifecycleTypeOK, SpawnFacts, CloserFacts, PtysAreListed
  <2>3. NoPhantoms'
    BY DEF LifecycleTypeOK, SpawnFacts, CloserFacts, PtysAreListed, NoPhantoms, Spawning, ClosedBy
  <2> QED BY <1>1, <2>1, <2>2, <2>3
<1>3. AgentHasOwner'
  BY DEF LifecycleTypeOK, AgentHasOwner, HeldBy, ClosedBy
<1>4. SpawnFacts'
  BY DEF LifecycleTypeOK, SpawnFacts, CloserFacts
<1>5. CloserFacts'
  BY DEF LifecycleTypeOK, CloserFacts
<1>6. EntriesHaveReason'
  <2>1. mcp' \ spoiled' \subseteq mcp \ spoiled /\ hooks' \ spoiled' \subseteq hooks \ spoiled
    OBVIOUS
  <2>2. \A j \in Ids : scope[j] \in mcp' \ spoiled' /\ RetractsMcp(j)
          => scope'[j] = scope[j] /\ RetractsMcp(j)'
    BY DEF LifecycleTypeOK, CloserFacts, RetractsMcp, Unfinished, HeldAt, HeldBy, ClosedBy
  <2>3. \A j \in Ids : scope[j] \in hooks' \ spoiled' /\ RetractsHooks(j)
          => scope'[j] = scope[j] /\ RetractsHooks(j)'
    BY DEF LifecycleTypeOK, CloserFacts, RetractsHooks, Unfinished, HeldAt, HeldBy, ClosedBy
  <2> QED
    BY <2>1, <2>2, <2>3, ReasonKept
<1> QED
  BY <1>2, <1>3, <1>4, <1>5, <1>6

LEMMA InsertInv ==
  ASSUME LifecycleInv, NEW i \in Ids, Insert(i)
  PROVE  LifecycleInv'
<1> USE LifecycleAssumption DEF LifecycleInv, RegistriesAgree, Ids, Insert, MoveSpawn
<1>1. LifecycleTypeOK'
  BY DEF LifecycleTypeOK, SpawnStages, CloseStages, Undoing
<1>2. RegistriesAgree'
  <2>1. PipelinesHavePtys'
    BY DEF LifecycleTypeOK, PipelinesHavePtys
  <2>2. PtysAreListed'
    BY DEF LifecycleTypeOK, SpawnFacts, PtysAreListed
  <2>3. NoPhantoms'
    BY DEF LifecycleTypeOK, SpawnFacts, NoPhantoms, Spawning, ClosedBy
  <2> QED
    BY <1>1, <2>1, <2>2, <2>3
<1>3. AgentHasOwner'
  BY DEF LifecycleTypeOK, AgentHasOwner, HeldBy, ClosedBy
<1>4. SpawnFacts'
  BY DEF LifecycleTypeOK, SpawnFacts, CloserFacts
<1>5. CloserFacts'
  BY DEF LifecycleTypeOK, CloserFacts
<1>6. EntriesHaveReason'
  <2>1. mcp' \ spoiled' \subseteq mcp \ spoiled /\ hooks' \ spoiled' \subseteq hooks \ spoiled
    OBVIOUS
  <2>2. \A j \in Ids : scope[j] \in mcp' \ spoiled' /\ RetractsMcp(j)
          => scope'[j] = scope[j] /\ RetractsMcp(j)'
    BY DEF LifecycleTypeOK, CloserFacts, RetractsMcp, Unfinished, HeldAt, HeldBy, ClosedBy
  <2>3. \A j \in Ids : scope[j] \in hooks' \ spoiled' /\ RetractsHooks(j)
          => scope'[j] = scope[j] /\ RetractsHooks(j)'
    BY DEF LifecycleTypeOK, CloserFacts, RetractsHooks, Unfinished, HeldAt, HeldBy, ClosedBy
  <2> QED
    BY <2>1, <2>2, <2>3, ReasonKept
<1> QED
  BY <1>2, <1>3, <1>4, <1>5, <1>6

LEMMA SweepInv ==
  ASSUME LifecycleInv, NEW i \in Ids, Sweep(i)
  PROVE  LifecycleInv'
<1> USE LifecycleAssumption DEF LifecycleInv, RegistriesAgree, Ids, Sweep, MoveSpawn
<1>1. LifecycleTypeOK'
  BY DEF LifecycleTypeOK, SpawnStages, CloseStages, Undoing
<1>2. RegistriesAgree'
  <2>1. PipelinesHavePtys'
    BY DEF LifecycleTypeOK, SpawnFacts, CloserFacts, PipelinesHavePtys, PtysAreListed
  <2>2. PtysAreListed'
    BY DEF LifecycleTypeOK, SpawnFacts, CloserFacts, PtysAreListed
  <2>3. NoPhantoms'
    BY DEF LifecycleTypeOK, SpawnFacts, CloserFacts, PtysAreListed, NoPhantoms, Spawning, ClosedBy
  <2> QED BY <1>1, <2>1, <2>2, <2>3
<1>3. AgentHasOwner'
  BY DEF LifecycleTypeOK, AgentHasOwner, HeldBy, ClosedBy
<1>4. SpawnFacts'
  BY DEF LifecycleTypeOK, SpawnFacts, CloserFacts
<1>5. CloserFacts'
  BY DEF LifecycleTypeOK, CloserFacts
<1>6. EntriesHaveReason'
  <2>1. mcp' \ spoiled' \subseteq mcp \ spoiled /\ hooks' \ spoiled' \subseteq hooks \ spoiled
    OBVIOUS
  <2>2. \A j \in Ids : scope[j] \in mcp' \ spoiled' /\ RetractsMcp(j)
          => scope'[j] = scope[j] /\ RetractsMcp(j)'
    BY DEF LifecycleTypeOK, CloserFacts, RetractsMcp, Unfinished, HeldAt, HeldBy, ClosedBy
  <2>3. \A j \in Ids : scope[j] \in hooks' \ spoiled' /\ RetractsHooks(j)
          => scope'[j] = scope[j] /\ RetractsHooks(j)'
    BY DEF LifecycleTypeOK, CloserFacts, RetractsHooks, Unfinished, HeldAt, HeldBy, ClosedBy
  <2> QED
    BY <2>1, <2>2, <2>3, ReasonKept
<1> QED
  BY <1>2, <1>3, <1>4, <1>5, <1>6

LEMMA OpenPtyInv ==
  ASSUME LifecycleInv, NEW i \in Ids, OpenPty(i)
  PROVE  LifecycleInv'
<1> USE LifecycleAssumption DEF LifecycleInv, RegistriesAgree, Ids, OpenPty, MoveSpawn
<1>1. LifecycleTypeOK'
  BY DEF LifecycleTypeOK, SpawnStages, CloseStages, Undoing
<1>2. RegistriesAgree'
  <2>1. PipelinesHavePtys'
    BY DEF LifecycleTypeOK, SpawnFacts, CloserFacts, PipelinesHavePtys, PtysAreListed
  <2>2. PtysAreListed'
    BY DEF LifecycleTypeOK, SpawnFacts, CloserFacts, PtysAreListed
  <2>3. NoPhantoms'
    BY DEF LifecycleTypeOK, SpawnFacts, CloserFacts, PtysAreListed, NoPhantoms, Spawning, ClosedBy
  <2> QED BY <1>1, <2>1, <2>2, <2>3
<1>3. AgentHasOwner'
  BY DEF LifecycleTypeOK, AgentHasOwner, HeldBy, ClosedBy
<1>4. SpawnFacts'
  BY DEF LifecycleTypeOK, SpawnFacts, CloserFacts
<1>5. CloserFacts'
  BY DEF LifecycleTypeOK, CloserFacts
<1>6. EntriesHaveReason'
  <2>1. mcp' \ spoiled' \subseteq mcp \ spoiled /\ hooks' \ spoiled' \subseteq hooks \ spoiled
    OBVIOUS
  <2>2. \A j \in Ids : scope[j] \in mcp' \ spoiled' /\ RetractsMcp(j)
          => scope'[j] = scope[j] /\ RetractsMcp(j)'
    BY DEF LifecycleTypeOK, CloserFacts, RetractsMcp, Unfinished, HeldAt, HeldBy, ClosedBy
  <2>3. \A j \in Ids : scope[j] \in hooks' \ spoiled' /\ RetractsHooks(j)
          => scope'[j] = scope[j] /\ RetractsHooks(j)'
    BY DEF LifecycleTypeOK, CloserFacts, RetractsHooks, Unfinished, HeldAt, HeldBy, ClosedBy
  <2> QED
    BY <2>1, <2>2, <2>3, ReasonKept
<1> QED
  BY <1>2, <1>3, <1>4, <1>5, <1>6

LEMMA OpenFailsInv ==
  ASSUME LifecycleInv, NEW i \in Ids, OpenFails(i)
  PROVE  LifecycleInv'
<1> USE LifecycleAssumption DEF LifecycleInv, RegistriesAgree, Ids, OpenFails, MoveSpawn
<1>1. LifecycleTypeOK'
  BY DEF LifecycleTypeOK, SpawnStages, CloseStages, Undoing
<1>2. RegistriesAgree'
  <2>1. PipelinesHavePtys'
    BY DEF LifecycleTypeOK, SpawnFacts, CloserFacts, PipelinesHavePtys, PtysAreListed
  <2>2. PtysAreListed'
    BY DEF LifecycleTypeOK, SpawnFacts, CloserFacts, PtysAreListed
  <2>3. NoPhantoms'
    BY DEF LifecycleTypeOK, SpawnFacts, CloserFacts, PtysAreListed, NoPhantoms, Spawning, ClosedBy
  <2> QED BY <1>1, <2>1, <2>2, <2>3
<1>3. AgentHasOwner'
  BY DEF LifecycleTypeOK, AgentHasOwner, HeldBy, ClosedBy
<1>4. SpawnFacts'
  BY DEF LifecycleTypeOK, SpawnFacts, CloserFacts
<1>5. CloserFacts'
  BY DEF LifecycleTypeOK, CloserFacts
<1>6. EntriesHaveReason'
  <2>1. mcp' \ spoiled' \subseteq mcp \ spoiled /\ hooks' \ spoiled' \subseteq hooks \ spoiled
    OBVIOUS
  <2>2. \A j \in Ids : scope[j] \in mcp' \ spoiled' /\ RetractsMcp(j)
          => scope'[j] = scope[j] /\ RetractsMcp(j)'
    BY DEF LifecycleTypeOK, CloserFacts, RetractsMcp, Unfinished, HeldAt, HeldBy, ClosedBy
  <2>3. \A j \in Ids : scope[j] \in hooks' \ spoiled' /\ RetractsHooks(j)
          => scope'[j] = scope[j] /\ RetractsHooks(j)'
    BY DEF LifecycleTypeOK, CloserFacts, RetractsHooks, Unfinished, HeldAt, HeldBy, ClosedBy
  <2> QED
    BY <2>1, <2>2, <2>3, ReasonKept
<1> QED
  BY <1>2, <1>3, <1>4, <1>5, <1>6

LEMMA InsertPipelineInv ==
  ASSUME LifecycleInv, NEW i \in Ids, InsertPipeline(i)
  PROVE  LifecycleInv'
<1> USE LifecycleAssumption DEF LifecycleInv, RegistriesAgree, Ids, InsertPipeline, MoveSpawn
<1>1. LifecycleTypeOK'
  BY DEF LifecycleTypeOK, SpawnStages, CloseStages, Undoing
<1>2. RegistriesAgree'
  <2>1. PipelinesHavePtys'
    BY DEF LifecycleTypeOK, PipelinesHavePtys
  <2>2. PtysAreListed'
    BY DEF LifecycleTypeOK, SpawnFacts, PtysAreListed
  <2>3. NoPhantoms'
    BY DEF LifecycleTypeOK, SpawnFacts, NoPhantoms, Spawning, ClosedBy
  <2> QED
    BY <1>1, <2>1, <2>2, <2>3
<1>3. AgentHasOwner'
  BY DEF LifecycleTypeOK, AgentHasOwner, HeldBy, ClosedBy
<1>4. SpawnFacts'
  BY DEF LifecycleTypeOK, SpawnFacts, CloserFacts
<1>5. CloserFacts'
  BY DEF LifecycleTypeOK, CloserFacts
<1>6. EntriesHaveReason'
  <2>1. mcp' \ spoiled' \subseteq mcp \ spoiled /\ hooks' \ spoiled' \subseteq hooks \ spoiled
    OBVIOUS
  <2>2. \A j \in Ids : scope[j] \in mcp' \ spoiled' /\ RetractsMcp(j)
          => scope'[j] = scope[j] /\ RetractsMcp(j)'
    BY DEF LifecycleTypeOK, CloserFacts, RetractsMcp, Unfinished, HeldAt, HeldBy, ClosedBy
  <2>3. \A j \in Ids : scope[j] \in hooks' \ spoiled' /\ RetractsHooks(j)
          => scope'[j] = scope[j] /\ RetractsHooks(j)'
    BY DEF LifecycleTypeOK, CloserFacts, RetractsHooks, Unfinished, HeldAt, HeldBy, ClosedBy
  <2> QED
    BY <2>1, <2>2, <2>3, ReasonKept
<1> QED
  BY <1>2, <1>3, <1>4, <1>5, <1>6

LEMMA RegisterPtyInv ==
  ASSUME LifecycleInv, NEW i \in Ids, RegisterPty(i)
  PROVE  LifecycleInv'
<1> USE LifecycleAssumption DEF LifecycleInv, RegistriesAgree, Ids, RegisterPty, MoveSpawn
<1>1. LifecycleTypeOK'
  BY DEF LifecycleTypeOK, SpawnStages, CloseStages, Undoing
<1>2. RegistriesAgree'
  <2>1. PipelinesHavePtys'
    BY DEF LifecycleTypeOK, SpawnFacts, CloserFacts, PipelinesHavePtys, PtysAreListed
  <2>2. PtysAreListed'
    BY DEF LifecycleTypeOK, SpawnFacts, CloserFacts, PtysAreListed
  <2>3. NoPhantoms'
    BY DEF LifecycleTypeOK, SpawnFacts, CloserFacts, PtysAreListed, NoPhantoms, Spawning, ClosedBy
  <2> QED BY <1>1, <2>1, <2>2, <2>3
<1>3. AgentHasOwner'
  BY DEF LifecycleTypeOK, AgentHasOwner, HeldBy, ClosedBy
<1>4. SpawnFacts'
  BY DEF LifecycleTypeOK, SpawnFacts, CloserFacts
<1>5. CloserFacts'
  BY DEF LifecycleTypeOK, CloserFacts
<1>6. EntriesHaveReason'
  <2>1. mcp' \ spoiled' \subseteq mcp \ spoiled /\ hooks' \ spoiled' \subseteq hooks \ spoiled
    OBVIOUS
  <2>2. \A j \in Ids : scope[j] \in mcp' \ spoiled' /\ RetractsMcp(j)
          => scope'[j] = scope[j] /\ RetractsMcp(j)'
    BY DEF LifecycleTypeOK, CloserFacts, RetractsMcp, Unfinished, HeldAt, HeldBy, ClosedBy
  <2>3. \A j \in Ids : scope[j] \in hooks' \ spoiled' /\ RetractsHooks(j)
          => scope'[j] = scope[j] /\ RetractsHooks(j)'
    BY DEF LifecycleTypeOK, CloserFacts, RetractsHooks, Unfinished, HeldAt, HeldBy, ClosedBy
  <2> QED
    BY <2>1, <2>2, <2>3, ReasonKept
<1> QED
  BY <1>2, <1>3, <1>4, <1>5, <1>6

LEMMA UndoMcpInv ==
  ASSUME LifecycleInv, NEW i \in Ids, UndoMcp(i)
  PROVE  LifecycleInv'
<1> USE LifecycleAssumption DEF LifecycleInv, RegistriesAgree, Ids, UndoMcp, MoveSpawn, Retract
<1>1. LifecycleTypeOK'
  BY DEF LifecycleTypeOK, SpawnStages, CloseStages, Undoing
<1>2. RegistriesAgree'
  <2>1. PipelinesHavePtys'
    BY DEF LifecycleTypeOK, SpawnFacts, CloserFacts, PipelinesHavePtys, PtysAreListed
  <2>2. PtysAreListed'
    BY DEF LifecycleTypeOK, SpawnFacts, CloserFacts, PtysAreListed
  <2>3. NoPhantoms'
    BY DEF LifecycleTypeOK, SpawnFacts, CloserFacts, PtysAreListed, NoPhantoms, Spawning, ClosedBy
  <2> QED BY <1>1, <2>1, <2>2, <2>3
<1>3. AgentHasOwner'
  BY DEF LifecycleTypeOK, AgentHasOwner, HeldBy, ClosedBy
<1>4. SpawnFacts'
  BY DEF LifecycleTypeOK, SpawnFacts, CloserFacts
<1>5. CloserFacts'
  BY DEF LifecycleTypeOK, CloserFacts
<1>6. EntriesHaveReason'
  <2>1. mcp' \ spoiled' \subseteq mcp \ spoiled /\ hooks' \ spoiled' \subseteq hooks \ spoiled
    OBVIOUS
  <2>2. \A j \in Ids : scope[j] \in mcp' \ spoiled' /\ RetractsMcp(j)
          => scope'[j] = scope[j] /\ RetractsMcp(j)'
    BY DEF LifecycleTypeOK, CloserFacts, RetractsMcp, Unfinished, HeldAt, HeldBy, ClosedBy
  <2>3. \A j \in Ids : scope[j] \in hooks' \ spoiled' /\ RetractsHooks(j)
          => scope'[j] = scope[j] /\ RetractsHooks(j)'
    BY DEF LifecycleTypeOK, CloserFacts, RetractsHooks, Unfinished, HeldAt, HeldBy, ClosedBy
  <2> QED
    BY <2>1, <2>2, <2>3, ReasonKept
<1> QED
  BY <1>2, <1>3, <1>4, <1>5, <1>6

LEMMA UndoHooksInv ==
  ASSUME LifecycleInv, NEW i \in Ids, UndoHooks(i)
  PROVE  LifecycleInv'
<1> USE LifecycleAssumption DEF LifecycleInv, RegistriesAgree, Ids, UndoHooks, MoveSpawn, Retract
<1>1. LifecycleTypeOK'
  BY DEF LifecycleTypeOK, SpawnStages, CloseStages, Undoing
<1>2. RegistriesAgree'
  <2>1. PipelinesHavePtys'
    BY DEF LifecycleTypeOK, SpawnFacts, CloserFacts, PipelinesHavePtys, PtysAreListed
  <2>2. PtysAreListed'
    BY DEF LifecycleTypeOK, SpawnFacts, CloserFacts, PtysAreListed
  <2>3. NoPhantoms'
    BY DEF LifecycleTypeOK, SpawnFacts, CloserFacts, PtysAreListed, NoPhantoms, Spawning, ClosedBy
  <2> QED BY <1>1, <2>1, <2>2, <2>3
<1>3. AgentHasOwner'
  BY DEF LifecycleTypeOK, AgentHasOwner, HeldBy, ClosedBy
<1>4. SpawnFacts'
  BY DEF LifecycleTypeOK, SpawnFacts, CloserFacts
<1>5. CloserFacts'
  BY DEF LifecycleTypeOK, CloserFacts
<1>6. EntriesHaveReason'
  <2>1. mcp' \ spoiled' \subseteq mcp \ spoiled /\ hooks' \ spoiled' \subseteq hooks \ spoiled
    OBVIOUS
  <2>2. \A j \in Ids : scope[j] \in mcp' \ spoiled' /\ RetractsMcp(j)
          => scope'[j] = scope[j] /\ RetractsMcp(j)'
    BY DEF LifecycleTypeOK, CloserFacts, RetractsMcp, Unfinished, HeldAt, HeldBy, ClosedBy
  <2>3. \A j \in Ids : scope[j] \in hooks' \ spoiled' /\ RetractsHooks(j)
          => scope'[j] = scope[j] /\ RetractsHooks(j)'
    BY DEF LifecycleTypeOK, CloserFacts, RetractsHooks, Unfinished, HeldAt, HeldBy, ClosedBy
  <2> QED
    BY <2>1, <2>2, <2>3, ReasonKept
<1> QED
  BY <1>2, <1>3, <1>4, <1>5, <1>6

LEMMA UndoEntryInv ==
  ASSUME LifecycleInv, NEW i \in Ids, UndoEntry(i)
  PROVE  LifecycleInv'
<1> USE LifecycleAssumption DEF LifecycleInv, RegistriesAgree, Ids, UndoEntry, MoveSpawn
<1>1. LifecycleTypeOK'
  BY DEF LifecycleTypeOK, SpawnStages, CloseStages, Undoing
<1>2. RegistriesAgree'
  <2>1. PipelinesHavePtys'
    BY DEF LifecycleTypeOK, SpawnFacts, CloserFacts, PipelinesHavePtys, PtysAreListed
  <2>2. PtysAreListed'
    BY DEF LifecycleTypeOK, SpawnFacts, CloserFacts, PtysAreListed
  <2>3. NoPhantoms'
    BY DEF LifecycleTypeOK, SpawnFacts, CloserFacts, PtysAreListed, NoPhantoms, Spawning, ClosedBy
  <2> QED BY <1>1, <2>1, <2>2, <2>3
<1>3. AgentHasOwner'
  BY DEF LifecycleTypeOK, AgentHasOwner, HeldBy, ClosedBy
<1>4. SpawnFacts'
  BY DEF LifecycleTypeOK, SpawnFacts, CloserFacts
<1>5. CloserFacts'
  BY DEF LifecycleTypeOK, CloserFacts
<1>6. EntriesHaveReason'
  <2>1. mcp' \ spoiled' \subseteq mcp \ spoiled /\ hooks' \ spoiled' \subseteq hooks \ spoiled
    OBVIOUS
  <2>2. \A j \in Ids : scope[j] \in mcp' \ spoiled' /\ RetractsMcp(j)
          => scope'[j] = scope[j] /\ RetractsMcp(j)'
    BY DEF LifecycleTypeOK, CloserFacts, RetractsMcp, Unfinished, HeldAt, HeldBy, ClosedBy
  <2>3. \A j \in Ids : scope[j] \in hooks' \ spoiled' /\ RetractsHooks(j)
          => scope'[j] = scope[j] /\ RetractsHooks(j)'
    BY DEF LifecycleTypeOK, CloserFacts, RetractsHooks, Unfinished, HeldAt, HeldBy, ClosedBy
  <2> QED
    BY <2>1, <2>2, <2>3, ReasonKept
<1> QED
  BY <1>2, <1>3, <1>4, <1>5, <1>6

-----------------------------------------------------------------------------
\* The agent and its hooks, and the beginning of a close.
LEMMA AgentExitInv ==
  ASSUME LifecycleInv, NEW i \in Ids, AgentExit(i)
  PROVE  LifecycleInv'
<1> USE LifecycleAssumption DEF LifecycleInv, RegistriesAgree, Ids, AgentExit
<1>1. LifecycleTypeOK'
  BY DEF LifecycleTypeOK, SpawnStages, CloseStages, Undoing
<1>2. RegistriesAgree'
  <2>1. PipelinesHavePtys'
    BY DEF LifecycleTypeOK, SpawnFacts, CloserFacts, PipelinesHavePtys, PtysAreListed
  <2>2. PtysAreListed'
    BY DEF LifecycleTypeOK, SpawnFacts, CloserFacts, PtysAreListed
  <2>3. NoPhantoms'
    BY DEF LifecycleTypeOK, SpawnFacts, CloserFacts, PtysAreListed, NoPhantoms, Spawning, ClosedBy
  <2> QED BY <1>1, <2>1, <2>2, <2>3
<1>3. AgentHasOwner'
  BY DEF LifecycleTypeOK, AgentHasOwner, HeldBy, ClosedBy
<1>4. SpawnFacts'
  BY DEF LifecycleTypeOK, SpawnFacts, CloserFacts
<1>5. CloserFacts'
  BY DEF LifecycleTypeOK, CloserFacts
<1>6. EntriesHaveReason'
  <2>1. mcp' \ spoiled' \subseteq mcp \ spoiled /\ hooks' \ spoiled' \subseteq hooks \ spoiled
    OBVIOUS
  <2>2. \A j \in Ids : scope[j] \in mcp' \ spoiled' /\ RetractsMcp(j)
          => scope'[j] = scope[j] /\ RetractsMcp(j)'
    BY DEF LifecycleTypeOK, CloserFacts, RetractsMcp, Unfinished, HeldAt, HeldBy, ClosedBy
  <2>3. \A j \in Ids : scope[j] \in hooks' \ spoiled' /\ RetractsHooks(j)
          => scope'[j] = scope[j] /\ RetractsHooks(j)'
    BY DEF LifecycleTypeOK, CloserFacts, RetractsHooks, Unfinished, HeldAt, HeldBy, ClosedBy
  <2> QED
    BY <2>1, <2>2, <2>3, ReasonKept
<1> QED
  BY <1>2, <1>3, <1>4, <1>5, <1>6

LEMMA HookWriteInv ==
  ASSUME LifecycleInv, NEW i \in Ids, HookWrite(i)
  PROVE  LifecycleInv'
<1> USE LifecycleAssumption DEF LifecycleInv, RegistriesAgree, Ids, HookWrite
<1>1. LifecycleTypeOK'
  BY DEF LifecycleTypeOK, SpawnStages, CloseStages, Undoing
<1>2. RegistriesAgree'
  <2>1. PipelinesHavePtys'
    BY DEF LifecycleTypeOK, SpawnFacts, CloserFacts, PipelinesHavePtys, PtysAreListed
  <2>2. PtysAreListed'
    BY DEF LifecycleTypeOK, SpawnFacts, CloserFacts, PtysAreListed
  <2>3. NoPhantoms'
    BY DEF LifecycleTypeOK, SpawnFacts, CloserFacts, PtysAreListed, NoPhantoms, Spawning, ClosedBy
  <2> QED BY <1>1, <2>1, <2>2, <2>3
<1>3. AgentHasOwner'
  BY DEF LifecycleTypeOK, AgentHasOwner, HeldBy, ClosedBy
<1>4. SpawnFacts'
  BY DEF LifecycleTypeOK, SpawnFacts, CloserFacts
<1>5. CloserFacts'
  BY DEF LifecycleTypeOK, CloserFacts
<1>6. EntriesHaveReason'
  <2>1. mcp' \ spoiled' \subseteq mcp \ spoiled /\ hooks' \ spoiled' \subseteq hooks \ spoiled
    OBVIOUS
  <2>2. \A j \in Ids : scope[j] \in mcp' \ spoiled' /\ RetractsMcp(j)
          => scope'[j] = scope[j] /\ RetractsMcp(j)'
    BY DEF LifecycleTypeOK, CloserFacts, RetractsMcp, Unfinished, HeldAt, HeldBy, ClosedBy
  <2>3. \A j \in Ids : scope[j] \in hooks' \ spoiled' /\ RetractsHooks(j)
          => scope'[j] = scope[j] /\ RetractsHooks(j)'
    BY DEF LifecycleTypeOK, CloserFacts, RetractsHooks, Unfinished, HeldAt, HeldBy, ClosedBy
  <2> QED
    BY <2>1, <2>2, <2>3, ReasonKept
<1> QED
  BY <1>2, <1>3, <1>4, <1>5, <1>6

LEMMA CloseBeginInv ==
  ASSUME LifecycleInv, NEW c \in Closers, NEW i \in Ids, CloseBegin(c, i)
  PROVE  LifecycleInv'
<1> USE LifecycleAssumption DEF LifecycleInv, RegistriesAgree, Ids, CloseBegin
<1>0. /\ closer' = [closer EXCEPT ![c] = [at |-> "take", id |-> i, holds |-> FALSE]]
      /\ closer[c] \in [at : CloseStages, id : 0..MaxSessions, holds : BOOLEAN]
  BY DEF LifecycleTypeOK
<1>1. LifecycleTypeOK'
  BY <1>0 DEF LifecycleTypeOK, SpawnStages, CloseStages, Undoing
<1>2. RegistriesAgree'
  BY <1>0, <1>1 DEF LifecycleTypeOK, SpawnFacts, CloserFacts, Spawning, ClosedBy,
     PipelinesHavePtys, PtysAreListed, NoPhantoms
<1>3. AgentHasOwner'
  BY <1>0 DEF LifecycleTypeOK, AgentHasOwner, HeldBy, ClosedBy
<1>4. SpawnFacts'
  BY <1>0 DEF LifecycleTypeOK, SpawnFacts, CloserFacts
<1>5. CloserFacts'
  BY <1>0 DEF LifecycleTypeOK, CloserFacts
<1>6. EntriesHaveReason'
  <2>1. mcp' \ spoiled' \subseteq mcp \ spoiled /\ hooks' \ spoiled' \subseteq hooks \ spoiled
    OBVIOUS
  <2>2. \A j \in Ids : scope[j] \in mcp' \ spoiled' /\ RetractsMcp(j)
          => scope'[j] = scope[j] /\ RetractsMcp(j)'
    BY <1>0 DEF LifecycleTypeOK, CloserFacts, RetractsMcp, Unfinished, HeldAt, HeldBy, ClosedBy
  <2>3. \A j \in Ids : scope[j] \in hooks' \ spoiled' /\ RetractsHooks(j)
          => scope'[j] = scope[j] /\ RetractsHooks(j)'
    BY <1>0 DEF LifecycleTypeOK, CloserFacts, RetractsHooks, Unfinished, HeldAt, HeldBy, ClosedBy
  <2> QED
    BY <2>1, <2>2, <2>3, ReasonKept
<1> QED
  BY <1>2, <1>3, <1>4, <1>5, <1>6

-----------------------------------------------------------------------------
\* The steps of a close.  The call of c alone moves: to `at`, for session j, with or
\* without its PtyState.
CloserIs(c, at, j, holds) ==
  /\ closer' \in [Closers -> [at : CloseStages, id : 0..MaxSessions, holds : BOOLEAN]]
  /\ closer'[c].at = at /\ closer'[c].id = j /\ (closer'[c].holds <=> holds)
  /\ \A d \in Closers \ {c} : closer'[d] = closer[d]

LEMMA MoveIs ==
  ASSUME LifecycleTypeOK, NEW c \in Closers, NEW to \in CloseStages,
         closer' = [closer EXCEPT ![c].at = to]
  PROVE  CloserIs(c, to, closer[c].id, closer[c].holds)
BY DEF LifecycleTypeOK, CloserIs

CloserRecords == [at : CloseStages, id : 0..MaxSessions, holds : BOOLEAN]

\* Setting two fields of one record of closer, over a named set of records.
LEMMA TakeSets ==
  ASSUME closer \in [Closers -> CloserRecords], NEW c \in Closers,
         NEW to \in CloseStages, NEW h \in BOOLEAN,
         closer' = [closer EXCEPT ![c].at = to, ![c].holds = h]
  PROVE  /\ closer'[c].at = to /\ closer'[c].id = closer[c].id /\ closer'[c].holds = h
         /\ \A d \in Closers \ {c} : closer'[d] = closer[d]
         /\ closer' \in [Closers -> CloserRecords]
BY DEF CloserRecords

LEMMA TakeIs ==
  ASSUME LifecycleTypeOK, NEW c \in Closers, NEW h \in BOOLEAN,
         closer' = [closer EXCEPT ![c].at = "kill", ![c].holds = h]
  PROVE  CloserIs(c, "kill", closer[c].id, h)
<1>1. closer \in [Closers -> CloserRecords]
  BY DEF LifecycleTypeOK, CloserRecords
<1>2. "kill" \in CloseStages
  BY DEF CloseStages
<1>3. /\ closer'[c].at = "kill" /\ closer'[c].id = closer[c].id /\ closer'[c].holds = h
      /\ \A d \in Closers \ {c} : closer'[d] = closer[d]
      /\ closer' \in [Closers -> CloserRecords]
  BY <1>1, <1>2, TakeSets
<1> QED
  BY <1>3 DEF CloserIs, CloserRecords

LEMMA EndIs ==
  ASSUME LifecycleTypeOK, NEW c \in Closers, closer' = [closer EXCEPT ![c] = IdleCloser]
  PROVE  CloserIs(c, "idle", 0, FALSE)
BY LifecycleAssumption DEF LifecycleTypeOK, CloserIs, CloseStages, IdleCloser

\* What the other calls hold, they go on to hold.
LEMMA StillHeld ==
  ASSUME NEW c \in Closers, NEW at, NEW j, NEW holds, CloserIs(c, at, j, holds),
         NEW i, NEW stages, HeldAt(i, stages), ~(HeldBy(c, i) /\ closer[c].at \in stages)
  PROVE  HeldAt(i, stages)'
BY DEF CloserIs, HeldAt, HeldBy, ClosedBy

LEMMA StillClosed ==
  ASSUME NEW c \in Closers, NEW at, NEW j, NEW holds, CloserIs(c, at, j, holds),
         NEW i, \E d \in Closers : ClosedBy(d, i), ~ClosedBy(c, i)
  PROVE  \E d \in Closers : ClosedBy(d, i)'
BY DEF CloserIs, ClosedBy

\* A session stays accounted for while the call of c moves on, or ends with the
\* session gone, refused or in the PtyRegistry.
LEMMA ListingKept ==
  ASSUME RegistriesAgree, NEW c \in Closers, NEW at, NEW j, NEW holds, CloserIs(c, at, j, holds),
         spawn' = spawn, sessions' \subseteq sessions, refused \subseteq refused',
         ptys \ {closer[c].id} \subseteq ptys',
         \/ at # "idle" /\ j = closer[c].id
         \/ closer[c].id \in refused' /\ ptys \subseteq ptys'
         \/ closer[c].id \notin sessions'
  PROVE  \A i \in sessions' :
           Spawning(i)' \/ i \in ptys' \/ i \in refused' \/ \E d \in Closers : ClosedBy(d, i)'
<1> SUFFICES ASSUME NEW i \in sessions'
             PROVE  \/ Spawning(i)' \/ i \in ptys' \/ i \in refused'
                    \/ \E d \in Closers : ClosedBy(d, i)'
  OBVIOUS
<1>1. Spawning(i) \/ i \in ptys \/ i \in refused \/ \E d \in Closers : ClosedBy(d, i)
  BY DEF RegistriesAgree, NoPhantoms
<1>2. Spawning(i)' <=> Spawning(i)
  BY DEF Spawning
<1>3. CASE i = closer[c].id
  <2>1. at # "idle" /\ j = i => ClosedBy(c, i)'
    BY DEF CloserIs, ClosedBy
  <2> QED
    BY <1>1, <1>2, <1>3, <2>1
<1>4. CASE i # closer[c].id
  <2>1. ~ClosedBy(c, i)
    BY <1>4 DEF ClosedBy
  <2> QED
    BY <1>1, <1>2, <1>4, <2>1, StillClosed
<1> QED
  BY <1>3, <1>4

\* The PtyRegistry and the pipelines stay in step while the call of c moves on past
\* them and touches neither.
LEMMA PtysKept ==
  ASSUME RegistriesAgree, NEW c \in Closers, NEW at, NEW j, NEW holds, CloserIs(c, at, j, holds),
         UNCHANGED <<spawn, ptys, pipelines>>, closer[c].id \notin ptys,
         sessions \ {closer[c].id} \subseteq sessions'
  PROVE  PipelinesHavePtys' /\ PtysAreListed'
<1>1. PipelinesHavePtys'
  BY DEF RegistriesAgree, PipelinesHavePtys
<1>2. ASSUME NEW i \in ptys, NEW d \in Closers, closer[d].at = "take_pty", closer[d].id = i
      PROVE  closer'[d] = closer[d]
  BY <1>2 DEF CloserIs
<1>3. PtysAreListed'
  BY <1>2 DEF RegistriesAgree, PtysAreListed
<1> QED
  BY <1>1, <1>3

\* What the moved call holds now.
LEMMA NowHeld ==
  ASSUME NEW c \in Closers, NEW at, NEW j, NEW holds, CloserIs(c, at, j, holds), at # "idle"
  PROVE  holds => \A stages : at \in stages => HeldAt(j, stages)'
BY DEF CloserIs, HeldAt, HeldBy, ClosedBy

\* A call that moves on, or ends, once it has taken the PtyState.
LEMMA FactsKept ==
  ASSUME CloserFacts, NEW c \in Closers, NEW at, NEW j, NEW holds, CloserIs(c, at, j, holds),
         spawn' = spawn, ptys' = ptys, pipelines' = pipelines,
         closer[c].at \notin {"idle", "take", "take_pty"}, at = "idle" \/ j = closer[c].id
  PROVE  CloserFacts'
<1> SUFFICES ASSUME NEW d \in Closers, closer'[d].at # "idle"
             PROVE  /\ closer'[d].id \in Ids
                    /\ spawn[closer'[d].id] = "up"
                    /\ closer'[d].at # "take" => closer'[d].id \notin pipelines
                    /\ closer'[d].at \notin {"take", "take_pty"} => closer'[d].id \notin ptys
  BY DEF CloserFacts, Ids
<1>1. closer'[c].at = at /\ closer'[c].id = j /\ \A e \in Closers \ {c} : closer'[e] = closer[e]
  BY DEF CloserIs
<1>2. CASE d = c
  BY <1>1, <1>2 DEF CloserFacts
<1>3. CASE d # c
  BY <1>1, <1>3 DEF CloserFacts
<1> QED BY <1>2, <1>3

LEMMA CloseDropsPipelineInv ==
  ASSUME LifecycleInv, NEW c \in Closers, CloseDropsPipeline(c)
  PROVE  LifecycleInv'
<1> USE DEF LifecycleInv, RegistriesAgree, Ids
<1>0. /\ closer[c].at = "take"
      /\ CloserIs(c, "take_pty", closer[c].id, closer[c].holds)
      /\ pipelines' = pipelines \ {closer[c].id}
      /\ UNCHANGED <<minted, spawn, provision, scope, sessions, ptys, agent, mcp, hooks,
                     state_file, refused, spoiled, crashes>>
  BY MoveIs DEF CloseStages, CloseDropsPipeline, MoveCloser
<1>1. LifecycleTypeOK'
  BY <1>0 DEF LifecycleTypeOK, CloserIs, CloserFacts
<1>2. RegistriesAgree'
  <2>1. PipelinesHavePtys'
    BY <1>0 DEF PipelinesHavePtys
  <2>3. PtysAreListed'
    <3> SUFFICES ASSUME NEW j \in ptys, j \notin pipelines'
                 PROVE  \E d \in Closers : (closer[d].at = "take_pty" /\ closer[d].id = j)'
      BY <1>0 DEF PtysAreListed
    <3>1. CASE j = closer[c].id
      BY <1>0, <3>1 DEF CloserIs
    <3>2. CASE j # closer[c].id
      <4>1. PICK d \in Closers : closer[d].at = "take_pty" /\ closer[d].id = j
        BY <1>0, <3>2 DEF PtysAreListed
      <4> QED
        BY <1>0, <3>2, <4>1 DEF CloserIs
    <3> QED
      BY <3>1, <3>2
  <2>2. NoPhantoms'
    BY <1>0, ListingKept DEF NoPhantoms
  <2> QED
    BY <1>1, <2>1, <2>2, <2>3
<1>3. AgentHasOwner'
  <2> SUFFICES ASSUME NEW j \in Ids, agent'[j]
               PROVE  spawn'[j] \in {"wire", "register"} \/ j \in ptys' \/ HeldAt(j, {"kill"})'
    BY DEF AgentHasOwner, HeldAt
  <2>1. agent[j]
    BY <1>0 DEF LifecycleTypeOK
  <2>2. spawn[j] \in {"wire", "register"} \/ j \in ptys \/ HeldAt(j, {"kill"})
    BY <2>1 DEF AgentHasOwner, HeldAt
  <2>3. CASE HeldAt(j, {"kill"})
    BY <1>0, <2>3, StillHeld DEF LifecycleTypeOK, HeldBy, ClosedBy
  <2> QED
    BY <1>0, <2>2, <2>3, NowHeld
<1>4. SpawnFacts'
  BY <1>0 DEF LifecycleTypeOK, SpawnFacts, CloserFacts
<1>5. CloserFacts'
  BY <1>0 DEF LifecycleTypeOK, CloserIs, CloserFacts
<1>6. EntriesHaveReason'
  <2>1. mcp' \ spoiled' \subseteq mcp \ spoiled /\ hooks' \ spoiled' \subseteq hooks \ spoiled
    BY <1>0
  <2>2. \A j \in Ids : scope[j] \in mcp' \ spoiled' /\ RetractsMcp(j)
          => scope'[j] = scope[j] /\ RetractsMcp(j)'
    BY <1>0, StillHeld, NowHeld DEF LifecycleTypeOK, CloserFacts, RetractsMcp, HeldBy, ClosedBy
  <2>3. \A j \in Ids : scope[j] \in hooks' \ spoiled' /\ RetractsHooks(j)
          => scope'[j] = scope[j] /\ RetractsHooks(j)'
    BY <1>0, StillHeld, NowHeld DEF LifecycleTypeOK, CloserFacts, RetractsHooks, HeldBy, ClosedBy
  <2> QED
    BY <2>1, <2>2, <2>3, ReasonKept
<1> QED
  BY <1>2, <1>3, <1>4, <1>5, <1>6

LEMMA CloseTakeInv ==
  ASSUME LifecycleInv, NEW c \in Closers, CloseTake(c)
  PROVE  LifecycleInv'
<1> USE DEF LifecycleInv, RegistriesAgree, Ids
<1>0. /\ closer[c].at = "take_pty"
      /\ CloserIs(c, "kill", closer[c].id, closer[c].id \in ptys)
      /\ ptys' = ptys \ {closer[c].id}
      /\ UNCHANGED <<minted, spawn, provision, scope, sessions, pipelines, agent, mcp,
                     hooks, state_file, refused, spoiled, crashes>>
  <2> DEFINE h == closer[c].id \in ptys
  <2>1. h \in BOOLEAN /\ closer' = [closer EXCEPT ![c].at = "kill", ![c].holds = h]
    BY DEF CloseTake
  <2> HIDE DEF h
  <2>2. CloserIs(c, "kill", closer[c].id, h)
    BY <2>1, TakeIs
  <2>3. CloserIs(c, "kill", closer[c].id, closer[c].id \in ptys)
    BY <2>2 DEF h
  <2> QED
    BY <2>3 DEF CloseTake
<1>1. LifecycleTypeOK'
  BY <1>0 DEF LifecycleTypeOK, CloserIs, CloserFacts
<1>2. RegistriesAgree'
  <2>1. PipelinesHavePtys'
    BY <1>0 DEF PipelinesHavePtys, CloserFacts
  <2>3. PtysAreListed'
    <3>1. ASSUME NEW d \in Closers, closer[d].id # closer[c].id PROVE closer'[d] = closer[d]
      BY <1>0, <3>1 DEF CloserIs
    <3> QED
      BY <1>0, <3>1 DEF PtysAreListed
  <2>2. NoPhantoms'
    BY <1>0, ListingKept DEF NoPhantoms
  <2> QED
    BY <1>1, <2>1, <2>2, <2>3
<1>3. AgentHasOwner'
  <2> SUFFICES ASSUME NEW j \in Ids, agent'[j]
               PROVE  spawn'[j] \in {"wire", "register"} \/ j \in ptys' \/ HeldAt(j, {"kill"})'
    BY DEF AgentHasOwner, HeldAt
  <2>1. agent[j]
    BY <1>0 DEF LifecycleTypeOK
  <2>2. spawn[j] \in {"wire", "register"} \/ j \in ptys \/ HeldAt(j, {"kill"})
    BY <2>1 DEF AgentHasOwner, HeldAt
  <2>3. CASE HeldAt(j, {"kill"})
    BY <1>0, <2>3, StillHeld DEF LifecycleTypeOK, HeldBy, ClosedBy
  <2> QED
    <3>1. CASE j \in ptys /\ j = closer[c].id
      BY <1>0, <3>1, NowHeld
    <3>2. CASE j \in ptys /\ j # closer[c].id
      BY <1>0, <3>2
    <3> QED
      BY <1>0, <2>2, <2>3, <3>1, <3>2
<1>4. SpawnFacts'
  BY <1>0 DEF LifecycleTypeOK, SpawnFacts, CloserFacts
<1>5. CloserFacts'
  <2>1. \A d \in Closers \ {c} : closer'[d] = closer[d]
    BY <1>0 DEF CloserIs
  <2>2. closer'[c].id = closer[c].id
    BY <1>0 DEF CloserIs
  <2> QED
    BY <1>0, <2>1, <2>2 DEF CloserFacts
<1>6. EntriesHaveReason'
  <2>1. mcp' \ spoiled' \subseteq mcp \ spoiled /\ hooks' \ spoiled' \subseteq hooks \ spoiled
    BY <1>0
  <2>2. \A j \in Ids : scope[j] \in mcp' \ spoiled' /\ RetractsMcp(j)
          => scope'[j] = scope[j] /\ RetractsMcp(j)'
    BY <1>0, StillHeld, NowHeld DEF LifecycleTypeOK, CloserFacts, RetractsMcp, HeldBy, ClosedBy
  <2>3. \A j \in Ids : scope[j] \in hooks' \ spoiled' /\ RetractsHooks(j)
          => scope'[j] = scope[j] /\ RetractsHooks(j)'
    BY <1>0, StillHeld, NowHeld DEF LifecycleTypeOK, CloserFacts, RetractsHooks, HeldBy, ClosedBy
  <2> QED
    BY <2>1, <2>2, <2>3, ReasonKept
<1> QED
  BY <1>2, <1>3, <1>4, <1>5, <1>6

LEMMA CloseKillInv ==
  ASSUME LifecycleInv, NEW c \in Closers, CloseKill(c)
  PROVE  LifecycleInv'
<1> USE DEF LifecycleInv, RegistriesAgree, Ids
<1>0. /\ closer[c].at = "kill"
      /\ CloserIs(c, "mcp", closer[c].id, closer[c].holds)
      /\ agent' = IF closer[c].holds THEN [agent EXCEPT ![closer[c].id] = FALSE] ELSE agent
      /\ UNCHANGED <<minted, spawn, provision, scope, sessions, ptys, pipelines, mcp, hooks,
                     state_file, refused, spoiled, crashes>>
  BY MoveIs DEF CloseStages, CloseKill, MoveCloser
<1>1. LifecycleTypeOK'
  BY <1>0 DEF LifecycleTypeOK, CloserIs, CloserFacts
<1>2. RegistriesAgree'
  <2>1. PipelinesHavePtys' /\ PtysAreListed'
    BY <1>0, PtysKept DEF CloserFacts
  <2>2. NoPhantoms'
    BY <1>0, ListingKept DEF NoPhantoms
  <2> QED
    BY <1>1, <2>1, <2>2
<1>3. AgentHasOwner'
  <2> SUFFICES ASSUME NEW j \in Ids, agent'[j]
               PROVE  spawn'[j] \in {"wire", "register"} \/ j \in ptys' \/ HeldAt(j, {"kill"})'
    BY DEF AgentHasOwner, HeldAt
  <2>1. agent[j]
    BY <1>0 DEF LifecycleTypeOK
  <2>2. spawn[j] \in {"wire", "register"} \/ j \in ptys \/ HeldAt(j, {"kill"})
    BY <2>1 DEF AgentHasOwner, HeldAt
  <2>3. CASE HeldAt(j, {"kill"})
    BY <1>0, <2>3, StillHeld DEF LifecycleTypeOK, HeldBy, ClosedBy
  <2> QED
    BY <1>0, <2>2, <2>3, NowHeld
<1>4. SpawnFacts'
  BY <1>0 DEF LifecycleTypeOK, SpawnFacts, CloserFacts
<1>5. CloserFacts'
  BY <1>0, FactsKept
<1>6. EntriesHaveReason'
  <2>1. mcp' \ spoiled' \subseteq mcp \ spoiled /\ hooks' \ spoiled' \subseteq hooks \ spoiled
    BY <1>0
  <2>2. \A j \in Ids : scope[j] \in mcp' \ spoiled' /\ RetractsMcp(j)
          => scope'[j] = scope[j] /\ RetractsMcp(j)'
    <3> SUFFICES ASSUME NEW j \in Ids, RetractsMcp(j) PROVE RetractsMcp(j)'
      BY <1>0
    <3>1. HeldAt(j, {"kill", "mcp"}) => HeldAt(j, {"kill", "mcp"})'
      BY <1>0, StillHeld, NowHeld DEF HeldBy, ClosedBy
    <3> QED
      BY <1>0, <3>1 DEF RetractsMcp
  <2>3. \A j \in Ids : scope[j] \in hooks' \ spoiled' /\ RetractsHooks(j)
          => scope'[j] = scope[j] /\ RetractsHooks(j)'
    BY <1>0, StillHeld, NowHeld DEF LifecycleTypeOK, CloserFacts, RetractsHooks, HeldBy, ClosedBy
  <2> QED
    BY <2>1, <2>2, <2>3, ReasonKept
<1> QED
  BY <1>2, <1>3, <1>4, <1>5, <1>6

LEMMA CloseRetractMcpInv ==
  ASSUME LifecycleInv, NEW c \in Closers, CloseRetractMcp(c)
  PROVE  LifecycleInv'
<1> USE DEF LifecycleInv, RegistriesAgree, Ids
<1>0. /\ closer[c].at = "mcp"
      /\ \/ /\ CloserIs(c, "hooks", closer[c].id, closer[c].holds)
            /\ mcp' = IF closer[c].holds /\ provision[closer[c].id]
                      THEN mcp \ {scope[closer[c].id]} ELSE mcp
            /\ UNCHANGED <<refused, spoiled>>
         \/ /\ CloserIs(c, "idle", 0, FALSE)
            /\ refused' = refused \cup {closer[c].id}
            /\ spoiled' = spoiled \cup {scope[closer[c].id]}
            /\ mcp' = mcp
      /\ UNCHANGED <<minted, spawn, provision, scope, sessions, ptys, pipelines, agent,
                     hooks, state_file, crashes>>
  BY MoveIs, EndIs DEF CloseStages, CloseRetractMcp, CloseRetract, MoveCloser
<1>1. LifecycleTypeOK'
  <2>1. closer[c].id \in Ids
    BY <1>0 DEF CloserFacts
  <2>2. closer' \in [Closers -> [at : CloseStages, id : 0..MaxSessions, holds : BOOLEAN]]
    BY <1>0 DEF CloserIs
  <2>3. scope[closer[c].id] \in Scopes
    BY <2>1 DEF LifecycleTypeOK
  <2>4. refused' \subseteq Ids /\ spoiled' \subseteq Scopes
    BY <1>0, <2>1, <2>3 DEF LifecycleTypeOK
  <2>5. mcp' \subseteq Scopes /\ hooks' \subseteq Scopes
    BY <1>0 DEF LifecycleTypeOK
  <2> QED
    BY <1>0, <2>2, <2>4, <2>5 DEF LifecycleTypeOK
<1>2. RegistriesAgree'
  <2>1. PipelinesHavePtys' /\ PtysAreListed'
    BY <1>0, PtysKept DEF CloserFacts
  <2>2. NoPhantoms'
    BY <1>0, ListingKept DEF NoPhantoms
  <2> QED
    BY <1>1, <2>1, <2>2
<1>3. AgentHasOwner'
  <2> SUFFICES ASSUME NEW j \in Ids, agent'[j]
               PROVE  spawn'[j] \in {"wire", "register"} \/ j \in ptys' \/ HeldAt(j, {"kill"})'
    BY DEF AgentHasOwner, HeldAt
  <2>1. agent[j]
    BY <1>0 DEF LifecycleTypeOK
  <2>2. spawn[j] \in {"wire", "register"} \/ j \in ptys \/ HeldAt(j, {"kill"})
    BY <2>1 DEF AgentHasOwner, HeldAt
  <2>3. CASE HeldAt(j, {"kill"})
    BY <1>0, <2>3, StillHeld DEF LifecycleTypeOK, HeldBy, ClosedBy
  <2> QED
    BY <1>0, <2>2, <2>3, NowHeld
<1>4. SpawnFacts'
  BY <1>0 DEF LifecycleTypeOK, SpawnFacts, CloserFacts
<1>5. CloserFacts'
  BY <1>0, FactsKept
<1>6. EntriesHaveReason'
  <2>1. mcp' \ spoiled' \subseteq mcp \ spoiled /\ hooks' \ spoiled' \subseteq hooks \ spoiled
    BY <1>0
  <2>2. \A j \in Ids : scope[j] \in mcp' \ spoiled' /\ RetractsMcp(j)
          => scope'[j] = scope[j] /\ RetractsMcp(j)'
    <3> SUFFICES ASSUME NEW j \in Ids, scope[j] \in mcp' \ spoiled', RetractsMcp(j)
                 PROVE  RetractsMcp(j)'
      BY <1>0
    <3>1. ~HeldBy(c, j)
      BY <1>0 DEF LifecycleTypeOK, RetractsMcp, HeldBy, ClosedBy
    <3>2. HeldAt(j, {"kill", "mcp"}) => HeldAt(j, {"kill", "mcp"})'
      BY <1>0, <3>1, StillHeld
    <3> QED
      BY <1>0, <3>2 DEF RetractsMcp
  <2>3. \A j \in Ids : scope[j] \in hooks' \ spoiled' /\ RetractsHooks(j)
          => scope'[j] = scope[j] /\ RetractsHooks(j)'
    <3> SUFFICES ASSUME NEW j \in Ids, scope[j] \in hooks' \ spoiled', RetractsHooks(j)
                 PROVE  RetractsHooks(j)'
      BY <1>0
    <3>1. CASE HeldBy(c, j)
      <4>1. CloserIs(c, "hooks", closer[c].id, closer[c].holds)
        BY <1>0, <3>1 DEF LifecycleTypeOK, HeldBy, ClosedBy
      <4>2. HeldAt(j, {"kill", "mcp", "hooks"})'
        BY <3>1, <4>1 DEF CloserIs, HeldAt, HeldBy, ClosedBy
      <4> QED
        BY <1>0, <4>2 DEF RetractsHooks
    <3>2. CASE ~HeldBy(c, j)
      <4>1. HeldAt(j, {"kill", "mcp", "hooks"}) => HeldAt(j, {"kill", "mcp", "hooks"})'
        BY <1>0, <3>2, StillHeld
      <4> QED
        BY <1>0, <4>1 DEF RetractsHooks
    <3> QED
      BY <3>1, <3>2
  <2> QED
    BY <2>1, <2>2, <2>3, ReasonKept
<1> QED
  BY <1>2, <1>3, <1>4, <1>5, <1>6

LEMMA CloseRetractHooksInv ==
  ASSUME LifecycleInv, NEW c \in Closers, CloseRetractHooks(c)
  PROVE  LifecycleInv'
<1> USE DEF LifecycleInv, RegistriesAgree, Ids
<1>0. /\ closer[c].at = "hooks"
      /\ \/ /\ CloserIs(c, "files", closer[c].id, closer[c].holds)
            /\ hooks' = IF closer[c].holds /\ provision[closer[c].id]
                      THEN hooks \ {scope[closer[c].id]} ELSE hooks
            /\ UNCHANGED <<refused, spoiled>>
         \/ /\ CloserIs(c, "idle", 0, FALSE)
            /\ refused' = refused \cup {closer[c].id}
            /\ spoiled' = spoiled \cup {scope[closer[c].id]}
            /\ hooks' = hooks
      /\ UNCHANGED <<minted, spawn, provision, scope, sessions, ptys, pipelines, agent,
                     mcp, state_file, crashes>>
  BY MoveIs, EndIs DEF CloseStages, CloseRetractHooks, CloseRetract, MoveCloser
<1>1. LifecycleTypeOK'
  <2>1. closer[c].id \in Ids
    BY <1>0 DEF CloserFacts
  <2>2. closer' \in [Closers -> [at : CloseStages, id : 0..MaxSessions, holds : BOOLEAN]]
    BY <1>0 DEF CloserIs
  <2>3. scope[closer[c].id] \in Scopes
    BY <2>1 DEF LifecycleTypeOK
  <2>4. refused' \subseteq Ids /\ spoiled' \subseteq Scopes
    BY <1>0, <2>1, <2>3 DEF LifecycleTypeOK
  <2>5. mcp' \subseteq Scopes /\ hooks' \subseteq Scopes
    BY <1>0 DEF LifecycleTypeOK
  <2> QED
    BY <1>0, <2>2, <2>4, <2>5 DEF LifecycleTypeOK
<1>2. RegistriesAgree'
  <2>1. PipelinesHavePtys' /\ PtysAreListed'
    BY <1>0, PtysKept DEF CloserFacts
  <2>2. NoPhantoms'
    BY <1>0, ListingKept DEF NoPhantoms
  <2> QED
    BY <1>1, <2>1, <2>2
<1>3. AgentHasOwner'
  <2> SUFFICES ASSUME NEW j \in Ids, agent'[j]
               PROVE  spawn'[j] \in {"wire", "register"} \/ j \in ptys' \/ HeldAt(j, {"kill"})'
    BY DEF AgentHasOwner, HeldAt
  <2>1. agent[j]
    BY <1>0 DEF LifecycleTypeOK
  <2>2. spawn[j] \in {"wire", "register"} \/ j \in ptys \/ HeldAt(j, {"kill"})
    BY <2>1 DEF AgentHasOwner, HeldAt
  <2>3. CASE HeldAt(j, {"kill"})
    BY <1>0, <2>3, StillHeld DEF LifecycleTypeOK, HeldBy, ClosedBy
  <2> QED
    BY <1>0, <2>2, <2>3, NowHeld
<1>4. SpawnFacts'
  BY <1>0 DEF LifecycleTypeOK, SpawnFacts, CloserFacts
<1>5. CloserFacts'
  BY <1>0, FactsKept
<1>6. EntriesHaveReason'
  <2>1. mcp' \ spoiled' \subseteq mcp \ spoiled /\ hooks' \ spoiled' \subseteq hooks \ spoiled
    BY <1>0
  <2>2. \A j \in Ids : scope[j] \in mcp' \ spoiled' /\ RetractsMcp(j)
          => scope'[j] = scope[j] /\ RetractsMcp(j)'
    BY <1>0, StillHeld, NowHeld DEF LifecycleTypeOK, CloserFacts, RetractsMcp, HeldBy, ClosedBy
  <2>3. \A j \in Ids : scope[j] \in hooks' \ spoiled' /\ RetractsHooks(j)
          => scope'[j] = scope[j] /\ RetractsHooks(j)'
    <3> SUFFICES ASSUME NEW j \in Ids, scope[j] \in hooks' \ spoiled', RetractsHooks(j)
                 PROVE  RetractsHooks(j)'
      BY <1>0
    <3>1. ~HeldBy(c, j)
      BY <1>0 DEF LifecycleTypeOK, RetractsHooks, HeldBy, ClosedBy
    <3>2. HeldAt(j, {"kill", "mcp", "hooks"}) => HeldAt(j, {"kill", "mcp", "hooks"})'
      BY <1>0, <3>1, StillHeld
    <3> QED
      BY <1>0, <3>2 DEF RetractsHooks
  <2> QED
    BY <2>1, <2>2, <2>3, ReasonKept
<1> QED
  BY <1>2, <1>3, <1>4, <1>5, <1>6

LEMMA CloseFilesInv ==
  ASSUME LifecycleInv, NEW c \in Closers, CloseFiles(c)
  PROVE  LifecycleInv'
<1> USE DEF LifecycleInv, RegistriesAgree, Ids
<1>0. /\ closer[c].at = "files"
      /\ CloserIs(c, "remove", closer[c].id, closer[c].holds)
      /\ state_file' = IF closer[c].holds
                       THEN [state_file EXCEPT ![closer[c].id] = "absent"] ELSE state_file
      /\ UNCHANGED <<minted, spawn, provision, scope, sessions, ptys, pipelines, agent,
                     mcp, hooks, refused, spoiled, crashes>>
  BY MoveIs DEF CloseStages, CloseFiles, MoveCloser
<1>1. LifecycleTypeOK'
  BY <1>0 DEF LifecycleTypeOK, CloserIs, CloserFacts
<1>2. RegistriesAgree'
  <2>1. PipelinesHavePtys' /\ PtysAreListed'
    BY <1>0, PtysKept DEF CloserFacts
  <2>2. NoPhantoms'
    BY <1>0, ListingKept DEF NoPhantoms
  <2> QED
    BY <1>1, <2>1, <2>2
<1>3. AgentHasOwner'
  <2> SUFFICES ASSUME NEW j \in Ids, agent'[j]
               PROVE  spawn'[j] \in {"wire", "register"} \/ j \in ptys' \/ HeldAt(j, {"kill"})'
    BY DEF AgentHasOwner, HeldAt
  <2>1. agent[j]
    BY <1>0 DEF LifecycleTypeOK
  <2>2. spawn[j] \in {"wire", "register"} \/ j \in ptys \/ HeldAt(j, {"kill"})
    BY <2>1 DEF AgentHasOwner, HeldAt
  <2>3. CASE HeldAt(j, {"kill"})
    BY <1>0, <2>3, StillHeld DEF LifecycleTypeOK, HeldBy, ClosedBy
  <2> QED
    BY <1>0, <2>2, <2>3, NowHeld
<1>4. SpawnFacts'
  BY <1>0 DEF LifecycleTypeOK, SpawnFacts, CloserFacts
<1>5. CloserFacts'
  BY <1>0, FactsKept
<1>6. EntriesHaveReason'
  <2>1. mcp' \ spoiled' \subseteq mcp \ spoiled /\ hooks' \ spoiled' \subseteq hooks \ spoiled
    BY <1>0
  <2>2. \A j \in Ids : scope[j] \in mcp' \ spoiled' /\ RetractsMcp(j)
          => scope'[j] = scope[j] /\ RetractsMcp(j)'
    BY <1>0, StillHeld, NowHeld DEF LifecycleTypeOK, CloserFacts, RetractsMcp, HeldBy, ClosedBy
  <2>3. \A j \in Ids : scope[j] \in hooks' \ spoiled' /\ RetractsHooks(j)
          => scope'[j] = scope[j] /\ RetractsHooks(j)'
    BY <1>0, StillHeld, NowHeld DEF LifecycleTypeOK, CloserFacts, RetractsHooks, HeldBy, ClosedBy
  <2> QED
    BY <2>1, <2>2, <2>3, ReasonKept
<1> QED
  BY <1>2, <1>3, <1>4, <1>5, <1>6

LEMMA CloseFilesFailsInv ==
  ASSUME LifecycleInv, NEW c \in Closers, CloseFilesFails(c)
  PROVE  LifecycleInv'
<1> USE DEF LifecycleInv, RegistriesAgree, Ids
<1>0. /\ closer[c].at = "files"
      /\ CloserIs(c, "idle", 0, FALSE)
      /\ refused' = refused \cup {closer[c].id}
      /\ UNCHANGED <<minted, spawn, provision, scope, sessions, ptys, pipelines, agent,
                     mcp, hooks, state_file, spoiled, crashes>>
  BY EndIs DEF CloseFilesFails
<1>1. LifecycleTypeOK'
  BY <1>0 DEF LifecycleTypeOK, CloserIs, CloserFacts
<1>2. RegistriesAgree'
  <2>1. PipelinesHavePtys' /\ PtysAreListed'
    BY <1>0, PtysKept DEF CloserFacts
  <2>2. NoPhantoms'
    BY <1>0, ListingKept DEF NoPhantoms
  <2> QED
    BY <1>1, <2>1, <2>2
<1>3. AgentHasOwner'
  <2> SUFFICES ASSUME NEW j \in Ids, agent'[j]
               PROVE  spawn'[j] \in {"wire", "register"} \/ j \in ptys' \/ HeldAt(j, {"kill"})'
    BY DEF AgentHasOwner, HeldAt
  <2>1. agent[j]
    BY <1>0 DEF LifecycleTypeOK
  <2>2. spawn[j] \in {"wire", "register"} \/ j \in ptys \/ HeldAt(j, {"kill"})
    BY <2>1 DEF AgentHasOwner, HeldAt
  <2>3. CASE HeldAt(j, {"kill"})
    BY <1>0, <2>3, StillHeld DEF LifecycleTypeOK, HeldBy, ClosedBy
  <2> QED
    BY <1>0, <2>2, <2>3, NowHeld
<1>4. SpawnFacts'
  BY <1>0 DEF LifecycleTypeOK, SpawnFacts, CloserFacts
<1>5. CloserFacts'
  BY <1>0, FactsKept
<1>6. EntriesHaveReason'
  <2>1. mcp' \ spoiled' \subseteq mcp \ spoiled /\ hooks' \ spoiled' \subseteq hooks \ spoiled
    BY <1>0
  <2>2. \A j \in Ids : scope[j] \in mcp' \ spoiled' /\ RetractsMcp(j)
          => scope'[j] = scope[j] /\ RetractsMcp(j)'
    BY <1>0, StillHeld, NowHeld DEF LifecycleTypeOK, CloserFacts, RetractsMcp, HeldBy, ClosedBy
  <2>3. \A j \in Ids : scope[j] \in hooks' \ spoiled' /\ RetractsHooks(j)
          => scope'[j] = scope[j] /\ RetractsHooks(j)'
    BY <1>0, StillHeld, NowHeld DEF LifecycleTypeOK, CloserFacts, RetractsHooks, HeldBy, ClosedBy
  <2> QED
    BY <2>1, <2>2, <2>3, ReasonKept
<1> QED
  BY <1>2, <1>3, <1>4, <1>5, <1>6

LEMMA CloseRemoveInv ==
  ASSUME LifecycleInv, NEW c \in Closers, CloseRemove(c)
  PROVE  LifecycleInv'
<1> USE DEF LifecycleInv, RegistriesAgree, Ids
<1>0. /\ closer[c].at = "remove"
      /\ CloserIs(c, "idle", 0, FALSE)
      /\ sessions' = sessions \ {closer[c].id}
      /\ UNCHANGED <<minted, spawn, provision, scope, ptys, pipelines, agent, mcp, hooks,
                     state_file, refused, spoiled, crashes>>
  BY EndIs DEF CloseRemove
<1>1. LifecycleTypeOK'
  BY <1>0 DEF LifecycleTypeOK, CloserIs, CloserFacts
<1>2. RegistriesAgree'
  <2>1. PipelinesHavePtys' /\ PtysAreListed'
    BY <1>0, PtysKept DEF CloserFacts
  <2>2. NoPhantoms'
    BY <1>0, ListingKept DEF NoPhantoms
  <2> QED
    BY <1>1, <2>1, <2>2
<1>3. AgentHasOwner'
  <2> SUFFICES ASSUME NEW j \in Ids, agent'[j]
               PROVE  spawn'[j] \in {"wire", "register"} \/ j \in ptys' \/ HeldAt(j, {"kill"})'
    BY DEF AgentHasOwner, HeldAt
  <2>1. agent[j]
    BY <1>0 DEF LifecycleTypeOK
  <2>2. spawn[j] \in {"wire", "register"} \/ j \in ptys \/ HeldAt(j, {"kill"})
    BY <2>1 DEF AgentHasOwner, HeldAt
  <2>3. CASE HeldAt(j, {"kill"})
    BY <1>0, <2>3, StillHeld DEF LifecycleTypeOK, HeldBy, ClosedBy
  <2> QED
    BY <1>0, <2>2, <2>3, NowHeld
<1>4. SpawnFacts'
  BY <1>0 DEF LifecycleTypeOK, SpawnFacts, CloserFacts
<1>5. CloserFacts'
  BY <1>0, FactsKept
<1>6. EntriesHaveReason'
  <2>1. mcp' \ spoiled' \subseteq mcp \ spoiled /\ hooks' \ spoiled' \subseteq hooks \ spoiled
    BY <1>0
  <2>2. \A j \in Ids : scope[j] \in mcp' \ spoiled' /\ RetractsMcp(j)
          => scope'[j] = scope[j] /\ RetractsMcp(j)'
    BY <1>0, StillHeld, NowHeld DEF LifecycleTypeOK, CloserFacts, RetractsMcp, HeldBy, ClosedBy
  <2>3. \A j \in Ids : scope[j] \in hooks' \ spoiled' /\ RetractsHooks(j)
          => scope'[j] = scope[j] /\ RetractsHooks(j)'
    <3>1. \A j : HeldAt(j, {"kill", "mcp", "hooks"}) => HeldAt(j, {"kill", "mcp", "hooks"})'
      BY <1>0, StillHeld
    <3> QED
      BY <1>0, <3>1 DEF RetractsHooks
  <2> QED
    BY <2>1, <2>2, <2>3, ReasonKept
<1> QED
  BY <1>2, <1>3, <1>4, <1>5, <1>6

-----------------------------------------------------------------------------
\* A kill of the app ends every spawn and close, and keeps what is in the files.
LEMMA CrashInv ==
  ASSUME LifecycleInv, Crash
  PROVE  LifecycleInv'
<1> USE LifecycleAssumption DEF LifecycleInv, RegistriesAgree, Ids, Crash, IdleCloser
<1>1. LifecycleTypeOK'
  BY DEF LifecycleTypeOK, SpawnStages, CloseStages, Undoing
<1>2. RegistriesAgree'
  <2>1. PipelinesHavePtys'
    BY DEF LifecycleTypeOK, SpawnFacts, CloserFacts, PipelinesHavePtys, PtysAreListed
  <2>2. PtysAreListed'
    BY DEF LifecycleTypeOK, SpawnFacts, CloserFacts, PtysAreListed
  <2>3. NoPhantoms'
    BY DEF LifecycleTypeOK, SpawnFacts, CloserFacts, PtysAreListed, NoPhantoms, Spawning, ClosedBy
  <2> QED BY <1>1, <2>1, <2>2, <2>3
<1>3. AgentHasOwner'
  BY DEF LifecycleTypeOK, AgentHasOwner, HeldBy, ClosedBy
<1>4. SpawnFacts'
  BY DEF LifecycleTypeOK, SpawnFacts, CloserFacts
<1>5. CloserFacts'
  BY DEF LifecycleTypeOK, CloserFacts
<1>6. EntriesHaveReason'
  <2>1. mcp' \ spoiled' \subseteq mcp \ spoiled /\ hooks' \ spoiled' \subseteq hooks \ spoiled
    OBVIOUS
  <2>2. \A j \in Ids : scope[j] \in mcp' \ spoiled' /\ RetractsMcp(j)
          => scope'[j] = scope[j] /\ RetractsMcp(j)'
    BY DEF LifecycleTypeOK, CloserFacts, RetractsMcp, Unfinished, HeldAt, HeldBy, ClosedBy
  <2>3. \A j \in Ids : scope[j] \in hooks' \ spoiled' /\ RetractsHooks(j)
          => scope'[j] = scope[j] /\ RetractsHooks(j)'
    BY DEF LifecycleTypeOK, CloserFacts, RetractsHooks, Unfinished, HeldAt, HeldBy, ClosedBy
  <2> QED
    BY <2>1, <2>2, <2>3, ReasonKept
<1> QED
  BY <1>2, <1>3, <1>4, <1>5, <1>6

LEMMA StutterInv == LifecycleInv /\ UNCHANGED vars => LifecycleInv'
BY DEF vars, LifecycleInv, RegistriesAgree, PipelinesHavePtys, PtysAreListed, NoPhantoms,
   LifecycleTypeOK, AgentHasOwner, EntriesHaveReason,
   SpawnFacts, CloserFacts, Spawning, ClosedBy, HeldBy, WillRetract
-----------------------------------------------------------------------------
\* The inductive invariant holds in every reachable state: whatever the spawns, the
\* closes, the agents and the kills of the app interleave to.
THEOREM Invariance == Spec => []LifecycleInv
<1>1. LifecycleInv /\ [Next]_vars => LifecycleInv'
  <2> SUFFICES ASSUME LifecycleInv, [Next]_vars PROVE LifecycleInv' OBVIOUS
  <2>1. CASE \E needs \in BOOLEAN, s \in Scopes : Mint(needs, s)
    BY <2>1, MintInv
  <2>2. ASSUME NEW i \in Ids, SpawnStep(i) PROVE LifecycleInv'
    BY <2>2, InjectMcpInv, InjectHooksInv, InjectFailsInv, InsertInv, SweepInv, OpenPtyInv,
       OpenFailsInv, InsertPipelineInv, RegisterPtyInv, UndoMcpInv, UndoHooksInv, UndoEntryInv DEF SpawnStep
  <2>3. CASE \E i \in Ids : AgentExit(i) \/ HookWrite(i)
    BY <2>3, AgentExitInv, HookWriteInv
  <2>4. CASE \E c \in Closers, i \in Ids : CloseBegin(c, i)
    BY <2>4, CloseBeginInv
  <2>5. ASSUME NEW c \in Closers, CloseStep(c) PROVE LifecycleInv'
    BY <2>5, CloseDropsPipelineInv, CloseTakeInv, CloseKillInv, CloseRetractMcpInv,
       CloseRetractHooksInv, CloseFilesInv, CloseFilesFailsInv, CloseRemoveInv DEF CloseStep
  <2>6. CASE Crash
    BY <2>6, CrashInv
  <2>7. CASE UNCHANGED vars
    BY <2>7, StutterInv
  <2> QED
    BY <2>1, <2>2, <2>3, <2>4, <2>5, <2>6, <2>7 DEF Next
<1> QED
  BY <1>1, InitInv, PTL DEF Spec

\* An agent that runs is held: by the spawn that is wiring it, by the PtyRegistry, or by
\* the close that has taken its PtyState and has not killed it yet (session.rs, take
\* before kill).
THEOREM NoOrphanAgent == Spec => []AgentHasOwner
BY Invariance, PTL DEF LifecycleInv

\* The PtyRegistry and the pipelines part only between two locks of a spawn or a close; a
\* session in either is listed; and a listed session is on its way up, runs, is being
\* closed, or its close returned an error (finish_spawn_impl and
\* close_session_impl_with_hooks).
THEOREM NoPhantomSession == Spec => []RegistriesAgree
BY Invariance, PTL DEF LifecycleInv

\* An entry that Spectty wrote into a project's config is one that a spawn or a close will
\* still retract, unless a failed retract or a kill of the app has left it
\* (cleanup_failed_spawn and close_session_impl_with_hooks).
THEOREM EntriesAreOwned == Spec => []EntriesHaveReason
BY Invariance, PTL DEF LifecycleInv

\* The runtime of a session never starts over the state file of an earlier session: by the
\* time the PTY opens, remove_stale_state_file has removed it.
THEOREM VerdictsAreFresh == Spec => []NoStaleVerdict
<1>1. LifecycleInv => NoStaleVerdict
  BY DEF LifecycleInv, SpawnFacts, NoStaleVerdict
<1> QED
  BY <1>1, Invariance, PTL
=============================================================================

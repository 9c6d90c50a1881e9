------------------------- MODULE Persistence_proofs -------------------------
(***************************************************************************)
(* Proofs about what outlives a session: the agents' config files and the  *)
(* documents in the engram store.                                          *)
(*                                                                         *)
(* ConfigFile, where calls do not overlap, for every number of inodes,     *)
(* edits, failures and power losses: each provisioner call is one change   *)
(* of the document, and the user's original is backed up first.  This      *)
(* rests on what a call knows at each system call: the file is as it read  *)
(* it, the inode it writes is not the one that is read, and it renames     *)
(* only what it has written in full and synced.                            *)
(*                                                                         *)
(* EngramStore, for every number of callers, keys, calls and seconds: its  *)
(* clients and daemon are the store that PersistencePort promises.         *)
(***************************************************************************)
EXTENDS ConfigFile, EngramStore, TLAPS

Planned == Stages \ {"idle", "read"}

OneCall == \A c, d \in Calls : call[c].at # "idle" /\ call[d].at # "idle" => c = d

\* The file, where there is one, is whole and would survive a power loss.
LiveIsSafe ==
  /\ live # NoInode => live # tmp /\ live \in synced /\ Live.state = "whole"
  /\ Live.foreign <= edits + 1

\* What the caller of a call knows of it and of the files.
CallKnows(k) ==
  /\ k.at = "idle" => k = IdleCall
  /\ k.at # "idle" => k.op \in {"inject", "retract"}
  /\ k.at \in Planned => k.next = Edited(Live, k.op) /\ (live # NoInode \/ k.op = "inject")
  /\ k.at \in Writing => k.fd = tmp /\ tmp # NoInode
  /\ k.at = "write" => data[tmp] = Empty
  /\ k.at \in {"sync", "rename"} => data[tmp] = k.next
  /\ k.at = "rename" => tmp \in synced
  /\ existed =>
       /\ k.at = "original" => bak = Absent
       /\ k.at \in {"truncate", "copy"} => k.orig.state = "whole" /\ ~k.orig.entry
       /\ k.at \in {"create"} \cup Writing => bak # Absent

FilesType ==
  /\ live \in Inodes \cup {NoInode} /\ tmp \in Inodes \cup {NoInode}
  /\ data \in [Inodes -> Docs]
  /\ synced \subseteq Inodes
  /\ bak \in Docs
  /\ existed \in BOOLEAN
  /\ edits \in 0..MaxEdits
  /\ crashes \in 0..MaxCrashes

\* The inductive invariant of a config file.
ConfigInv ==
  /\ ~Overlap
  /\ FilesType
  /\ call \in [Calls -> CallRecords]
  /\ OneCall
  /\ LiveIsSafe
  /\ \A c \in Calls : CallKnows(call[c])
  /\ existed => live # NoInode
  /\ BackupPreSpectty
----------------------------------------------------------------------------
\* The documents a file can have.
LEMMA DocTypes ==
  /\ Absent \in Docs /\ Empty \in Docs /\ Torn \in Docs
  /\ \A f \in 0..(MaxEdits + 1), e \in BOOLEAN : Whole(f, e) \in Docs
  /\ \A d \in Docs : d.state = "whole" => d = Whole(d.foreign, d.entry)
BY ConfigAssumption DEF Docs, Absent, Empty, Torn, Whole

\* What Live is, by cases.
LEMMA LiveCases ==
  ASSUME FilesType, LiveIsSafe
  PROVE  /\ Live \in Docs
         /\ live = NoInode => Live = Absent
         /\ live # NoInode => Live = Whole(Live.foreign, Live.entry)
         /\ Live.foreign \in 0..(edits + 1) /\ Live.entry \in BOOLEAN
<1>1. Live \in Docs
  BY DocTypes DEF Live, FilesType
<1>2. Live.foreign \in 0..(MaxEdits + 1) /\ Live.entry \in BOOLEAN
  BY <1>1 DEF Docs
<1>3. Live.foreign \in 0..(edits + 1)
  BY <1>2, ConfigAssumption DEF LiveIsSafe, FilesType
<1> QED BY <1>1, <1>2, <1>3, DocTypes DEF LiveIsSafe, Live

\* An edit of the file fits the bounds and is a whole document.
LEMMA EditedType ==
  ASSUME FilesType, LiveIsSafe, NEW op \in {"inject", "retract"}
  PROVE  Edited(Live, op) \in Docs /\ Edited(Live, op).state = "whole"
<1>1. Live.foreign \in 0..(MaxEdits + 1)
  BY LiveCases, ConfigAssumption DEF FilesType
<1>2. Edited(Live, op) \in Docs
  BY <1>1, DocTypes DEF Edited
<1> QED BY <1>2 DEF Edited, Whole

LEMMA IdleType == IdleCall \in CallRecords
BY DocTypes DEF IdleCall, CallRecords, Stages

LEMMA InvType == ConfigInv => ConfigTypeOK
BY DEF ConfigInv, ConfigTypeOK, FilesType, CallKnows

LEMMA InitInv == ~Overlap /\ Init => ConfigInv
<1> SUFFICES ASSUME ~Overlap, Init PROVE ConfigInv
  OBVIOUS
<1>1. FilesType
  <2>1. \A n \in Inodes : (IF n = live THEN Whole(1, FALSE) ELSE Empty) \in Docs
    <3>1. 1 \in 0..(MaxEdits + 1)
      BY ConfigAssumption
    <3> QED BY <3>1, DocTypes
  <2>2. data \in [Inodes -> Docs]
    BY <2>1 DEF Init
  <2>3. edits \in 0..MaxEdits /\ crashes \in 0..MaxCrashes
    BY ConfigAssumption DEF Init
  <2> QED BY <2>2, <2>3, DocTypes DEF Init, FilesType
<1>2. call \in [Calls -> CallRecords]
  BY IdleType DEF Init
<1>3. LiveIsSafe
  BY DEF Init, LiveIsSafe, Live, Absent, Whole, NoInode, Inodes
<1>4. OneCall /\ \A c \in Calls : CallKnows(call[c])
  BY DEF Init, OneCall, CallKnows, IdleCall, Planned, Writing
<1>5. (existed => live # NoInode) /\ BackupPreSpectty
  BY DEF Init, BackupPreSpectty, Live, Absent, Whole, NoInode, Inodes
<1> QED BY <1>1, <1>2, <1>3, <1>4, <1>5 DEF ConfigInv
-----------------------------------------------------------------------------
\* One call moves and the others stay idle: what it knows afterwards is all
\* there is to know.
LEMMA OneMoves ==
  ASSUME ConfigInv, NEW c \in Calls,
         \A d \in Calls \ {c} : call[d].at = "idle" /\ call'[d] = call[d],
         call' \in [Calls -> CallRecords],
         FilesType', LiveIsSafe', CallKnows(call[c])', UNCHANGED existed,
         existed => live' # NoInode, BackupPreSpectty'
  PROVE  ConfigInv'
<1>1. \A d \in Calls \ {c} : call'[d] = IdleCall
  BY DEF ConfigInv, CallKnows
<1>2. OneCall'
  BY <1>1 DEF OneCall, IdleCall
<1>3. \A d \in Calls : CallKnows(call[d])'
  BY <1>1 DEF CallKnows, IdleCall, Planned, Writing
<1> QED BY <1>2, <1>3 DEF ConfigInv

\* A call that is under way is the only one.
LEMMA OthersIdle ==
  ASSUME ConfigInv, NEW c \in Calls, call[c].at # "idle"
  PROVE  \A d \in Calls \ {c} : call[d].at = "idle"
BY DEF ConfigInv, OneCall

\* The steps of a call before it writes leave the file alone.
LEMMA BeginInv ==
  ASSUME ConfigInv, NEW c \in Calls, NEW op \in {"inject", "retract"}, Begin(c, op)
  PROVE  ConfigInv' /\ UNCHANGED Live
<1>1. \A d \in Calls \ {c} : call[d].at = "idle" /\ call'[d] = call[d]
  BY DEF Begin, Busy, ConfigInv
<1>2. call' \in [Calls -> CallRecords]
  <2>1. [IdleCall EXCEPT !.at = "read", !.op = op] \in CallRecords
    BY IdleType DEF CallRecords, Stages
  <2> QED BY <2>1 DEF Begin, ConfigInv
<1>3. UNCHANGED Live
  BY DEF Begin, Live
<1>4. FilesType' /\ LiveIsSafe' /\ BackupPreSpectty' /\ (existed => live' # NoInode)
  BY <1>3 DEF Begin, ConfigInv, FilesType, LiveIsSafe, BackupPreSpectty
<1>5. CallKnows(call[c])'
  BY <1>3 DEF Begin, ConfigInv, CallKnows, IdleCall, Planned, Writing
<1> QED BY <1>1, <1>2, <1>3, <1>4, <1>5, OneMoves DEF Begin

\* Neither does the end of a call before its rename.
LEMMA FailInv ==
  ASSUME ConfigInv, NEW c \in Calls, call[c].at # "idle",
         call' = [call EXCEPT ![c] = IdleCall],
         UNCHANGED <<live, tmp, data, synced, bak, existed, edits, crashes>>
  PROVE  ConfigInv' /\ UNCHANGED Live
<1>1. \A d \in Calls \ {c} : call[d].at = "idle" /\ call'[d] = call[d]
  BY OthersIdle DEF ConfigInv
<1>2. call' \in [Calls -> CallRecords]
  BY IdleType DEF ConfigInv
<1>3. UNCHANGED Live
  BY DEF Live
<1>4. FilesType' /\ LiveIsSafe' /\ BackupPreSpectty' /\ (existed => live' # NoInode)
  BY <1>3 DEF ConfigInv, FilesType, LiveIsSafe, BackupPreSpectty
<1>5. CallKnows(call[c])'
  BY DEF ConfigInv, CallKnows, IdleCall, Planned, Writing
<1> QED BY <1>1, <1>2, <1>3, <1>4, <1>5, OneMoves

LEMMA ReadInv ==
  ASSUME ConfigInv, NEW c \in Calls, Read(c)
  PROVE  ConfigInv' /\ UNCHANGED Live
<1> DEFINE op == call[c].op
<1>1. CASE Live.state = "whole" \/ (Live = Absent /\ op = "inject")
  <2>1. \A d \in Calls \ {c} : call[d].at = "idle" /\ call'[d] = call[d]
    BY OthersIdle DEF ConfigInv, Read
  <2>2. call' = [call EXCEPT ![c].at = "check", ![c].next = Edited(Live, op)]
    BY <1>1 DEF Read
  <2>3. op \in {"inject", "retract"}
    BY DEF Read, ConfigInv, CallKnows
  <2>4. call' \in [Calls -> CallRecords]
    BY <2>2, <2>3, EditedType, ZenonT(60) DEF ConfigInv, CallRecords, Stages
  <2>5. UNCHANGED Live
    BY DEF Read, Live
  <2>6. FilesType' /\ LiveIsSafe' /\ BackupPreSpectty' /\ (existed => live' # NoInode)
    BY <2>5 DEF Read, ConfigInv, FilesType, LiveIsSafe, BackupPreSpectty
  <2>7. call'[c].at = "check" /\ call'[c].op = op /\ call'[c].next = Edited(Live', op)
    BY <2>2, <2>5 DEF ConfigInv, CallRecords
  <2>8. live' # NoInode \/ op = "inject"
    BY <1>1 DEF Read, Live, Absent
  <2>9. CallKnows(call[c])'
    BY <2>3, <2>7, <2>8 DEF CallKnows, Planned, Writing
  <2> QED BY <2>1, <2>4, <2>5, <2>6, <2>9, OneMoves DEF Read
<1>2. CASE ~(Live.state = "whole" \/ (Live = Absent /\ op = "inject"))
  BY <1>2, FailInv DEF Read
<1> QED BY <1>1, <1>2

\* A call that sees to the backup leaves the file alone and keeps its plan.
LEMMA BackupMoves ==
  ASSUME ConfigInv, NEW c \in Calls, call[c].at \in Planned \ Writing,
         NEW to \in {"original", "truncate", "copy", "create"}, NEW doc \in Docs,
         call' = [call EXCEPT ![c].at = to, ![c].orig = doc],
         UNCHANGED <<live, tmp, data, synced, existed, edits, crashes>>,
         bak' \in Docs, BackupPreSpectty',
         existed => /\ to = "original" => bak' = Absent
                    /\ to \in {"truncate", "copy"} => doc.state = "whole" /\ ~doc.entry
                    /\ to = "create" => bak' # Absent
  PROVE  ConfigInv' /\ UNCHANGED Live
<1>1. \A d \in Calls \ {c} : call[d].at = "idle" /\ call'[d] = call[d]
  BY OthersIdle DEF ConfigInv, Planned
<1>2. call' \in [Calls -> CallRecords]
  BY ZenonT(60) DEF ConfigInv, CallRecords, Stages
<1>3. UNCHANGED Live
  BY DEF Live
<1>4. FilesType' /\ LiveIsSafe' /\ (existed => live' # NoInode)
  BY <1>3 DEF ConfigInv, FilesType, LiveIsSafe
<1>5. /\ call'[c].at = to /\ call'[c].orig = doc
      /\ call'[c].op = call[c].op /\ call'[c].next = call[c].next
  BY DEF ConfigInv, CallRecords
<1>6. CallKnows(call[c])'
  BY <1>3, <1>5 DEF ConfigInv, CallKnows, Planned, Writing
<1> QED BY <1>1, <1>2, <1>3, <1>4, <1>6, OneMoves

LEMMA CheckBackupInv ==
  ASSUME ConfigInv, NEW c \in Calls, CheckBackup(c)
  PROVE  ConfigInv' /\ UNCHANGED Live
<1>1. PICK to \in {"original", "create"} : /\ call' = [call EXCEPT ![c].at = to]
                                           /\ bak = Absent <=> to = "original"
  BY DEF CheckBackup, At
<1>2. call' = [call EXCEPT ![c].at = to, ![c].orig = call[c].orig]
  BY <1>1 DEF ConfigInv, CallRecords
<1>3. call[c].orig \in Docs /\ call[c].at \in Planned \ Writing
  BY DEF CheckBackup, At, ConfigInv, CallRecords, Planned, Writing, Stages
<1>4. BackupPreSpectty' /\ bak' \in Docs
  BY DEF CheckBackup, ConfigInv, FilesType, BackupPreSpectty, Live
<1> QED BY <1>1, <1>2, <1>3, <1>4, BackupMoves DEF CheckBackup

LEMMA ReadOriginalInv ==
  ASSUME ConfigInv, NEW c \in Calls, ReadOriginal(c)
  PROVE  ConfigInv' /\ UNCHANGED Live
<1> DEFINE to == IF live = NoInode THEN "create" ELSE "truncate"
<1>1. call' = [call EXCEPT ![c].at = to, ![c].orig = Live]
  BY DEF ReadOriginal
<1>2. Live \in Docs /\ call[c].at \in Planned \ Writing
  BY LiveCases DEF ReadOriginal, ConfigInv, Planned, Writing, Stages
<1>3. BackupPreSpectty' /\ bak' \in Docs
  BY DEF ReadOriginal, ConfigInv, FilesType, BackupPreSpectty, Live
<1>4. existed => to = "truncate" /\ Live.state = "whole" /\ ~Live.entry
  BY DEF ReadOriginal, ConfigInv, CallKnows, LiveIsSafe, BackupPreSpectty
<1> QED BY <1>1, <1>2, <1>3, <1>4, BackupMoves DEF ReadOriginal

LEMMA TruncateBackupInv ==
  ASSUME ConfigInv, NEW c \in Calls, TruncateBackup(c)
  PROVE  ConfigInv' /\ UNCHANGED Live
<1>1. call' = [call EXCEPT ![c].at = "copy", ![c].orig = call[c].orig]
  BY DEF TruncateBackup, At, ConfigInv, CallRecords
<1>2. call[c].orig \in Docs /\ call[c].at \in Planned \ Writing
  BY DEF TruncateBackup, At, ConfigInv, CallRecords, Planned, Writing, Stages
<1>3. BackupPreSpectty' /\ bak' \in Docs
  BY DocTypes DEF TruncateBackup, BackupPreSpectty, Empty, Absent
<1>4. existed => call[c].orig.state = "whole" /\ ~call[c].orig.entry
  BY DEF TruncateBackup, At, ConfigInv, CallKnows
<1> QED BY <1>1, <1>2, <1>3, <1>4, BackupMoves DEF TruncateBackup

LEMMA FillBackupInv ==
  ASSUME ConfigInv, NEW c \in Calls, FillBackup(c)
  PROVE  ConfigInv' /\ UNCHANGED Live
<1>1. call' = [call EXCEPT ![c].at = "create", ![c].orig = call[c].orig]
  BY DEF FillBackup, At, ConfigInv, CallRecords
<1>2. call[c].orig \in Docs /\ call[c].at \in Planned \ Writing
  BY DEF FillBackup, At, ConfigInv, CallRecords, Planned, Writing, Stages
<1>3. bak' \in {call[c].orig, Torn}
  BY DEF FillBackup, Overlay
<1>4. existed => call[c].orig.state = "whole" /\ ~call[c].orig.entry
  BY DEF FillBackup, At, ConfigInv, CallKnows
<1>5. bak' \in Docs
  BY <1>2, <1>3, DocTypes
<1>6. existed => bak' # Absent /\ (bak'.state = "whole" => ~bak'.entry)
  <2>1. CASE bak' = call[c].orig
    BY <1>4, <2>1 DEF Absent
  <2>2. CASE bak' = Torn
    BY <2>2 DEF Torn, Absent
  <2> QED BY <1>3, <2>1, <2>2
<1>7. BackupPreSpectty'
  BY <1>6 DEF FillBackup, BackupPreSpectty
<1> QED BY <1>1, <1>2, <1>4, <1>5, <1>6, <1>7, BackupMoves DEF FillBackup
-----------------------------------------------------------------------------
\* A call that is past the backup keeps its plan while it writes.
LEMMA WriterKnows ==
  ASSUME ConfigInv, NEW c \in Calls, call[c].at \in {"create"} \cup Writing,
         call'[c].at \in Writing,
         call'[c].op = call[c].op, call'[c].next = call[c].next,
         UNCHANGED <<live, Live, bak, existed>>,
         call'[c].fd = tmp', tmp' # NoInode,
         call'[c].at = "write" => data'[tmp'] = Empty,
         call'[c].at \in {"sync", "rename"} => data'[tmp'] = call[c].next,
         call'[c].at = "rename" => tmp' \in synced'
  PROVE  CallKnows(call[c])'
<1>1. /\ call[c].op \in {"inject", "retract"}
      /\ call[c].next = Edited(Live, call[c].op)
      /\ live # NoInode \/ call[c].op = "inject"
      /\ existed => bak # Absent
  BY DEF ConfigInv, CallKnows, Planned, Writing, Stages
<1>2. call'[c].next = Edited(Live', call'[c].op)
  BY <1>1 DEF Edited
<1> QED BY <1>1, <1>2 DEF CallKnows, Planned, Writing

\* The steps that write the temporary file.
LEMMA CreateTmpInv ==
  ASSUME ConfigInv, NEW c \in Calls, CreateTmp(c)
  PROVE  ConfigInv' /\ UNCHANGED Live
<1>1. PICK n \in IF tmp = NoInode THEN Fresh ELSE {tmp} :
        /\ tmp' = n
        /\ data' = [data EXCEPT ![n] = Empty]
        /\ synced' = synced \ {n}
        /\ call' = [call EXCEPT ![c].at = "write", ![c].fd = n]
  BY DEF CreateTmp
<1>2. n \in Inodes /\ n # live /\ n # NoInode
  BY <1>1 DEF Fresh, ConfigInv, FilesType, LiveIsSafe, Inodes, NoInode
<1>3. \A d \in Calls \ {c} : call[d].at = "idle" /\ call'[d] = call[d]
  BY <1>1, OthersIdle DEF ConfigInv, CreateTmp
<1>4. call' \in [Calls -> CallRecords]
  BY <1>1, <1>2, ZenonT(60) DEF ConfigInv, CallRecords, Stages
<1>5. UNCHANGED Live
  BY <1>1, <1>2 DEF CreateTmp, Live, ConfigInv, FilesType
<1>6. FilesType'
  BY <1>1, <1>2, DocTypes DEF CreateTmp, ConfigInv, FilesType
<1>7. LiveIsSafe' /\ BackupPreSpectty' /\ (existed => live' # NoInode)
  BY <1>1, <1>2, <1>5 DEF CreateTmp, ConfigInv, LiveIsSafe, BackupPreSpectty
<1>8. /\ call'[c].at = "write" /\ call'[c].fd = n
      /\ call'[c].op = call[c].op /\ call'[c].next = call[c].next
  BY <1>1 DEF ConfigInv, CallRecords
<1>9. data'[n] = Empty
  BY <1>1, <1>2 DEF ConfigInv, FilesType
<1>10. CallKnows(call[c])'
  BY <1>1, <1>2, <1>5, <1>8, <1>9, WriterKnows DEF CreateTmp, Writing
<1> QED BY <1>3, <1>4, <1>5, <1>6, <1>7, <1>10, OneMoves DEF CreateTmp

LEMMA WriteTmpInv ==
  ASSUME ConfigInv, NEW c \in Calls, WriteTmp(c)
  PROVE  ConfigInv' /\ UNCHANGED Live
<1> DEFINE next == call[c].next
<1>1. call[c].fd = tmp /\ tmp \in Inodes /\ tmp # live /\ data[tmp] = Empty
  BY DEF WriteTmp, At, ConfigInv, CallKnows, FilesType, LiveIsSafe, Writing
<1>2. data' = [data EXCEPT ![tmp] = next] /\ synced' = synced \ {tmp}
  BY <1>1 DEF WriteTmp, Overlay
<1>3. \A d \in Calls \ {c} : call[d].at = "idle" /\ call'[d] = call[d]
  BY OthersIdle DEF ConfigInv, WriteTmp, At
<1>4. call' \in [Calls -> CallRecords] /\ next \in Docs
  BY DEF WriteTmp, At, ConfigInv, CallRecords, Stages
<1>5. UNCHANGED Live
  BY <1>1, <1>2 DEF WriteTmp, Live, ConfigInv, FilesType
<1>6. FilesType'
  BY <1>1, <1>2, <1>4 DEF WriteTmp, ConfigInv, FilesType
<1>7. LiveIsSafe' /\ BackupPreSpectty' /\ (existed => live' # NoInode)
  BY <1>1, <1>2, <1>5 DEF WriteTmp, ConfigInv, LiveIsSafe, BackupPreSpectty
<1>8. /\ call'[c].at = "sync" /\ call'[c].fd = call[c].fd
      /\ call'[c].op = call[c].op /\ call'[c].next = next
  BY DEF WriteTmp, At, ConfigInv, CallRecords
<1>9. data'[tmp] = next
  BY <1>1, <1>2 DEF ConfigInv, FilesType
<1>10. CallKnows(call[c])'
  BY <1>1, <1>5, <1>8, <1>9, WriterKnows DEF WriteTmp, At, Writing, Inodes, NoInode
<1> QED BY <1>3, <1>4, <1>5, <1>6, <1>7, <1>10, OneMoves DEF WriteTmp

LEMMA SyncTmpInv ==
  ASSUME ConfigInv, NEW c \in Calls, SyncTmp(c)
  PROVE  ConfigInv' /\ UNCHANGED Live
<1>1. call[c].fd = tmp /\ tmp \in Inodes /\ data[tmp] = call[c].next
  BY DEF SyncTmp, At, ConfigInv, CallKnows, FilesType, Writing
<1>2. \A d \in Calls \ {c} : call[d].at = "idle" /\ call'[d] = call[d]
  BY OthersIdle DEF ConfigInv, SyncTmp, At
<1>3. call' \in [Calls -> CallRecords]
  BY DEF SyncTmp, At, ConfigInv, CallRecords, Stages
<1>4. UNCHANGED Live
  BY DEF SyncTmp, Live
<1>5. FilesType' /\ LiveIsSafe' /\ BackupPreSpectty' /\ (existed => live' # NoInode)
  BY <1>1, <1>4 DEF SyncTmp, ConfigInv, FilesType, LiveIsSafe, BackupPreSpectty
<1>6. /\ call'[c].at = "rename" /\ call'[c].fd = call[c].fd
      /\ call'[c].op = call[c].op /\ call'[c].next = call[c].next
  BY DEF SyncTmp, At, ConfigInv, CallRecords
<1>7. CallKnows(call[c])'
  BY <1>1, <1>4, <1>6, WriterKnows DEF SyncTmp, At, Writing, Inodes, NoInode
<1> QED BY <1>2, <1>3, <1>4, <1>5, <1>7, OneMoves DEF SyncTmp

\* The rename is the moment at which the document changes.
LEMMA RenameInv ==
  ASSUME ConfigInv, NEW c \in Calls, Rename(c)
  PROVE  ConfigInv' /\ (Atomic!Inject \/ Atomic!Retract)
<1> DEFINE op == call[c].op
<1>1. /\ call[c].at = "rename" /\ op \in {"inject", "retract"}
      /\ call[c].next = Edited(Live, op) /\ (live # NoInode \/ op = "inject")
      /\ tmp # NoInode /\ tmp \in Inodes /\ tmp \in synced /\ data[tmp] = call[c].next
      /\ existed => bak # Absent
  BY DEF Rename, ConfigInv, CallKnows, Planned, Writing, Stages, FilesType
<1>2. live' = tmp /\ tmp' = NoInode /\ UNCHANGED <<data, synced, bak, existed, edits, crashes>>
  BY <1>1 DEF Rename
<1>3. Live' = Edited(Live, op)
  BY <1>1, <1>2 DEF Live
<1>4. \A d \in Calls \ {c} : call[d].at = "idle" /\ call'[d] = call[d]
  BY <1>1, OthersIdle DEF ConfigInv, Rename
<1>5. call' \in [Calls -> CallRecords]
  BY IdleType DEF ConfigInv, Rename
<1>6. FilesType'
  BY <1>1, <1>2 DEF ConfigInv, FilesType
<1>7. LiveIsSafe'
  <2>1. Live'.state = "whole" /\ Live'.foreign = Live.foreign
    BY <1>3 DEF Edited, Whole
  <2> QED BY <1>1, <1>2, <2>1 DEF LiveIsSafe, ConfigInv
<1>8. BackupPreSpectty' /\ (existed => live' # NoInode)
  BY <1>1, <1>2 DEF BackupPreSpectty, ConfigInv
<1>9. CallKnows(call[c])'
  BY DEF Rename, ConfigInv, CallKnows, IdleCall, Planned, Writing
<1>10. Atomic!Inject \/ Atomic!Retract
  <2>1. CASE op = "inject"
    BY <1>3, <2>1 DEF Edited, Whole, Atomic!Inject, Atomic!Whole
  <2>2. CASE op = "retract"
    <3>1. Live.state = "whole"
      BY <1>1, <2>2 DEF ConfigInv, LiveIsSafe
    <3> QED BY <1>3, <2>2, <3>1 DEF Edited, Whole, Atomic!Retract, Atomic!Whole
  <2> QED BY <1>1, <2>1, <2>2
<1> QED BY <1>2, <1>4, <1>5, <1>6, <1>7, <1>8, <1>9, <1>10, OneMoves
-----------------------------------------------------------------------------
\* The user's edits, between calls.
LEMMA EditInv ==
  ASSUME ConfigInv, Edit
  PROVE  ConfigInv' /\ Atomic!Edit
<1> DEFINE new == Whole(Live.foreign + 1, Live.entry)
<1>1. PICK n \in Fresh : /\ live' = n
                         /\ data' = [data EXCEPT ![n] = new]
                         /\ synced' = synced \cup {n}
  BY DEF Edit
<1>2. n \in Inodes /\ n # tmp /\ n # NoInode
  BY <1>1 DEF Fresh, Inodes, NoInode
<1>3. /\ edits \in Nat /\ edits + 1 <= MaxEdits /\ edits' = edits + 1
      /\ Live.foreign \in 0..(edits + 1) /\ Live.entry \in BOOLEAN
  BY LiveCases, ConfigAssumption DEF Edit, ConfigInv, FilesType
<1>4. new \in Docs
  <2>1. Live.foreign + 1 \in 0..(MaxEdits + 1)
    BY <1>3, ConfigAssumption
  <2> QED BY <1>3, <2>1, DocTypes
<1>5. Live' = new
  BY <1>1, <1>2 DEF Live, ConfigInv, FilesType
<1>6. FilesType'
  BY <1>1, <1>2, <1>3, <1>4, ConfigAssumption DEF Edit, ConfigInv, FilesType
<1>7. LiveIsSafe'
  <2>1. Live'.state = "whole" /\ Live'.foreign = Live.foreign + 1
    BY <1>5 DEF Whole
  <2> QED BY <1>1, <1>2, <1>3, <2>1 DEF LiveIsSafe, Edit
<1>8. call' = call /\ \A c \in Calls : call[c] = IdleCall
  BY DEF Edit, Busy, ConfigInv, CallKnows
<1>9. OneCall' /\ (\A c \in Calls : CallKnows(call[c])')
  BY <1>8 DEF OneCall, CallKnows, IdleCall, Planned, Writing
<1>10. BackupPreSpectty'
  <2>1. Live'.entry = Live.entry
    BY <1>5 DEF Whole
  <2> QED BY <2>1 DEF BackupPreSpectty, ConfigInv, Edit
<1>11. Atomic!Edit
  BY <1>5 DEF Atomic!Edit, Atomic!Whole, Whole
<1> QED BY <1>1, <1>2, <1>6, <1>7, <1>8, <1>9, <1>10, <1>11 DEF ConfigInv, Edit

\* A power loss: what the name gives was synced before it got the name.
LEMMA CrashInv ==
  ASSUME ConfigInv, Crash
  PROVE  ConfigInv' /\ UNCHANGED Live
<1>1. PICK lost \in SUBSET ({live, tmp} \cap (Inodes \ synced)) :
        data' = [n \in Inodes |-> IF n \in lost THEN Torn ELSE data[n]]
  BY DEF Crash
<1>2. UNCHANGED Live
  BY <1>1 DEF Crash, Live, ConfigInv, FilesType, LiveIsSafe
<1>3. FilesType'
  <2>1. data' \in [Inodes -> Docs]
    BY <1>1, DocTypes DEF ConfigInv, FilesType
  <2>2. bak' \in Docs
    BY DocTypes DEF Crash, ConfigInv, FilesType
  <2>3. crashes' \in 0..MaxCrashes
    BY ConfigAssumption DEF Crash, ConfigInv, FilesType
  <2> QED BY <2>1, <2>2, <2>3 DEF Crash, ConfigInv, FilesType
<1>4. LiveIsSafe'
  BY <1>2 DEF Crash, ConfigInv, LiveIsSafe, FilesType
<1>5. /\ call' \in [Calls -> CallRecords]
      /\ \A c \in Calls : call'[c] = IdleCall
  BY IdleType DEF Crash
<1>6. OneCall' /\ (\A c \in Calls : CallKnows(call[c])')
  BY <1>5 DEF OneCall, CallKnows, IdleCall, Planned, Writing
<1>7. bak' = bak \/ (bak # Absent /\ bak' = Torn)
  BY DEF Crash
<1>8. BackupPreSpectty'
  BY <1>2, <1>7 DEF Crash, BackupPreSpectty, ConfigInv, Torn, Absent
<1> QED BY <1>2, <1>3, <1>4, <1>5, <1>6, <1>8 DEF ConfigInv, Crash

LEMMA StutterInv == ConfigInv /\ UNCHANGED vars => ConfigInv' /\ UNCHANGED Live
<1> SUFFICES ASSUME ConfigInv, UNCHANGED vars PROVE ConfigInv' /\ UNCHANGED Live
  OBVIOUS
<1>1. UNCHANGED Live
  BY DEF vars, Live
<1>2. \A c \in Calls : CallKnows(call[c])'
  BY <1>1 DEF vars, ConfigInv, CallKnows, Edited
<1>3. FilesType' /\ OneCall' /\ LiveIsSafe' /\ BackupPreSpectty'
  BY <1>1 DEF vars, ConfigInv, FilesType, OneCall, LiveIsSafe, BackupPreSpectty
<1> QED BY <1>1, <1>2, <1>3 DEF vars, ConfigInv
-----------------------------------------------------------------------------
\* Every step keeps the invariant and is a step, or a stutter, of AtomicConfig.
LEMMA NextInv == ConfigInv /\ [Next]_vars => ConfigInv' /\ [Atomic!Next]_Live
<1> SUFFICES ASSUME ConfigInv, [Next]_vars PROVE ConfigInv' /\ [Atomic!Next]_Live
  OBVIOUS
<1>1. CASE \E c \in Calls, op \in {"inject", "retract"} : Begin(c, op)
  BY <1>1, BeginInv
<1>2. ASSUME NEW c \in Calls, CallStep(c)
      PROVE  ConfigInv' /\ [Atomic!Next]_Live
  <2>1. CASE Rename(c)
    BY <2>1, RenameInv DEF Atomic!Next
  <2>2. CASE Fail(c)
    BY <2>2, FailInv DEF Fail
  <2>3. CASE Read(c)
    BY <2>3, ReadInv
  <2>4. CASE CheckBackup(c)
    BY <2>4, CheckBackupInv
  <2>5. CASE ReadOriginal(c)
    BY <2>5, ReadOriginalInv
  <2>6. CASE TruncateBackup(c)
    BY <2>6, TruncateBackupInv
  <2>7. CASE FillBackup(c)
    BY <2>7, FillBackupInv
  <2>8. CASE CreateTmp(c)
    BY <2>8, CreateTmpInv
  <2>9. CASE WriteTmp(c)
    BY <2>9, WriteTmpInv
  <2>10. CASE SyncTmp(c)
    BY <2>10, SyncTmpInv
  <2> QED BY <1>2, <2>1, <2>2, <2>3, <2>4, <2>5, <2>6, <2>7, <2>8, <2>9, <2>10 DEF CallStep
<1>3. CASE Edit
  BY <1>3, EditInv DEF Atomic!Next
<1>4. CASE Crash
  BY <1>4, CrashInv
<1>5. CASE UNCHANGED vars
  BY <1>5, StutterInv
<1> QED BY <1>1, <1>2, <1>3, <1>4, <1>5 DEF Next

\* The file Spectty finds is a document of AtomicConfig.
LEMMA InitRefines == Init => Atomic!Init
BY DEF Init, Live, Atomic!Init, Absent, Whole, Atomic!Absent, Atomic!Whole, Inodes, NoInode

\* The invariant holds of every behaviour in which calls do not overlap.
LEMMA ConfigInvariant == ~Overlap /\ Spec => []ConfigInv
<1>1. ~Overlap /\ Init => ConfigInv
  BY InitInv
<1>2. ConfigInv /\ [Next]_vars => ConfigInv'
  BY NextInv
<1> QED BY <1>1, <1>2, PTL DEF Spec

\* The variables, the records of calls included, have the values write_atomic
\* gives them, and a writer's file is the one that is named <path>.tmp.
THEOREM ConfigTypeCorrect == ~Overlap /\ Spec => []ConfigTypeOK
BY ConfigInvariant, InvType, PTL

\* However system calls fail and power is lost, a file that was there before
\* Spectty has its backup before the entry is in it, and a backup that is whole
\* is the original (the one-time backup of RealConfigFile::write_atomic).
THEOREM BackupIsFirst == ~Overlap /\ Spec => []BackupPreSpectty
<1>1. ConfigInv => BackupPreSpectty
  BY DEF ConfigInv
<1> QED BY <1>1, ConfigInvariant, PTL

\* write_atomic implements one change of the document: a reader finds the file
\* as it was or as the call leaves it, whole, at every system call, failure and
\* power loss.
THEOREM WritesAreAtomic == ~Overlap /\ Spec => WritesAtomic
<1>1. ConfigInv /\ [Next]_vars => [Atomic!Next]_Live
  BY NextInv
<1> QED BY <1>1, InitRefines, ConfigInvariant, PTL DEF Spec, WritesAtomic, Atomic!Spec
-----------------------------------------------------------------------------
(***************************************************************************)
(* The store: whatever the clients and the daemon do, it is one payload    *)
(* per key, written and read at one moment, unless the daemon both adds    *)
(* rows and lists the newest first.                                        *)
(***************************************************************************)
GoodDaemons == \A d \in Daemons : ~(d.appends /\ d.newestFirst)

\* A daemon that adds rows has a newest one of each key it holds, no later than now; one
\* that replaces them has one row of a key.
RowFacts ==
  /\ \A i \in DOMAIN rows : rows[i].at <= second
  /\ daemon.appends =>
       \A k \in Keys : Matching(rows, k) # {} => NewestRows(rows, k) # {}
  /\ ~daemon.appends => \A i, j \in DOMAIN rows : rows[i].key = rows[j].key => i = j

\* The request under way tells which call it is of, and a get has found nothing before it
\* returns.
RequestOK(r) ==
  /\ r.at \in {"ensure", "post"} => r.op = "upsert"
  /\ r.at = "list" => r.op = "get"
  /\ (r.op = "get") <=> (r.write.content = NoContent)
  /\ r.at # "ok" => r.found = NoContent
  /\ r.at = "list" /\ Taken(r) => Latest(r.list, r.write.key) \in Contents \cup {NoContent}
RequestFacts == \A c \in Callers : RequestOK(req[c])

\* A session that was ensured has its row.
HasSession(r) == r.at = "post" \/ (r.at = "ensure" /\ r.reply = "ok")
SessionFacts ==
  \A c \in Callers : HasSession(req[c]) => SessionOf(req[c].write.key) \in sessions

StoreInv == StoreTypeOK /\ RowFacts /\ RequestFacts /\ SessionFacts

LEMMA RowTypes ==
  ASSUME NEW l \in Seq(Row)
  PROVE  \A j \in DOMAIN l : j \in Nat /\ l[j] \in Row /\ l[j].key \in Keys /\ l[j].at \in Nat
<1>1. \A j \in DOMAIN l : j \in Nat /\ l[j] \in Row
  OBVIOUS
<1>2. \A r \in Row : r.key \in Keys /\ r.at \in Nat
  BY StoreAssumption DEF Row
<1> QED
  BY <1>1, <1>2

\* The row that get picks, if there is one that no other of its key is after.
LEMMA LatestIs ==
  ASSUME NEW l \in Seq(Row), NEW k \in Keys, NEW i \in NewestRows(l, k)
  PROVE  Latest(l, k) = l[i].content
<1>1. \A j \in DOMAIN l : j \in Nat /\ l[j].at \in Nat
  BY RowTypes
<1>2. \A j \in NewestRows(l, k) : j = i
  <2> SUFFICES ASSUME NEW j \in NewestRows(l, k) PROVE j = i
    OBVIOUS
  <2>1. i \in Matching(l, k) /\ j \in Matching(l, k) /\ i \in DOMAIN l /\ j \in DOMAIN l
    BY DEF NewestRows, Matching
  <2>2. l[j].at < l[i].at \/ (l[j].at = l[i].at /\ j <= i)
    BY <2>1 DEF NewestRows
  <2>3. l[i].at < l[j].at \/ (l[i].at = l[j].at /\ i <= j)
    BY <2>1 DEF NewestRows
  <2> QED
    BY <1>1, <2>1, <2>2, <2>3
<1>3. (CHOOSE j \in NewestRows(l, k) : TRUE) = i
  BY <1>2
<1>4. Matching(l, k) # {}
  BY DEF NewestRows
<1> QED
  BY <1>3, <1>4 DEF Latest

\* The only row of a key is the one get picks, in either order of the list.
LEMMA OnlyRowIsLatest ==
  ASSUME NEW l \in Seq(Row), NEW i \in DOMAIN l,
         \A j \in DOMAIN l : l[j].key = l[i].key => j = i
  PROVE  /\ Latest(l, l[i].key) = l[i].content
         /\ Latest(Reverse(l), l[i].key) = l[i].content
<1> DEFINE k == l[i].key
           r == Reverse(l)
           h == Len(l) + 1 - i
<1>1. l[i] \in Row /\ k \in Keys /\ l[i].at \in Nat
  BY RowTypes
<1>2. i \in NewestRows(l, k)
  BY <1>1 DEF NewestRows, Matching
<1>3. /\ r \in Seq(Row) /\ Len(r) = Len(l)
      /\ \A j \in 1 .. Len(l) : r[j] = l[Len(l) + 1 - j]
  BY DEF Reverse
<1>4. h \in DOMAIN r /\ r[h] = l[i]
  BY <1>3
<1>5. \A j \in DOMAIN r : r[j].key = k => j = h
  <2> SUFFICES ASSUME NEW j \in DOMAIN r, r[j].key = k PROVE j = h
    OBVIOUS
  <2>0. DOMAIN l = 1 .. Len(l) /\ DOMAIN r = 1 .. Len(l) /\ Len(l) \in Nat
    BY <1>3
  <2> HIDE DEF r
  <2>1. j \in 1 .. Len(l) /\ Len(l) + 1 - j \in DOMAIN l /\ r[j] = l[Len(l) + 1 - j]
    BY <1>3, <2>0
  <2>2. Len(l) + 1 - j = i
    BY <2>1
  <2> QED
    BY <2>1, <2>2
<1>6. h \in NewestRows(r, k)
  BY <1>1, <1>4, <1>5 DEF NewestRows, Matching
<1> QED
  BY <1>1, <1>2, <1>3, <1>4, <1>6, LatestIs

\* A key without a row has no content, in either order of the list.
LEMMA NoRowNoContent ==
  ASSUME NEW l \in Seq(Row), NEW k, \A j \in DOMAIN l : l[j].key # k
  PROVE  Latest(l, k) = NoContent /\ Latest(Reverse(l), k) = NoContent
<1>1. /\ Reverse(l) \in Seq(Row) /\ Len(Reverse(l)) = Len(l)
      /\ \A j \in 1 .. Len(l) : Reverse(l)[j] = l[Len(l) + 1 - j]
  BY DEF Reverse
<1>2. DOMAIN Reverse(l) = 1 .. Len(l) /\ DOMAIN l = 1 .. Len(l) /\ Len(l) \in Nat
  BY <1>1
<1>3. ASSUME NEW j \in 1 .. Len(l)
      PROVE  Reverse(l)[j].key # k
  <2>1. Len(l) + 1 - j \in 1 .. Len(l)
    BY <1>2
  <2> QED
    BY <1>1, <1>2, <2>1
<1> QED
  BY <1>2, <1>3 DEF Latest, Matching

\* An upsert that the daemon handles becomes the content of its key, and of no other.
LEMMA UpsertTakes ==
  ASSUME StoreTypeOK, RowFacts, GoodDaemons, NEW w \in Write,
         rows' = Upserted(w), UNCHANGED <<daemon, second>>
  PROVE  /\ rows' \in Seq(Row)
         /\ RowFacts'
         /\ \A k \in Keys :
              Latest(Listed, k)' = IF k = w.key THEN w.content ELSE Latest(Listed, k)
<1> DEFINE row == [key |-> w.key, content |-> w.content, at |-> second]
           m == Upserted(w)
<1>1. /\ row \in Row /\ row.key = w.key /\ row.content = w.content /\ row.at = second
      /\ second \in Nat /\ w.key \in Keys
      /\ rows \in Seq(Row) /\ Len(rows) \in Nat /\ DOMAIN rows = 1 .. Len(rows)
  BY StoreAssumption DEF StoreTypeOK, Row, Write
<1>2. \A j \in DOMAIN rows : j \in Nat /\ rows[j] \in Row /\ rows[j].key \in Keys /\ rows[j].at \in Nat
  BY <1>1, RowTypes
<1>3. daemon \in [appends : BOOLEAN, newestFirst : BOOLEAN]
  BY StoreAssumption DEF StoreTypeOK
<1>4. daemon' = daemon /\ second' = second /\ rows' = m
  OBVIOUS
<1>5. CASE ~daemon.appends
  <2>1. /\ m \in Seq(Row)
        /\ \A i, j \in DOMAIN m : m[i].key = m[j].key => i = j
        /\ \A i \in DOMAIN m : m[i].at <= second
        /\ \A i \in DOMAIN rows : rows[i].key # w.key => i \in DOMAIN m /\ m[i] = rows[i]
        /\ \A i \in DOMAIN m : m[i].key # w.key => i \in DOMAIN rows /\ m[i] = rows[i]
        /\ \E i \in DOMAIN m : m[i].key = w.key /\ m[i].content = w.content
    <3> HIDE DEF row
    <3>1. CASE \E i \in DOMAIN rows : rows[i].key = w.key
      <4>1. m = [i \in DOMAIN rows |-> IF rows[i].key = w.key THEN row ELSE rows[i]]
        BY <1>5, <3>1 DEF Upserted, row
      <4>2. m \in Seq(Row) /\ DOMAIN m = DOMAIN rows
        BY <1>1, <4>1
      <4>3. \A i \in DOMAIN rows : m[i].key = rows[i].key
        BY <1>1, <4>1
      <4> HIDE DEF m
      <4>4. \A i \in DOMAIN rows : m[i] = IF rows[i].key = w.key THEN row ELSE rows[i]
        BY <4>1
      <4>5. PICK h \in DOMAIN rows : rows[h].key = w.key
        BY <3>1
      <4>6. m[h].key = w.key /\ m[h].content = w.content
        BY <1>1, <4>4, <4>5
      <4>7. \A i, j \in DOMAIN m : m[i].key = m[j].key => i = j
        BY <1>5, <4>2, <4>3 DEF RowFacts
      <4>8. \A i \in DOMAIN m : m[i].at <= second
        BY <1>1, <4>2, <4>4 DEF RowFacts
      <4> QED
        BY <4>2, <4>3, <4>4, <4>5, <4>6, <4>7, <4>8
    <3>2. CASE ~ \E i \in DOMAIN rows : rows[i].key = w.key
      <4>1. m = Append(rows, row)
        BY <3>2 DEF Upserted, row
      <4>2. /\ m \in Seq(Row) /\ DOMAIN m = 1 .. Len(rows) + 1
            /\ \A i \in DOMAIN rows : m[i] = rows[i] /\ m[Len(rows) + 1] = row
        BY <1>1, <4>1
      <4>3. m[Len(rows) + 1] = row
        BY <1>1, <4>1
      <4>4. \A i \in DOMAIN m : i \in DOMAIN rows \/ i = Len(rows) + 1
        BY <1>1, <4>2
      <4> HIDE DEF m
      <4> QED
        BY <1>1, <1>2, <1>5, <3>2, <4>2, <4>3, <4>4 DEF RowFacts
    <3> QED
      BY <3>1, <3>2
  <2> HIDE DEF m, row
  <2>2. RowFacts'
    BY <1>4, <1>5, <2>1 DEF RowFacts
  <2>3. ASSUME NEW k \in Keys
        PROVE  Latest(Listed, k)' = IF k = w.key THEN w.content ELSE Latest(Listed, k)
    <3>1. Latest(Listed, k)' = Latest(IF daemon.newestFirst THEN Reverse(m) ELSE m, k)
      BY <1>4 DEF Listed
    <3>2. \A i \in DOMAIN m : m[i].key = k => Latest(Listed, k)' = m[i].content
      BY <2>1, <3>1, OnlyRowIsLatest
    <3>3. \A i \in DOMAIN rows : rows[i].key = k => Latest(Listed, k) = rows[i].content
      BY <1>1, <1>5, OnlyRowIsLatest DEF Listed, RowFacts
    <3>4. (\A i \in DOMAIN m : m[i].key # k) => Latest(Listed, k)' = NoContent
      BY <2>1, <3>1, NoRowNoContent
    <3>5. (\A i \in DOMAIN rows : rows[i].key # k) => Latest(Listed, k) = NoContent
      BY <1>1, NoRowNoContent DEF Listed
    <3>6. CASE k = w.key
      BY <2>1, <3>2, <3>6
    <3>7. CASE k # w.key
      <4>1. CASE \E i \in DOMAIN m : m[i].key = k
        <5>1. PICK i \in DOMAIN m : m[i].key = k
          BY <4>1
        <5>2. i \in DOMAIN rows /\ m[i] = rows[i] /\ rows[i].key = k
          BY <2>1, <3>7, <5>1
        <5> QED
          BY <3>2, <3>3, <3>7, <5>1, <5>2
      <4>2. CASE \A i \in DOMAIN m : m[i].key # k
        <5>1. \A i \in DOMAIN rows : rows[i].key # k
          BY <2>1, <3>7, <4>2
        <5> QED
          BY <3>4, <3>5, <3>7, <4>2, <5>1
      <4> QED
        BY <4>1, <4>2
    <3> QED
      BY <3>6, <3>7
  <2> QED
    BY <1>4, <2>1, <2>2, <2>3
<1>6. CASE daemon.appends
  <2>1. ~daemon.newestFirst
    BY <1>6 DEF StoreTypeOK, GoodDaemons
  <2>2. Listed = rows /\ Listed' = m
    BY <1>4, <2>1 DEF Listed
  <2>3. m = Append(rows, row)
    BY <1>6 DEF Upserted
  <2>4. /\ m \in Seq(Row) /\ DOMAIN m = 1 .. Len(rows) + 1
        /\ \A i \in DOMAIN rows : m[i] = rows[i]
        /\ m[Len(rows) + 1] = row
    BY <1>1, <2>3
  <2>5. \A i \in DOMAIN m : i \in DOMAIN rows \/ i = Len(rows) + 1
    BY <1>1, <2>4
  <2> HIDE DEF m, row
  <2>6. Len(rows) + 1 \in NewestRows(m, w.key)
    BY <1>1, <1>2, <2>4, <2>5 DEF NewestRows, Matching, RowFacts
  <2>7. ASSUME NEW k \in Keys, k # w.key
        PROVE  Matching(m, k) = Matching(rows, k) /\ NewestRows(m, k) = NewestRows(rows, k)
    <3>1. Matching(m, k) = Matching(rows, k)
      BY <1>1, <2>4, <2>5, <2>7 DEF Matching
    <3>2. \A i \in Matching(rows, k) : m[i] = rows[i]
      BY <2>4 DEF Matching
    <3> QED
      BY <3>1, <3>2 DEF NewestRows
  <2>8. RowFacts'
    <3>1. \A i \in DOMAIN m : m[i].at <= second
      BY <1>1, <2>4, <2>5 DEF RowFacts
    <3>2. \A k \in Keys : Matching(m, k) # {} => NewestRows(m, k) # {}
      BY <1>6, <2>6, <2>7 DEF RowFacts
    <3> QED
      BY <1>4, <1>6, <3>1, <3>2 DEF RowFacts
  <2>9. ASSUME NEW k \in Keys
        PROVE  Latest(m, k) = IF k = w.key THEN w.content ELSE Latest(rows, k)
    <3>1. CASE k = w.key
      BY <1>1, <2>4, <2>6, <3>1, LatestIs
    <3>2. CASE k # w.key /\ Matching(rows, k) = {}
      BY <2>7, <3>2 DEF Latest
    <3>3. CASE k # w.key /\ Matching(rows, k) # {}
      <4>1. PICK i \in NewestRows(rows, k) : i \in DOMAIN rows
        BY <1>6, <3>3 DEF RowFacts, NewestRows, Matching
      <4>2. Latest(rows, k) = rows[i].content
        BY <1>1, LatestIs
      <4>3. Latest(m, k) = m[i].content
        BY <2>4, <2>7, <3>3, LatestIs
      <4> QED
        BY <2>4, <3>3, <4>1, <4>2, <4>3
    <3> QED
      BY <3>1, <3>2, <3>3
  <2> QED
    BY <1>4, <2>2, <2>4, <2>8, <2>9
<1> QED
  BY <1>3, <1>5, <1>6

LEMMA RowsKept ==
  ASSUME StoreTypeOK, RowFacts, UNCHANGED <<rows, daemon>>,
         second' \in 0 .. MaxSecond, second <= second'
  PROVE  RowFacts'
<1>1. \A i \in DOMAIN rows : rows[i].at \in Nat
  BY RowTypes DEF StoreTypeOK
<1>2. second \in Nat /\ second' \in Nat
  BY StoreAssumption DEF StoreTypeOK
<1>3. \A i \in DOMAIN rows : rows[i].at <= second'
  BY <1>1, <1>2 DEF RowFacts
<1> QED
  BY <1>3 DEF RowFacts

\* What a step of one call does to the request under way.
OnlyCall(c, r) ==
  /\ r \in Requests /\ RequestOK(r)
  /\ req' = [req EXCEPT ![c] = r]

LEMMA OthersWait ==
  ASSUME StoreTypeOK, RequestFacts, NEW c \in Callers, NEW r, OnlyCall(c, r)
  PROVE  /\ req' \in [Callers -> Requests] /\ RequestFacts'
         /\ req'[c] = r /\ \A d \in Callers : d # c => req'[d] = req[d]
         /\ PortAsk' = [PortAsk EXCEPT ![c] = Image(r)]
<1>1. /\ req' \in [Callers -> Requests]
      /\ req'[c] = r /\ \A d \in Callers : d # c => req'[d] = req[d]
  BY DEF StoreTypeOK, OnlyCall
<1>2. RequestFacts'
  BY <1>1 DEF RequestFacts, OnlyCall
<1>3. PortAsk' = [d \in Callers |-> Image(req'[d])]
  BY DEF PortAsk, Image, Taken
<1>4. [d \in Callers |-> Image(req'[d])] = [PortAsk EXCEPT ![c] = Image(r)]
  BY <1>1 DEF PortAsk
<1> QED
  BY <1>1, <1>2, <1>3, <1>4

\* The type invariant after a step of one call that neither adds rows nor late upserts of
\* another kind.
LEMMA CallKeeps ==
  ASSUME StoreInv, NEW c \in Callers, NEW r, OnlyCall(c, r), UNCHANGED daemonVars,
         rows' \in Seq(Row), RowFacts', sessions \subseteq sessions',
         sessions' \subseteq {SessionOf(k) : k \in Keys},
         begun' \in Ids, late' \subseteq Write,
         HasSession(r) => SessionOf(r.write.key) \in sessions'
  PROVE  StoreInv'
<1>1. /\ req' \in [Callers -> Requests] /\ RequestFacts'
      /\ req'[c] = r /\ \A d \in Callers : d # c => req'[d] = req[d]
  BY OthersWait DEF StoreInv
<1>2. \A d \in Callers : HasSession(req'[d]) => SessionOf(req'[d].write.key) \in sessions'
  BY <1>1 DEF StoreInv, SessionFacts
<1>3. \A d \in Callers : req'[d].at = "post" => SessionOf(req'[d].write.key) \in sessions'
  BY <1>2 DEF HasSession
<1>4. SessionFacts'
  BY <1>2 DEF SessionFacts, HasSession
<1> QED
  BY <1>1, <1>3, <1>4 DEF StoreInv, StoreTypeOK, daemonVars

LEMMA ValueKept ==
  ASSUME UNCHANGED <<rows, daemon>>
  PROVE  PortValue' = PortValue
BY DEF PortValue, Listed, Latest, Matching, NewestRows

LEMMA ReqTyped ==
  ASSUME StoreInv, NEW c \in Callers
  PROVE  /\ req[c] \in Requests /\ RequestOK(req[c])
         /\ req[c].write \in Write /\ req[c].write.key \in Keys /\ req[c].list \in Seq(Row)
         /\ HasSession(req[c]) => SessionOf(req[c].write.key) \in sessions
BY DEF StoreInv, StoreTypeOK, RequestFacts, SessionFacts, Requests, Write

\* A step of one call that leaves rows and late upserts alone.
LEMMA CallMoves ==
  ASSUME StoreInv, NEW c \in Callers, NEW r, OnlyCall(c, r),
         UNCHANGED <<daemonVars, rows>>, sessions \subseteq sessions',
         sessions' \subseteq {SessionOf(k) : k \in Keys},
         begun' \in Ids, late' \subseteq Write,
         HasSession(r) => SessionOf(r.write.key) \in sessions'
  PROVE  /\ StoreInv'
         /\ PortValue' = PortValue /\ PortAsk' = [PortAsk EXCEPT ![c] = Image(r)]
<1>1. RowFacts' /\ rows' \in Seq(Row)
  BY RowsKept, StoreAssumption DEF StoreInv, StoreTypeOK, daemonVars
<1>2. StoreInv'
  BY <1>1, CallKeeps
<1>3. PortValue' = PortValue
  BY ValueKept DEF daemonVars
<1> QED
  BY <1>2, <1>3, OthersWait DEF StoreInv

\* Steps of the protocol that a caller of the port does not see.
LEMMA Unseen ==
  ASSUME StoreInv, NEW c \in Callers,
         Ensured(c) \/ HandleSession(c) \/ Refuse(c) \/ Lose(c)
  PROVE  StoreInv' /\ UNCHANGED <<PortValue, PortAsk, late>>
<1>1. req[c] \in Requests /\ RequestOK(req[c]) /\ req[c].write.key \in Keys
      /\ (HasSession(req[c]) => SessionOf(req[c].write.key) \in sessions)
  BY ReqTyped
<1>2. /\ UNCHANGED <<daemonVars, rows, begun, late>>
      /\ sessions \subseteq sessions' /\ sessions' \subseteq {SessionOf(k) : k \in Keys}
  BY <1>1 DEF Ensured, HandleSession, Refuse, Lose, StoreInv, StoreTypeOK
<1>3. ASSUME NEW r, OnlyCall(c, r), Image(r) = Image(req[c]),
             HasSession(r) => SessionOf(r.write.key) \in sessions'
      PROVE  StoreInv' /\ UNCHANGED <<PortValue, PortAsk, late>>
  <2>1. StoreInv' /\ PortValue' = PortValue /\ PortAsk' = [PortAsk EXCEPT ![c] = Image(r)]
    BY <1>2, <1>3, CallMoves DEF StoreInv, StoreTypeOK
  <2>2. [PortAsk EXCEPT ![c] = Image(req[c])] = PortAsk
    BY DEF PortAsk
  <2> QED
    BY <1>2, <1>3, <2>1, <2>2
<1>4. CASE Ensured(c)
  <2> DEFINE r == [req[c] EXCEPT !.at = "post", !.reply = "none"]
  <2>1. r \in Requests /\ RequestOK(r) /\ r.write = req[c].write
    BY <1>1, <1>4 DEF Ensured, Requests, RequestOK, Taken
  <2>2. req' = [req EXCEPT ![c] = r] /\ sessions' = sessions
    BY <1>4 DEF Ensured
  <2>3. Image(r) = Image(req[c])
    BY <1>1, <1>4 DEF Ensured, Image, Taken, Returned, Requests
  <2>4. SessionOf(r.write.key) \in sessions'
    BY <1>1, <1>4, <2>1, <2>2 DEF Ensured, HasSession
  <2> HIDE DEF r
  <2> QED
    BY <1>3, <2>1, <2>2, <2>3, <2>4 DEF OnlyCall
<1>5. CASE HandleSession(c)
  <2> DEFINE r == [req[c] EXCEPT !.reply = "ok"]
  <2>1. r \in Requests /\ RequestOK(r) /\ r.write = req[c].write
    BY <1>1, <1>5 DEF HandleSession, Requests, RequestOK, Taken
  <2>2. req' = [req EXCEPT ![c] = r] /\ SessionOf(req[c].write.key) \in sessions'
    BY <1>5 DEF HandleSession
  <2>3. Image(r) = Image(req[c])
    BY <1>1, <1>5 DEF HandleSession, Image, Taken, Returned, Requests
  <2> HIDE DEF r
  <2> QED
    BY <1>3, <2>1, <2>2, <2>3 DEF OnlyCall
<1>6. CASE Refuse(c)
  <2> DEFINE r == [req[c] EXCEPT !.reply = "error"]
  <2>1. r \in Requests /\ RequestOK(r) /\ r.write = req[c].write /\ (HasSession(r) => HasSession(req[c]))
    BY <1>1, <1>6 DEF Refuse, Requests, RequestOK, Taken, HasSession
  <2>2. req' = [req EXCEPT ![c] = r] /\ sessions' = sessions
    BY <1>6 DEF Refuse
  <2>3. Image(r) = Image(req[c])
    BY <1>1, <1>6 DEF Refuse, Waiting, Image, Taken, Returned, Requests
  <2> HIDE DEF r
  <2> QED
    BY <1>1, <1>3, <2>1, <2>2, <2>3 DEF OnlyCall
<1>7. CASE Lose(c)
  <2> DEFINE r == [req[c] EXCEPT !.reply = "lost"]
  <2>1. r \in Requests /\ RequestOK(r) /\ r.write = req[c].write /\ (HasSession(r) => HasSession(req[c]))
    BY <1>1, <1>7 DEF Lose, Requests, RequestOK, Taken, HasSession
  <2>2. req' = [req EXCEPT ![c] = r] /\ sessions' = sessions
    BY <1>7 DEF Lose
  <2>3. Image(r) = Image(req[c])
    BY <1>1, <1>7 DEF Lose, Image, Taken, Returned, Requests
  <2> HIDE DEF r
  <2> QED
    BY <1>1, <1>3, <2>1, <2>2, <2>3 DEF OnlyCall
<1> QED
  BY <1>4, <1>5, <1>6, <1>7

\* A call as its caller sees it, moved on.
Moved(i, t, g) == [i EXCEPT !.state = t, !.found = g]

LEMMA TwoFields ==
  ASSUME NEW i, NEW s, NEW o, NEW w, NEW f, NEW t, NEW g,
         i = [state |-> s, op |-> o, write |-> w, found |-> f]
  PROVE  Moved(i, t, g) = [state |-> t, op |-> o, write |-> w, found |-> g]
<1> DEFINE j == [i EXCEPT !.state = t]
<1>1. j = [state |-> t, op |-> o, write |-> w, found |-> f]
  OBVIOUS
<1>2. Moved(i, t, g) = [j EXCEPT !.found = g]
  BY DEF Moved
<1> HIDE DEF j
<1> QED
  BY <1>1, <1>2

\* The steps that a caller of the port does see.
LEMMA PortTypes ==
  ASSUME StoreInv
  PROVE  /\ PortAsk \in [Callers -> [state : {"idle", "ok", "failed", "taken", "asked"}, op : {"upsert", "get"},
                                     write : Write, found : {Image(req[c]).found : c \in Callers}]]
         /\ \A c \in Callers : PortAsk[c] = Image(req[c])
         /\ DOMAIN PortValue = Keys
<1>1. ASSUME NEW c \in Callers
      PROVE  Image(req[c]) \in [state : {"idle", "ok", "failed", "taken", "asked"}, op : {"upsert", "get"},
                                write : Write, found : {Image(req[d]).found : d \in Callers}]
  BY ReqTyped DEF Image, Requests, Returned
<1> QED
  BY <1>1 DEF PortAsk, PortValue

LEMMA BeginStep ==
  ASSUME StoreInv, NEW c \in Callers, CallUpsert(c) \/ CallGet(c)
  PROVE  StoreInv' /\ Port!Ask(c)
<1>1. PICK at \in {"ensure", "list"}, op \in {"upsert", "get"}, k \in Keys,
           v \in Contents \cup {NoContent} :
        /\ BeginCall(c, at, op, k, v)
        /\ (at = "ensure" => op = "upsert") /\ (at = "list" => op = "get")
        /\ (op = "get") <=> (v = NoContent)
  BY StoreAssumption DEF CallUpsert, CallGet
<1> DEFINE w == [id |-> begun + 1, key |-> k, content |-> v]
           r == [at |-> at, reply |-> "none", op |-> op, list |-> <<>>, write |-> w, found |-> NoContent]
<1>2. w \in Write /\ w.content = v
  BY <1>1, StoreAssumption DEF BeginCall, Write, Ids, StoreInv, StoreTypeOK
<1>3. r \in Requests /\ RequestOK(r) /\ ~HasSession(r) /\ req' = [req EXCEPT ![c] = r]
  <2> HIDE DEF w
  <2>1. <<>> \in Seq(Row)
    OBVIOUS
  <2>2. r \in Requests
    BY <1>2, <2>1 DEF Requests
  <2>3. RequestOK(r) /\ ~HasSession(r)
    BY <1>1, <1>2 DEF RequestOK, Taken, HasSession
  <2>4. req' = [req EXCEPT ![c] = r]
    BY <1>1 DEF BeginCall, w
  <2> QED
    BY <2>2, <2>3, <2>4
<1>4. /\ Image(r) = [state |-> "asked", op |-> op, write |-> w, found |-> NoContent]
      /\ PortAsk[c].state \in {"idle", "ok", "failed"}
  BY <1>1, PortTypes DEF BeginCall, Image, Taken, Returned
<1>5. /\ UNCHANGED <<daemonVars, rows, sessions, late>> /\ begun' \in Ids
      /\ sessions \subseteq {SessionOf(j) : j \in Keys} /\ late \subseteq Write
  BY <1>1, StoreAssumption DEF BeginCall, Ids, StoreInv, StoreTypeOK
<1> HIDE DEF r, w
<1>6. StoreInv' /\ PortValue' = PortValue /\ PortAsk' = [PortAsk EXCEPT ![c] = Image(r)]
  BY <1>3, <1>5, CallMoves DEF OnlyCall
<1> QED
  BY <1>1, <1>2, <1>4, <1>5, <1>6 DEF Port!Ask, Port!Write, Port!Ended, Write

LEMMA ReturnStep ==
  ASSUME StoreInv, NEW c \in Callers, Posted(c) \/ Got(c)
  PROVE  StoreInv' /\ Port!Return(c)
<1>1. req[c] \in Requests /\ RequestOK(req[c]) /\ req[c].write \in Write /\ req[c].list \in Seq(Row)
  BY ReqTyped
<1>2. /\ UNCHANGED <<daemonVars, rows, sessions, begun, late>>
      /\ sessions \subseteq {SessionOf(k) : k \in Keys} /\ begun \in Ids /\ late \subseteq Write
  BY DEF Posted, Got, StoreInv, StoreTypeOK
<1>3. PICK r : OnlyCall(c, r) /\ ~HasSession(r) /\ Image(r) = [Image(req[c]) EXCEPT !.state = "ok"]
               /\ Image(req[c]).state = "taken"
  <2>1. CASE Posted(c)
    <3> DEFINE r == [req[c] EXCEPT !.at = "ok", !.reply = "none"]
    <3>1. r \in Requests /\ RequestOK(r) /\ ~HasSession(r)
      BY <1>1, <2>1 DEF Posted, Requests, RequestOK, Taken, HasSession
    <3>2. Image(r) = [Image(req[c]) EXCEPT !.state = "ok"] /\ Image(req[c]).state = "taken"
      BY <1>1, <2>1 DEF Posted, Image, Taken, Returned, Requests
    <3>3. req' = [req EXCEPT ![c] = r]
      BY <2>1 DEF Posted
    <3> HIDE DEF r
    <3> QED
      BY <3>1, <3>2, <3>3 DEF OnlyCall
  <2>2. CASE Got(c)
    <3> DEFINE x == Latest(req[c].list, req[c].write.key)
               r == [req[c] EXCEPT !.at = "ok", !.reply = "none", !.list = <<>>, !.found = x]
    <3>1. x \in Contents \cup {NoContent}
      BY <1>1, <2>2 DEF Got, RequestOK, Taken
    <3> HIDE DEF x
    <3>2. r \in Requests /\ RequestOK(r) /\ ~HasSession(r)
      <4>1. <<>> \in Seq(Row)
        OBVIOUS
      <4>2. r \in Requests
        BY <1>1, <3>1, <4>1 DEF Requests
      <4>3. /\ r.at = "ok" /\ r.op = req[c].op /\ r.write = req[c].write
        BY <1>1 DEF Requests
      <4>4. req[c].at = "list"
        BY <2>2 DEF Got
      <4> QED
        BY <1>1, <4>2, <4>3, <4>4 DEF RequestOK, Taken, HasSession
    <3>3. Image(r) = [Image(req[c]) EXCEPT !.state = "ok"] /\ Image(req[c]).state = "taken"
      BY <1>1, <2>2 DEF Got, Image, Taken, Returned, Requests, x
    <3>4. req' = [req EXCEPT ![c] = r]
      BY <2>2 DEF Got, x
    <3> HIDE DEF r
    <3> QED
      BY <3>2, <3>3, <3>4 DEF OnlyCall
  <2> QED
    BY <2>1, <2>2
<1>4. StoreInv' /\ PortValue' = PortValue /\ PortAsk' = [PortAsk EXCEPT ![c] = Image(r)]
  BY <1>2, <1>3, CallMoves
<1>5. PortAsk[c] = Image(req[c]) /\ PortAsk' = [PortAsk EXCEPT ![c].state = "ok"]
  BY <1>3, <1>4, PortTypes
<1> QED
  BY <1>2, <1>3, <1>4, <1>5 DEF Port!Return

LEMMA FailStep ==
  ASSUME StoreInv, NEW c \in Callers, Failed(c) \/ Timeout(c)
  PROVE  StoreInv' /\ Port!Fail(c)
<1>1. req[c] \in Requests /\ RequestOK(req[c]) /\ req[c].write \in Write
  BY ReqTyped
<1>2. /\ UNCHANGED <<daemonVars, rows, sessions, begun>>
      /\ sessions \subseteq {SessionOf(k) : k \in Keys} /\ begun \in Ids
  BY DEF Failed, Timeout, StoreInv, StoreTypeOK
<1>3. /\ \/ late' = late
         \/ Timeout(c) /\ req[c].at = "post" /\ late' = late \cup {req[c].write}
      /\ late' \subseteq Write
  BY <1>1 DEF Failed, Timeout, StoreInv, StoreTypeOK
<1>4. req[c].at \notin Returned
  BY DEF Failed, Timeout, Waiting
<1>9. [Image(req[c]) EXCEPT !.state = "failed", !.found = NoContent]
        = [state |-> "failed", op |-> req[c].op, write |-> req[c].write, found |-> NoContent]
  <2> DEFINE i == Image(req[c])
  <2>1. i = [state |-> i.state, op |-> req[c].op, write |-> req[c].write, found |-> i.found]
    BY Zenon DEF Image
  <2> DEFINE s == i.state
             f == i.found
             o == req[c].op
             w == req[c].write
             t == "failed"
  <2>2. i = [state |-> s, op |-> o, write |-> w, found |-> f]
    BY <2>1
  <2> HIDE DEF i, s, f, o, w, t
  <2>3. Moved(i, t, NoContent) = [state |-> t, op |-> o, write |-> w, found |-> NoContent]
    BY <2>2, TwoFields
  <2> QED
    BY <2>3 DEF i, o, w, t, Moved
<1>5. PICK r : OnlyCall(c, r) /\ ~HasSession(r)
               /\ Image(r) = [Image(req[c]) EXCEPT !.state = "failed", !.found = NoContent]
  <2>1. CASE Failed(c)
    <3> DEFINE r == [req[c] EXCEPT !.at = "failed", !.reply = "none", !.list = <<>>]
    <3>1. /\ r.at = "failed" /\ r.reply = "none" /\ r.op = req[c].op /\ r.write = req[c].write
          /\ r.found = req[c].found /\ r \in Requests
      <4>1. <<>> \in Seq(Row)
        OBVIOUS
      <4> QED
        BY <1>1, <4>1 DEF Requests
    <3>2. req' = [req EXCEPT ![c] = r]
      BY <2>1 DEF Failed
    <3> HIDE DEF r
    <3>3. r.found = NoContent /\ RequestOK(r) /\ ~HasSession(r)
      BY <1>1, <1>4, <3>1 DEF RequestOK, Taken, HasSession, Returned
    <3>4. Image(r) = [state |-> "failed", op |-> req[c].op, write |-> req[c].write, found |-> NoContent]
      BY <3>1, <3>3 DEF Image, Returned
    <3> QED
      BY <1>9, <3>1, <3>2, <3>3, <3>4 DEF OnlyCall
  <2>2. CASE Timeout(c)
    <3> DEFINE r == [req[c] EXCEPT !.at = "failed"]
    <3>1. /\ r.at = "failed" /\ r.op = req[c].op /\ r.write = req[c].write
          /\ r.found = req[c].found /\ r \in Requests
      BY <1>1 DEF Requests
    <3>2. req' = [req EXCEPT ![c] = r]
      BY <2>2 DEF Timeout
    <3> HIDE DEF r
    <3>3. r.found = NoContent /\ RequestOK(r) /\ ~HasSession(r)
      BY <1>1, <1>4, <3>1 DEF RequestOK, Taken, HasSession, Returned
    <3>4. Image(r) = [state |-> "failed", op |-> req[c].op, write |-> req[c].write, found |-> NoContent]
      BY <3>1, <3>3 DEF Image, Returned
    <3> QED
      BY <1>9, <3>1, <3>2, <3>3, <3>4 DEF OnlyCall
  <2> QED
    BY <2>1, <2>2
<1>6. StoreInv' /\ PortValue' = PortValue /\ PortAsk' = [PortAsk EXCEPT ![c] = Image(r)]
  BY <1>2, <1>3, <1>5, CallMoves
<1>7. /\ PortAsk[c] = Image(req[c])
      /\ PortAsk' = [PortAsk EXCEPT ![c].state = "failed", ![c].found = NoContent]
  BY <1>5, <1>6, PortTypes
<1>8. /\ Image(req[c]).state \in {"asked", "taken"}
      /\ Image(req[c]).write = req[c].write
      /\ Timeout(c) /\ req[c].at = "post" =>
           Image(req[c]).state = "asked" /\ Image(req[c]).op = "upsert"
  BY <1>1, <1>4 DEF Image, Taken, Timeout, Waiting, RequestOK, Returned
<1> QED
  BY <1>3, <1>6, <1>7, <1>8 DEF Port!Fail

\* What get would find of any key is a content, or none.
LEMMA ValueTyped ==
  ASSUME StoreTypeOK, RowFacts, GoodDaemons, NEW k \in Keys
  PROVE  Latest(Listed, k) \in Contents \cup {NoContent}
<1>1. rows \in Seq(Row) /\ \A i \in DOMAIN rows : rows[i].content \in Contents \cup {NoContent}
  <2>1. \A r \in Row : r.content \in Contents \cup {NoContent}
    BY DEF Row
  <2> QED
    BY <2>1, RowTypes DEF StoreTypeOK
<1>2. CASE \A i \in DOMAIN rows : rows[i].key # k
  BY <1>1, <1>2, NoRowNoContent DEF Listed
<1>3. CASE ~daemon.appends /\ \E i \in DOMAIN rows : rows[i].key = k
  BY <1>1, <1>3, OnlyRowIsLatest DEF Listed, RowFacts
<1>4. CASE daemon.appends /\ \E i \in DOMAIN rows : rows[i].key = k
  <2>1. Listed = rows
    BY <1>4 DEF Listed, StoreTypeOK, GoodDaemons
  <2>2. PICK i \in NewestRows(rows, k) : i \in DOMAIN rows
    BY <1>4 DEF RowFacts, NewestRows, Matching
  <2> QED
    BY <1>1, <2>1, <2>2, LatestIs
<1> QED
  BY <1>2, <1>3, <1>4, StoreAssumption DEF StoreTypeOK

LEMMA GetStep ==
  ASSUME StoreInv, GoodDaemons, NEW c \in Callers, HandleList(c)
  PROVE  StoreInv' /\ Port!Get(c)
<1>1. /\ req[c] \in Requests /\ RequestOK(req[c])
      /\ req[c].write \in Write /\ req[c].write.key \in Keys
  BY ReqTyped
<1>2. /\ UNCHANGED <<daemonVars, rows, sessions, begun, late>>
      /\ sessions \subseteq {SessionOf(k) : k \in Keys} /\ begun \in Ids /\ late \subseteq Write
      /\ req[c].at = "list" /\ req[c].reply = "none"
  BY DEF HandleList, Waiting, StoreInv, StoreTypeOK
<1> DEFINE l == Listed
           r == [req[c] EXCEPT !.reply = "ok", !.list = l]
<1>3. l \in Seq(Row)
  BY DEF Listed, Reverse, StoreInv, StoreTypeOK
<1>4. Latest(l, req[c].write.key) \in Contents \cup {NoContent}
  BY <1>1, ValueTyped DEF StoreInv
<1>5. req' = [req EXCEPT ![c] = r]
  BY DEF HandleList
<1>6. PortValue[req[c].write.key] = Latest(l, req[c].write.key)
  BY <1>1 DEF PortValue
<1> HIDE DEF l
<1>7. /\ r.at = "list" /\ r.reply = "ok" /\ r.op = req[c].op /\ r.write = req[c].write
      /\ r.found = req[c].found /\ r.list = l /\ r \in Requests
  BY <1>1, <1>2, <1>3 DEF Requests
<1> HIDE DEF r
<1>8. OnlyCall(c, r) /\ ~HasSession(r)
  BY <1>1, <1>2, <1>4, <1>5, <1>7 DEF RequestOK, Taken, HasSession, OnlyCall
<1>9. /\ Image(req[c]) = [state |-> "asked", op |-> "get", write |-> req[c].write, found |-> NoContent]
      /\ Image(r) = [state |-> "taken", op |-> "get", write |-> req[c].write,
                     found |-> PortValue[req[c].write.key]]
  BY <1>1, <1>2, <1>6, <1>7 DEF Image, Taken, RequestOK, Returned
<1>10. StoreInv' /\ PortValue' = PortValue /\ PortAsk' = [PortAsk EXCEPT ![c] = Image(r)]
  BY <1>2, <1>8, CallMoves
<1>11. PortAsk[c] = Image(req[c])
  BY PortTypes
<1> DEFINE x == PortValue[req[c].write.key]
<1>12. PortValue[PortAsk[c].write.key] = x
  BY <1>9, <1>11
<1> HIDE DEF x
<1>13. PortAsk' = [PortAsk EXCEPT ![c].state = "taken", ![c].found = x]
  <2>1. Image(r) = [state |-> "taken", op |-> "get", write |-> req[c].write, found |-> x]
    BY <1>9 DEF x
  <2>2. Image(r) = [Image(req[c]) EXCEPT !.state = "taken", !.found = x]
    <3> DEFINE i == Image(req[c])
               w == req[c].write
               s == "asked"
               o == "get"
               t == "taken"
    <3>1. i = [state |-> s, op |-> o, write |-> w, found |-> NoContent]
      BY <1>9
    <3> HIDE DEF i, w, s, o, t, Moved
    <3>2. Moved(i, t, x) = [state |-> t, op |-> o, write |-> w, found |-> x]
      BY <3>1, TwoFields
    <3> QED
      BY <2>1, <3>2 DEF i, w, s, o, t, Moved
  <2> QED
    BY <1>10, <1>11, <2>2 DEF PortAsk
<1>14. PortAsk[c].state = "asked" /\ PortAsk[c].op = "get"
  BY <1>9, <1>11
<1> QED
  BY <1>2, <1>10, <1>12, <1>13, <1>14 DEF Port!Get

LEMMA UpsertStep ==
  ASSUME StoreInv, GoodDaemons, NEW c \in Callers, HandlePost(c)
  PROVE  StoreInv' /\ Port!Upsert(c)
<1>1. /\ req[c] \in Requests /\ RequestOK(req[c])
      /\ req[c].write \in Write /\ req[c].write.key \in Keys
      /\ SessionOf(req[c].write.key) \in sessions
  BY ReqTyped DEF HandlePost
<1>2. /\ UNCHANGED <<daemonVars, sessions, begun, late>>
      /\ sessions \subseteq {SessionOf(k) : k \in Keys} /\ begun \in Ids /\ late \subseteq Write
      /\ req[c].at = "post" /\ req[c].reply = "none" /\ rows' = Upserted(req[c].write)
  BY DEF HandlePost, Waiting, StoreInv, StoreTypeOK
<1> DEFINE w == req[c].write
           r == [req[c] EXCEPT !.reply = "ok"]
<1>3. /\ rows' \in Seq(Row) /\ RowFacts'
      /\ \A k \in Keys : Latest(Listed, k)' = IF k = w.key THEN w.content ELSE Latest(Listed, k)
  BY <1>1, <1>2, UpsertTakes DEF StoreInv, daemonVars
<1>4. PortValue' = [PortValue EXCEPT ![w.key] = w.content]
  <2>1. PortValue' = [k \in Keys |-> Latest(Listed, k)']
    BY DEF PortValue
  <2> QED
    BY <1>1, <1>3, <2>1 DEF PortValue
<1>5. req' = [req EXCEPT ![c] = r]
  BY DEF HandlePost
<1>6. /\ r.at = "post" /\ r.reply = "ok" /\ r.op = req[c].op /\ r.write = req[c].write
      /\ r.found = req[c].found /\ r \in Requests
  BY <1>1, <1>2 DEF Requests
<1> HIDE DEF r
<1>7. OnlyCall(c, r)
  BY <1>1, <1>2, <1>5, <1>6 DEF RequestOK, Taken, OnlyCall
<1>8. /\ Image(req[c]) = [state |-> "asked", op |-> "upsert", write |-> w, found |-> NoContent]
      /\ Image(r) = [state |-> "taken", op |-> "upsert", write |-> w, found |-> NoContent]
  BY <1>1, <1>2, <1>6 DEF Image, Taken, RequestOK, Returned
<1>9. StoreInv'
  BY <1>1, <1>2, <1>3, <1>6, <1>7, CallKeeps
<1>10. PortAsk[c] = Image(req[c]) /\ PortAsk' = [PortAsk EXCEPT ![c] = Image(r)]
  BY <1>7, OthersWait, PortTypes DEF StoreInv
<1>11. PortAsk' = [PortAsk EXCEPT ![c].state = "taken"]
  <2>1. Image(r) = [Image(req[c]) EXCEPT !.state = "taken"]
    BY <1>8
  <2> QED
    BY <1>10, <2>1 DEF PortAsk
<1>12. PortAsk[c].state = "asked" /\ PortAsk[c].op = "upsert" /\ PortAsk[c].write = w
  BY <1>8, <1>10
<1> HIDE DEF w
<1>13. PortValue' = [PortValue EXCEPT ![PortAsk[c].write.key] = PortAsk[c].write.content]
  BY <1>4, <1>12
<1> QED
  BY <1>2, <1>9, <1>11, <1>12, <1>13 DEF Port!Upsert

LEMMA LateStep ==
  ASSUME StoreInv, GoodDaemons, HandleLate
  PROVE  StoreInv' /\ Port!TakeLate
<1>1. PICK w \in late : rows' = Upserted(w) /\ late' = late \ {w}
  BY DEF HandleLate
<1>2. w \in Write /\ w.key \in Keys /\ UNCHANGED <<daemonVars, sessions, req, begun>>
  BY DEF HandleLate, StoreInv, StoreTypeOK, Write
<1>3. /\ rows' \in Seq(Row) /\ RowFacts'
      /\ \A k \in Keys : Latest(Listed, k)' = IF k = w.key THEN w.content ELSE Latest(Listed, k)
  BY <1>1, <1>2, UpsertTakes DEF StoreInv, daemonVars
<1>4. PortValue' = [PortValue EXCEPT ![w.key] = w.content]
  <2>1. PortValue' = [k \in Keys |-> Latest(Listed, k)']
    BY DEF PortValue
  <2> QED
    BY <1>2, <1>3, <2>1 DEF PortValue
<1>5. PortAsk' = PortAsk
  BY <1>2 DEF PortAsk, Image, Taken
<1>6. StoreInv'
  BY <1>1, <1>2, <1>3 DEF StoreInv, StoreTypeOK, RequestFacts, SessionFacts, daemonVars
<1> QED
  BY <1>1, <1>4, <1>5, <1>6 DEF Port!TakeLate

LEMMA StoreStarts ==
  ASSUME StoreInit
  PROVE  StoreInv /\ Port!Init
<1>1. PICK k \in Keys :
        req = [c \in Callers |-> [at |-> "idle", reply |-> "none", op |-> "get", list |-> <<>>,
                 write |-> [id |-> 0, key |-> k, content |-> NoContent], found |-> NoContent]]
  BY DEF StoreInit
<1> DEFINE r == [at |-> "idle", reply |-> "none", op |-> "get", list |-> <<>>,
                 write |-> [id |-> 0, key |-> k, content |-> NoContent], found |-> NoContent]
<1>2. r \in Requests /\ RequestOK(r) /\ ~HasSession(r) /\ Image(r).state = "idle"
  <2>1. <<>> \in Seq(Row)
    OBVIOUS
  <2>2. [id |-> 0, key |-> k, content |-> NoContent] \in Write
    BY StoreAssumption DEF Write, Ids
  <2>3. r \in Requests
    BY <2>1, <2>2 DEF Requests
  <2> QED
    BY <2>3 DEF RequestOK, Taken, HasSession, Image, Returned
<1> HIDE DEF r
<1>3. req = [c \in Callers |-> r]
  BY <1>1 DEF r
<1>4. StoreInv
  <2>1. rows = <<>> /\ rows \in Seq(Row) /\ DOMAIN rows = {} /\ \A k2 : Matching(rows, k2) = {}
    BY DEF StoreInit, Matching
  <2>2. RowFacts
    BY <2>1 DEF RowFacts
  <2>3. StoreTypeOK
    <3>1. \A c \in Callers : req[c].at # "post"
      BY <1>2, <1>3 DEF HasSession
    <3>2. req \in [Callers -> Requests]
      BY <1>2, <1>3
    <3>3. 0 \in Ids /\ 0 \in 0 .. MaxSecond
      BY StoreAssumption DEF Ids
    <3> QED
      BY <2>1, <3>1, <3>2, <3>3 DEF StoreInit, StoreTypeOK
  <2>4. RequestFacts /\ SessionFacts
    BY <1>2, <1>3 DEF RequestFacts, SessionFacts
  <2> QED
    BY <2>2, <2>3, <2>4 DEF StoreInv
<1>5. PortValue = [k2 \in Keys |-> NoContent]
  <2>1. \A k2 \in Keys : Latest(Listed, k2) = NoContent
    <3>1. rows = <<>> /\ rows \in Seq(Row) /\ \A j \in DOMAIN rows : FALSE
      BY DEF StoreInit
    <3> QED
      BY <3>1, NoRowNoContent DEF Listed
  <2> QED
    BY <2>1 DEF PortValue
<1>6. \A c \in Callers : PortAsk[c].state = "idle"
  BY <1>2, <1>3 DEF PortAsk
<1>7. DOMAIN PortAsk = Callers /\ late = {}
  BY DEF PortAsk, StoreInit
<1> QED
  BY <1>4, <1>5, <1>6, <1>7 DEF Port!Init

LEMMA StoreSteps ==
  ASSUME StoreInv, GoodDaemons, [StoreNext]_storeVars
  PROVE  StoreInv' /\ [Port!Next]_<<PortValue, PortAsk, late>>
<1>1. ASSUME NEW c \in Callers, Client(c)
      PROVE  StoreInv' /\ [Port!Next]_<<PortValue, PortAsk, late>>
  BY <1>1, Unseen, BeginStep, ReturnStep, FailStep DEF Client, Port!Next
<1>2. ASSUME NEW c \in Callers, Handle(c) \/ Refuse(c) \/ Lose(c)
      PROVE  StoreInv' /\ [Port!Next]_<<PortValue, PortAsk, late>>
  BY <1>2, Unseen, UpsertStep, GetStep DEF Handle, Port!Next
<1>3. CASE HandleLate
  BY <1>3, LateStep DEF Port!Next
<1>4. CASE NextSecond \/ FallSilent \/ UNCHANGED storeVars
  <2>0. MaxSecond \in Nat /\ second \in 0 .. MaxSecond /\ second \in Nat /\ silent \in BOOLEAN
    BY StoreAssumption DEF StoreInv, StoreTypeOK
  <2>1. /\ UNCHANGED <<daemon, rows, sessions, req, begun, late>>
        /\ second' \in 0 .. MaxSecond /\ second <= second' /\ silent' \in BOOLEAN
    <3>1. CASE NextSecond
      BY <2>0, <3>1 DEF NextSecond
    <3>2. CASE FallSilent \/ UNCHANGED storeVars
      <4>1. UNCHANGED <<daemon, rows, sessions, req, begun, late, second>>
        BY <3>2 DEF FallSilent, storeVars
      <4>2. silent' \in BOOLEAN
        BY <2>0, <3>2, Zenon DEF FallSilent, storeVars
      <4> QED
        BY <2>0, <4>1, <4>2
    <3> QED
      BY <1>4, <3>1, <3>2
  <2>2. RowFacts'
    BY <2>1, RowsKept DEF StoreInv
  <2>3. StoreInv'
    BY <2>1, <2>2 DEF StoreInv, StoreTypeOK, RequestFacts, SessionFacts
  <2>4. PortValue' = PortValue /\ PortAsk' = PortAsk
    BY <2>1, ValueKept DEF PortAsk, Image, Taken
  <2> QED
    BY <2>1, <2>3, <2>4
<1> QED
  BY <1>1, <1>2, <1>3, <1>4 DEF StoreNext

\* What the requests under way, the rows and the sessions are in every reachable state.
THEOREM StoreInvariance ==
  ASSUME GoodDaemons
  PROVE  StoreSpec => []StoreInv
<1>1. StoreInv /\ [StoreNext]_storeVars => StoreInv'
  BY StoreSteps
<1>2. StoreInit => StoreInv
  BY StoreStarts
<1> QED
  BY <1>1, <1>2, PTL DEF StoreSpec

\* No observation is posted before its session's row is there, whatever is lost or late.
THEOREM StoreTypeCorrect ==
  ASSUME GoodDaemons
  PROVE  StoreSpec => []StoreTypeOK
<1>1. StoreInv => StoreTypeOK
  BY DEF StoreInv
<1> QED
  BY <1>1, StoreInvariance, PTL

\* Two requests to write, a list and a maximum over timestamps of one second to read: to
\* their callers they are PersistencePort, one payload per key, for every daemon that
\* replaces a key's row or lists the oldest first.
THEOREM IsPersistencePort ==
  ASSUME GoodDaemons
  PROVE  StoreSpec => ImplementsPort
<1>1. StoreInit => Port!Init
  BY StoreStarts
<1>2. StoreInv /\ [StoreNext]_storeVars => [Port!Next]_<<PortValue, PortAsk, late>>
  BY StoreSteps
<1> QED
  BY <1>1, <1>2, StoreInvariance, PTL DEF StoreSpec, ImplementsPort, Port!Spec
=============================================================================

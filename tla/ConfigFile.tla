----------------------------- MODULE ConfigFile -----------------------------
(***************************************************************************)
(* One Claude config file (~/.claude.json, .mcp.json or settings.json) as  *)
(* the provisioners write it: read, edit the managed entry, back the       *)
(* original up once, write <path>.tmp, sync it, rename it over the file.   *)
(* Each system call is a step, and a call may fail, or the machine lose    *)
(* power, between any two.                                                 *)
(*                                                                         *)
(* A document is abstracted to the version of its foreign part and whether *)
(* it holds the managed entry.  File::create on a <path>.tmp that is there *)
(* truncates it in place, so files are inodes: a writer keeps the one it   *)
(* opened when the name moves on.                                          *)
(***************************************************************************)
EXTENDS Naturals

CONSTANTS Calls,      \* inject and retract calls that can be under way at once
          MaxInode,   \* bound on the inodes of the file and its .tmp
          Overlap,    \* do calls and edits overlap other calls?
          MayFail,    \* can a system call fail?
          MaxEdits,   \* bound on the edits of the foreign part
          MaxCrashes  \* bound on power losses

ASSUME ConfigAssumption == /\ MaxInode \in Nat
                           /\ Overlap \in BOOLEAN
                           /\ MayFail \in BOOLEAN
                           /\ MaxEdits \in Nat
                           /\ MaxCrashes \in Nat

VARIABLES
  live,     \* the inode named <path>
  tmp,      \* the inode named <path>.tmp
  data,     \* what each inode holds
  synced,   \* inodes whose content survives a power loss
  bak,      \* what <path>.spectty.bak holds
  call,     \* the calls: stage, operation, documents at hand, open inode
  existed,  \* was there a file before Spectty's first call?
  edits,    \* edits of the foreign part
  crashes   \* power losses

vars == <<live, tmp, data, synced, bak, call, existed, edits, crashes>>

Inodes == 1..MaxInode
NoInode == 0

Absent == [state |-> "absent", foreign |-> 0, entry |-> FALSE]
Empty == [state |-> "empty", foreign |-> 0, entry |-> FALSE]
Torn == [state |-> "torn", foreign |-> 0, entry |-> FALSE]
Whole(f, e) == [state |-> "whole", foreign |-> f, entry |-> e]

Docs == [state : {"absent", "empty", "torn", "whole"}, foreign : 0..(MaxEdits + 1), entry : BOOLEAN]
Stages == {"idle", "read", "check", "original", "truncate", "copy", "create", "write", "sync", "rename"}
Writing == {"write", "sync", "rename"}
CallRecords == [at : Stages, op : {"none", "inject", "retract"}, next : Docs, orig : Docs,
                fd : Inodes \cup {NoInode}]
IdleCall == [at |-> "idle", op |-> "none", next |-> Absent, orig |-> Absent, fd |-> NoInode]

\* What the name <path> gives a reader.
Live == IF live = NoInode THEN Absent ELSE data[live]

ConfigTypeOK ==
  /\ live \in Inodes \cup {NoInode} /\ tmp \in Inodes \cup {NoInode}
  /\ data \in [Inodes -> Docs]
  /\ synced \subseteq Inodes
  /\ bak \in Docs
  /\ call \in [Calls -> CallRecords]
  /\ \A c \in Calls : /\ call[c].at = "idle" => call[c] = IdleCall
                      /\ call[c].at \in Writing => call[c].fd # NoInode
                      /\ ~Overlap /\ call[c].at \in Writing => call[c].fd = tmp
  /\ existed \in BOOLEAN
  /\ edits \in 0..MaxEdits
  /\ crashes \in 0..MaxCrashes

\* Before Spectty: a file of the user's, or none.
Init ==
  /\ live \in Inodes \cup {NoInode}
  /\ data = [n \in Inodes |-> IF n = live THEN Whole(1, FALSE) ELSE Empty]
  /\ tmp = NoInode
  /\ synced = Inodes
  /\ bak = Absent
  /\ call = [c \in Calls |-> IdleCall]
  /\ existed = (live # NoInode)
  /\ edits = 0
  /\ crashes = 0
----------------------------------------------------------------------------
Busy == \E c \in Calls : call[c].at # "idle"
Fresh == Inodes \ ({live, tmp} \cup {call[c].fd : c \in Calls})

\* Writing doc at the start of content that another writer may have put there:
\* a shorter document leaves the tail of the other.
Overlay(content, doc) == IF content = Empty THEN {doc} ELSE {doc, Torn}

At(c, from, to) == call[c].at = from /\ call' = [call EXCEPT ![c].at = to]

Begin(c, op) ==
  /\ call[c].at = "idle"
  /\ Overlap \/ ~Busy
  /\ call' = [call EXCEPT ![c] = [IdleCall EXCEPT !.at = "read", !.op = op]]
  /\ UNCHANGED <<live, tmp, data, synced, bak, existed, edits, crashes>>

\* Mutant: the managed entry replaces the document it belongs in.
Edited_from_scratch(doc, op) == Whole(0, op = "inject")

\* inject_spectty_mcp, retract_spectty_mcp and their hooks twins: only the
\* managed entry changes; an absent file is the empty object.
Edited(doc, op) == Whole(doc.foreign, op = "inject")

\* ConfigFile::read and the edit.  Retracting from an absent file is done
\* already, and a document that does not parse ends the call.
Read(c) ==
  /\ call[c].at = "read"
  /\ IF Live.state = "whole" \/ (Live = Absent /\ call[c].op = "inject")
     THEN call' = [call EXCEPT ![c].at = "check", ![c].next = Edited(Live, call[c].op)]
     ELSE call' = [call EXCEPT ![c] = IdleCall]
  /\ UNCHANGED <<live, tmp, data, synced, bak, existed, edits, crashes>>

\* Mutant: every write makes a backup.
CheckBackup_always(c) ==
  /\ At(c, "check", "original")
  /\ UNCHANGED <<live, tmp, data, synced, bak, existed, edits, crashes>>

\* Only the first write makes a backup.
CheckBackup(c) ==
  /\ \/ bak = Absent /\ At(c, "check", "original")
     \/ bak # Absent /\ At(c, "check", "create")
  /\ UNCHANGED <<live, tmp, data, synced, bak, existed, edits, crashes>>

\* The original is read again, unparsed; an absent one needs no backup.
ReadOriginal(c) ==
  /\ call[c].at = "original"
  /\ call' = [call EXCEPT ![c].at = IF live = NoInode THEN "create" ELSE "truncate", ![c].orig = Live]
  /\ UNCHANGED <<live, tmp, data, synced, bak, existed, edits, crashes>>

\* fs::write opens and truncates the backup...
TruncateBackup(c) ==
  /\ At(c, "truncate", "copy")
  /\ bak' = Empty
  /\ UNCHANGED <<live, tmp, data, synced, existed, edits, crashes>>

\* ...and fills it.
FillBackup(c) ==
  /\ At(c, "copy", "create")
  /\ bak' \in Overlay(bak, call[c].orig)
  /\ UNCHANGED <<live, tmp, data, synced, existed, edits, crashes>>

\* File::create: a new inode, or the one that has the name, truncated.
CreateTmp(c) ==
  /\ call[c].at = "create"
  /\ \E n \in IF tmp = NoInode THEN Fresh ELSE {tmp} :
       /\ tmp' = n
       /\ data' = [data EXCEPT ![n] = Empty]
       /\ synced' = synced \ {n}
       /\ call' = [call EXCEPT ![c].at = "write", ![c].fd = n]
  /\ UNCHANGED <<live, bak, existed, edits, crashes>>

\* Mutant: the file is renamed without being synced.
WriteTmp_unsynced(c) ==
  /\ At(c, "write", "rename")
  /\ \E doc \in Overlay(data[call[c].fd], call[c].next) :
       data' = [data EXCEPT ![call[c].fd] = doc]
  /\ synced' = synced \ {call[c].fd}
  /\ UNCHANGED <<live, tmp, bak, existed, edits, crashes>>

WriteTmp(c) ==
  /\ At(c, "write", "sync")
  /\ \E doc \in Overlay(data[call[c].fd], call[c].next) :
       data' = [data EXCEPT ![call[c].fd] = doc]
  /\ synced' = synced \ {call[c].fd}
  /\ UNCHANGED <<live, tmp, bak, existed, edits, crashes>>

SyncTmp(c) ==
  /\ At(c, "sync", "rename")
  /\ synced' = synced \cup {call[c].fd}
  /\ UNCHANGED <<live, tmp, data, bak, existed, edits, crashes>>

\* The rename moves whatever has the name <path>.tmp by now; with nothing
\* there it fails.  Either way the call is over.
Rename(c) ==
  /\ call[c].at = "rename"
  /\ call' = [call EXCEPT ![c] = IdleCall]
  /\ IF tmp = NoInode THEN UNCHANGED live ELSE live' = tmp
  /\ tmp' = NoInode
  /\ UNCHANGED <<data, synced, bak, existed, edits, crashes>>

\* A system call fails: the call returns its error and leaves what it made.
Fail(c) ==
  /\ MayFail
  /\ call[c].at # "idle"
  /\ call' = [call EXCEPT ![c] = IdleCall]
  /\ UNCHANGED <<live, tmp, data, synced, bak, existed, edits, crashes>>
----------------------------------------------------------------------------
\* The user or Claude replaces the file, keeping the managed entry (external).
Edit ==
  /\ Overlap \/ ~Busy
  /\ edits < MaxEdits
  /\ edits' = edits + 1
  /\ Live.state \in {"absent", "whole"}
  /\ \E n \in Fresh :
       /\ live' = n
       /\ data' = [data EXCEPT ![n] = Whole(Live.foreign + 1, Live.entry)]
       /\ synced' = synced \cup {n}
  /\ UNCHANGED <<tmp, bak, call, existed, crashes>>

\* The power goes: calls end, unsynced content may be lost; the backup is
\* never synced.
Crash ==
  /\ crashes < MaxCrashes
  /\ crashes' = crashes + 1
  /\ call' = [c \in Calls |-> IdleCall]
  /\ \E lost \in SUBSET ({live, tmp} \cap (Inodes \ synced)) :
       data' = [n \in Inodes |-> IF n \in lost THEN Torn ELSE data[n]]
  /\ bak' \in {bak} \cup (IF bak = Absent THEN {} ELSE {Torn})
  /\ synced' = Inodes
  /\ UNCHANGED <<live, tmp, existed, edits>>
----------------------------------------------------------------------------
CallStep(c) ==
  \/ Read(c) \/ CheckBackup(c) \/ ReadOriginal(c) \/ TruncateBackup(c) \/ FillBackup(c)
  \/ CreateTmp(c) \/ WriteTmp(c) \/ SyncTmp(c) \/ Rename(c) \/ Fail(c)

Next ==
  \/ \E c \in Calls, op \in {"inject", "retract"} : Begin(c, op)
  \/ \E c \in Calls : CallStep(c)
  \/ Edit
  \/ Crash

Spec == Init /\ [][Next]_vars
----------------------------------------------------------------------------
\* At every moment, failures and power losses included, a reader finds the
\* document of a step of AtomicConfig: whole, with its foreign part as the user
\* last wrote it (the headline invariant of json_namespace.rs and the tmp, fsync,
\* rename of file_io.rs).
Atomic == INSTANCE AtomicConfig WITH doc <- Live
WritesAtomic == Atomic!Spec

\* A file that was there before Spectty has a backup before it holds the managed
\* entry, and the backup, when it is whole, is from before Spectty.
BackupPreSpectty ==
  existed => /\ Live.entry => bak # Absent
             /\ bak.state = "whole" => ~bak.entry

\* What write_atomic documents, however calls interleave: nobody finds a file
\* that is half written.
LiveIsWhole == Live.state \in {"absent", "whole"}
=============================================================================

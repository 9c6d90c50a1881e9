------------------------------ MODULE VibeLens ------------------------------
(***************************************************************************)
(* VibeLensMcpAdapter: the explanation of a diff is built locally and      *)
(* pushed, best-effort, to a VibeLens MCP server that `npx` starts.        *)
(*                                                                         *)
(*   explain --lock--> push --stdin--> server --stdout--> reader --rx--> push *)
(*                                                                         *)
(* Every session shares the one adapter, its lock and its child.  npx is   *)
(* the child that Drop kills; the server is npx's own child, which inherits *)
(* stdin and stdout and may outlive it.                                    *)
(***************************************************************************)
EXTENDS Naturals, SequencesExt

CONSTANTS Callers,     \* pipeline runs that explain at the same time
          Parts,       \* pieces of a path, where the text " b/" cuts it
          Diffs,       \* git diffs: their files, and whether they overfill a pipe
          MaxExplains, \* bound on the calls of explain
          MaxLines     \* bound on the server's lines that nobody has taken yet

ASSUME VibeLensAssumption == MaxExplains \in Nat /\ MaxLines \in Nat

VARIABLES
  at,       \* where each explain is
  job,      \* its diff, the explanation built, its request's id, what push returned
  explains, \* calls of explain so far
  next_id,  \* the adapter's next request id
  conn,     \* the RealMcpStdio: its reader thread and the lines in rx
  expired,  \* has the deadline of the call under way passed?
  proc,     \* npx and the server, what is in the server's two pipes, and whether
            \* the reader has ended while the server lived
  outlives, \* does the server outlive an npx that is killed?
  asked,    \* has this server sent a request of its own?
  shown     \* ids of the requests the server answered ok

vibeVars == <<at, job, explains, next_id, conn, expired, proc, outlives, asked, shown>>

Places == {"idle", "lock", "spawn", "init", "notify", "write", "wait", "drop", "join"}
InPush == Places \ {"idle", "lock"}
Ids == 0..MaxExplains
\* "end" is a line that is not UTF-8, or the end of an output that the server closes
\* while it lives; "closed" is what the reader makes of it for rx.
Lines == [kind : {"ok", "error", "ask"}, id : Ids] \cup [kind : {"note", "end", "closed"}]
NoConn == [reader |-> "none", rx |-> <<>>]
NoChild == [npx |-> FALSE, server |-> "dead", stdin |-> <<>>, stdout |-> <<>>, unheard |-> FALSE]
NewChild == [npx |-> TRUE, server |-> "up", stdin |-> <<>>, stdout |-> <<>>, unheard |-> FALSE]

\* transport is Some, or local to a push that spawns or drops it.
Connected == conn.reader # "none"
ServerAlive == proc.server \in {"up", "stuck"}
----------------------------------------------------------------------------
(* The explanation, from the text of `git diff`.  A path is the pieces into *)
(* which " b/" cuts what git prints of it, which is in quotation marks when *)
(* it is not plain ASCII (core.quotePath).  A changed line of a file may    *)
(* look like a header, though not like "diff --git", as a hunk's lines      *)
(* start with + - or blank.                                                *)

Mark == "quotation mark"
NoPath == [parts |-> <<>>, quoted |-> FALSE]
Path == [parts : Seq(Parts) \ {<<>>}, quoted : BOOLEAN]
HunkLine == [look : {"old", "new", "add", "del", "context"}, path : Path \cup {NoPath}]
TextLine == [look : {"git"}, old : Path, new : Path] \cup HunkLine

\* plus: there is a "+++ b/" line, as is not for a deletion, a binary file or a bare
\* rename.  A path may come twice: a type change is a deletion and an addition.
File == [old : Path, new : Path, plus : BOOLEAN, lines : Seq(HunkLine)]
ASSUME DiffsAssumption ==
  Mark \notin Parts /\ Diffs \subseteq [big : BOOLEAN, files : Seq(File)]

\* The text git prints (external).
HeaderOf(f) ==
  <<[look |-> "git", old |-> f.old, new |-> f.new], [look |-> "old", path |-> NoPath],
    [look |-> "new", path |-> IF f.plus THEN f.new ELSE NoPath]>>
SectionOf(f) == HeaderOf(f) \o f.lines
TextOf(files) == FlattenSeq([i \in DOMAIN files |-> SectionOf(files[i])])

\* The second of the pieces into which " b/" cuts "a/old b/new".  A quoted new path
\* has its mark before the b, so that the last piece of old runs into it.
split_nth_1(old, new) ==
  LET o == Len(old.parts)
      marked(p, n) == <<p.parts[n]>> \o IF p.quoted /\ n = Len(p.parts) THEN <<Mark>> ELSE <<>>
  IN  CASE o > 2 -> <<old.parts[2]>>
        [] o = 2 -> marked(old, 2) \o IF new.quoted THEN <<Mark>> \o marked(new, 1) ELSE <<>>
        [] o = 1 /\ ~new.quoted -> <<new.parts[1]>>
        [] o = 1 /\ new.quoted /\ Len(new.parts) > 1 -> marked(new, 2)
        [] OTHER -> <<>>

\* The path that a line names, as its pieces: the text after "+++ b/", which a quoted
\* path does not begin with, is taken whole.
NameIn(l) ==
  CASE l.look = "git" -> split_nth_1(l.old, l.new)
    [] l.look = "new" /\ ~l.path.quoted -> l.path.parts
    [] OTHER -> <<>>

\* Mutant: a path is pushed for each of its two header lines.
changed_files_twice(text) ==
  FoldLeft(LAMBDA files, l : IF NameIn(l) = <<>> THEN files ELSE Append(files, NameIn(l)), <<>>, text)

\* The paths of header lines in first-seen order, each once.
push_path(files, l) ==
  IF NameIn(l) \in ToSet(files) \cup {<<>>} THEN files ELSE Append(files, NameIn(l))
changed_files(text) == FoldLeft(push_path, <<>>, text)

\* Lines that start with + or -, those of the file headers' look left out.
LinesWith(look, text) == {n \in DOMAIN text : text[n].look = look}
count_changes(text) == [look \in {"add", "del"} |-> Cardinality(LinesWith(look, text))]

\* One file explanation per path, and a summary that counts.
build_explanation(diff) ==
  [files |-> changed_files(TextOf(diff.files)), counts |-> count_changes(TextOf(diff.files))]
----------------------------------------------------------------------------
NoDiff == [big |-> FALSE, files |-> <<>>]
Job(diff) == [diff |-> diff, built |-> build_explanation(diff), id |-> 0, told |-> "none"]
NoJob == Job(NoDiff)

VibeLensTypeOK ==
  /\ at \in [Callers -> Places]
  /\ \A c \in Callers : /\ job[c].diff \in Diffs \cup {NoDiff} /\ job[c].id \in Ids
                        /\ job[c].told \in {"none", "ok", "degraded"}
  /\ explains \in Ids
  /\ next_id \in 1..(MaxExplains + 1)
  /\ conn.reader \in {"none", "reading", "done"} /\ conn.rx \in Seq(Lines)
  /\ expired \in BOOLEAN
  /\ proc.npx \in BOOLEAN /\ proc.server \in {"up", "stuck", "dead"}
  /\ proc.stdin \in Seq(Ids) /\ proc.stdout \in Seq(Lines) /\ proc.unheard \in BOOLEAN
  /\ outlives \in BOOLEAN /\ asked \in BOOLEAN
  /\ shown \subseteq Ids
  /\ (\E c \in Callers : at[c] \in {"write", "wait", "drop", "join"}) => Connected

VibeInit ==
  /\ at = [c \in Callers |-> "idle"]
  /\ job = [c \in Callers |-> NoJob]
  /\ explains = 0
  /\ next_id = 1
  /\ conn = NoConn
  /\ expired = FALSE
  /\ proc = NoChild
  /\ outlives \in BOOLEAN
  /\ asked = FALSE
  /\ shown = {}
----------------------------------------------------------------------------
(* explain and push.                                                       *)

Goto(c, from, to) == at[c] = from /\ at' = [at EXCEPT ![c] = to]

\* push ends: explain logs what it was told and returns the built explanation.
Return(c, told) ==
  /\ at' = [at EXCEPT ![c] = "idle"]
  /\ job' = [job EXCEPT ![c] = [NoJob EXCEPT !.told = told]]

explain(c, d) ==
  /\ explains < MaxExplains
  /\ Goto(c, "idle", "lock")
  /\ explains' = explains + 1
  /\ job' = [job EXCEPT ![c] = Job(d)]
  /\ UNCHANGED <<next_id, conn, expired, proc, outlives, asked, shown>>

\* Mutant: the transport is taken out of the mutex and the lock let go.
Lock_briefly(c) ==
  /\ Goto(c, "lock", IF Connected THEN "write" ELSE "spawn")
  /\ Connected \/ \A o \in Callers : at[o] \notin InPush
  /\ UNCHANGED <<job, explains, next_id, conn, expired, proc, outlives, asked, shown>>

\* The transport mutex is held for the whole push.
Lock(c) ==
  /\ Goto(c, "lock", IF Connected THEN "write" ELSE "spawn")
  /\ \A o \in Callers : at[o] \notin InPush
  /\ UNCHANGED <<job, explains, next_id, conn, expired, proc, outlives, asked, shown>>

\* npx cannot be started, or runs and a reader thread with it.
Spawn(c) ==
  /\ at[c] = "spawn"
  /\ \/ Return(c, "degraded") /\ UNCHANGED <<conn, proc, asked>>
     \/ /\ Goto(c, "spawn", "init")
        /\ proc' = NewChild
        /\ conn' = [reader |-> "reading", rx |-> <<>>]
        /\ asked' = FALSE
        /\ UNCHANGED job
  /\ UNCHANGED <<explains, next_id, expired, outlives, shown>>

\* A write without a reader is an error; one that overfills the pipe waits for
\* the server to read.  The deadline starts when the write is over.
CanWrite(c, big) == proc.server = "up" \/ ~big
Send(c, id) ==
  IF ServerAlive THEN /\ proc' = IF proc.server = "up" THEN [proc EXCEPT !.stdin = Append(@, id)]
                                                      ELSE proc
                      /\ at' = [at EXCEPT ![c] = "wait"]
                 ELSE /\ at' = [at EXCEPT ![c] = "drop"]
                      /\ UNCHANGED proc

\* initialize: a call with id 0 on the fresh child...
CallInitialize(c) ==
  /\ at[c] = "init"
  /\ Send(c, 0)
  /\ expired' = FALSE
  /\ UNCHANGED <<job, explains, next_id, conn, outlives, asked, shown>>

\* ... and a notification, which has no answer.
NotifyInitialized(c) ==
  /\ Goto(c, "notify", IF ServerAlive THEN "write" ELSE "drop")
  /\ UNCHANGED <<job, explains, next_id, conn, expired, proc, outlives, asked, shown>>

\* take_id, and the request of show_diff_request.
CallShowDiff(c) ==
  /\ at[c] = "write"
  /\ ServerAlive => CanWrite(c, job[c].diff.big)
  /\ Send(c, next_id)
  /\ job' = [job EXCEPT ![c].id = next_id]
  /\ next_id' = next_id + 1
  /\ expired' = FALSE
  /\ UNCHANGED <<explains, conn, outlives, asked, shown>>
----------------------------------------------------------------------------
(* call's wait for a line with an id, within the deadline.                 *)

Deadline ==
  /\ \E c \in Callers : at[c] = "wait"
  /\ ~expired
  /\ expired' = TRUE
  /\ UNCHANGED <<at, job, explains, next_id, conn, proc, outlives, asked, shown>>

\* parse_write_envelope
parse_write_envelope(line) == IF line.kind = "ok" THEN "ok" ELSE "degraded"

\* Any line with an id is the answer.
TakeAnswer(c) ==
  /\ at[c] = "wait"
  /\ conn.rx # <<>> /\ Head(conn.rx).kind \in {"ok", "error", "ask"}
  /\ conn' = [conn EXCEPT !.rx = Tail(@)]
  /\ IF job[c].id = 0
     THEN Goto(c, "wait", "notify") /\ UNCHANGED job
     ELSE Return(c, parse_write_envelope(Head(conn.rx)))
  /\ UNCHANGED <<explains, next_id, expired, proc, outlives, asked, shown>>

\* Mutant: each line that is skipped gets the full timeout again.
SkipNote_rearms(c) ==
  /\ at[c] = "wait"
  /\ conn.rx # <<>> /\ Head(conn.rx).kind = "note"
  /\ conn' = [conn EXCEPT !.rx = Tail(@)]
  /\ expired' = FALSE
  /\ UNCHANGED <<at, job, explains, next_id, proc, outlives, asked, shown>>

\* A line without an id is skipped, unless the deadline has passed.
SkipNote(c) ==
  /\ at[c] = "wait"
  /\ conn.rx # <<>> /\ Head(conn.rx).kind = "note"
  /\ conn' = [conn EXCEPT !.rx = Tail(@)]
  /\ at' = [at EXCEPT ![c] = IF expired THEN "drop" ELSE "wait"]
  /\ UNCHANGED <<job, explains, next_id, expired, proc, outlives, asked, shown>>

\* The stream's end, or the deadline with nothing to read, is an error: the
\* transport is wedged, and dropped before anything else is called on it.
GiveUp(c) ==
  /\ Goto(c, "wait", "drop")
  /\ \/ conn.rx = <<>> /\ (expired \/ conn.reader = "done")
     \/ conn.rx # <<>> /\ Head(conn.rx).kind = "closed"
  /\ UNCHANGED <<job, explains, next_id, conn, expired, proc, outlives, asked, shown>>

\* Drop kills and waits for npx...
DropKill(c) ==
  /\ Goto(c, "drop", "join")
  /\ proc' = [proc EXCEPT !.npx = FALSE,
                            !.server = IF outlives THEN @ ELSE "dead",
                            !.stdin = IF outlives THEN @ ELSE <<>>]
  /\ UNCHANGED <<job, explains, next_id, conn, expired, outlives, asked, shown>>

\* Mutant: the reader thread is detached.
DropJoin_detached(c) ==
  /\ at[c] = "join"
  /\ conn' = NoConn
  /\ Return(c, "degraded")
  /\ UNCHANGED <<explains, next_id, expired, proc, outlives, asked, shown>>

\* ... and joins the reader, which ends when no process holds stdout any more, if it
\* has not given the output up before.
\* stdin is closed after that.
DropJoin(c) ==
  /\ at[c] = "join"
  /\ conn.reader = "done"
  /\ conn' = NoConn
  /\ Return(c, "degraded")
  /\ UNCHANGED <<explains, next_id, expired, proc, outlives, asked, shown>>
----------------------------------------------------------------------------
(* The reader thread.                                                      *)

OutputEnds == proc.stdout # <<>> /\ Head(proc.stdout).kind = "end"

ReadLine ==
  /\ conn.reader = "reading"
  /\ proc.stdout # <<>> /\ ~OutputEnds
  /\ conn' = [conn EXCEPT !.rx = Append(@, Head(proc.stdout))]
  /\ proc' = [proc EXCEPT !.stdout = Tail(@)]
  /\ UNCHANGED <<at, job, explains, next_id, expired, outlives, asked, shown>>

\* The thread returns on a read error, and at the end of its input: nobody holds the
\* pipe any more, or the server has closed it.
ReadClosed ==
  /\ conn.reader = "reading"
  /\ OutputEnds \/ (proc.stdout = <<>> /\ ~proc.npx /\ ~ServerAlive)
  /\ conn' = [reader |-> "done", rx |-> Append(conn.rx, [kind |-> "closed"])]
  /\ proc' = [proc EXCEPT !.unheard = ServerAlive]
  /\ UNCHANGED <<at, job, explains, next_id, expired, outlives, asked, shown>>
----------------------------------------------------------------------------
(* The server (external).                                                  *)

Says(line) ==
  /\ proc.server = "up"
  /\ Len(proc.stdout) + Len(conn.rx) < MaxLines
  /\ proc' = [proc EXCEPT !.stdout = Append(@, line)]

\* It answers a request, or reads it and never does.
ServerAnswer(kind) ==
  /\ proc.server = "up" /\ proc.stdin # <<>>
  /\ Len(proc.stdout) + Len(conn.rx) < MaxLines
  /\ proc' = [proc EXCEPT !.stdin = Tail(@),
                            !.stdout = IF kind = "never" THEN @
                                       ELSE Append(@, [kind |-> kind, id |-> Head(proc.stdin)])]
  /\ shown' = IF kind = "ok" THEN shown \cup ({Head(proc.stdin)} \ {0}) ELSE shown
  /\ UNCHANGED <<at, job, explains, next_id, conn, expired, outlives, asked>>

\* It logs, garbles or closes its output, or sends a request of its own.
ServerTalk ==
  /\ \/ Says([kind |-> "note"]) /\ UNCHANGED asked
     \/ Says([kind |-> "end"]) /\ UNCHANGED asked
     \/ Says([kind |-> "ask", id |-> 0]) /\ asked' = TRUE
  /\ UNCHANGED <<at, job, explains, next_id, conn, expired, outlives, shown>>

\* It stops reading and writing, or ends, and npx with it; what its stdin holds
\* then is read by nobody.
ServerBreaks ==
  /\ \/ proc.server = "up" /\ proc' = [proc EXCEPT !.server = "stuck", !.stdin = <<>>]
     \/ ServerAlive /\ proc' = [proc EXCEPT !.server = "dead", !.npx = FALSE, !.stdin = <<>>]
  /\ UNCHANGED <<at, job, explains, next_id, conn, expired, outlives, asked, shown>>
----------------------------------------------------------------------------
Push(c) ==
  \/ Lock(c) \/ Spawn(c) \/ CallInitialize(c) \/ NotifyInitialized(c) \/ CallShowDiff(c)
  \/ TakeAnswer(c) \/ SkipNote(c) \/ GiveUp(c) \/ DropKill(c) \/ DropJoin(c)
Server == (\E kind \in {"ok", "error", "never"} : ServerAnswer(kind)) \/ ServerTalk \/ ServerBreaks

VibeNext ==
  \/ \E c \in Callers : Push(c) \/ \E d \in Diffs : explain(c, d)
  \/ Deadline \/ ReadLine \/ ReadClosed
  \/ Server

VibeSpec == VibeInit /\ [][VibeNext]_vibeVars

\* The app's threads run and its clock goes on; the server owes nothing.
VibeFairSpec ==
  /\ VibeSpec
  /\ \A c \in Callers : WF_vibeVars(Push(c))
  /\ WF_vibeVars(Deadline)
  /\ WF_vibeVars(ReadLine \/ ReadClosed)
----------------------------------------------------------------------------
\* A push that ends ok was shown: it took the answer to its own request, not one
\* to an earlier request of this or another session (TakeAnswer takes any id).
\* A server that sends requests of its own breaks this.
OkMeansShown ==
  [][\A c \in Callers :
       job[c].told # "ok" /\ job'[c].told = "ok" => job[c].id \in shown \/ asked]_vibeVars

\* Without a transport there is no server: neither a failed initialize nor a respawn
\* leaves one behind (Drop for RealMcpStdio), but a server that outlives the npx that
\* Drop kills, and whose output the reader had given up on, so that the join has
\* nothing to wait for.
NoServerLeft == VibeLensTypeOK /\ (ServerAlive => Connected \/ (outlives /\ proc.unheard))

\* names are the paths of files, each once, in the order in which they first come.
NamesOf(names, files) ==
  /\ ToSet(names) = {files[i].new.parts : i \in DOMAIN files}
  /\ \A m, n \in DOMAIN names : m < n =>
       \E i \in DOMAIN files : /\ files[i].new.parts = names[m]
                              /\ \A j \in 1..i : files[j].new.parts # names[n]

\* Files whose header line, or else +++ line, gives their path as it is.
CutRight(f) == ~f.new.quoted /\ Len(f.old.parts) = 1 /\ Len(f.new.parts) = 1
ReadWhole(f) == ~f.new.quoted /\ (f.plus \/ CutRight(f))

\* The changed lines of files that start with + ("add") or - ("del").
ChangedLines(look, files) == UNION {{i} \X LinesWith(look, files[i].lines) : i \in DOMAIN files}

\* What explain returns of its caller's diff, before and whatever comes of the push: the
\* changed lines of all files are counted, but those that look like a header.  No name
\* comes twice, and the path of a file is named unless git quotes it, or " b/" is in a
\* path and there is no +++ line.  The names are those of the files and no others, in
\* git's order, if no path is quoted or holds a " b/" and no changed line is like "+++ b/".
ExplanationFitsDiff ==
  \A c \in Callers :
    LET files == job[c].diff.files
        names == job[c].built.files
    IN  /\ job[c].built.counts = [look \in {"add", "del"} |-> Cardinality(ChangedLines(look, files))]
        /\ \A m, n \in DOMAIN names : m < n => names[m] # names[n]
        /\ \A i \in DOMAIN files : ReadWhole(files[i]) => files[i].new.parts \in ToSet(names)
        /\ (\A i \in DOMAIN files : CutRight(files[i]) /\ LinesWith("new", files[i].lines) = {})
             => NamesOf(names, files)

\* An npx was killed whose server lives on, and Drop waits for its stdout.
ServerOutlivedNpx == ServerAlive /\ ~proc.npx

\* A request that overfills the pipe of a server that no longer reads.
WriteStuck ==
  proc.server = "stuck" /\ \E c \in Callers : at[c] = "write" /\ job[c].diff.big

\* An explain that never returns hangs in a write or a join; whatever else the server
\* does (no answer, chatter, a crash), the deadline ends the call.
HangsOnlyInIO ==
  \A c \in Callers : <>[](at[c] # "idle") => <>[](ServerOutlivedNpx \/ WriteStuck)
=============================================================================

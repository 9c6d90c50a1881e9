------------------------------ MODULE PtyPath -------------------------------
(***************************************************************************)
(* One PTY between its child and the terminal that shows it: the output    *)
(* through read thread, forwarder, Coalescer, Channel and xterm.js, and    *)
(* the calls of the terminal into the PtyRegistry.  The terminal is the    *)
(* login shell's (useTerminal spawns and kills its own PTY) or a session's *)
(* (useSessionTerminal mounts after the spawn and leaves the kill to       *)
(* close_session).                                                         *)
(*                                                                         *)
(* Tauri (external) runs commands that are not async, and everything that  *)
(* passes between app and webview, on one thread, the main thread.  A      *)
(* webview may be reloaded or destroyed, and a child may leave behind a    *)
(* process that holds the terminal's slave side open.                      *)
(***************************************************************************)
EXTENDS Naturals, Sequences, SequencesExt

CONSTANTS MaxBytes,  \* bound on what the child writes
          MaxChunk,  \* MAX_CHUNK, the coalescer's size threshold (and READ_BUF)
          MaxKeys,   \* bound on keystrokes and resizes
          InCap      \* what the PTY holds of input the child has not read

ASSUME PtyAssumption == /\ MaxBytes \in Nat /\ MaxChunk \in Nat \ {0}
                        /\ MaxKeys \in Nat /\ InCap \in Nat \ {0}

VARIABLES
  kind,        \* whose terminal this is: "shell" or "session"
  pane,        \* the React component: not yet mounted, mounted, unmounted,
               \* or torn down with its webview
  screen,      \* what was written to xterm
  early,       \* BufferedOutputChannel.buffer, until drainTo
  spawn,       \* pty_spawn / spawn_session: how far it is
  closing,     \* close_session: how far it is
  ipc,         \* calls the webview has made that the main thread has not taken
  main,        \* what the main thread runs
  keys,        \* keystrokes and resizes so far
  registered,  \* is the PtyState in the PtyRegistry?
  stop,        \* PtyState.stop
  reader,      \* the read thread
  forwarder,   \* the forwarder thread
  rx,          \* the mpsc between them
  buf,         \* Coalescer.buf
  channel,     \* chunks sent over the ipc Channel and not delivered
  exited,      \* was pty_exit emitted?
  child,       \* the process: it runs, has closed its terminal ("off"), is dead with a
               \* descendant left that holds the slave, or is dead and the slave closed
  deaf,        \* will nobody read its input any more?
  written,     \* how much it has written
  tty,         \* output the read thread has not read
  input        \* how much input the child has not read

uiVars == <<kind, pane, screen, early, keys>>
callVars == <<spawn, closing, ipc, main, registered, stop>>
threadVars == <<reader, forwarder, rx, buf, exited>>
childVars == <<child, deaf, written>>
vars == <<kind, pane, screen, early, keys, spawn, closing, ipc, main, registered, stop,
          reader, forwarder, rx, buf, channel, exited, child, deaf, written, tty, input>>

Bytes == 1..MaxBytes
Calls == {"spawn", "input", "resize", "kill", "close"}

PtyTypeOK ==
  /\ kind \in {"shell", "session"}
  /\ pane \in {"absent", "mounted", "gone", "torn"}
  /\ screen \in Seq(Bytes) /\ buf \in Seq(Bytes) /\ tty \in Seq(Bytes)
  /\ early \in Seq(Seq(Bytes)) /\ channel \in Seq(Seq(Bytes)) /\ rx \in Seq(Seq(Bytes))
  /\ spawn \in {"none", "asked", "open", "up", "told", "failed"}
  /\ closing \in {"none", "asked", "kill", "join", "closed"}
  /\ ipc \in Seq(Calls)
  /\ main \in {"idle", "input", "writing", "resize", "kill", "shutdown", "join"}
  /\ keys \in 0..MaxKeys
  /\ registered \in BOOLEAN /\ stop \in BOOLEAN /\ exited \in BOOLEAN /\ deaf \in BOOLEAN
  /\ reader \in {"none", "top", "read", "join", "done"}
  /\ forwarder \in {"none", "recv", "done"}
  /\ child \in {"none", "running", "off", "left", "dead"}
  /\ written \in 0..MaxBytes
  /\ input \in 0..InCap

Init ==
  /\ kind \in {"shell", "session"}
  /\ pane = "absent" /\ spawn = "none" /\ closing = "none" /\ main = "idle"
  /\ reader = "none" /\ forwarder = "none" /\ child = "none"
  /\ screen = <<>> /\ early = <<>> /\ ipc = <<>> /\ rx = <<>> /\ buf = <<>>
  /\ channel = <<>> /\ tty = <<>>
  /\ keys = 0 /\ written = 0 /\ input = 0
  /\ registered = FALSE /\ stop = FALSE /\ exited = FALSE /\ deaf = FALSE

\* The registry mutex: held across a whole write, and for a moment otherwise.
Unlocked == main # "writing"
----------------------------------------------------------------------------
(* The terminal in the webview.                                            *)

\* useTerminal's effect, or the submit of the spawn dialog: xterm is there
\* from the start of the one, after the spawn of the other.
AskSpawn ==
  /\ spawn = "none"
  /\ spawn' = "asked"
  /\ pane' = IF kind = "shell" THEN "mounted" ELSE "absent"
  /\ ipc' = Append(ipc, "spawn")
  /\ UNCHANGED <<kind, screen, early, keys, closing, main, registered, stop, threadVars, channel,
                 childVars, tty, input>>

\* Mutant: xterm takes only what arrives from now on.
MountSession_no_drain ==
  /\ kind = "session" /\ pane = "absent" /\ spawn = "told"
  /\ pane' = "mounted"
  /\ early' = <<>>
  /\ UNCHANGED <<kind, screen, keys, callVars, threadVars, channel, childVars, tty, input>>

\* useSessionTerminal's effect: drainTo writes what arrived early.
MountSession ==
  /\ kind = "session" /\ pane = "absent" /\ spawn = "told"
  /\ pane' = "mounted"
  /\ screen' = screen \o FlattenSeq(early)
  /\ early' = <<>>
  /\ UNCHANGED <<kind, keys, callVars, threadVars, channel, childVars, tty, input>>

\* onData and the ResizeObserver: nothing is sent before the id is known.
Key(op) ==
  /\ pane = "mounted" /\ spawn = "told"
  /\ keys < MaxKeys
  /\ keys' = keys + 1
  /\ ipc' = Append(ipc, op)
  /\ UNCHANGED <<kind, pane, screen, early, spawn, closing, main, registered, stop, threadVars,
                 channel, childVars, tty, input>>

\* The shell's terminal goes as a session comes: it kills the PTY it knows of.
UnmountShell ==
  /\ kind = "shell" /\ pane = "mounted"
  /\ pane' = "gone"
  /\ ipc' = IF spawn = "told" THEN Append(ipc, "kill") ELSE ipc
  /\ UNCHANGED <<kind, screen, early, keys, spawn, closing, main, registered, stop, threadVars,
                 channel, childVars, tty, input>>

\* Mutant: an id that comes after the unmount is dropped.
SpawnTold_forgets ==
  /\ spawn = "up" /\ main = "idle" /\ pane # "torn"
  /\ spawn' = "told"
  /\ UNCHANGED <<uiVars, closing, ipc, main, registered, stop, threadVars, channel, childVars,
                 tty, input>>

\* The id arrives; a shell terminal that is disposed kills the PTY at once.
SpawnTold ==
  /\ spawn = "up" /\ main = "idle" /\ pane # "torn"
  /\ spawn' = "told"
  /\ ipc' = IF kind = "shell" /\ pane = "gone" THEN Append(ipc, "kill") ELSE ipc
  /\ UNCHANGED <<uiVars, closing, main, registered, stop, threadVars, channel, childVars, tty,
                 input>>

\* The Close button.
AskClose ==
  /\ kind = "session" /\ spawn = "told" /\ closing = "none" /\ pane # "torn"
  /\ closing' = "asked"
  /\ ipc' = Append(ipc, "close")
  /\ UNCHANGED <<uiVars, spawn, main, registered, stop, threadVars, channel, childVars, tty,
                 input>>

\* close_session has returned: session is null and the terminal goes.
UnmountSession ==
  /\ closing = "closed" /\ pane = "mounted" /\ main = "idle"
  /\ pane' = "gone"
  /\ UNCHANGED <<kind, screen, early, keys, callVars, threadVars, channel, childVars, tty, input>>

\* The Channel's onmessage: to xterm, to the buffer before there is one, to a
\* disposed terminal for nothing.
Deliver ==
  /\ channel # <<>> /\ main = "idle"
  /\ channel' = Tail(channel)
  /\ screen' = IF pane = "absent" THEN screen ELSE screen \o Head(channel)
  /\ early' = IF pane = "absent" THEN Append(early, Head(channel)) ELSE early
  /\ UNCHANGED <<kind, pane, keys, callVars, threadVars, childVars, tty, input>>

\* The webview goes (external): it is reloaded, or destroyed, and takes the
\* terminal and what it was sent with it.
WebviewGone ==
  /\ spawn # "none" /\ pane # "torn"
  /\ pane' = "torn" /\ screen' = <<>> /\ early' = <<>> /\ channel' = <<>>
  /\ UNCHANGED <<kind, keys, callVars, threadVars, childVars, tty, input>>
----------------------------------------------------------------------------
(* The commands.                                                           *)

\* The main thread takes the next call: async commands go to a worker.
TakeCall ==
  /\ main = "idle" /\ ipc # <<>>
  /\ ipc' = Tail(ipc)
  /\ LET op == Head(ipc) IN
       /\ main' = IF op \in {"spawn", "close"} THEN "idle" ELSE op
       /\ spawn' = IF op = "spawn" THEN "open" ELSE spawn
       /\ closing' = IF op = "close" THEN "kill" ELSE closing
  /\ UNCHANGED <<uiVars, registered, stop, threadVars, channel, childVars, tty, input>>

\* PtyAdapter::spawn and the threads: output flows before the id is known.
OpenPty ==
  /\ spawn = "open" /\ child = "none"
  /\ child' = "running" /\ reader' = "top" /\ forwarder' = "recv"
  /\ UNCHANGED <<uiVars, callVars, rx, buf, channel, exited, deaf, written, tty, input>>

\* openpty or the exec fails: the command returns its error, nothing is left.
OpenFails ==
  /\ spawn = "open" /\ child = "none"
  /\ spawn' = "failed"
  /\ UNCHANGED <<uiVars, closing, ipc, main, registered, stop, threadVars, channel, childVars,
                 tty, input>>

\* The PtyState enters the registry, and the command returns its id.
Register ==
  /\ spawn = "open" /\ child # "none" /\ Unlocked
  /\ registered' = TRUE
  /\ spawn' = "up"
  /\ UNCHANGED <<uiVars, closing, ipc, main, stop, threadVars, channel, childVars, tty, input>>

\* send_input_impl takes the lock; an id that is gone is an error.
send_input ==
  /\ main = "input"
  /\ main' = IF registered THEN "writing" ELSE "idle"
  /\ UNCHANGED <<uiVars, spawn, closing, ipc, registered, stop, threadVars, channel, childVars,
                 tty, input>>

\* Nobody holds the slave: a read that finds nothing, and any write, ends at once.
SlaveClosed == child \in {"off", "dead"}

\* PtyAdapter::write returns when the PTY has taken the bytes, or is closed.
Write ==
  /\ main = "writing"
  /\ input < InCap \/ SlaveClosed
  /\ main' = "idle"
  /\ input' = IF SlaveClosed THEN input ELSE input + 1
  /\ UNCHANGED <<uiVars, spawn, closing, ipc, registered, stop, threadVars, channel, childVars, tty>>

\* resize_impl: an ioctl, or an error.
pty_resize ==
  /\ main = "resize"
  /\ main' = "idle"
  /\ UNCHANGED <<uiVars, spawn, closing, ipc, registered, stop, threadVars, channel, childVars,
                 tty, input>>

\* kill_impl takes the PtyState out; the lock is free again before the shutdown.
pty_kill ==
  /\ main = "kill"
  /\ registered' = FALSE
  /\ main' = IF registered THEN "shutdown" ELSE "idle"
  /\ UNCHANGED <<uiVars, spawn, closing, ipc, stop, threadVars, channel, childVars, tty, input>>

\* close_session takes the PtyState out of the registry.
close_session ==
  /\ closing = "kill" /\ registered /\ Unlocked
  /\ registered' = FALSE
  /\ UNCHANGED <<uiVars, spawn, closing, ipc, main, stop, threadVars, channel, childVars, tty,
                 input>>

ShuttingDown == main = "shutdown" \/ (closing = "kill" /\ ~registered)

\* PtyState::shutdown raises the flag, ...
ShutdownFlag ==
  /\ ShuttingDown /\ ~stop
  /\ stop' = TRUE
  /\ UNCHANGED <<uiVars, spawn, closing, ipc, main, registered, threadVars, channel, childVars,
                 tty, input>>

\* The child ends, by itself or killed: a descendant may still hold the slave.
\* Nobody will read the input.
ChildEnds ==
  /\ child' \in CASE child = "running" -> {"dead", "left"}
                  [] child = "left" -> {"left"}
                  [] OTHER -> {"dead"}
  /\ deaf' = TRUE

\* ... kills the child, which ends the output unless a descendant goes on, ...
ShutdownKill ==
  /\ ShuttingDown /\ stop
  /\ ChildEnds
  /\ main' = IF main = "shutdown" THEN "join" ELSE main
  /\ closing' = IF closing = "kill" THEN "join" ELSE closing
  /\ UNCHANGED <<uiVars, spawn, ipc, registered, stop, threadVars, channel, written, tty, input>>

\* ... and joins the read thread.
ShutdownJoin ==
  /\ main = "join" \/ closing = "join"
  /\ reader = "done"
  /\ main' = IF main = "join" THEN "idle" ELSE main
  /\ closing' = IF closing = "join" THEN "closed" ELSE closing
  /\ UNCHANGED <<uiVars, spawn, ipc, registered, stop, threadVars, channel, childVars, tty, input>>
----------------------------------------------------------------------------
(* spawn_read_thread and spawn_render_forwarder.                           *)

\* The loop looks at the flag before each read.
ReadTop ==
  /\ reader = "top"
  /\ reader' = IF stop THEN "join" ELSE "read"
  /\ UNCHANGED <<uiVars, callVars, forwarder, rx, buf, channel, exited, childVars, tty, input>>

\* A read returns some of what is there, and the slice goes to the forwarder.
Read(n) ==
  /\ reader = "read" /\ forwarder = "recv"
  /\ n \in 1..Len(tty) /\ n <= MaxChunk
  /\ rx' = Append(rx, SubSeq(tty, 1, n))
  /\ tty' = SubSeq(tty, n + 1, Len(tty))
  /\ reader' = "top"
  /\ UNCHANGED <<uiVars, callVars, forwarder, buf, channel, exited, childVars, input>>

\* The forwarder is gone and the send fails: a shell's thread stops reading, a
\* session's goes on for its signal side.
ReadUnsent(n) ==
  /\ reader = "read" /\ forwarder = "done"
  /\ n \in 1..Len(tty) /\ n <= MaxChunk
  /\ tty' = SubSeq(tty, n + 1, Len(tty))
  /\ reader' = IF kind = "shell" THEN "join" ELSE "top"
  /\ UNCHANGED <<uiVars, callVars, forwarder, rx, buf, channel, exited, childVars, input>>

\* EOF or EIO, as nobody holds the slave any more: the sender is dropped.
ReadEof ==
  /\ reader = "read" /\ tty = <<>> /\ SlaveClosed
  /\ reader' = "join"
  /\ UNCHANGED <<uiVars, callVars, forwarder, rx, buf, channel, exited, childVars, tty, input>>

ReaderJoin ==
  /\ reader = "join" /\ forwarder = "done"
  /\ reader' = "done"
  /\ UNCHANGED <<uiVars, callVars, forwarder, rx, buf, channel, exited, childVars, tty, input>>

\* on_output.send: what is sent to a webview that is gone is lost.
send(chunk) == channel' = IF pane = "torn" THEN channel ELSE Append(channel, chunk)

\* Coalescer::push: a full buffer gives one chunk, the rest stays.
push(slice) ==
  LET all == buf \o slice IN
    IF Len(all) >= MaxChunk
    THEN /\ send(SubSeq(all, 1, MaxChunk))
         /\ buf' = SubSeq(all, MaxChunk + 1, Len(all))
    ELSE buf' = all /\ UNCHANGED channel

\* drain_due and drain_all: everything, and never an empty chunk.
drain ==
  /\ IF buf = <<>> THEN UNCHANGED channel ELSE send(buf)
  /\ buf' = <<>>

\* forward_step on a message.
Forward ==
  /\ forwarder = "recv" /\ rx # <<>>
  /\ rx' = Tail(rx)
  /\ push(Head(rx))
  /\ UNCHANGED <<uiVars, callVars, reader, forwarder, exited, childVars, tty, input>>

\* Mutant: only a read flushes, as before the fix the comments tell of.
ForwardTimeout_on_read ==
  /\ forwarder = "recv" /\ rx = <<>> /\ reader # "join" /\ buf # <<>>
  /\ tty # <<>>
  /\ drain
  /\ UNCHANGED <<uiVars, callVars, reader, forwarder, rx, exited, childVars, tty, input>>

\* forward_step on a timeout: FLUSH_INTERVAL has passed since the last flush, as
\* recv_timeout began after it.
ForwardTimeout ==
  /\ forwarder = "recv" /\ rx = <<>> /\ reader # "join" /\ buf # <<>>
  /\ drain
  /\ UNCHANGED <<uiVars, callVars, reader, forwarder, rx, exited, childVars, tty, input>>

\* The send of a chunk fails, as it does to a destroyed webview: the forwarder breaks
\* off, what it holds and what is in the mpsc is lost, and pty_exit is emitted.
ForwardFails ==
  /\ forwarder = "recv" /\ pane = "torn"
  /\ \/ rx # <<>> /\ Len(buf \o Head(rx)) >= MaxChunk
     \/ rx = <<>> /\ reader # "join" /\ buf # <<>>
  /\ forwarder' = "done" /\ exited' = TRUE
  /\ rx' = <<>> /\ buf' = <<>>
  /\ UNCHANGED <<uiVars, callVars, reader, channel, childVars, tty, input>>

\* forward_step on Disconnected: the remainder, then pty_exit.
ForwardExit ==
  /\ forwarder = "recv" /\ rx = <<>> /\ reader = "join"
  /\ drain
  /\ forwarder' = "done"
  /\ exited' = TRUE
  /\ UNCHANGED <<uiVars, callVars, reader, rx, childVars, tty, input>>
----------------------------------------------------------------------------
(* The child (external).                                                   *)

\* The child, or what it has left behind.
ChildWrites ==
  /\ child \in {"running", "left"} /\ written < MaxBytes
  /\ written' = written + 1
  /\ tty' = Append(tty, written + 1)
  /\ UNCHANGED <<uiVars, callVars, threadVars, channel, child, deaf, input>>

ChildReads ==
  /\ child = "running" /\ ~deaf /\ input > 0
  /\ input' = input - 1
  /\ UNCHANGED <<uiVars, callVars, threadVars, channel, childVars, tty>>

ChildStopsReading ==
  /\ child = "running" /\ ~deaf
  /\ deaf' = TRUE
  /\ UNCHANGED <<uiVars, callVars, threadVars, channel, child, written, tty, input>>

ChildExits ==
  /\ child \in {"running", "off"}
  /\ ChildEnds
  /\ UNCHANGED <<uiVars, callVars, threadVars, channel, written, tty, input>>

\* The child closes its terminal and lives on.
ChildDetaches ==
  /\ child = "running"
  /\ child' = "off" /\ deaf' = TRUE
  /\ UNCHANGED <<uiVars, callVars, threadVars, channel, written, tty, input>>

DescendantEnds ==
  /\ child = "left"
  /\ child' = "dead"
  /\ UNCHANGED <<uiVars, callVars, threadVars, channel, deaf, written, tty, input>>
----------------------------------------------------------------------------
UiStep == MountSession \/ UnmountSession
AppStep ==
  \/ SpawnTold \/ TakeCall \/ send_input \/ Write \/ pty_resize \/ pty_kill
  \/ ShutdownFlag \/ ShutdownKill \/ ShutdownJoin
ReaderStep ==
  ReadTop \/ (\E n \in 1..MaxChunk : Read(n) \/ ReadUnsent(n)) \/ ReadEof \/ ReaderJoin
ForwarderStep == Forward \/ ForwardTimeout \/ ForwardFails \/ ForwardExit

Next ==
  \/ AskSpawn \/ (\E op \in {"input", "resize"} : Key(op)) \/ UnmountShell \/ AskClose
  \/ UiStep \/ Deliver \/ AppStep \/ OpenPty \/ OpenFails \/ Register \/ close_session
  \/ ReaderStep \/ ForwarderStep
  \/ ChildWrites \/ ChildReads \/ ChildStopsReading \/ ChildExits \/ ChildDetaches
  \/ DescendantEnds \/ WebviewGone

Spec == Init /\ [][Next]_vars

\* Threads and the event loop run; a child reads its input as long as it reads at
\* all; nobody owes a key, an exit, a close or an unmount, and what a child left
\* behind need never end.
Fairness ==
  /\ WF_vars(UiStep) /\ WF_vars(Deliver) /\ WF_vars(AppStep)
  /\ WF_vars(OpenPty \/ OpenFails) /\ WF_vars(Register) /\ WF_vars(close_session)
  /\ WF_vars(ReaderStep) /\ WF_vars(ForwarderStep)
  /\ WF_vars(ChildReads)

FairSpec == Spec /\ Fairness
----------------------------------------------------------------------------
\* What the child wrote is on the screen or on the way to it, every byte once
\* and in order, wherever chunks were cut and however late the terminal was
\* mounted ("No bytes are ever dropped", useSessionTerminal.ts); and pty_exit says that
\* this is all: what the child wrote has been read and sent and nobody can write
\* more, unless the PTY is being shut down.  Only a webview that goes takes some of
\* it away.
NothingLost ==
  /\ PtyTypeOK
  /\ pane # "torn" =>
       /\ screen \o FlattenSeq(early) \o FlattenSeq(channel) \o buf \o FlattenSeq(rx) \o tty
            = [n \in 1..written |-> n]
       /\ exited => /\ rx = <<>> /\ buf = <<>>
                    /\ stop \/ (SlaveClosed /\ tty = <<>>)

\* A write that blocks as nobody reads; it holds the registry's mutex, and the
\* main thread.
WriteBlocked ==
  main = "writing" /\ input = InCap /\ deaf /\ ~SlaveClosed

\* A screen that is behind catches up with what was written, also when the PTY
\* falls silent after it (the quiescent flush of forward_step), unless the terminal
\* goes, the PTY is shut down, or a write blocks.
OutputShown ==
  Len(screen) < written ~>
    Len(screen) = written \/ pane \in {"gone", "torn"} \/ stop \/ WriteBlocked

\* A close that was asked for returns, unless a write blocks (the one call that
\* would end the child waits for the mutex the write holds) or a descendant of the
\* child holds the slave, which "Killing the child closes the slave" (pty_state.rs)
\* does not think of; a shutdown that waits joins its thread once nobody holds it; and
\* a shell whose terminal is gone dies, also one whose spawn returns after the
\* unmount.
TearDownFinishes ==
  /\ closing = "asked" ~> closing = "closed" \/ WriteBlocked \/ child = "left"
  /\ ((main = "join" \/ closing = "join") /\ child = "dead")
       ~> (main # "join" /\ closing # "join")
  /\ (kind = "shell" /\ pane = "gone")
       ~> child \in {"dead", "left"} \/ spawn = "failed" \/ WriteBlocked \/ pane = "torn"
=============================================================================

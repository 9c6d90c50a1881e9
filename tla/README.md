# Spectty in TLA+

Spectty is a Tauri desktop app that runs a coding agent (Claude Code, or any
command) in a PTY, shows what the agent is doing, and puts two panes beside the
terminal: the agent's spec with an approval gate, and an explanation of the
working-tree diff. This directory models the parts of it in which threads,
processes, files and messages meet, checks them with TLC, and proves the core
with TLAPS.

Paths below are relative to the repository: `crates/...`, `src-tauri/...`, `ui/...`.

## 1. Inventory

| component | state it keeps | operations | hard behaviour |
|---|---|---|---|
| Status policy (`core/entities/agent_status.rs`, `adapters/agent/*`) | none: `transition` and `detect_status` are pure | status x observation, signal -> observation | long sequences of legal observations |
| Session registry (`core/entities/session_registry.rs`) | id -> session, `next_id` | mint, insert, apply_observed, remove | written by the signal loop while commands run; ids start over with the app |
| Hook sidecar (`spectty-hook`) | one state file per session, a counter in it | read, increment, write tmp, rename | one process per hook event, no lock |
| Hook reader (`adapters/hook/reader.rs`) | `last_ts` | poll: take if strictly greater | single slot, consume once |
| Session runtime (`session_runtime.rs`, read thread in `commands/session.rs`) | bounded queue, window, idle clock | ingest, quiesce, EOF, gate | hooks and scraped output disagree; overflow; EOF in any state; close at any moment |
| Lifecycle (`commands/session.rs`, `pty_state.rs`) | SessionRegistry, PtyRegistry, DiffPipelines | spawn_session, close_session, sweep | every step can fail; concurrent closes; the app is killed |
| Provisioning (`adapters/provision/*`) | `~/.claude.json`, `.mcp.json`, `settings.json`, their `.tmp` and `.spectty.bak` | inject, retract, write_atomic | shared files, failures and power loss between system calls |
| Plan approval (`spectty-mcp`, `commands/spec.rs`, `SpecPane.tsx`) | the approval document, the poll reader, the pane | spectty_approval, approve_prompt, tick, refetch | read-modify-write from two processes; budget and outages; stale panes |
| Spec bus (`spec_bus.rs`) | last content hash, revision, shutdown | tick, emit, stop | change detection by equality; missed ticks |
| Spec feed (`spectty-mcp`, `commands/spec.rs`, `SpecPane.tsx`) | spec document, seeded reader, pane | spectty_spec, hydrate, getSpec, spec_updated | fetch against listener, seed against emit; a store that fails after it stored |
| Diff pipeline (`diff_pipeline.rs`) | last hash, last explanation, in-flight slot | run_once | overlapping triggers, failures, self-trigger |
| File watch (`adapters/file_watch`) | channel, debouncer, stop flag | record, flush, final flush, drop | stop against pending paths |
| VibeLens client (`adapters/diff/vibelens.rs`) | child, lock, wedged flag, request id | push, call, respawn, drop | deadlines, answers out of turn, crash of the child, a grandchild that lives on |
| VibeLens panel (`VibeLensPanel.tsx`) | the explanation shown | fetch, listen, refresh | three sources in any order |
| Persistence (`adapters/persistence/*`, the MCP server's client) | documents by topic key | get, upsert | HTTP calls that fail before or after they took effect, or take effect when given up; no timeout in the app; the newest of several rows; `block_on` under a runtime |
| PTY and render path (`adapters/pty/*`, `commands/pty.rs`) | coalescer, PTY registry | read, flush, write, resize, kill | silence with bytes in the buffer; a blocking write under the registry's lock |
| UI (`ui/src`) | React state of hooks, terminals and panes | submit, close, listeners, mount, unmount | replies and events in any order |
| Composition root (`lib.rs`) | hook rows to provision | wiring | which events are provisioned at all |

How they interact. The agent's bytes go from the PTY read thread on two ways:
through a bounded channel to the signal loop, and through a forwarder and the
coalescer to the terminal. The signal loop also polls the state file that the
agent's hooks write through the sidecar; it alone changes the status in the
registry and emits `status_changed`. The MCP server is another process of the
agent's: it and the app meet only in documents of the store, which the app
polls. The diff pipeline is called from the watcher's thread or from tasks of a
poll loop, and all sessions' pipelines share one VibeLens child.
`close_session` stops all of these, in an order that matters. The UI knows of
all this only what replies and events tell it.

What makes each part correct is stated as properties in section 4; PROJECT.json
lists the hazards they are for, each at its line.

## 2. Modules

| module | models | extends / instantiates |
|---|---|---|
| `AgentStatus` | the pure policy: `transition`, `event_to_observed`, both `detect_status`, the gate's `Suppressed` | |
| `HookChannel` | sidecars, state file, reader | `AgentStatus` |
| `SessionRuntime` | one session from the agent's bytes and hooks to its status, and its close | `HookChannel`; `StatusLifecycle` as `Feed` |
| `StatusLifecycle` | abstract: a status moves along the domain's arrows and ends when the session closes | |
| `Lifecycle` | spawn_session and close_session over the shared registries and files | |
| `SpawnPanic` | Lifecycle with a hydration that panics | `Lifecycle` |
| `AtomicConfig` | abstract: inject, retract and the user's edits as single changes of one document | |
| `ConfigFile` | the system calls that implement it | `AtomicConfig` as `Atomic` |
| `Approval` | the agent's blocking call, the document, the gate | |
| `LivePane` | a pane that fetches a value and hears its changes | |
| `SpecFeed` | the MCP server's messages, the spec document, the seeded poll loop, the SpecPane | `LivePane` |
| `DiffFeed` | watcher, trigger document, `run_once`, emits | |
| `DiffPanel` | DiffFeed with the panel that shows its explanations | `DiffFeed`, `LivePane` |
| `VibeLens` | the client of the VibeLens server, and the explanation of a diff | |
| `KeyValue` | abstract: one payload per topic key, a call that takes effect at one moment | |
| `EngramStore` | the two HTTP clients and the engram daemon | `KeyValue` as `Port` |
| `PtyPath` | one PTY between its child and its terminal | |
| `SessionView` | useSession and App against the backend's sessions | |
| `*_proofs` | theorems | the modules they are about, `TLAPS` |
| `MCLifecycle`, `MCSpecFeed`, `MCVibeLens`, `MCEngramStore` | symmetric closes, the agent's messages, the diffs of a run, the kinds of daemon | the module they instantiate |

Mutants (`X_suffix` before `X`) stand beside the definitions they replace; each
is a plausible bug under which TLC finds one property violated.

### AgentStatus, HookChannel, SessionRuntime

A window or a slice of output is the set of patterns it holds (`ready`,
`dialog`), as the detectors look for nothing else; a slice holds the patterns
its bytes complete, since a read (8 KiB) is not larger than the window. Time is
`idle`, in ticks of QUIESCE (200 ms), capped at `IdleTimeout`, and counted for the
generic runner only, as Claude's detection does not read it. `loop` is the
position in `run_signal_loop`: `recv` (recv_timeout), `hook`
(emit_hook_if_present), `scrape` (emit_scraping_guarded), `eof` and `exit` (the
two snapshots of the EOF arm), `done`. `Suppressed` is the gate's table.

`hooks_active` is chosen at start: a generic agent has no hooks, a Claude
session has them unless the runtime directory cannot be resolved, in which case
the code passes the empty string. The agent fires the events `lib.rs`
provisions: Submit, Stop, Permission and SessionEnd. StopFailure is parsed by
the code but not provisioned, so no action fires it; `event_to_observed` has
it. An answer to a permission dialog fires nothing. A sidecar is read, then
write-and-rename; it may fail, or misread its prior file and start over at 1
(`SidecarMayFail`).

The close is `CloseStop` (taking the PtyState, and the stop latch), `CloseKill`,
`CloseRemove` (after the joins). `CloseAgain` is a second close, which finds no
PtyState and so removes the entry at once, while the first still joins. In this
module retracts succeed; Lifecycle is about their failing.

### Lifecycle, SpawnPanic

`spawn[i]` and `closer[c]` are positions in the two commands, which run as
asynchronous commands in any number at once. Every provisioner call and the PTY
open may fail, and then takes the source's early return or clean-up path, and so
may the deletion of the state file. A section under one registry's lock is one
step, two sections are two: the pipeline is inserted (`InsertPipeline`) before the
PtyState is (`RegisterPty`), and dropped (`CloseDropsPipeline`) before it is taken
(`CloseTake`).
Sessions have one scope or two, hence share config files or not. `Crash` kills
the app: registries and threads go, agents lose their PTY and die, files stay,
ids start over at 1. `spoiled` records the scopes where a failure or a crash
excuses a leftover entry, so that `EntriesHaveReason` blames only the paths
that did not fail.

SpawnPanic adds one action: the hydration's `get` panics, as EngramAdapter's
does on a worker of a tokio runtime. The other modules take the hydration as a
call that returns. It does with the in-memory adapter, which `lib.rs` 245-248
wires only if the adapter's runtime cannot be built; they describe the app from
there on, SpawnPanic what comes of the spawn before.

### ConfigFile

Every system call of `RealConfigFile` is a step: read, the backup's existence
test, second read, truncate and fill, then create, write, sync and rename of
`<path>.tmp`. Files are inodes, because `File::create` on a name that exists
truncates the inode another call may be holding. A power loss may tear whatever was
not synced. A document is the version of its foreign part and whether
it holds the managed entry. The loss of a rename itself (an unsynced directory
entry) is not modelled, nor is a hook command whose path changed between
versions of the app.

`Overlap = FALSE` is one caller at a time: `WritesAtomic` shows that each call
is then one change of the document, which is what Lifecycle assumes of a
provisioner call. `Overlap = TRUE` is what two commands really may do
(section 5).

### Approval

`mcp` is the MCP server, which serves one request at a time; `approve` is
approve_prompt between its get and its upsert (a synchronous command, so there
is one); `seen` is the poll reader's last content; `pane` is what SpecPane
shows. A store call may fail before or after it took effect. A decision carries
the action id the pane showed, not the call it was made for, as in the code.
The pane is mounted and listening throughout, so an event always has a hearer; the
fetch it asks for may fail (`PaneRefetchFails`), which nothing catches: the event is
spent. The ghosts `clicked`, `offered`, `missed` and `ticked` serve the properties
only.

One assumption about time is in a guard: the last poll of a call waits until
the approval loop has read the document and the pane has handled the event
(`ticked /\ ~notified`). The code polls 600 times at 500 ms and ticks every 2 s.

### LivePane, SpecFeed

LivePane is the shape SpecPane and VibeLensPanel share: an effect asks for the
value and begins to register a listener, either may finish first, a reply is
adopted only if nothing is shown yet, an event always. Cleanup sets `cancelled`,
so nothing late is adopted.

In SpecFeed a message is a record of what dispatch looks at: is it JSON, has it
an id, its method and tool, is a session named, what is the spec. Contracts are
model values; `partial` is an object that is no SpecContract (the server stores
it and says ok, the app drops it), `junk` is no object (refused). The upsert is
two requests, each of which may fail, the second after it took effect too. A
version orders what was stored, for the properties only. Session ids start
over, so a session may find the contract of an earlier one: that is what
hydration is for. Hydration's own `spec_updated` is left out, as no pane of the
session is mounted before spawn_session returns. `announced` and `fetched` are
ghosts.

### DiffFeed, DiffPanel

A diff is the version of the tree it is of. The watcher's thread stays in
`run_once` while it runs; each change the poll loop finds starts a run on a
task of its own, so runs overlap. `queued` holds paths by kind: `file`, and
`git` for git's own files, which the look at the tree may touch. `explain`
always ends with an explanation: the code pushes to VibeLens best-effort and
swallows its errors. That the push returns at all is assumed here; VibeLens
says when it does. DiffPanel composes the pipeline with the panel: its
`get_diff_explanation` reads what run_once caches, `PanelEmit` is run_once's
emit seen by the listener, and the refresh is a second fetch that is adopted
without a guard.

### VibeLens

`at[c]` is where a caller of `explain` is: in the mutex, the spawn, the write,
the wait for an answer, the drop. `proc` is npx and the server behind it with
two pipes; `outlives` is chosen at start, as killing npx need not kill what npx
started. `conn` is the reader thread and the lines it has put in `rx`. The
server is external: it answers or not, logs, sends requests of its own, garbles or
closes its output (a line of kind `end`, with which the reader thread ends whoever
is alive; `proc.unheard` remembers that the server was), stops reading, ends. `wedged` is set by the code where the model goes to `drop`; in
production nothing else reads it, since `push` drops the transport on any
error. `build_explanation` is modelled as what it does to the text of the diff:
`TextOf` prints the files as git does, each as its headers and its lines, and
`changed_files` folds `push_path` over the lines. A path is the sequence of the
pieces that " b/" cuts it into, and whether git prints it in quotation marks
(core.quotePath); `split_nth_1` is the piece the code takes of a `diff --git` line,
`NameIn` the path it takes of any line. A changed line may look like a header (an
added line `++ b/x` is printed as `+++ b/x`), and a path may come twice (a symlink
that became a file is a deletion and an addition).

### KeyValue, EngramStore

KeyValue is what `PersistencePort` promises, as the in-memory adapter keeps it.
EngramStore is how `ReqwestEngramHttp` (the app) and `ReqwestEngramClient` (the MCP
server) do it: `req[c]` is a caller's call, in `ensure` (POST /sessions), `post`
(POST /observations) or `list` (GET /observations, all rows, of which `Latest` is
the client's choice). Keys are taken up to case, as the client's filter does, and
`updated_at` is a second. The app's callers are `Patient`: their client has no
timeout. The others give up after 2 s, and what they posted moves to `late`, from
where the daemon may still do it. The daemon is external and of a kind chosen at
start: it replaces a key's row or adds one, lists the oldest or the newest row
first, refuses, loses answers, and may fall silent. Its own files and its crash are
not modelled.

`ImplementsPort` excludes the one kind that both adds rows and lists the newest first:
of two rows of a second the client takes the last of the list, which is then the
older. Approval and SpecFeed use a store of one document per key in which a
request that failed is done at once or never: the daemon handles it within its
client's 2 s, or not at all.

### PtyPath

The bytes of the child are numbered. `tty`, `rx`, `buf`, `channel`, `early` and
`screen` are the places they pass: the PTY, the mpsc, the Coalescer, Tauri's
Channel, the buffered channel and xterm. One of two terminals is chosen at
start: the login shell's (useTerminal, which spawns and kills its own PTY) or a
session's (useSessionTerminal). `main` is the app's main thread, on which Tauri
runs the commands that are not async and passes messages to and from the
webview; `main = "writing"` holds the registry's mutex through a write that
waits for a child that does not read.

The child may end, close its terminal and live on (`off`), or leave a descendant
that holds the slave side and may write (`left`): the read thread's last read
returns when nobody holds the slave. The webview may be reloaded or destroyed
(`torn`): what is sent is lost, or the send fails, the forwarder breaks off and says
`pty_exit`, and the read thread of a shell ends at its next send; a session's goes
on for the signal side.

The forwarder's interval is left out: `drain_due` compares with the time of the
last flush, and a timeout of the same interval has passed by then. React's
StrictMode, which mounts twice in development, is not modelled.

### SessionView

`session`, `ref`, `badge`, `channel` are the hook's state and App's ref;
`request` and `closes` the calls under way; `events` what was emitted and not
delivered. A status is the number of changes the session has made, since only
their order matters here; `Prompt` is the approval loop's AwaitingInput, which
passes the registry by. `overlap` records that a spawn was submitted over
another call, which the dialog does not prevent (section 5).

## 3. Runs, bounds

| run | spec | bounds | size |
|---|---|---|---|
| `session_runtime` | `FairSpec` | 2 sidecars, 2 hook events, queue of 1, idle timeout of 2 ticks, failing sidecars | 0.7 M states |
| `approval` | `FairSpec` | 2 calls, 2 action ids, 4 polls, tolerance of 3, failing store | 0.12 M |
| `lifecycle` | `Spec` | 2 sessions, 2 scopes, 2 closes (symmetric), 1 crash, failures | 3.9 M |
| `config` | `Spec` | 2 calls in turn, 2 edits, 2 power losses, failures | 0.6 M |
| `diff_feed` | `PanelSpec` | 3 trees, 2 edits, 2 triggers, 2 runs at once, failing git, 1 mount, 1 refresh | 0.3 M |
| `vibelens` | `VibeFairSpec` | 2 callers, 2 explains, 2 diffs (a quoted path, " b/" in a path, a rename, a type change, a look-alike line), 2 lines under way | 0.55 M |
| `spec_feed` | `FairSpec` | 3 messages of 13 kinds, 2 contracts, 2 sessions, 2 mounts, failing store | 0.2 M |
| `pty_path` | `FairSpec` | 3 bytes, chunks of 2, 2 keys or resizes, input queue of 1, 1 webview that goes | 0.36 M |
| `session_view` | `FairSpec` | 2 submits, 2 closes, 1 change each, 2 events under way | 0.3 M |
| `engram_store` | `StoreFairSpec` | 2 callers, 1 key, 2 payloads, 3 calls, 2 seconds, a daemon that may fall silent | 0.3 M |
| `config_overlap`, `spawn_panics` | | the smallest instance that shows it | |

Why the bounds are enough. Two sidecars overlap in every way two can, and a
third adds no new kind of race on one slot. Output is unbounded in
SessionRuntime: only hooks are counted. A queue of one overflows as soon as the
loop lags by a slice. Two idle ticks tell "quiet" from "timed out" (the code
has 15). Two approval calls give a stale pane, a repeated action id and a
request overtaken by the next. Two sessions and two closes give every pair of
commands that meet, two closes of one session among them. Inodes: one live, one
temporary and one more for the user's replacement. Two runs of the pipeline are
the two that race for the slot; two edits make A-B-A and a tree that becomes
clean. Two explains are a call and the next on the same or a fresh child, by
the same caller or another. Three messages store a contract, another and the
first again; two mounts meet a loop that is seeded and one that is not. Three
store calls are two upserts of a key and a get, two seconds give rows of the same
second and of two; that a call keeps to its key is proved for any keys. Three
bytes are a full chunk and a remainder. Two submits are a session and the next,
or a double click. Counters are bounded by guards, and every bound is a named
constant. CHECK_DEADLOCK is off in every run, as a session that is closed, or
an agent that has made its calls, rightly stops.

## 4. What is checked

Session (`session_runtime`):

- `HookVerdictStands`, `DialogNeedsPermission`: with hooks, scraped output never
  overrules the last Submit or Stop, and never asks for input by itself.
- `ExitReachesTerminal`: the loop ends after EOF, in a terminal state unless a
  Claude window still shows dialog text.
- `ConsumedAtMostOnce`: a hook event is applied at most once, even when the
  counter starts over.
- `FollowsLifecycle`: SessionRuntime implements StatusLifecycle.
- `CaughtUpTellsTruth`, `PromptSettles`, `SessionEnds`: whatever became of the hooks
  before, the status is what the agent does once its newest hook is read; a prompt
  that rests is shown Idle for good, unless its Stop was lost or hides behind the
  counter of an earlier hook; a dead agent is noticed and a close ends, also when a
  second close has removed the entry from under it.

Lifecycle (`lifecycle`): `AgentHasOwner` (no agent nobody could kill),
`RegistriesAgree` (PtyRegistry and pipelines part only while a command is between
their two locks, what is in either is a listed session's, and no listed session is
a phantom), `EntriesHaveReason`, `NoStaleVerdict` (the sweep before the loop starts).

Config (`config`): `WritesAtomic` (ConfigFile implements AtomicConfig, with
failures and power losses), `BackupPreSpectty` (a file that was the user's is
backed up before it is changed, and the backup is from before Spectty).

Approval (`approval`): `AnswersAreClicks`, `NeverReResolved`,
`DecisionDelivered` (a decision written while enough polls are left to sit out
an outage is told to the agent, or the outage is), `TimedOutWasOffered` (an
agent told "still pending" had its request in the pane, unless the pane's one fetch
for it failed or an earlier call asked for the same action).

Spec (`spec_feed`): `RepliesTellTruth` (ok means stored, an error code means
untouched), `BackOnlyOverFetch` (the pane goes back to an older contract only
over its fetch), `PaneCatchesUp` (with the one exception the code has: a
contract announced before the listener was there, whose fetch failed or was
older).

Diff (`diff_feed`): `EmitsInOrder`, `EditsAreExplained` (generic tier),
`QuietWhenUnchanged` (no self-trigger), `LoopsEnd`, `PanelCatchesUp` (with the
refresh and the early emit excepted, as the code has it). `EmitsInOrder` also
says that the in-flight flag is set exactly while a run holds the slot.

VibeLens (`vibelens`): `NoServerLeft` (no server without a transport, but one that
had ended its output and outlived npx), `ExplanationFitsDiff` (lines counted, no name
twice, each path named that is not quoted and that a header gives whole, and
exactly the changed files, in order, if all paths and lines are plain), `OkMeansShown`
(a server that sends no request of its own is never believed about another
request), `HangsOnlyInIO` (the deadline ends every call but a write to a deaf
server and a join on an output held open).

Store (`engram_store`): `ImplementsPort` (EngramStore implements KeyValue, though a
get is a list, a filter and a maximum over timestamps), `CallsEnd` (a call ends, unless
it is the app's and the daemon is silent).

Terminal (`pty_path`): `NothingLost` (every byte once and in order at every
moment, and `pty_exit` only after the last, as long as there is a webview),
`OutputShown` (also when the child falls silent), `TearDownFinishes` (a close
returns and a shell dies, but for a write that blocks or a descendant that holds
the slave; once nobody holds it every join returns).

View (`session_view`): `OneSessionShown`, `AgentsReachable` (no agent without a
Close button), `StatusReachesBadge`.

The type invariants are invariants of a run or conjuncts of one, but those of
ConfigFile, SpecFeed and EngramStore, which are theorems (section 6).

### Fairness

- Threads that are in a loop are scheduled: `LoopStep`, `ReadCheckStop`,
  sidecars, `RunStep`, the poll loops' ticks, reader and forwarder, commands
  once invoked.
- `ReadEof` of SessionRuntime has strong fairness. The reader may return bytes
  any number of times before it, but what a dead process left in the PTY is
  finite.
- The webview's event loop turns: handlers, renders, registrations, replies.
- A poll loop whose document has changed reads it some time: a failed get does
  nothing, so it is no step, and `Tick` is weakly fair. The pane's one fetch may
  fail; `PaneCatchesUp` says what is shown then.
- The deadline of a VibeLens call passes. The VibeLens server, the PTY's child
  (but that it reads as long as it reads at all), what that child leaves behind, the
  agent, the user, the kill of the app, the webview's end, failures and edits owe
  nothing.
- A store client goes on when it has its answer, or when its 2 s are up if it has a
  timeout; a daemon that is not silent handles what it was sent. Nothing makes a
  silent one speak, nor the daemon do what was given up.
- `BusStop` is weak: a shutdown that was sent stays readable, and the loop
  returns to its select after each tick.

## 5. Disagreements between code and its documents

Two runs end in a violation, each of what a comment of the code says:

| run | property | what happens |
|---|---|---|
| `config_overlap` | `LiveIsWhole` | two calls share `<path>.tmp`; the rename installs a truncated file |
| `spawn_panics` | `FailedSpawnLeavesNothing` | a panic in the hydration of a provisioned spawn leaves the session listed, its entries in place and an agent without a PtyState |

Others were met while reading, and are left out of the properties by the
exceptions these name:

- Overlapping sidecars write the same counter; the newer event is never read
  (`spectty-hook/src/main.rs` 163-166).
- EOF with dialog text in the window leaves AwaitingInput or Starting
  (`session_runtime.rs` 296-298).
- A retract that fails returns before the session is removed (`session.rs`
  344-345); a second close finds no PTY state and removes the entry while the
  first still kills (323 orders them the other way).
- approve_prompt overwrites a request registered since its get (`spec.rs` 277-278).
- A trigger that meets a run past its git read is spent (`diff_pipeline.rs` 137-138).
- With an absent original, the second write backs up a file that has Spectty's
  entry, and a crash between truncating and filling the backup leaves it empty
  for good (`file_io.rs` 7).
- The watcher is dropped after the join, not before (`file_watch/mod.rs` 82).
- An npx that is killed need not take the server along, and the join then waits
  for its stdout (`vibelens.rs` 532-535); the write is not under the deadline (59-61).
- The spawn dialog stays enabled: two submits give the terminal the channel of
  one session and the badge another (`App.tsx` 26-34), and a late close reply
  clears the session that came after it.
- A status that comes before spawn_session's reply is dropped; the badge says
  Starting until the next.
- The MCP server tells the agent "spec not persisted" of an upsert it gave up after 2 s
  or whose answer was lost, which the daemon may have done or do later
  (`spectty-mcp/src/main.rs` 301, 361, 679-682).
- A contract that is no SpecContract is stored and acknowledged, and never shown.
- A removed line `-- x` or an added `++ b/x` is taken for a file header, and a path that
  git quotes, or that holds " b/", is named wrongly or not at all
  (`vibelens.rs` 85-113: each file is listed once).
- A VibeLens server that has closed or garbled its output ends the reader thread; if it
  outlives npx, the drop joins at once and leaves it running (`vibelens.rs` 419-439).
- The pane's fetch for an AwaitingInput that fails is caught nowhere
  (`SpecPane.tsx` 99-103), and the loop never announces that content again: the
  request times out unseen.
- The panel's refresh adopts its reply unguarded, over a newer explanation
  (`VibeLensPanel.tsx` 96).
- git that fails in the last run after an edit leaves it unexplained until the next
  (`diff_pipeline.rs` 180).
- A generic agent that is silent for the idle timeout is finished for good, though it
  runs (`agent/generic.rs` 68).
- "Killing the child closes the slave" (`pty_state.rs` 101-102): a descendant may
  hold it, the join then waits for it, and in `pty_kill` the main thread with it.

## 6. Proofs

TLC's runs are of small instances; the theorems below hold for every value of
the constants. Each `*_proofs` module has one inductive invariant, one lemma per
action (or per group of actions that disturb the same part) and, under it, one
step per conjunct. The constants' assumptions are the named ASSUMEs of the
modules: bounds are natural numbers, flags Booleans, and sentinels are none of
the values they stand beside.

- `SessionRuntime_proofs`: `Invariance` of `SessionInv` (the type invariant,
  HookInv, and what the loop has read and owes: `RunnerFacts`, `EofFacts`). From it
  `TypeCorrect`, `AtMostOnce`, `VerdictStands`, `DialogOnlyByHook`,
  `EofIsTerminal` and `Refinement` to StatusLifecycle, with
  `TransitionFollowsArrows` and `TerminalIsFinal` about the policy itself. The module begins
  with the hook channel alone, `HookAtMostOnce` for any number of sidecars and events:
  counters may repeat, invocations do not, and `HookInv` says which invocation is in
  which sidecar, that no two hold the same, and what the state file can still hold
  (`SidecarsFresh`, `SidecarsDistinct`, `FileHistory`); `RuntimeUsesHookChannel` carries
  it over. `CaughtUpIsTrue` follows the newest event from the sidecar that
  carries it to the file (`NewestIs`), however many others overlap or fail.
- `Persistence_proofs`, config files: `ConfigTypeCorrect`, `BackupIsFirst` and `WritesAreAtomic`
  under the hypothesis `~Overlap`: ConfigFile implements AtomicConfig, in
  which only the rename and the user's edit are steps. `ConfigInv` ties what a
  call has read to the file (`CallKnows`) and says the live file is never a torn
  one (`LiveIsSafe`). Without the hypothesis it is false (section 5).
- `Persistence_proofs`, the store: `StoreTypeCorrect` and `IsPersistencePort`, for any
  number of callers, keys, calls and seconds, under `GoodDaemons` (none both adds rows
  and lists the newest first). `StoreInv` says what makes the client's choice right:
  a daemon that replaces rows has one of each key (`OnlyRowIsLatest`), one that adds
  them has its newest last (`RowFacts`). `UpsertTakes` is the heart: handling an upsert
  changes what a get would choose for its key, and for no other. The steps then map
  to KeyValue's one by one.
- `Lifecycle_proofs`: for any number of sessions, scopes, closes and kills of the
  app, `NoOrphanAgent`, `NoPhantomSession`, `EntriesAreOwned` and `VerdictsAreFresh`.
  The four need each other and two more facts: what the position of a spawn
  says of registry, config and state file (`SpawnFacts`), and that a close is of a
  session that came up, which has no pipeline after the first step and no PtyState
  after the second (`CloserFacts`). The lemmas `ReasonKept`, `ListingKept`, `PtysKept`
  and `StillHeld` say what a step must leave alone for the others' claims to survive.
- `Approval_proofs`: `OnlyClicksAnswer` and `DecisionsStand`. The point is what
  approve_prompt may hold between its get and its upsert: the document of a call that is
  pending yet, or that a later call has overtaken (`ReadFacts`). So its blind
  overwrite may undo a registration (section 5), never a decision. `PendingWasOffered`
  is `TimedOutWasOffered`: until the pane has held a request that is the first of its action, the
  loop has yet to see it, its event is to come, or its fetch failed (`OfferFacts`).
- `SpecFeed_proofs`: `TypeCorrect` (the reader's revision is at most one above the
  number of versions stored), `ToldTheTruth`, as the server is the document's only writer, and
  `NeverBack`, as versions only grow on their way from the store through the
  loop's change and the event queue to the pane (`VersionFacts`).
- `DiffPipeline_proofs`: `PanelInStep`, from the mutual exclusion of the runs
  (`OneHolder`) for any number of them. `PanelObserves` shows that the panel only
  observes the pipeline, so `PanelKeepsStep` carries the invariant to DiffPanel, where
  the run checks it.
- `Pipes_proofs`, the terminal: `OutputIsKept`, for any number of bytes. The places a
  byte passes form one line from the child to the screen; each step takes from the
  front of one and puts at the end of the next. What a place holds is a run of
  consecutive numbers, and a few facts about sequences of those, proved by
  well-founded induction on their length, do the rest. A webview that goes does not
  come back (`TornStays`), and until then the line has no leak (`OrderKept`).
- `Pipes_proofs`, VibeLens: `VibeInvariance` says who holds the lock in which step, what
  transport, child and ids are then, and that a server without a transport was not
  heard to the end (`TransportFacts`); `NoServerIsLeft` follows, and with what a line
  in `rx` may answer (`AnswersFit`) `OkIsShown`, for any number of callers and explains.
- `Pipes_proofs`, the explanation: `ExplanationIsOwn`, for any diffs of any number of
  files and lines. That `changed_files` and `count_changes` are right is `ExplanationFits`,
  an induction over the files of a diff (`NamesFit`, `CountsFit`) and, in each, over its
  lines (`ChangedSection`): the text of one file more is the text so far and a section
  (`TextAppend`), whose headers add the names that can be read of them (`HeaderNames`,
  `NamesStep`) and whose lines add themselves to the counts (`ChangedLinesAppend`); the
  names are those that the lines give (`ChangedNames`), so a path that one header gives
  whole is named whatever the others do (`FileNamed`). That each caller holds what was built
  from its own diff is then one fact about `job` (`OwnKept`, `OwnStep`).
  `DiffsAssumption` asks only that a diff is a sequence of files and that the
  quotation mark is no piece of a path.
- `SessionView_proofs`: `OneSession` and `EveryAgentReachable`, for any number of
  submits, closes and events in any order. A spawn under way is the only call
  (`SpawnAlone`), every close is of the session whose terminal is there and kills before
  it returns (`CloseFacts`), session_closed is of a session without PTY (`EventFacts`).

Model-checked only: every liveness property (`PromptSettles`, `SessionEnds`,
`DecisionDelivered`, `EditsAreExplained`, `QuietWhenUnchanged`, `LoopsEnd`, `PanelCatchesUp`,
`HangsOnlyInIO`, `PaneCatchesUp`, `OutputShown`, `TearDownFinishes`, `StatusReachesBadge`,
`CallsEnd`), as liveness under fairness and ENABLED are out of the prover's reach.
Every invariant and every action property of a passing run is a theorem. The library's
induction theorems take an operator as parameter, which no installed prover can
instantiate; where an induction is needed (sequences of bytes, the files and lines of a
diff) Pipes_proofs has it by hand, from the least counterexample in a well-founded
set. Of ConfigFile with overlapping calls there is nothing to prove: the refinement
fails (section 5).

## 7. Not modelled

- In SessionRuntime: a retract that fails (Lifecycle has it), and a descendant of the
  agent that holds the PTY's slave after it (PtyPath has it): its EOF comes once the
  agent is gone. Taking the PtyState and latching stop are one step.
- In PtyPath: a read error of a slave that is held; a second PTY.
- git options that change the prefixes `a/` and `b/`, and paths with blanks at their
  ends.
- After a respawn of VibeLens, what became of an older server that was left running.
- A file watcher that fails to start (the session then has no generic trigger).
- Poisoned mutexes; a sweep that fails for another reason than a missing file.
- The engram daemon's own storage, its crash and its restart: it is external, and
  EngramStore takes its rows as kept. A late write under Approval and SpecFeed:
  EngramStore has it, those two take a request as done within its client's 2 s or never.
- JSON-RPC framing beyond "is it JSON, has it an id", and HTTP.
- Code without a production caller: task transitions, `apply_progress`,
  `may_begin_edits`.
- React's StrictMode double mount (development only); window sizes; the child's
  environment; `pty_kill` of a session's id, which no caller in `ui/` makes.
- What the stub tools acknowledge (status, cost); they have no effect.
- Data types and their serialization, rendering, layout, the wiring in `lib.rs`,
  the clock and the choice of the runtime directory, build files and scripts.

## 8. State of the plan

Done, in this order: the status policy and the hook channel; the session runtime
and its refinement; the lifecycle; config files and their refinement; approval; the
diff pipeline; then the spec feed, the panes, VibeLens, the PTY path, the session's
view in the UI, the panic of the hydration; the store and its refinement; proofs of
every safety property that a passing run checks.

Next: late writes under Approval and SpecFeed; Lifecycle as the composition of the
session's parts, with the close's stop of both poll loops.

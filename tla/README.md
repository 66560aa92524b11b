# Formal models of weditor and of Zed

TLA+ models of the two programs in this tree that keep state of their own:
weditor, the browser editor under `src/src` (`stores`, `lib`, `components`), and
Zed, the native editor under `src/zed/crates`. TLC configurations check the models on
small instances; TLAPS proofs establish results for every instance. Paths of
weditor are given from `src/src/`, paths of Zed from `src/zed/crates/`.
`Claudix/` is a VS Code extension, `dist/` and `public/` are build output.

## The system

### weditor

A whole project runs in the browser tab. Three stores hold its state:

| Component | State | Operations |
| --- | --- | --- |
| Editor panes and tabs (`stores/workspace-store.ts`, `TabBar.tsx`, `EditorPane.tsx`) | `panes` (tabs, active tab, history with cursor), `activePaneId`, `maximizedPaneId` | open, close, activate, reorder, move, split, maximize, back/forward, close others/left/right/all, delete a file |
| Split layout tree (same store) | `splitLayout`: leaves and row/column splits | `insertAtLeaf`, `removeLeaf`, `cleanupTree`, `collectPaneIds` |
| Project lifecycle (same store, `app/page.tsx`) | `currentProject`, `showHomeScreen`, `projects`, `_bootGeneration` | `openProject`, `openTemplate`, `importFromShare`, `goHome`, `deleteProject` |
| Nodepod instance store (`stores/nodepod-store.ts`) | `instance`, `booting`, `isDirty`, `_vfsWatcher`, `_vfsDirty`, `_cachedSnapshot`, `_snapshotTimer` | `boot`, `teardown`, `saveSnapshot`, `getShareUrl`, watcher and timer callbacks |
| Snapshot database (`lib/data-persistence/snapshot-db.ts`) | IndexedDB: one snapshot per project | get, put, delete |
| Editor files and VFS operations | `openFiles`, `files` tree | asynchronous loads, create, rename, move, delete |
| Layout persistence | localStorage: project list, a layout per project | deferred writes, restore after boot |
| Key binding dispatcher, extensions, AI agent, terminal, teams, settings, themes, marketplace, share links, proxy, UI | see `PROJECT.json` | not modelled |

A user action is a synchronous handler, possibly followed by awaits.
`openProject` increments `_bootGeneration`, makes the project current, tears down the
instance and boots a new one; everything after an await runs interleaved with later
user actions, `fs.watch` callbacks, the 30 s snapshot timer, animation frames (a
snapshot is taken in one) and IndexedDB completions. The nodepod store reads
`currentProject` back when it continues, so the two stores are coupled through
shared state. There is one thread: interleaving happens at awaits and callbacks only.

### Zed

Zed's foreground executor is one thread too: an `async` task runs from await to
await, and a `Task` that is dropped stops at the await it is in. Background tasks
compute on snapshots and hand their results back. What runs concurrently is at
least two of: tasks of the foreground, a background computation, another process
and another machine.

| Component | State | Operations |
| --- | --- | --- |
| Remote session channel (`ChannelClient` in `remote/src/remote_client.rs`, `start_server` in `remote_server/src/server.rs`) | `next_message_id`, `max_received`, `buffer`, `response_channels`, the server's outgoing queue | send, answer, acknowledge, flush, resync after a reconnect |
| Remote connection (`RemoteClient`, same file) | `State` and the tasks inside it, `missed_heartbeats` | open, heartbeat, monitor the proxy, reconnect, shut down |
| Text buffer replication (`text/src/text.rs`, `undo_map.rs`, `operation_queue.rs`, `clock/src/clock.rs`) | fragments, version, Lamport clock, undo counts, deferred operations, history | edit, undo, redo, apply operations |
| Language server client (`lsp/src/lsp.rs`, the document part of `project/src/lsp_store.rs`) | `next_id`, `response_handlers`, two outgoing queues, two I/O tasks | request, notify, time out, cancel, shut down |
| Action log (`action_log/src/action_log.rs`) | a `TrackedBuffer`: diff base, unreviewed edits, diff, version; `last_reject_undo` | agent's read/create/edit/delete, keep, reject, undo of a reject, `maintain_diff` |
| Agent turns (`acp_thread/src/acp_thread.rs`, `agent/src/thread.rs`, `agent/src/agent.rs`) | entries, `running_turn`, `turn_id`; messages, `pending_message`, tools | send, stop, replace, stream, run tools, authorize, refuse |
| Editor, workspace, project stores, worktree, syntax, gpui, collaboration, settings, terminal, debugger, extensions, providers, vim, start-up | see `PROJECT.json` | not modelled |

How they interact. `RemoteConnection` decides when a connection is replaced;
`RemoteChannel` says what happens to the messages then. Both are about one
`RemoteClient`, and each takes the other's part as an input: the channel's
reconnects come whenever a connection is down, the connection's resync succeeds or
times out. Replicated buffers exchange their operations as messages of such a
channel (or of the collaboration server), which is why operations may come twice
and out of order. The action log subscribes to a buffer and diffs it; the agent's tools are
its callers. The language server is told of every edit of the buffer.

### What is hard

Continuations that run after the state they were started for is gone; one flag,
timer or cache shared by several flows; tree surgery and index arithmetic under long
sequences of legal clicks; failing boots and storage; messages lost with a
connection or overtaken after it; three independent detectors of a dead host;
concurrent edits and undos; a diff stored over the state it was computed from;
turns that go on after they were replaced. `PROJECT.json` lists these under
"hazards", each at its line.

### What makes each part correct

- panes: the layout shows exactly the existing panes, in order; a pane shows one of its
  tabs; no strip holds a tab twice; the history cursor stays in range; a tab is not lost by
  moving it;
- lifecycle and instance store: one live instance, one boot at a time; the project on
  screen gets an instance with its own files; a snapshot is stored under its own
  project and follows edits;
- remote session: every message is handled and every request answered by the other
  side's answer to it, although the connection drops; a connection in trouble recovers
  or is given up, its owner is told once, and nothing it started stays behind;
- buffers: copies that have seen the same operations are equal; undo brings the text back;
- language server: a response goes to its request, edits arrive in order, nobody waits for
  a process that is gone;
- action log: what the agent changed is up for review until it was kept, rejected or
  committed, and nothing else is;
- agent: one turn at a time, each tool use with one result, an honest status.

## Modules

| Module | Models | Notes |
| --- | --- | --- |
| `PaneOps` | one pane: `pushHistory`, closing, moving and placing tabs | pure operators |
| `PaneBoard` | all panes, focus, maximizing; one action per store function or drop handler | the split tree is abstracted to the sequence `order` of its leaves |
| `SplitTree` | the tree and its recursive surgery | recursive functions on the nodes of bounded depth |
| `SplitLayout` | `PaneBoard` composed with the tree: each handler also performs its tree surgery | relates the tree to `order` |
| `ProjectSession` | opening, leaving, saving, sharing and deleting projects across workspace store, instance store and database | one action per synchronous stretch of code |
| `RemoteCalls` | what a remote session promises: messages are handled, requests answered | abstract specification |
| `RemoteChannel` | the two ends of the channel over connections that drop | refines `RemoteCalls` |
| `RemoteConnection` | the life of the connection itself | |
| `ReplicatedBuffer` | copies of a text buffer | |
| `LanguageServer` | client, queues, I/O tasks and the server process | |
| `ActionLog` | one tracked buffer, its users and the diff task | |
| `AgentTurn` | the view's and the agent's thread of one conversation | |
| `PaneBoardProofs`, `ProjectSessionProofs`, `RemoteConnectionProofs`, `RemoteChannelProofs`, `ReplicatedBufferProofs`, `LanguageServerProofs`, `ActionLogProofs`, `AgentTurnProofs` | theorems | see Proofs |
| `MC...` | TLC's constants and symmetries | |

Definitions called mutants in the modules ("a mistake the properties must notice") are
not part of any specification: each is a plausible wrong version of the operator
after it, used to see that a property notices the difference.

### PaneOps, PaneBoard

`panes[p]` is the record `PaneState` of the store: `tabs`, `activeTab`,
`tabHistory`, `historyIndex` (from 0, as in the source). Show a tab is the
spread `{...pane, tabs, activeTab, ...pushHistory(pane, path)}`: when the path is
under the cursor already, `pushHistory` returns the pane itself and the last
spread restores the pane's old `tabs` and `activeTab`; `Show` models exactly
that. Contents of files are left out: a file is its tab id. The keymap tab is a
tab of its own, as the source has an action that toggles it.

A drag and drop is one action although `handleDrop` calls several store functions
(`moveTabToPane`, then `reorderTab`): they run in one event. Ids from `puid()`
are never reused, so pane ids are numbers handed out in order. `setActivePaneId`
and `toggleMaximizePane` check nothing: `PaneRefs` includes the ids of the active
and of the maximized pane even when that pane is gone. `deleteNode` of a folder is
the deletion of its files one after the other. `renameFile` and `moveNode`, which
rewrite tab ids in place, are left to `EditorFiles`.

Bounds: `MaxPaneId` (ids handed out), `MaxHistory` (entries of a history; a step
that would grow one further is disabled).

### SplitTree, SplitLayout

A node is a leaf with its pane or a row/column with children; sizes and node ids
are left out (the source finds leaves by `paneId`). Every handler that adds or drops a
pane applies `insertAtLeaf`, `removeLeaf` and `cleanupTree` in the order the source
does. `splitActivePane` splits to the right or to the bottom only, a drop in any of
the four zones.

`NodesTo[d]` are the trees with at most `d` splits above a leaf, and the source's recursive functions are
functions on `Node`, those of depth `MaxDepth`. The bound takes nothing away: a tree in normal form with `n` leaves is at
most `n - 1` deep, so with `LayoutAssumption` (`MaxPaneId <= MaxDepth`) no split is ever refused for its depth,
which the proof shows too (`DepthBound`, `FewPanes`).

### ProjectSession

Every open has a number, `_bootGeneration`, and runs as a *flow*: the code up to
the first await is part of the user's action, each continuation is an action.

| Position of a flow | Code | Action that ends it |
| --- | --- | --- |
| `saving` | `importFromShare` awaits `saveSnapshot` | `FrameThrows`, `PutDone`, `PutFails` resume it with `TeardownAndBoot` |
| `booting` | inside `Nodepod.boot` | `BootDone`, `BootFails` |
| `loading` | awaits `loadProjectSnapshot` | `GetDone` |
| `restoring` | awaits `instance.restore` | `RestoreDone` |
| `refreshing` | awaits the walk of the file tree | `RefreshDone`, which sets the watcher |
| `sharing` | import: restores the shared snapshot, then saves | `ShareRestored` |
| `done` | returned, or gave up at the generation check | |

Instances are named by the flow that booted them; `alive` holds those not torn
down. A file system is abstracted to whose files it holds and how many edits they
have seen (a template is edit 0), which is what the properties tell apart.
`frames` holds the saves and shares that wait for `requestAnimationFrame`, `db` the
requests sent to IndexedDB, both served in order: frames fire in order, and requests to one
object store are served in order of their transactions. `saveSnapshot` reads
the instance and the project when it is *called*, and whether its cached snapshot
is still good; the snapshot is taken when the frame fires. `teardown` clears the
watcher, the timer, the dirty marks and the cache.

`Disturbances` is what the environment adds to the calm case: `keyboard` (keys reach
the page under the loading overlay), `shareLink` (the page was loaded with `?share=`,
and the link is decompressed at any later moment), `shareButton`, `slowFrame` (the
user acts before a waiting save got its frame), `bootFailure`, `storageFailure`.

Assumptions worth knowing: `fs.watch` on an instance that was torn down does not
throw; an instance torn down takes no files; a fresh project id (it holds the time)
is used by nothing yet; a frame's snapshot is a consistent read. The Save button's own `saving` flag,
server ports, the startup command and the debounced refresh of the tree change
nothing the properties speak of and are left out.

Bounds: `MaxOpens` projects opened, `MaxEdits` edits a file system has seen,
`MaxPending` saves under way when the user asks for another.

### RemoteCalls, RemoteChannel

| Source | Model |
| --- | --- |
| `next_message_id`, `max_received`, `buffer`, `response_channels` of each side | `nextId`, `maxReceived`, `buffer`, `waiting` |
| the unbounded channel into which the server's session sends, and the connections it writes to | `outbox`, `Transmit` |
| bytes under way | `wire` (kept in order: the transport is a pipe) |
| `send_buffered`, `send`, `request` | `SendBuffered`, `Send` |
| one turn of the loop of `start_handling_messages` | `Receive`: acknowledge, then `ReceiveControl`, `ReceiveAnswer` or `ReceivePayload` |
| the barrier that `request`'s future drops | `Barrier` |
| `reconnect` and `resync` | `Reconnect`, `Resync` |

A drop cuts what is under way at any point, on each side by itself. Zed's own queue is
replaced together with the connection, so that what Zed sends while the connection is
down goes only into `buffer`; the server's queue outlives it. `sent` and `received` are history.
The refinement maps what was sent, received and is still waited for to the sets of
`RemoteCalls`: `KeepsPromises` says that every step of the channel is a step of that
specification or leaves it alone, that is, an answer ends only the request it was
given to, after the other side had handled it, however often either is sent again. Each side's own
code sends up to `MaxSends[s]` messages or requests. Zed's has a client only once the server has
started (`remote_client.rs:439`); the server's makes requests only on behalf of Zed's, but its stores send
notices whether or not Zed has been heard of (`agent_server_store.rs:558`, one second after the start, and `:474`,
when the registry or the settings change), so that message 0 may be such a notice (`CanSend`, `Early`). `ChannelSound`
says what becomes of it: without a drop nothing is lost, and one drop loses that message at most, because a side that
has received nothing acknowledges the number 0. `Settles` says that all other messages arrive. Left
out: streams of responses, messages without a handler, the protobuf encoding.

### RemoteConnection

`state` is `RemoteClient.state` with the fields the control depends on; a state owns
its tasks, so that leaving it drops them (`heartbeat' = "none"`). `missed` is the count in
`State::HeartbeatMissed`, `missedCount` the heartbeat task's own. The positions of
`RemoteClient::new`, of the heartbeat's `select` and of the reconnect task are the values of
`opening`, `heartbeat` and `task`. `heartbeat = "idle"` is the task after the `continue` of line
794, whose keepalive timer has been consumed. The transport (ssh, wsl, docker), authentication and
platform detection are inputs that succeed or fail. The pool of connections is left out. The reconnect task is
detached and outlives a shutdown: its proxy, its failure or its late connection then meet a client without
a state, or none at all, if nobody else holds the client; the monitor of its proxy may still say that the
server is gone.

### ReplicatedBuffer

A fragment of the source is a run of characters; the model keeps the characters, each
with the edit that inserted it, its deletions and the `visible` flag the code caches.
`LocalStart`/`LocalEnd` and `RemoteStart`/`RemoteEnd` are the walks of `apply_local_edit` and
`apply_remote_edit`; both find their place through the summaries of the cursor, which count the
characters shown (`ShownTo`), or shown at the version of the edit (`SeenTo`), up to a fragment, so that
`BehindShown` and `BehindSeen` are the places where the cursor stands. `Replace` is what both do between
start and end. A message of operations is applied by `ApplyOps`: `Receive` applies or defers each
operation in turn, with the deferred replicas of `apply_ops` (`waiting`), and one `flush_deferred_ops`
goes through the queue in its order (`InOrder`). Every operation made stays deliverable, so
that delivery is in any order and any number of times. `RemoteStart` orders concurrent
insertions by Lamport timestamp as the code does. Locators and the balanced trees implement the order of fragments
and are not modelled; so are edits of several ranges at once, anchors, branches,
`undo_to_transaction` and transactions by hand.

### LanguageServer

`requests[q]` follows the future of one call of `request_internal_with_timer`: waiting,
answered (the response is in its channel), then done, timeout, reset, failed or dropped.
Requests go to `outbound` at once, notifications through `notifications` and `Serialize`, as
in the source. `Handle`, `Answer`, `Hang` and `Exit` are the server process, which is external and
only assumed to read its stdin in order and to apply changes when it reads them. The document is the number of edits; a
change carries the edit that leads to that number. The shutdown request uses a counter of its own,
which starts at the value of `next_id`; a request made later is given the same id, replaces the handler of the
shutdown request and may be handed its response. `AnsweredByOwn` allows this and no other mix-up. Left out: `initialize`, requests and notifications from the
server, workspace folders, registration of capabilities.

### ActionLog

Lines hold values that say who wrote them; lines do not touch, so that a hunk is a line, or the
whole text when base or text is empty (`Hunks`, `Differing`). `queue` is the channel to
`maintain_diff`, `job` the diff in hand: `TrackEdits` or `KeepCommitted` (the two arms of the
`select_biased`), `ShowDiff` after the background computation and `StoreDiff`. A file system event
and a buffer event are handled in the step that causes them; the diff task is the only one that lags.
`agentLines`, `reviewed` and `excused` are history: what the agent may have changed, what the user
settled, and the three circumstances under which the code does not keep its word (see
Disagreements): a keep while a diff is in hand (`kept`), a reject ahead of the task (`back`), and the
undo of a reject (`undone`). The task listens for commits from the start; in the source it does so only
once `open_uncommitted_diff` has come back (`action_log.rs:277`), and the log does not hear of a commit made
before. Left out: several buffers, linked logs, read times, telemetry.

### AgentTurn

`send[t]` is the view's send task of turn t (it waits for the task it replaces, takes a
checkpoint, prompts, and gets the response) and its continuation (`answered`). `task[t]` is
the agent's `run_turn_internal`: streaming, draining its tools, done. `flushers` are the tasks
`Thread::cancel` detaches. Events reach the view through `channel[t]`. A tool may wait for the user
(`asking`); the sender of the answer lives in the event or in the entry on view, and when it is
dropped the tool fails (`AskFails`). `Chain` is the tree of futures dropped with the
view's last stopped task. The guards of the steps a cancelled turn may be waiting for have names of
their own (`ResultReady`, `AllTaken`, `AskLost`, `EventWaits`, `ResponseWaits`), because `CancelledTurnsMove`
says that one of them holds. `Refuse` is the end of a stream whose error skips the tools: a refusal, which
cuts the history back, or the limit of tokens (`thread.rs:2850`), which keeps it and is an error to the view. Left out: retries after a failed
completion, compaction, subagents, rewinding and checkpoint restore, partial tool inputs,
terminals, and the connections to other agents.

## Runs

TLC: `tlc -config <run>.cfg <module>.tla`. Deadlock checking is off: every bound stops the
model, and users and peers may stop acting. That no task hangs while it could go on is stated by the
liveness properties and by `CancelledTurnsMove` instead.

Some invariants are conjunctions of named parts, which are defined next to them:
`StripsSound`, `TreeSound`, `ChannelSound`, `ConnectionSound`, `CopiesSound`, `HandlersSound`,
`ReviewSound` and `TurnsSound`.

| Run | Instance | Distinct states | Checks |
| --- | --- | --- | --- |
| `PaneStrip` | one pane, three files and the keymap tab, histories of 4 | 15,704 | the tab shown is in the strip, no duplicates, the history cursor is sound, a dropped tab lands beside its target |
| `PaneFocus` | two panes, two tabs, histories of 3 | 34,478 | types; a move or split loses a tab only through the history cursor |
| `SplitLayout` | up to four panes, both split directions | 28,748 | leaves of the tree = panes, in order; tree in normal form; focus goes to a dropped pane only through the maximized view; only a deletion leaves an empty pane beside others |
| `Session` | two projects, two opens, two edits, a user who waits for overlays and frames | 126,389 | snapshots stored under their own project; the project shown is the one that runs; an open gets an instance, an edit the watcher saw reaches the store |
| `SessionStorm` | same, one edit, every disturbance | 1,502,646 | types, one live instance, the booting flag tells the truth |
| `SaveRegress` | `Session` with one edit | (stops) | the finding below |
| `RemoteCalls` | each side sends one notice or request, the server also before it is greeted; one drop | 100,284 | one drop loses at most the server's early message; the refinement; every other exchange ends |
| `RemoteReconnect` | the code's own limits, 5 and 3 | 808 | the owner is told at most once, the two counts agree, no process or task leaks; trouble ends; a dead link is noticed |
| `BufferGuests` | three replicas, one base character, three operations | 307,405 | convergence; the cached flags, versions and deferred operations of each copy; undo restores |
| `LspRequests` | one request and the shutdown, two edits, a server that may hang or exit; the request at any time | 418,321 | handlers and waiters match; responses reach their request, and the shutdown's at most one that shares its id; edits in order; no wait for a dead server; shutdown ends |
| `LogReview` | two lines; one edit of the agent; two acts of user's edits, commits and disk changes; one session | 1,516,581 | only the agent's lines are reviewed, all of them are, kept ones stay kept, commits settle, rejects spare the user's lines |
| `TurnHistory` | two turns, one tool call, one stop, refusals and the limit of tokens | 4,337,468 | one turn at a time, one result per use, honest status, a cancelled turn always has a step left to take |

Why the bounds are enough to see the interesting cases.

- Panes: one pane with four tabs covers every index case of closing and dropping, and a history of
  four can be walked back, truncated and walked forward over closed tabs. Two panes are enough for
  moves and the loss of a pane in either direction; four give nested splits whose removal splices
  two levels.
- Session: two opens let a flow be overtaken at each of its awaits; the state the flows share is
  written by at most two of them at a time. `Session` was also run with three opens and one edit
  (173,302 states). Two edits tell a snapshot taken before from one taken after a later change.
- Channel: one message of each side and one drop give every cut of the messages and of the resync
  under way, an answer crossing the flush, and answers sent twice; the server's message is its early one in
  some behaviours and a later one in others. Two drops are outside: there
  the code loses other messages, too (see Disagreements).
- Connection: the code's own constants; nothing is scaled down.
- Buffer: three replicas are needed for an operation to arrive ahead of the one it depends on, from a
  third; three operations for an insert beside a concurrent one followed by an undo. Two replicas with
  messages of two operations and edits that only delete were run as well (28,249 states).
- Language server: one request beside the shutdown request gives two ids, and every order of
  response, timer, abandonment and exit. `Timed` is empty so that `ExitSettles` cannot be met by a timer; the
  shutdown request always has one. Two requests, one of them timed, without edits were run for
  `AnsweredByOwn` (2,146,521 states).
- Action log: two lines tell a hunk from its neighbour; one value of the agent is enough to be kept,
  rejected, committed and brought back while the task lags by two changes.
- Agent: two turns and one tool let the old turn's stream, tool, flush and answer come before or
  after every step of the new one.

### Fairness

`ProjectSession`: each flow's continuation, the frames, the snapshot timer and the
database are weakly fair. Promises settle, `requestAnimationFrame` and `setTimeout` callbacks
fire, IndexedDB requests end. The user is not fair. `EditsReachStore` is checked without the
share button: `getShareUrl` clears `_vfsDirty` without storing anything, and nothing promises
otherwise.

`RemoteChannel`: handlers, both receive loops, the server's writer, resync and the
replacement of a dropped connection (which `RemoteConnection` is about) are weakly fair;
drops and senders are not.

`RemoteConnection`: opening, the heartbeat's steps, the monitor and the reconnect task are
weakly fair because each is a task with a timer of its own (`HEARTBEAT_INTERVAL`,
`HEARTBEAT_TIMEOUT`, `INITIAL_CONNECTION_TIMEOUT`). Traffic, the link, the proxy and the server are not.

`LanguageServer`: both I/O tasks, the serializer, timers, futures and the steps of shutdown are weakly fair; the
server process is not, so that it may ignore a request for ever.

`AgentTurn` states fairness of tasks, views and tools in `FairSpec`, for `CancelledTurnsEnd`;
`ReplicatedBuffer` in `FairSpec`, where a missing operation is delivered some day. Both properties were
checked on instances smaller than the runs': `CancelledTurnsEnd` without stops and refusals (291,201
states), `Settles` with two replicas and two operations. Neither has a run of its own.

## Finding

- `SaveRegress`: going home between the boot and the restore stores the bare template over the
  project's snapshot (`nodepod-store.ts:206`).

## Disagreements

While modelling, these statements of the repository turned out not to hold of the code. Each is a
definition of the module, with the configuration that shows it; the runs above either check the
weaker property that does hold or leave the circumstance out.

| Definition | Start from, and change | What happens |
| --- | --- | --- |
| `ArrivingTabIsShown` | `PaneFocus` | opening the file that was just closed shows nothing, a tab dragged away and back is in neither pane: `pushHistory` returns the whole pane when the path is under the cursor (`workspace-store.ts:249`) |
| `FocusedMaximizedPaneExists` | `PaneFocus` | a maximized pane closed through its last tab stays on screen and takes the focus; `maximizedPaneId` is reset by `closePane` only |
| `WatcherOnLive` | `Session`, `MaxEdits = 1` | the tail of an earlier boot moves the watcher off the running instance |
| `SnapshotOwn` | `Session`, `Disturbances` with only `"keyboard"` or only `"slowFrame"` | an open under the overlay of another returns from `boot()` at once, and the other's files run and are saved under its id; a save that waits for its frame while another project is opened leaves the old project's files in `_cachedSnapshot`, if a torn-down instance still gives its snapshot (`nodepod-store.ts:305`) |
| `ShownProjectRuns`, `SnapshotOwn` | `Session`, `Disturbances <- LateShare` | a share link decompressed while another project boots shows that project's template under the shared name, or stores one project's files under the other's id |
| `NothingLost` | `RemoteCalls` | a side that has received nothing acknowledges 0, which is the id of the server's first message if that is sent before Zed's greeting; when the connection drops before it arrives, the server takes it for received (`remote_client.rs:1944`) |
| `OneDropLosesOnlyEarly` without `drops < 2` | `RemoteCalls`, `MaxDrops = 2`, `SPECIFICATION Spec` | after a reconnect a later message overtakes the ones flushed again; its id is acknowledged, the lower ones are popped from `buffer` (`remote_client.rs:1655`), and a second drop loses them |
| `ConnectedIsWatched` | `RemoteReconnect` | the monitor runs before the first ping is answered, when `try_set_state` has no state to change; a proxy that exits in between leaves a connected client unwatched (`remote_client.rs:477`) |
| `DeadLinkNoticed` | `RemoteReconnect` | the `continue` of line 794 skips the line that sets the keepalive timer, so that no further ping is sent until a message comes in |
| `ShutdownTimesOut` | `LspRequests`, `MaxEdits = 1` | after the timer, `shutdown` still awaits the writer, which is stuck in a pipe nobody reads (`lsp.rs:1137`) |
| `RequestsFollowEdits` | `LspRequests`, `MaxEdits = 1` | requests overtake the edits made before them, since those pass the serializer first; `editor/src/editor_tests.rs:15838` knows of it |
| `ResetMeansClosed` | `LspRequests` | a request made during shutdown gets the id of the shutdown request and replaces its handler |
| `UndoneChangesReviewable` | `LogReview`, without `SYMMETRY` | the text an undone reject brings back is taken for the user's (`action_log.rs:983`) |
| `KeepSticks` without its `excused.kept` | `LogReview` | a keep made while the diff is being computed is overwritten when it is stored (`action_log.rs:528`) |
| `KeepSticks`, `CommitSettles` without `excused.back` | `LogReview`, one line, `MaxAgent = 3`, `MaxUser = 1`, `MaxQueue = 4` | a reject puts the base's text back while changes are still queued; the task then takes the base on to one of them, and the rejected text is up for review again though it was kept or committed (`action_log.rs:819`) |
| `OnlyAgentLines`, `RejectSparesUser` without `~excused.undone` | `LogReview`, `MaxSessions = 3`, `MaxDisk = 2` | the undo of a reject brings back that the agent had emptied the file, which the log takes for the user's edit of every line (`action_log.rs:983`) |
| `RejectKeepsUserText` | `LogReview`, without `SYMMETRY` | both comparisons that guard the deletion of a created file hold although the user wrote into it (`action_log.rs:769`) |
| `FlushesOwnTurn` | `TurnHistory` | the task that cancel detaches flushes whatever is pending, by then the new turn's message (`thread.rs:2019`) |
| `StopStops` | `TurnHistory` | a stop during the checkpoint does not keep the send task from prompting (`acp_thread.rs:2512`) |
| `CanceledByUser` | `TurnHistory` | the late answer of a replaced turn marks the tool calls of the new one as canceled (`acp_thread.rs:2629`). `CancelNeedsStop`, which allows for this and for tools dropped with their stream, holds |
| `InProgressRuns` | `TurnHistory` | a stream that is refused or reaches the limit of tokens drops its running tools, whose calls stay in progress on view (`thread.rs:2491`) |

## Proofs

Checked by `tlapm`, for every value of the constants under the named assumptions
of the modules (`SessionAssumption`: bounds are natural numbers and
`NoProject` is no project; `NoTabAssumption` and `BoardAssumption`: the empty string is no
tab, the keymap tab is one, the bounds are positive; `DepthAssumption` and `LayoutAssumption`: the depth of trees is bounded by a
natural number, no less than the panes ever opened; `ConnectionAssumption`: the limits are
natural numbers, and at least one missed heartbeat is allowed; `ChannelAssumption`: the two sides differ
and the bounds are natural numbers; `LanguageServerAssumption`: the shutdown request is none of the
others and the bound on edits is a natural number; `BufferAssumption`: finitely many replicas, which are numbers, as are the bounds, and a
message holds an operation at least; `ActionLogAssumption`: at least one line, finitely
many, and the bounds are natural numbers; `AgentTurnAssumption`: at least one turn, and finitely many
tools). No theorem assumes anything else.

**PaneBoardProofs.** `BoardTypes`, `LayoutComplete`, `StripsStaySound` and `HistorySound`:
`Spec => []` of `TypeOK`, `LayoutMatchesPanes`, `StripsSound` and `HistoryConsistent`, for any tabs
and any number of panes. They need one another, so the inductive invariant `BoardInv` is
their conjunction: a strip must be duplicate-free for a closed tab to be gone from it, the
shown tab must be in the strip before a reorder for it to be there afterwards, the cursor must be
on the history for `Visited` to compare with the entry before it, and removing a pane leaves a
leaf to focus only because the leaves are the panes, each once. The proof has three layers.
Lemmas on sequences say what `Without`, `InsertAt`, `Append` and `SubSeq` do to elements and
injectivity. Lemmas on one pane say that every operator of `PaneOps` keeps a pane good.
`UpdateBoard`, `ShrinkBoard` and `GrowBoard` say that changing, removing or adding a pane keeps the
board good; then there is one lemma per action. The layout theorem also covers `ClosePane` with an
active id that names no pane any more: nothing is removed then, and the focus moves to the first
leaf. `BoardTypes` and `LayoutComplete` are about `PaneBoard`'s `order`; that the real tree has
these leaves is the next theorem.

`TreeStaysSound`: `LayoutSpec => []TreeSound`, for any number of panes. The inductive invariant `TreeInv` is
`BoardInv` with `Shape`: the tree is a node in normal form and its leaves are `order`. A step of the tree is a step
of the board (`LayoutSteps`), so what remains is the surgery, compared with what the board does to the sequence. All
of `collectPaneIds`, `cleanupTree`, `removeLeaf` and `insertAtLeaf` replace the elements of a sequence by
sequences, which the lemmas on `FlatMap` treat once: `RemoveGood` says that `removeLeaf` replaces `p` by nothing in the leaves,
`InsertGood` that `insertAtLeaf` replaces the target by two, and `DropOrder` and `BesideOrder` that this is
`Without` and `InsertBeside`. Both rest on `SplicedGood` (splicing nodes in normal form gives one, with
the same leaves) and on `CleanNormal` (the cleaning that follows finds nothing to do); that a pane is on the board
once is needed, since two leaves of one pane would both be split. Normal form is what keeps a tree from growing
deeper than the panes allow (`DepthBound`), and so from leaving the bound.

Four more theorems follow from `BoardInv`. `DropsLandBeside` (`Spec => []DropLandsBeside`): where a tab
is dropped depends on the indices before and after it leaves the strip, and `PlaceBesideLands`
goes through the four ways they can lie; `IndexUnique` is where duplicates would spoil it. The other
three are action properties. `FocusLostOnlyToAGhost`: every store function that removes the
active pane moves the focus to a pane that is left (`FocusStays`), so that only `setActivePaneId` and a
maximized pane that is gone can point at nothing. `OnlyDeletionEmpties`: no operation on a
good pane leaves it without tabs and on the board (`NoneEmptied`), but deleting the last file. `OnlyStaleCursors`:
a tab that is moved or split off is nowhere afterwards only if the receiving pane's history cursor
is on it already (`TabsKept`, `MoveResult`).

**ProjectSessionProofs.** `SessionTypes`: `Spec => []TypeOK`. `TypeOK` alone is not inductive:
a save stores under `currentProject`, which must be a project then. `Opened`
adds that once an open happened a project is current, and before that no flow, instance or frame exists.

`OneInstance` and `OneBoot`: `Spec => []OneLiveInstance` and
`Spec => []BootingExclusive`, for any interleaving of opens, imports, failures and
teardowns. The inductive invariant is `SessionInv`: besides the two,

- `Unstarted`: flows numbered above the generation are idle, so a new open does not
  overwrite a flow that is booting;
- `Awaited`: a flow that a queue entry awaits stands in front of that await, hence is
  not inside a boot when it is resumed;
- `AwaitedOnce`: no flow is awaited by two entries, so that resuming it through one
  leaves no stale entry behind which could resume it again while it boots.

The argument follows the code: `BootDone` publishes an instance only from inside a boot,
when there is none (`BootingExclusive`), and every other way into a boot goes through
`teardown`, after which nothing is alive. One lemma per action, with the four ways the queues
change (`QueuesKept`, `FrameServed`, `RequestServed`, `FlowQueued`) as lemmas of their own.
The conjuncts were first checked with TLC on the `SessionStorm` instance.

`SnapshotsStayOwn` and `ShownProjectIsRunning`: `Spec => []` of `SnapshotOwn` and `ShownProjectRuns`. These hold
for a user who waits (`Unhurried`: no keys under the overlay, no click before the frame, no
late share link; each of the three breaks `SnapshotOwn`, see Disagreements), while boots and the store may
fail and the project may be shared; the second needs that boots succeed. `saveSnapshot` reads
the instance, the current project and the cache, and stores after two awaits, so `OwnInv` adds to
`SessionInv` that these stay together:

- `LastOpen`: the last open is the current project's, only it can be booting, and the instance is its own;
- `QueuesOwn`: what waits for a frame is of the current project and instance, a put carries the
  files of the project it is for, and a get is for the project of the flow that awaits it;
- `FilesOwn`: the files of the instance and of the cache are the current project's, and what a flow
  is about to restore is its own project's.

`FramesNeedInstance` is the key: an open starts from the home screen with no frame pending, so that
nothing taken from the instance before is left when the next one comes. `OwnInv` was checked with TLC on
`Session`'s instance with these disturbances before it was proved.

**RemoteConnectionProofs.** `ConnectionStaysSound`: `Spec => []ConnectionSound`, for any number of
missed heartbeats allowed and any number of attempts. The inductive invariant
`ConnectionInv` adds what the four parts need from one another:

- `ToldForGood`: once the owner was told that the connection is gone, no monitor, heartbeat
  or attempt is left that could tell it again, which is what makes `DisconnectedOnce`
  inductive;
- `StartsConnecting`, `TaskUnusable`: while the client is being opened or a reconnect is under
  way, the state has no heartbeat that could start a second reconnect;
- `WithinAttempts`, `UnderLimit`, `ConnectedFresh`: the counters are reset on every way back into
  a state that reads them.

`AttemptGood` covers the five places that begin an attempt and `ResultGood` the two that
report a heartbeat; one lemma per task follows.

**RemoteChannelProofs.** `SessionKeepsPromises`: `Spec => KeepsPromises`, the refinement of
`RemoteCalls` by `RemoteChannel`, for any number of messages, ids and drops. A step maps to a step of
the calls or to none only in states where what is on its way was once sent, which the
inductive invariant `ChannelInv` says:

- `Queues`: everything buffered, waiting or on its way is `Legit`: a message its side's code sent, the
  greeting of a connection, a flush, or the answer to one of these two, under an id no message has;
- `Numbered`: an id is given to one message, and 0, which answers a greeting, to no request, since a
  side asks nothing before the other has started;
- `AnswersOwed`: a side answers only requests it has received, however often the channel sends
  them again.

`AsNotify`, `AsAsk`, `AsHandle` and `AsAnswer` say which change of the history is which step of
the calls, and `AsNothing` which is none; `SendMaps` to `ReconnectMaps` map each action.

`OneDropCostsOnlyEarly`, in the same module: `Spec => []ChannelSound`, for any number of messages, ids and
drops. A message is lost when it is popped from `buffer` on an acknowledgement that counts it by mistake, so the
invariant `DeliveryInv` says when acknowledgements are honest. Number 0 is the one they are never honest about,
so everything is said of the other ids (`Counted`): on Zed's side 0 is carried by the answer to a greeting
only (`Greeted`), and on the server's it may be its early message, which arrives as long as nothing has dropped
(`EarlyComes`). The rest follows the life of the channel:

- `Undropped`: each side's outgoing ids increase along buffer and pipe, start after what the
  other side has received, and leave nothing out;
- `Down`, then `ServerRestored` and `ClientRestored`: after one drop the buffers hold all that the
  other side has not received, and what each side has sent again or still has to send is
  a run of them in order, wherever the resync stands (`ResyncComes`).

`ChannelSound` speaks of what happens up to the second drop, after which the code does lose messages
(`OneDropLosesOnlyEarly` without `drops < 2` under Disagreements). The lemmas about ordered streams (appending, popping
acknowledged entries, receiving the head) are stated once for both directions.

**ReplicatedBufferProofs.** `CopiesStaySound` and `CopiesConverge`: `Spec => []` of `CopiesSound` and
`Converged`; `UndoGivesBack`: `Spec => UndoRestores`. They hold for any replicas, any length of the first text,
any number of operations and operations of any size, delivered in any order, any number of times and in
messages of any length. No replica knows of all the others' operations, so that `BufferInv` says of
each copy what it must be, given the operations made:

- `OpsSound`: with each edit go the character it was typed behind, its *origin*, and the characters it
  deleted, which are those of the document its author had (`EditSound`);
- `DocSound`: a copy that has observed version `v` holds exactly the characters `v` observes (`Made`), each
  deleted by the edits of `v` that deleted it, shown or not as `v`'s undos say, and laid out as the origins
  say;
- `Laid`: each character stands behind its origin, and all that stand in between have later
  timestamps. Two documents with the same characters laid out so are the same (`OrderAgrees`,
  `SameDocument`): of two characters in different order take the latest, and look at its origin.

`EditGood` and `UndoGood` say that a copy stays sound when an operation reaches it whose version it
has observed: the walk of `apply_remote_edit` finds the origin again (`RemoteIs`), and stops where `Laid`
wants the new text (`LaidInsert`). `GrowOps` says that the soundness of everybody else does not
mind a new operation. `ReceiveGood` and `FlushGood` follow a message through `apply_ops` and
`flush_deferred_ops`: since the queue is in the order of timestamps, one pass is enough (`StillMissing`).

For the undo, `RestoreInv` adds to `BufferInv` what each entry of the two stacks still promises: as long as
no other replica's operation came in since, the text is the one kept with the entry if the edits above
it on the stack are undone as well (`UndoGives`, `RedoGives`). `TextUnder` is the text if a given set of
edits were undone; `EditUnder` and `UndoUnder` say what an edit and an undo do to it. `OwnUndos`: nobody
undoes what another has edited, so that the operations of others change no text that is promised to
anyone.

**LanguageServerProofs.** `HandlersStaySound` and `EditsArriveInOrder`: `Spec => []HandlersSound` and
`Spec => EditsFit`; `ResponsesReachTheirRequest`: `Spec => []AnsweredByOwn`. For any
requests, made before or during the shutdown, timers, edits, and a server that may hang or exit:

- `ServerInv` (types, and which handler belongs to which waiting request) is inductive by itself, since
  the reader, timers and the writer's end all remove handlers under the one lock;
- `IdsInv` adds that no two of the program's requests share an id and that everything on its way to or from
  the server is owned by the request that sent it (`MailOwned`), wherever an abandoned request's messages
  still are. A request made during the shutdown may have the id of the shutdown request, but only one of the two
  has a handler: whoever asks later takes it over (`AskTakesId`), so that `IdsDiffer` forbids the shutdown
  request to wait beside it, and a response finds its own request or the one that has taken its place
  (`AnswersOwned`);
- `EditsInv` adds `Chain`: the edits in the serializer, the writer's queue and the server's stdin,
  read in this order, lead from the server's document to the client's without a gap.

**ActionLogProofs.** `ReviewStaysSound`, `RestAgrees`, `AgentsChangesShown`, `CommitsSettle` and
`KeptStaysKept`: `Spec => []` of `ReviewSound`, `QuietAgrees`, `AgentChangesReviewable`, `CommitSettles` and
`KeepSticks`; `RejectsSpareUser`: `Spec => RejectSparesUser`. They hold for any lines, any lengths of the
queue, and any number of agent's and user's edits, sessions, commits and changes on disk. All
rest on one invariant, `LogInv` (`LogStaysSound`), because the base, the edits on view and the
buffer agree only at rest. In between, the task goes through *stages*: stage 0 is the text of the diff it has
in hand, each queued change leads to the next, and the last is the buffer's text. `LogInv` is stated over them:

- `EndsWithText`, `BaseOfJob`: the stages lead from the diff in hand to the buffer's text, whatever was
  queued by whom;
- `Whose`: at every stage, a line that differs from the base is one the agent may have changed, and what
  the stages attribute to the user stands in the base (`Attributed`, `Grounded`); this is
  `OnlyAgentLines` carried through the pipeline;
- `WholeIsAgents`, `EditsCovered`: a hunk over the whole text, when base or text is empty, stands for
  agent's lines only, and shown edits are covered by them;
- `BaseReviewed`: what the agent wrote and nobody settled is not in the base;
- `OneRun`, `FinalSettles`: a settled line's value comes and goes at most once along the
  stages (`Steady`, `Returns`), or the task is still to settle it (`AwaitsTask`).

The lemmas follow the ways the pipeline moves: begun anew (`BeginsSound`), one more change heard
(`HeardSound`), a diff shown and stored (`ViewSound`), committed lines moved into the base (`CommittedLines`),
`TrackEdits` carrying the user's edits over (`NextBaseLines`), and a keep (`KeepSteady`). One lemma
per action follows. `LogInv` was checked on the instance of `LogReview` and by simulation on larger
ones before it was proved; that is how `excused.back` and `excused.undone` were found, both outside
the run's bounds.

**AgentTurnProofs.** `StatusStaysHonest`, `TurnsStaySound` and `UsesStayAnswered`: `Spec => []` of
`StatusHonest`, `TurnsSound` and `UsesHaveResults`, for any number of turns, tools and stops. The
first needs only that turns are numbered in the order they are sent (`SentInOrder`). The other two
share the inductive invariant `TurnInv`, since a history that is cut back, flushed and appended to
by the tasks of several turns is sound only if those tasks are where the others expect them:

- `FreshTurns`, `Prompted`: a turn that is sent or prompted has no agent's task yet;
- `CutWithin`: a refusal cuts back to the running turn's own message, which is still there because no
  other uncancelled turn can have cut (`OneTurn`);
- `UsesOwned`, `ResultsOnce`: only a turn's own drain takes a tool's result, and takes it once, so the
  pending message has one result at most for each use; `AgentMessage` adds the missing ones.

`CancelledTurnsGoOn`: `Spec => []CancelledTurnsMove`. Whatever a cancelled turn's task waits for must be able to
happen, so the further invariant `MoveInv` follows each thing it may wait for to its other end: the tools of
a task are its own and are finished, running or asking (`TasksKept`); a tool that asks is on view, or its event is on
its way to a view that listens, or the sender of the answer is gone (`WaitsAnswered`, `EventsOwn`); and a
view that listens to a cancelled turn has its stop event to come (`StopsTold`, `Listens`).

`FinishParts` says what the end of a task leaves behind, `CancelTurns` what a cancellation does whoever
asked for it, `ViewOnly` that the view's own steps leave the agent alone; one lemma per action follows.

Induction is by sets, since the induction theorems of the library take operators: a set of numbers that has 0 and,
with a number, the next one has all of them (`Induct`, from `LeastOf`; `SeqInduct` for sequences and `Append`), and the values of
a recursive function are those of any function that satisfies its equation (`PathExists`, `LevelsExist`, `CleanExist` and their like).

Only model-checked: liveness (temporal logic with fairness is out of the prover's
reach): `OpenedIsBooted`, `EditsReachStore`, `Settles`, `ExitSettles`, `ShutdownEnds`, `TroubleEnds` and
`DeadIsNoticed`. Every invariant and every action property that a passing run checks is also a theorem.

## Not modelled, and the plan

Left out for good: rendering, HTTP and conversions (marketplace, themes, share encoding, mail,
the stateless proxy worker), settings and keymap records; in Zed the editor's display maps,
ropes and sum trees (sequential data structures with random tests of their own), gpui, settings,
vim, terminals, providers, start-up. The collaboration server with its database, the worktree
scanner, syntax reparsing and closing items with a save prompt are concurrent and would come next on
Zed's side, after the parts of the modelled components named above.

Hazards known and not listed in `PROJECT.json`, because their code is not modelled yet:

- `workspace-store.ts:1071`: `deleteProject` deletes the snapshot and leaves the instance running, which may store it again;
- `workspace-store.ts:451`, `:75`: a late boot opens the layout of one project in another; layouts are written in a later task and read at once;
- `workspace-store.ts:567`, `:797`, `:904`: `openTab`'s content arrives after close, edit or rename; `renameFile` and `createFile` on existing paths;
- the models cache and session change of the AI panel, extension activation, invites accepted twice, a chord's timer against its second key;
- `agent/src/thread.rs:2593`: a retry after a delay in which the user may send or stop; `acp_thread.rs:2764`: a rewind while a turn may be cancelled;
- `workspace/src/pane.rs:1950`: items closed behind a save prompt while they move; `worktree/src/worktree.rs:193`: answers that refer to entries of an older scan.

Next, in this order:

1. The history properties of `LogReview` that fail today, in the weaker forms that hold.
2. `RemoteSession`: channel and connection composed, so that a reconnect happens when the
   connection's tasks say so.
3. Retries and rewinding in `AgentTurn`; several ranges and `undo_to_transaction` in `ReplicatedBuffer`.
4. `EditorFiles` and `LayoutRestore` for weditor: open files against close, edit, rename and
   project switch; deferred writes and restore after boot.
5. The collaboration rooms of Zed over the same promises as `RemoteCalls`.

# TLA+ models of yazi

Yazi is a terminal file manager whose core is asynchronous: nothing that touches
a disk, a child process or a plugin runs in the event loop. What can go wrong in
it is mostly a matter of order: which report arrives first, who notices a
cancellation, which of two results is the newer one. This directory models that
part of the code in TLA+, checks it with TLC on small instances, and proves the
most important properties with TLAPS for any number of tasks, workers and files.

Paths below are relative to `src/`; `scheduler` is short for
`yazi-scheduler/src`, and so on for the other crates.

- [Inventory](#inventory)
- [Modules and the code](#modules-and-the-code)
- [Properties](#properties)
- [Runs and bounds](#runs-and-bounds)
- [Fairness, deadlock and memory order](#fairness-deadlock-and-memory-order)
- [Proofs](#proofs)
- [Disagreements between code and comments](#disagreements-between-code-and-comments)
- [What is not modelled](#what-is-not-modelled)
- [Plan](#plan)
- [Running it](#running-it)

## Inventory

The event loop (`yazi-fm`) is one thread that dispatches events to some two
hundred actors (`yazi-actor`), each a short synchronous handler on the `Core`
(`yazi-core`: tabs, folders, tasks, ...). Everything slow is handed to somebody
else and comes back as another event.

| Component | State | Operations | Talks to |
|---|---|---|---|
| **Task scheduler** (`yazi-scheduler`) | the list of ongoing tasks with a progress record and a hook each (`Ongoing`, one mutex); an unbounded channel per worker pool; the channel of operations; the channel of hooks | add a task of 16 kinds, reject it, supersede a preload, cancel (user, scope, plugin), work, reduce a report, run a hook | event loop and plugins add and cancel; workers report; the application is told of completions |
| **Task handles** (`scheduler/handle.rs`, `status.rs`) | an atomic status, a `Notify` | compare-and-swap to start / succeed / fail / cancel; wait | workers, list of tasks, plugins that await a task |
| **Directory sizes** (`scheduler/size`, `yazi-shared/src/throttle.rs`, `yazi-core/src/tasks/prework.rs`) | the set `sizing`, a throttle per batch, `Entries::sizes` | ask for the sizes a pane lacks, measure, hold back and flush, update the pane | panes, scheduler |
| **Preloading and fetching** (`scheduler/preload`, `scheduler/fetch`, `scheduler/loaded.rs`, `prework.rs`) | bits per file signature, the last preload of each file | page through files, run, retry, clear a bit in a hook | panes, plugins, scheduler |
| **File watcher** (`yazi-watcher`) | per directory: busy, dirty, forced, stream; watched paths | load, refresh, sync the set of watched directories, collect what a poll or an OS event says | tabs ask, folders receive parts |
| **Folders and entries** (`yazi-core/src/tab/folder.rs`, `yazi-fs/src/entries.rs`, `op/`) | stage of loading, ticket, files, hidden files, sizes, cursor | apply one of ten `FilesOp`s | watcher, scheduler, plugins, renames |
| **Tabs, selection, history** (`yazi-core/src/tab`) | selected paths with a count per ancestor, a bounded back stack | add, remove, shift, apply | actors |
| **Data distribution service** (`yazi-dds`) | peers, static messages, a state file | elect a server, register, publish, drain state | other instances, plugins |
| **SFTP session and pool** (`yazi-sftp`, `yazi-vfs/src/engine/sftp`) | request ids, callbacks by id, one connection per service | send, receive, time out, drain on a broken connection | virtual file systems |
| **Plugin runner and bindings** (`yazi-runner`, `yazi-plugin`, `yazi-binding`) | Lua states, cached chunks | run a plugin isolated or in the event loop | everyone |
| **Actions and events** (`yazi-fm`, `yazi-actor`, `yazi-proxy`, `yazi-parser`) | the `Core` | one handler per action | everyone |
| **Local file systems** (`yazi-fs`, `yazi-vfs`, `yazi-ffi`) | none of their own | I/O | scheduler, watcher |
| **Configuration** (`yazi-config`, `yazi-boot`) | tables, keymaps, rules | parse, merge, match | everyone |
| **Terminal, widgets, images** (`yazi-term`, `yazi-tty`, `yazi-tui`, `yazi-widgets`, `yazi-adapter`, `yazi-emulator`, ...) | buffers | draw, parse escape sequences | terminal |
| **Command line tool** (`yazi-cli`) | lock file of packages | sequential | git, DDS |
| **Shared helpers** (`yazi-shared`, `yazi-macro`, `yazi-shim`, ...) | none | library code | everyone |

What is hard, and what makes each component correct:

- **Scheduler.** Four kinds of actors work on one list of tasks, and only the
  list is behind a lock; three channels lie between them. A task must not be
  failed while its files are still being copied, its cleanup must run at most
  once and only if all of its work went well, its completion must be told at most
  once, and whatever happens it must end and its waiters must be told.
- **Handles.** The status changes first and the waiters are notified second, by
  threads that share no lock with the waiter. Nobody may sleep through the
  change.
- **Sizes.** A mark, a count and a buffer in three places, and a task that may
  be canceled between them. A directory is measured once at a time and its size
  is shown in the end.
- **Preloads.** A bit keeps a file from being preloaded twice, a table finds the
  preload that a new one supersedes; both outlive the task they are about. Two
  preloads of one file must not run at once, and a bit must not be set for
  nothing.
- **Watcher and folders.** Results of old loads arrive after new ones, chunks of
  a streamed load mix with single changes, requests arrive while an entry is
  busy, and a tab is switched in between. A folder must not mix two readings,
  must not claim to be loaded while a part is missing, and must see a change
  that happens while it is being read.
- **Tabs.** A listing is patched by the watcher, by renames and creations and by
  readings, in any order, while the user sorts, filters and hides. It must end
  up as the directory is, the cursor must stay with its file, nothing may be
  selected that is gone, and the back stack must stand where the tab is.
- **DDS.** The server is one of the instances and may exit at any time. There
  must be one server, every client must be registered with it in the end, and a
  static message must survive.
- **SFTP.** Answers race with timeouts and with the loss of the connection. A
  request is answered once, by its own answer.

`PROJECT.json` lists the single hazards with the line where each bites and the
properties that would notice it.

## Modules and the code

```
TaskState ──────► Scheduler ──► MCScheduler
   │                 │  ╲
   │                 │   Preloads ──► MCPreloads
   │                 └─refines─► TaskLifecycle
   └──► TaskWait ──► MCTaskWait       MoveOrder      Sizing

Loading ──► MCLoading       Dds ──► MCDds       Sftp ──► MCSftp

Pane, Selection ──► Tab ──► MCTab

SchedulerProofs (and Preloads)      MoveOrderProofs      TaskWaitProofs
LoadingProofs      TabProofs      DdsProofs      SftpProofs      SizingProofs
```

**`TaskState`** is what belongs to one task: the compare-and-swaps of its status
(`scheduler/status.rs`, `handle.rs`) and its progress record. The sixteen
progress types of the code have three shapes (with a collect phase, with a
cleanup, with neither); one record stands for all of them, and `Cooked`,
`Cooking`, `Running`, `Success`, `CleanupPending` and `Reduce` take the kind of
task as a parameter where the kinds differ.

**`Scheduler`** is the whole of the scheduler for all kinds of tasks.

| Variable | Code |
|---|---|
| `kind`, `pool` | the task's input (`scheduler/in.rs` of each kind) and the channel it is sent on |
| `listed` | `Ongoing::inner` |
| `status` | `TaskHandle`, which outlives the entry |
| `prog`, `hook` | `Task::prog`, `Task::hook` |
| `scope` | the `Scope` of the input: its token is canceled |
| `main` | the primary input: `queued` in its channel, `fresh` in a worker, `walk`ing the source tree, `gone` |
| `todo`, `doing` | the item inputs ("`*Do`") in the channel and in workers, counted because items of one task are alike |
| `ops` | the part of the operation channel that is about one task, in order |
| `hookq`, `hooking` | hook inputs in the channel and in a hook worker (between its two looks at the list, too) |
| `announced`, `reports` | history: files found by the walk, completions told |

`Add`, `Reject`, `Supersede` are `scheduler.rs` and `Ongoing::add`; `UserCancel`
is `Scheduler::cancel` as `tasks:cancel` calls it, by force; `ScopeCancel`,
`WorkerCancel`, `Drop` and `DropItem` are the arms of the `select!` in
`worker.rs` (`Worker::work`) that give an input up; `Receive` and `ReceiveItem` the start of an input; `Walk`,
`Announce`, `Deform`, `Collect`, `Abort` and `Relay` the
traversal in `file/traverse.rs` and its callers in `file/file.rs`; `FinishItem`,
`Remove` and `Finish` the work itself; `PluginOutput` what a plugin may do with a
handle (`custom/out.rs`, `yazi-plugin/src/tasks`). `OpSkip`, `OpWait`, `OpHook`
and `OpFulfill` are the branches of the operation loop (`Worker::op`), each with the
reduction before it. `HookReceive`, `HookCheck` and `HookFinish` are the hook
worker's three steps: found in the list, found intact, cleaned up and reported.
File I/O is left out in that every outcome of it is possible at every point:
each step that may fail has its failing twin.

**`TaskLifecycle`** is the abstract specification: what anyone sees who holds a
handle or looks at the list. It has no workers, channels, hooks or progress. The
run `kinds` checks for all sixteen kinds of tasks that each step of `Scheduler` is
one of its steps or a stutter, and the theorem `LifecycleKept` proves it for any
number of tasks. That tasks end is not part of it; `EveryTaskEnds` says so.

**`MoveOrder`** looks into one step of `Scheduler`: a move that follows symlinks
holds its files back until the last of its links is copied (`File::move`,
`file/file.rs`), by a channel on which nothing is ever sent. The waiting input
occupies its worker.

**`TaskWait`** looks into another: `TaskHandle::wait` as single steps of the
waiter against the two steps (change, notify) of the threads that change the
status. In `Scheduler` waiting has no state.

**`Sizing`** is the sizes of directories: the mark, the throttle, the tasks, the
flush outside of the lock and the pane that receives the sizes.

**`Preloads`** composes `Scheduler` with the two tables of preloading:
`PreloadPaged` is the scheduler's `Add` or `Supersede` together with the mark and
the table entry, `RunPreload` and `HookPreload` are `Finish` and `HookFinish`
together with what they do to the mark; all other steps are `Scheduler`'s alone.

**`Loading`** is independent of the scheduler: one directory, the tabs that come
to show it, and the refresher that reads it for all of them.

| Variable | Code |
|---|---|
| `disk`, `told` | the directory as a version number, and the version the watcher has been told of; the version is also what a stat of the directory tells |
| `active`, `place` | `Tabs::cursor`; whether the directory is the tab's cwd or parent (`opened`), is `hovered`, or neither |
| `locked` | `Preview::folder_lock` is the directory |
| `folder` | the tab's `Folder`: stage, `Entries::ticket`, `file`, files, `stale`, and whether it is `here` (in a pane or the history) |
| `inbox` | the channel of the refresher (`Op`) |
| `entry`, `job` | the refresher's `Entry`, and the task it has spawned to read |
| `events` | the `FilesOp`s on their way to the application |
| `issued` | `FILES_TICKET` |

`Look` is what every action of the user comes down to that shows or hides the
directory or asks for it again (`cd`, `arrow`, `tab_switch`, `tab_create`,
`filter_do`, the focus of the terminal): a request by `refresh` or `peek`, then
`watch`. `HandleSync` to `HandleDone` are the arms of `Refresher::handle`, `Tick`
its timer, and `Spawn` the end that most of them share. The reading is stepwise:
`Revalidate`, a `ReadPart` for each part, `ReadEnd`, with `Unreadable` and `Abort`
in between. `DeliverLoad` and `DeliverUpsert` are `UpdateFiles::act` with the
`Invalidator`, `Folder::update` and the peek that follows; they work on the tab
that is active at that time.

**`Dds`** is the instances of yazi that find each other through a socket, and the
runs of `ya pub` and `ya sub` beside them.

| Variable | Code |
|---|---|
| `stage` | where an instance is in `Client::serve`, `Server::make` and `Stream::bind`, or a guest in `Client::shot` and `draw` |
| `queue`, `retry` | `QUEUE`, and the message whose write failed |
| `serving`, `clients` | the task that accepts connections; `CLIENTS` |
| `inner`, `fresh`, `held` | `STATE.inner`; whether `STATE.last` is later than the file; what `drain` has taken and not yet written |
| `conn`, `named`, `wire` | a client's connection, the id the server's task has for it, and what is in the socket |
| `peers`, `told` | `PEERS`; the newest static message sent on the connection |
| `path`, `file` | who is bound to the socket's path; the state file |
| `accepted`, `mishaps` | history: the message that must not get lost, which is the file's once a process has ended without saving, and none once a socket was stolen; what went wrong with a socket |

`Connect`, `MakeServer`, `Unlink`, `Bind` and `Load` are `Client::connect` step by
step, so that two instances may be anywhere in it; `Write`, `WriteFail`, `Break`
and `Reconnect` are the arms of its loop; `HandleHi`, `HandleStatic`, `HandleBye`
and `Reap` those of the server's task of a connection; `QuitTake`, `Drain`,
`Exit` and `Kill` the end of a process. Reading `hey` is merged with its
sending, since a client acts on nothing in between.

**`Sftp`** is one session with a server: ids, the table of callbacks, the writer's
channel, the writer and reader tasks, callers, and the connection with whatever
is on it. A caller's steps are `Enter` (the callback is inserted), `Send` or
`Refuse`, and then `Receive` or `GiveUp`; `Write`, `Close` and `Drain` are the
writer task, `Read`, `Deliver`, `ReadFail` and `ReaderStop` the reader task;
`Answer` and `Break` the other side. A failed send leaves the callback in the
table, as the code does. The id space is a parameter, and the counter of ids may
start anywhere in it, so that it goes round past 0, which the code skips.

**`Pane`** is what a pane shows of a directory: the operators of `Entries` (which
files are listed, which are hidden, in what order) and those of `Folder` and
`Scrollable` that move the cursor. A file is a key and a stat; of the revision and
the version of the entries there is left whether they differ. **`Selection`** has the
operators of `Selected` and what `Reconciler` does to it. Both are pure; **`Tab`**
drives them.

| Variable | Code |
|---|---|
| `disk` | the directory Home; a directory in it holds one file |
| `pending` | `Reporter::local_tx`: the changed file, and its directory too |
| `permit` | `WATCHER`, while a renaming or creation holds it |
| `reading`, `issued` | the refresher's reading of Home; `FILES_TICKET` |
| `queue` | events for the application |
| `home` | the tab's `Folder` of Home, its current or its parent one, with its `Entries` |
| `cwd`, `stack`, `pos` | where the tab is; its `Backstack` |
| `pref`, `selected` | `Tab::pref` (hidden files, sorting), `Tab::selected` |
| `torn` | history: Home changed while a reading of it was on its way |

`Others`, `RenameFile` and `CreateFile` change the disk, `Announce` is the rest of a
renaming or creation, `Watch` a round of `Local::changed` with `FilesOp::mutate`,
`Read` and `EndRead` the refresher. `UpdateLoad`, `UpdateUpserted` and `UpdateDeleted`
are whole runs of `mgr:update_files` (invalidator, reconciler, folder, and then
hiding, sorting and hovering), `Invalidate` the one that reports Home itself,
`Reveal` `mgr:reveal`. `Move`, `ToggleHidden`, `SortBy`, `FilterDo`, `Select`, `Go` and
`Focus` are the user. The refresher is the subject of `Loading`; here a request
takes effect at once. A round of the watcher looks at all of its files at one
moment: a change that falls between two of its looks is reported once more.

The **`MC`** modules hold constants and symmetry sets for TLC.

Beside the definitions of the code, the modules contain *slips*: mutated forms
(`CookingByState`, `OpHookAgain`, `QueueFilesEarly`, ...), each under a comment
that names the mistake. No next-state relation uses them. For every property of
every run one of them, put in the place of the right definition, makes TLC find
the property violated; `PROJECT.json` lists the pairs. They are evidence that
the property can see that mistake.

## Properties

| Module | Property | In words |
|---|---|---|
| `Scheduler` | `FailureIsQuiet` | a task is failed only when none of its inputs is left: workers drop the inputs of a finished task, so an earlier failure would cut off the copying of its other files |
| | `ReportIsEarned` | completion is told at most once and only of work that is all done and went well |
| | `SuccessIsComplete` | who sees a task succeed finds the work done, cleaned up, told, and no input and no hook of it left |
| | `NoHandleForgotten` | a task that left the list has succeeded or was canceled |
| | `HookIsSingle` | a cleanup hook is in one place at a time |
| | `NeverStranded` | a listed task that has not failed has something under way |
| | `KeepsLifecycle` | refinement of `TaskLifecycle` |
| | `EveryTaskEnds` | every task but a custom one is finished in the end, unless custom tasks hold for ever all the workers that its input waits for (`Starved`) |
| | `HookedLeaves`, `CanceledLeaves` | a canceled task leaves the list in the end, if its hook was sent or it needs none; any canceled task does (violated) |
| `MoveOrder` | `LinksBeforeFiles` | no file is moved away while a link that may point to it is yet to be copied |
| | `MovesEnd`, `CanceledEnds` | every move ends, by itself unless the workers are all held by moves that wait for their links, by cancellation always |
| `TaskWait` | `NoLostWakeup`, `EveryWaiterReturns` | nobody sleeps through the change he waits for; everybody returns who does not keep giving up |
| `Sizing` | `OneTaskPerDir`, `MarkIsOwed`, `SizesArrive` | measured once at a time; a mark has a reason; sizes are shown |
| `Preloads` | `OnePreloadPerFile`, `MarkIsAnswered`, `MarksResolve` | no two intact preloads of a file; a bit is set for a preload that is complete or that somebody answers for; every bit is resolved |
| `Loading` | `BusyIsAnswered` | an entry that turns requests away has exactly one reading or answer on the way that will free it |
| | `OneReading` | a folder never mixes the parts of two readings, nor lists one twice or out of order |
| | `NeverBlind` | the stat that a loaded folder's next refresh compares with is no newer than anything it lists, or the refresh would skip a change |
| | `LoadedIsWhole` | a folder that is called loaded lists the whole directory (one tab) |
| | `ShownLoads`, `PreviewCatchesUp` | what is shown does not stay at Loading (one tab, no kept lock); a preview catches up with the last reported change |
| `Dds` | `PeersAgree` | a registered client knows exactly the other clients of its server |
| | `StateIsTold` | a registered client that listens has been told the static message that its server keeps |
| | `StateSurvives` | a server keeps no static message but the newest one, and that is in the file or with a running process that knows it to be newer than the file |
| | `EveryoneRegisters`, `EveryoneMeets` | who runs is registered in the end; who runs in the end knows all others that do |
| `Sftp` | `NobodyLeftBehind` | a caller that waits is found by whoever has to wake it: the table, the channel, or its own slot |
| | `OwnAnswer` | no caller gets the answer to another's request, however late answers come and wherever the counter of ids stands at first |
| | `LossIsTold` | once the connection is lost, every caller returns |
| `Tab` | `InSync` | whatever the order of changes, reports, renames and preferences, no file is listed twice, and once nothing is under way the listing is the directory's, in order and split by the user's preferences |
| | `CursorFollows` | after every step that changes the listing, the cursor is on the file the user has gone to, if it is there, in the parent pane on the directory of the tab, and on the screen |
| | `SelectionSound` | no directory is selected with a file in it, the counts per ancestor are right, and what is selected is listed |
| | `StackSound` | the back stack stands where the tab is; going back or forth leads elsewhere |

Every module with state has a `TypeOK` besides. Those of `Scheduler`, `Loading`,
`Dds`, `Sftp` and `Tab` are theorems, and the runs `dds` and `tab` check theirs too; the
others are part of the invariants that are proved.

Some of them carry an exception, because the code does:

- `EveryTaskEnds` leaves out custom tasks, whose input waits for ever
  (`custom/custom.rs:12`) and which end when their plugin says so, and tasks whose
  input waits for workers that are all held by custom tasks and stay so.
- `FailureIsQuiet` leaves out deletions (a delta that does not add up fails the
  task at once) and custom tasks (their plugin decides).
- `MarkIsAnswered` and `MarksResolve` leave out a task that was canceled twice by
  the user before its hook ran (`ForcedOut`): the bit it set stays for nothing
  until it is evicted.
- `MarkIsOwed` and `SizesArrive` leave out a batch with a canceled task
  (`Spoiled`): its throttle never counts down to zero and may keep the other
  sizes of the batch to itself.
- `LoadedIsWhole` and `ShownLoads` hold of one tab, `ShownLoads` besides only where
  the preview keeps no lock
  ([below](#disagreements-between-code-and-comments)).
- `NeverStranded` leaves out the kinds of the finding `plugin_cancel` when a plugin
  holds their handle, and `HookedLeaves` those of their tasks whose hook was not
  sent yet.
- `MovesEnd` lets moves wait that hold all workers, each waiting for its links.
- `StateIsTold` and `EveryoneMeets` leave out runs in which a socket was removed
  while its server ran: the robbed server keeps its connections and can no longer
  be found. `EveryoneRegisters` covers those too, but not what happens when such a
  server makes itself anew and forgets clients whose connections live on, nor two
  instances that rob each other for ever (`Tussle`), which the pause of a second
  between attempts makes unlikely.
- `InSync` leaves out a directory that changed while it was being read (`torn`):
  patches and readings then overtake each other, and a file may be listed twice
  or with an old stat. The folder is stale by then, which the property demands,
  and the next refresh reads it in full. Nothing asks for that refresh but the
  user, by going somewhere or focusing the terminal.
- `CursorFollows` leaves out the dropping of a filter: `filter_do` hovers only if
  the hovered file has changed, so a file that comes back is not returned to
  when another one took the cursor while it was away.
- `StateSurvives` leaves out runs in which a socket was stolen: the robbed server may
  load the older file over what it has in memory. What a process has not saved when
  it ends, because it was killed or began to serve after it had begun to quit, does
  not count as the newest message any longer; the one in the file does, and
  whoever serves next has to go on from that.
- `OwnAnswer` assumes that no id is given twice (`SftpAssumption`): that a request
  gets the id of one 2^32 requests before it, whose answer is still on the way, is
  beyond it.
- `StateIsTold` besides takes abilities as constant: a client that subscribes later
  says a second hi, and a second hi is not answered with the static messages
  (`server.rs:100`).

## Runs and bounds

States are distinct states; a run takes seconds, the largest two or three minutes.

| Run | Instance | States | Shows |
|---|---|---|---|
| `kinds` | a task of each of the 16 kinds alone, and four pairs; 2 items, 2 file workers, 1 of each other pool, 1 hook worker, 2 unread plugin operations | 246 000 | all safety invariants of `Scheduler`; it implements `TaskLifecycle`; every task ends or is starved, canceled ones leave |
| `plugin_cancel` | one copy whose handle a plugin holds | 2 000 | the finding: `CanceledLeaves` is violated |
| `move_order` | two moves that follow links, 2 workers, 2 items | 5 300 | links before files; moves end, or jam until one is canceled |
| `task_wait` | two waiters, one for the start and one for the end, two threads | 1 900 | no lost wakeup, everyone returns |
| `sizing` | 3 directories, 2 batches, 2 workers, one cancelable | 14 000 | sizes, marks and throttles |
| `preload_live` | 2 preloads, one preloader, shared workers; the file and the configuration change once | 355 000 | superseding, canceling and retrying, across signatures and revisions; every mark is resolved |
| `loading` | 2 tabs, remote, 2 parts, 1 change, 3 looks, 1 tick of the timer | 6 580 000 | `BusyIsAnswered`, `OneReading`, `NeverBlind` |
| `loading_one_tab` | 1 tab, local, 2 parts, 1 change, 3 looks | 457 000 | what is shown gets loaded, wholly, and catches up |
| `loading_parts` | 2 tabs, 2 parts, no change, 4 looks | 410 000 | finding: `LoadedIsWhole` is violated |
| `dds` | 2 instances, 1 guest, 1 message, 1 kill | 694 000 | election, registration, static messages; all find each other |
| `sftp` | 3 requests, ids from 1 to 3, a session of any age | 491 000 | answers, loss of the connection, giving up |
| `tab` | a hidden file, a file and a directory, 1 change, 2 readings, 2 acts, a stack of 3 | 1 560 000 | listing, cursor, selection and back stack against a changing directory |

Why the bounds are enough:

- *Tasks.* Tasks meet in three places only: the workers of a pool, the hook
  workers, and superseding. `Mixes` bounds which kinds are in play together. `kinds`
  has each kind alone, for all that concerns a single task, and four pairs: a
  custom task or a background process beside a blocking process, which wait for
  one worker (the first may hold it for ever, the second gives it back), two
  tasks of the trash, which need the one hook worker as well, and two preloads,
  one of which may supersede the other. `preload_live` has two preloads with their
  marks and one worker. The theorems hold for any mixes and any number of tasks.
- *Items.* `MaxItems = 2` gives one item in a worker and one in the channel, one
  that succeeds and one that fails, and an announcement between two reports. The
  counters are only compared for equality and with zero; the theorems hold for
  any bound.
- *Workers.* One worker shows starvation, two show items of one task that run
  side by side. The code starts three file workers by default; `move_order` has
  two and as many moves, the least with which they can jam.
- *Plugin operations.* `MaxOutputs` bounds what a plugin has sent and the loop
  has not read. Two let a verdict and a cancellation overtake each other.
- *Changes.* One change of a file and one of the configuration make every mark
  either current or old in both respects.
- *Looks.* Three let the user come to the directory, leave it and come back, or
  come to it in both tabs and return; each of them may fall anywhere into a
  reading. Two parts make a reading that is neither not begun nor complete, and
  let a part be lost or mixed with another reading's. One change is old or new.
- *Instances.* Two are the least that compete for the socket, one of which loses
  it, and a guest adds a client that never becomes a server. One message tells
  kept from lost, one kill a server that quits from one that cannot; an earlier
  day's message in the file makes loading visible.
- *Requests.* Three requests, ids from 1 to 3, and a counter that may stand
  anywhere at first: it goes round past 0 between any two of them, while the
  answer to one who has given up is still on the way and others wait. No id is
  given twice; with 2^32 of them that would take a session of as many requests.
- *Names.* Three files make each pair of roles: one that is hidden, one that the
  filter matches, one that the tab can be in. One change can be a rename onto
  another file; it falls before, into or after a reading, and reaches the tab
  before or after its own reports. Two acts hide, sort or filter and undo it. A
  stack of three is trimmed, and merges when the directory in its middle goes.
  With two lines and three files the pane scrolls. At first all three are there
  and the tab is new, or it has come out of the directory, which is alone.
  What several changes in a row do is proved (`ListingInSync`), not run.
- *Symmetry* is used on the tabs of `loading` only, which has no liveness.

## Fairness, deadlock and memory order

The runtime polls every worker, the operation loop and the hook workers, and
wakes them when their channel has something: weak fairness on each of their
steps. Fairness on `FinishItem`, `WorkStep`, `Done` and `RunPreload` says that
file operations, child processes, preloaders and walks end. They are code outside
of the scheduler, and whatever hangs in them hangs its task: the models do not
claim otherwise. The input of a custom task has no end of its own, and nothing of
the kind is assumed of it. Fairness is per task, since a channel is a queue: an input at
its head is taken when a worker is free, and nothing can be put before it for
ever, for the number of tasks is finite. It is on the steps that give the input
up (`Drop`, `WorkerCancel`) as well, since `select!` polls all of its arms. The
user, other holders of a scope and plugins promise nothing: no step of theirs is
fair. In `TaskWait`, a thread that has changed a status goes on to notify, and a
future that was woken is polled. In `Loading` the refresher, its reading and the
event loop are polled and reading a directory ends; the user, the disk and the
watcher promise nothing, and neither does the timer. An aborted reading is
assumed to have ended its poll before the next one of the same directory begins.
In `Dds` the tasks of an instance and of its server go on, a process that has begun
to quit ends, and a guest notices a broken connection and tries again; nobody has
to start, publish, quit or be killed. In `Sftp` callers, writer and reader go on;
the server promises nothing, and nor does the patience of a caller.

All runs have `CHECK_DEADLOCK FALSE`: task ids, batches and moves are finite
sets, looks and changes are bounded, and once all of them are used up and have
ended the system has stopped as it should. That it does not stop earlier is what `NeverStranded`,
`EveryTaskEnds`, `MovesEnd`, `SizesArrive`, `MarksResolve` and `ShownLoads` say.

Steps are as large as the code's critical sections: one lock, one send, one
compare-and-swap. The hook worker looks at the list twice and then acts without
the lock; those are three steps. The handle's atomics are relaxed; in
`TaskWait` they are nevertheless in one order, because each change of a status
comes before the release in `notify_waiters` and each second look after the
acquire in creating the `Notified` future, and a single atomic has one order of
modifications anyway.

## Proofs

Proved for any set of tasks and any bounds, from the `ASSUME`s on the constants
alone (bounds are natural numbers, there is a worker in every pool, kinds are
kinds; TLC evaluates the same assumptions on every run):

| Theorem | Module | States |
|---|---|---|
| `TypeCorrect` | `SchedulerProofs` | `Spec => []TypeOK` |
| `HandlesSettled` | `SchedulerProofs` | `Spec => []NoHandleForgotten` |
| `HookSingle` | `SchedulerProofs` | `Spec => []HookIsSingle` |
| `FailureQuiet` | `SchedulerProofs` | `Spec => []FailureIsQuiet` |
| `ReportsEarned` | `SchedulerProofs` | `Spec => []ReportIsEarned` |
| `SuccessComplete` | `SchedulerProofs` | `Spec => []SuccessIsComplete` |
| `NobodyStranded` | `SchedulerProofs` | `Spec => []NeverStranded` |
| `LifecycleKept` | `SchedulerProofs` | `Spec => KeepsLifecycle`, the refinement of `TaskLifecycle` |
| `KeepsScheduling` | `SchedulerProofs` | `PreloadsSpec => Spec` |
| `PreloadsSingle` | `SchedulerProofs` | `PreloadsSpec => []OnePreloadPerFile` |
| `MarksAnswered` | `SchedulerProofs` | `PreloadsSpec => []MarkIsAnswered` |
| `LinksFirst` | `MoveOrderProofs` | `Spec => []LinksBeforeFiles` |
| `WakeupsKept` | `TaskWaitProofs` | `Spec => []NoLostWakeup` |
| `OncePerDir` | `SizingProofs` | `Spec => []OneTaskPerDir` |
| `MarksOwed` | `SizingProofs` | `Spec => []MarkIsOwed` |
| `TypeCorrect` | `LoadingProofs` | `Spec => []TypeOK` |
| `BusyAnswered` | `LoadingProofs` | `Spec => []BusyIsAnswered` |
| `ReadingsApart` | `LoadingProofs` | `Spec => []OneReading` |
| `NoStatAhead` | `LoadingProofs` | `Spec => []NeverBlind` |
| `LoadedWhole` | `LoadingProofs` | for one tab, `Spec => []LoadedIsWhole` |
| `StackStands` | `TabProofs` | `Spec => []StackSound` |
| `TabTypeCorrect` | `TabProofs` | `Spec => []TypeOK` |
| `TheCursorFollows` | `TabProofs` | `Spec => CursorFollows` |
| `SelectionStands` | `TabProofs` | `Spec => []SelectionSound` |
| `ListingInSync` | `TabProofs` | `Spec => []InSync` |
| `DdsTypeCorrect` | `DdsProofs` | `Spec => [](TypeOK /\ HeldIsThere)` |
| `EveryoneKnown` | `DdsProofs` | `Spec => []PeersAgree` |
| `KeptIsTold` | `DdsProofs` | `Spec => []StateIsTold` |
| `StateIsSaved` | `DdsProofs` | `Spec => []StateSurvives` |
| `SftpTypeCorrect` | `SftpProofs` | `Spec => []TypeOK` |
| `AllAreFound` | `SftpProofs` | `Spec => []NobodyLeftBehind` |
| `AnswersAreOwn` | `SftpProofs` | `Spec => []OwnAnswer` |

`TypeCorrect` comes first: it is inductive by itself, and every later proof uses
it. The actors of `Scheduler` are the four disjuncts of `Next`, and each proof
has one lemma per actor.

*`HandlesSettled`* is inductive as it stands: an entry leaves the list in
`OpFulfill`, in `CancelEntry` and in `Supersede`, and each settles the handle in
the same step.

*`HookSingle`* needs more than its statement, which is not inductive: a hook may
also be an operation on its way to the loop, or not exist yet. `HookInv` says
that a copy, move, link or hardlink has no hook anywhere until its destination
is settled, that at most one `Hook` operation is on its way and only while
nothing else holds a hook, and that no other kind of task ever sends one. The lemmas treat the three ways a hook travels: sent along (`HookStep`),
taken by the loop (`OpLoopHook`), moved by a cancellation
(`CancelMovesHook`).

*`FailureQuiet`* is the deepest. The loop fails a task when the progress record
says that nothing runs, but that record lags behind the channel and the workers.
`FailureInv` balances the two. For a collecting task, `Accounted` equates what
was announced (in the record or in the channel) with the items queued, running,
reported in the channel and counted in the record; `InOrder` says that the walk
announces nothing after its verdict, so that once the record holds the verdict
no announcement is left in the channel. When the loop then finds that successes
and failures make up the total, the balance leaves zero for everything queued or
running. Tasks with one input have the simpler `OneInput`: its verdict is the
last thing it does. `Untouched` and `NoBadDelta` cover tasks that do not exist
yet and deltas that only deletions send. What is needed of counting the members
of a sequence (`Occurs`) is proved at the top of the module.

*`ReportsEarned`*, *`SuccessComplete`* and *`NobodyStranded`* are about the end of a
task, and go by one more invariant, `OutcomeInv`, on top of `FailureInv`. Each of
the three looks at what has happened and is silent about what is still to be
acted upon: a hook on its way to a worker, a verdict or a cleanup that is a
report in the channel. `OutcomeInv` speaks of all three places. `Earned` says of
a hook, wherever it is, and of a cleanup, reported or not, that the work is over
and went well; `LastWord` that nothing is reported of the work after the cleanup;
`HookKept` that the hook of a listed task is somewhere, or was run; and `Waiting`
that a listed task with no input left has its verdict on its way, and one that is
done or canceled waits for its cleanup and nothing else. That the work is over is stable (`StaysOver`), and it *is*
over when the loop finds a task cooked (`NowOver`), by the balance of `FailureInv`: here the
account and the end of a task meet. Of the many steps that do not concern the
task there are five classes (`Moves`, `Still`, `Speaks`, `Cancels`, `Begins`), and
one lemma each.

*`LifecycleKept`* maps a task without a kind to one that is new, all others to
their status. It needs the invariant `LifecycleInv`: what is not yet submitted is
unlisted and pending, so that submitting is `Submit` and nothing else; and what is
listed has not succeeded, so that a forced cancellation is always a `Withdraw` or
a `Leave`.
There is one lemma for each way an entry changes (`LifeSubmitted`,
`LifeStarted`, `LifeCanceled`, `LifeOfOne`) and one for each actor.

*`KeepsScheduling`* is a refinement with the identity as mapping: each step of
`Preloads` is a step of `Scheduler` or leaves its variables alone, so the
scheduler's theorems hold in it. *`PreloadsSingle`* then follows from
`LatestInv`: an intact preload of a file is the one that the loading table
names. All actions but `PreloadPaged` only shrink the set of intact tasks
(`Shrinks`), and `PreloadPaged` replaces the one that was there.

*`LinksFirst`* holds by an invariant with the phase of the walk in it: no file is
queued before the primary input is gone, and no link before it waits.
*`WakeupsKept`* adds to its statement that a waiter has never seen more
notifications than there were.
*`BusyAnswered`* goes by `AnsweredInv`. `BusyIsAnswered` by itself says nothing of
readings that no longer belong to the entry, and one of those could answer in
the place of the right one. The invariant follows the answers in the inbox by
ticket: none before its ticket is issued, none for a reading that
is still under way (`Unanswered`), no two for one ticket (`Alike`), and for the
ticket of a busy entry either one answer (`Answered`) or a reading that is alive.
`Owed` states it of any queue and any reading, so that
`OwedSpawn` serves all four ways a reading starts.

*`ReadingsApart`* and *`NoStatAhead`* share `ListInv`. What a folder will hold
depends on the events that are still to come, so the invariant reads the queue as
a whole: the parts of one reading lie in their order there (`OrderInv`), all before
the place the reading has come to (`AheadInv`); what a folder lists comes before
whatever it may still get under its ticket (`FolderOK`); and a stat that a `Done`
is yet to bring is no newer than any part of its reading, delivered or not
(`SourceOK`). A part that another tab has got is a gap, and gaps are allowed.
*`LoadedWhole`* assumes that there is one tab, for with two it is false (run
`loading_parts`). `WholeInv` adds that there is no gap: before each part that is
on its way there is the part before it, or the folder has that one (`Has`).

*`StackStands`* is inductive with the type of the stack. The work is in
`Removed`, what a removal of directories makes of the stack: where the cursor's place is
after it, and after the places that have come together were merged. For a recursive
definition that would be an induction over data, which the prover cannot do, so
`Pane` picks elements of a sequence (`Pick`) and sorts them (`Sorted`) by their
*rank*: the n-th is the one that n-1 others precede. That there is exactly one such
element (`Ranks`), that picking keeps the order (`PickFacts`) and how the
ranks change when some are removed (`CountedRank`) are lemmas about
cardinalities of finite sets.

*`TheCursorFollows`* and *`TabTypeCorrect`* go by `TabInv`, which adds to the stack
that the folder is a folder, that nothing is left to be announced of it (`bumped`) and
that the cursor is on an item, if there is one, within the lines that are shown
(`InView`). A change to the folder is a chain of functions, and each has a
relation between the folder before and after it that composes with the next:
`Relists` for what an update does to the entries, `Points` for what sets the cursor
only, `Turns` for a preference with its sorting and hovering, `Updates` for an
update as a whole. Sorting loses no file and doubles none, by the same ranks. What hovers last
leaves the cursor where it is bound (`FollowedIn`), and nothing that comes after
it in the step moves it.

*`SelectionStands`* is inductive on top of that, with two parts. `SelectedOK`: the count
of a directory is the number of selected files under it, exactly, and no ancestor
of a selected file is selected. Exactness is what makes the check by counts in
`Selected` sound, and it needs that files are added and removed in groups with
the same ancestors (`Siblings`). `SelectedListed`: whatever takes a file from a
loaded listing takes it from the selection in the same step.

*`ListingInSync`* needs an invariant, `SyncInv`, that says of every file on which disk and
listing differ what will bring them together, and in which order it comes. Its parts:

- `Shows`: entries are split by what is to be seen and sorted by preference;
  `Revealing`: what is to be revealed is listed when its turn comes; `Ordinary`,
  `Reads`: which events are in the queue at all, and that only the first reading
  comes in parts; `Stages`: a folder that is being loaded will be.
- `Held`: while a rename or a creation holds its permit, what it changed has been
  reported. `Noticed`: a directory that changed while it was read (`torn`) is stale,
  or a report about it is still to come.
- `Synced`, one of three: during the first reading (`StreamInv`), the listing, the
  parts in the queue and the names left to read are together what is on disk,
  each file once; during a later one (`ReadInv`), what was read and what is left is;
  otherwise (`PatchInv`), for every name without a pending report the last event in
  the queue that disturbs it (`Disturbing`) brings what is on disk, or there is none
  and the listing has it right (`Follows`).

TLC has checked it too, on small instances, before the proof. There is a lemma for each
actor: the disk (`SyncChanges`), the reports (`SyncAnnounce`, `SyncWatch`), the
reader (`SyncRead`, `SyncEndRead`), the delivery of an event (`SyncDeliver`) and the
user, who leaves all of it as it is (`SyncKept`).

*`OncePerDir`* and *`MarksOwed`* go by one invariant, `SizingInv`. `Once` says that a
directory being sized is with one batch and there in one place only (its task,
the buffer, or a set that a worker flushes); `Counted` that the number in a
throttle is that of the tasks which have not reported, canceled ones included.
So while results are held back there is a task left that is to report, or one
that was canceled and never will: that is the exception of `MarkIsOwed`.
*`EveryoneKnown`*, *`KeptIsTold`* and *`StateIsSaved`* rest on three invariants. `Links`
is about connections: a client is registered with the server that its connection
leads to, after its first `hi` and while that server runs. `OneServer` is about
servers, as long as no socket was taken: only the instance at the path
serves, whoever has said hi is registered there, and it alone has static
messages, in its state or taken out of it to be saved. `Newest` follows the message
that was accepted last, or the one in the file after a process has ended that had
not saved: nobody has another one, and it is in the file unless a process has it
and knows it to be newer than the file. `StateIsTold` is inductive on top of the first two
(`AllTold`), with `Askers`: only guests ask and leave.

*`MarksAnswered`* is not inductive, for a task in the list may have done its
preload already and be about to leave. `OwedInv` wants a witness that still owes
something (`Owes`): neither its success nor its cleanup has been reported.

*`AllAreFound`* and *`AnswersAreOwn`* go by `SftpInv`. Its heart is an argument on ids
(`IdsOf`): the ids in use lie in a window behind the next one that is shorter
than the id space, so an id on the wire is still its first bearer's; this is
where the assumption on the number of requests comes in.

Only checked by TLC: everything temporal with fairness (`EveryTaskEnds`,
`HookedLeaves`, `MovesEnd`, `CanceledEnds`, `EveryWaiterReturns`, `SizesArrive`,
`MarksResolve`, `ShownLoads`, `PreviewCatchesUp`, `EveryoneRegisters`,
`EveryoneMeets`, `LossIsTold`), for liveness and `ENABLED` are beyond the prover.
Every other property that a passing run checks is a theorem.

## Disagreements between code and comments

`plugin_cancel`: a plugin that cancels a copy or a move it has spawned, before
the worker has settled the destination, leaves it in the list of tasks for ever.
The cancellation arrives as an operation (`scheduler/custom/out.rs:32`), the loop
finds a task that is canceled, has no hook yet and whose cleanup is pending, and
keeps it (`scheduler/worker.rs:296`). The comment there reads "Cleanup is still
in progress", which it is not: the worker drops the input of a finished task
without a report, no hook is ever sent, and nothing of the task is left that
could lead to another operation. A copy that the *user* cancels at the same
moment is removed at once (`ongoing.rs:39`). `CHANGELOG.md:314` promises such
tasks to be "immediately cancellable".

`loading_parts`: what the refresher reads goes to the tab that is active when it
is handled (`yazi-actor/src/mgr/update_files.rs:30`), so parts that arrive while
the user is in another tab are lost to the tab that asked. If the last operation,
`Done`, finds the first tab active again, its folder becomes loaded with a part
missing, and "The directory is already loaded: check whether it changed"
(`yazi-core/src/tab/folder.rs:184`) then finds for ever that it has not.

Met on the way and stated as exceptions of properties:

- Two tabs open one directory. A request that finds the refresher's entry busy,
  and is not forced, is dropped (`yazi-watcher/src/refresher.rs:53` and `:69`)
  without making the entry dirty, and the tab whose request it was may stay at
  Loading even while it is looked at (`LoadingOneTab.cfg` with two tabs shows
  `ShownLoads` violated).
- Nothing is hovered for a moment, behind a filter that matches nothing or in an
  empty directory. `peek` returns before it drops the preview's lock
  (`yazi-actor/src/mgr/peek.rs:17`), while `watch` aborts the load of the directory
  that was previewed. Hovered again, the directory is locked and not asked for
  (`LoadingOneTab.cfg` with `Blank = TRUE`).
- Two instances start at once and neither finds a server: the second removes the
  socket that the first has just bound (`yazi-dds/src/stream.rs:29`).
- What an instance has queued is written to a new connection before its `hi`, and
  so is the message it retries (`yazi-dds/src/client.rs:47`, "Retry once"); the
  server does not know the sender yet and ignores it.
- A file that is created or renamed while its directory is read in parts may be
  listed twice (`yazi-fs/src/entries.rs:64` appends what is read without a look at
  what the watcher has added), until the stale folder is refreshed.
- A filter is dropped and the file of the trace comes back without the cursor
  (`yazi-actor/src/mgr/filter_do.rs:23`); the next change of the listing moves the
  cursor there.
- A custom task holds a worker until its plugin settles or somebody cancels it: its
  input awaits a future that is never ready (`scheduler/custom/custom.rs:12`). In a
  pool of one worker whatever is queued behind it waits as long.
- Marks left by a preload that is canceled twice, sizes kept back by a throttle
  whose batch lost a task, and moves that follow links and occupy all file
  workers while waiting for their links.

## What is not modelled

- *Byte counts, percentages, log lines, file contents.* No property is about
  them.
- *Marks of fetch tasks, LRU evictions of the preload tables.* Planned. Fetch
  tasks themselves run in `Scheduler`.
- *Of loading:* directories that are removed or
  replaced, file systems without times, the eviction of folders from the history
  (a hundred per tab), and an error in the middle of a
  directory, which the code takes for its end. Which paths are watched
  (`Watcher::run`) is planned.
- *Of the DDS:* several kinds of messages, abilities that differ, messages that are
  not static, local subscriptions and `Pump`, which batches announcements.
- *Of SFTP:* the pool of connections and the file operations on a session. Bytes
  are packets; garbled ones are a failure of the reader.
- *Of tabs:* several tabs (what one tab reads for another is in `Loading`), yanked
  files, which the reconciler treats like selected ones, visual mode, the finder,
  folders kept in the history, linked directories, sizes and ranks, and the order
  of selecting: `Selected::remove` takes a path out by `swap_remove`, while
  `CHANGELOG.md:803` promises that the order is kept.
- *The terminal permit of blocking processes.* `Scheduler` treats such a process
  as one piece of work.
- *Local file systems, terminal, widgets, images.* I/O and formats: the models
  take every outcome as possible.
- *Configuration, command line tool, shared helpers.* Sequential; what the
  models need of them (a revision of the preloaders, a throttle, a token) is
  part of the module that uses it.
- *Plugins.* Arbitrary code; a plugin is an actor that does anything its handles
  allow, at any time.

## Plan

1. *Watched paths*: `LastValue`, `Watcher::run` and `WATCHED`, and with them what a
   report of a changed file finds.
2. *Stamps* of downloads and uploads; the marks of fetch tasks and evictions of
   the preload tables.
3. *The order of selecting*, against that promise; yanked files, and the finder and
   visual mode, whose places in the list go stale as the cursor's do.

## Running it

```
tlc -workers 2 -config SchedulerKinds.cfg MCScheduler.tla
tlapm SchedulerProofs.tla
```

`PROJECT.json` names the module and the configuration of every run, the mutated
forms, the source lines of every definition, the hazards and the theorems.

# KLayout: verification models

TLA+ models of the parts of KLayout whose correctness depends on the order in
which things happen: threads, callbacks that re-enter their caller, undo and
redo, files and libraries that change while they are used, drawings of layouts
that are being edited. KLayout's C++ is under `src/` of the repository
(`src/tl`, `src/db`, `src/lay*`, ...); file names below are relative to it.

## Inventory of the system

| Part | State | Operations | Hard behaviour | What makes it correct |
|---|---|---|---|---|
| **Threaded jobs** `tl/tl/tlThreadedWorkers.{h,cc}`, `tlThreads.{h,cc}` | task queue, one private queue per worker (start and exit tasks), idle count, stopping and running flags, error list | schedule, start, wait, stop, terminate, set_num_workers, destructor; workers loop in get_task / perform_task | every interleaving of controller and workers on one lock and two condition variables in three builds; restarts while workers still wait; stop while tasks schedule | idle count exact, a run ends when nothing of it is left, wait and stop keep their guarantees, all calls return, no task lost or done twice |
| **Undo manager** `db/db/dbManager.{h,cc}`, `dbObject.*` | list of transactions with their operations, cursor, open and replay flags, table of object ids | transaction (with join), commit, cancel, undo, redo, clear, queue; objects enter and leave the id table | ids kept across undo, list nodes whose addresses recur, failing or broken replays, unrecorded changes, operations that own deleted objects | undo and redo go back and forth between states of the document; one owner per object; ids lead to living objects |
| **Deferred calls** `tl/tl/tlDeferredExecution*.{h,cc}` | queue, batch being executed, cancelled methods, posted event, polling timer, disable count | schedule (any thread), cancel, destruction, execute, event, timer, enable/disable | scheduling races the execution; methods that cancel, destroy, block, re-enter or throw | no call lost, none executed that should not be, an event under way while something is queued |
| **Events** `tl/tl/tlEvents.h`, `tlEventsVar.h` with `tlObject.*` | receivers (weak pointer, function), sentinel of the innermost firing | add, remove, clear, fire, destructor; receivers are destroyed or detach | receivers that change the list, fire again, destroy the event or each other, throw | each firing calls who was registered at its start and still listens, once; nobody after the event died |
| **File watcher** `tl/tl/tlFileSystemWatcher.*` and **layout files** `laybasic/laybasic/layLayoutHandle.cc`, `lay/lay/layMainWindow.cc` | watched files with counts and stamps, iterator, timer; open handles; changed files not yet passed on | add, remove, poll in batches; load, reload, save, close; notify | files change between polls, during loads and saves; failing readers and writers; several views of one file | watched exactly as long as a handle needs it; outdated layouts are announced |
| **Libraries** `db/db/dbLibrary*`, `dbPCell*` | registered libraries by id and name, proxies and their counts, cold proxies, PCell variants | register, replace, delete, refresh, rename; create, delete, undelete proxies; change of technology | the last proxy deletes a variant while proxies are walked; libraries that go and come back; refresh that fails | every proxy resolves to its cell, counts match, nothing stays cold that could be found |
| **Redraw** `laybasic/laybasic/layRedrawThread*`, `layLayoutCanvas.cc` and **layout state** `db/db/dbLayoutStateModel.*`, `dbLayout.*` | requests to draw, image cache, planes, the job and its workers, dirty flags, transactions | request, prepare, paint, start, stop, wakeup; change events, update, LayoutLocker | the layout changes while workers read it; requests add up before they are served; an end of a drawing comes late | workers are stopped before a layout they read changes; waits end; in the end the screen and the cache show the layout |
| **Synchronous jobs, job groups** (files of the jobs, `tl::Boss`) | as the jobs, without threads | start performs the tasks itself; a Boss stops its jobs | tasks that schedule or stop from inside of start() | finished and stopped called as promised |
| **Object life time** `tl/tl/tlObject.*`, **copy on write** `tl/tl/tlCopyOnWrite.h` | pointers per object; holder with a reference count | set, reset, copy, release on several threads | deletion decided under a lock and carried out after it | one deletion, no pointer to a dead object |
| **Deep shape store** `db/db/dbDeepShapeStore.*` | layout slots with reference counts | create, add_ref, remove_ref | slots freed and used again | no layer refers to a slot of somebody else |
| **Hierarchical and tiling processors** `db/db/dbHierProcessor.*`, `dbTilingProcessor.*` | contexts per cell, results | compute contexts, one job per level | workers add to contexts others read | the result does not depend on the order |
| **Progress** `tl/tl/tlProgress.*` | stack of progress objects per thread | begin, set, end, break | break in the middle of anything | nesting kept, break delivered once |

Interaction: the redraw and the processors are clients of the jobs; layout
state, manager, libraries and views tell each other through events; the GUI
refreshes through deferred calls; the manager holds the operations (and the
deleted objects in them) of the layouts; views stop the redraw before an undo
or a layout change; layout handles share one file watcher.

Geometry algorithms, readers and writers, netlist extraction, the scripting
bridges, the user interface and the database containers are sequential data
processing or input and output. They are listed in `PROJECT.json` with the
reason why they are not modelled.

## Modules

```
JobQueue          <-- implemented by --  ThreadedWorkers     <-- ThreadedWorkersProofs
UndoLog           <-- implemented by --  Manager             <-- ManagerProofs
                                         Events              <-- EventsProofs
Selections        <-- extended by --     DeferredExecution   <-- DeferredExecutionProofs
Selections        <-- extended by --     RedrawThread        <-- RedrawProofs
FileSystemWatcher <-- extended by --     LayoutFiles         <-- LayoutFilesProofs
                                         LibraryManager      <-- LibraryProofs
Selections                                                   <-- SelectionProofs
MCThreadedWorkers, MCManager, MCEvents, MCLibrary, MCRedraw: symmetry for TLC
```

`Selections` says what is left of a list when entries are erased; the queues of
the deferred calls and of the redraw use it. `SelectionProofs` has the facts
about it, and those about smallest elements, that `DeferredExecutionProofs`,
`RedrawProofs` and `LayoutFilesProofs` cite.

Definitions keep the names of the code. Operators marked "Slip" are variants of
the definition below them with a plausible mistake: put in its place, they must
make a property fail, which shows that the property watches that code.

### ThreadedWorkers (`tlThreadedWorkers.cc`, `tlThreads.{h,cc}`)

`m_*` variables are the members of `JobBase`; `pc` is the place of each worker
in `Worker::run` and `JobBase::get_task`, `mpc` the place of the controlling
thread in its call. One step is what a thread does between taking `m_lock` and
releasing it or blocking. The unlocked read of `m_running` in `stop()` and the
gap in `terminate()` between putting the exit tasks and joining are steps of
their own. `Condition` selects the build of `tl::WaitCondition`: Qt (wakes all
waiters), pthread (the same and spurious wakeups) or C++20 `atomic_flag` (a flag
that waiters poll and that each new waiter clears). The client obligations taken
from the callers in the repository: one controlling thread, no `start()` of a
running job, a task object is scheduled once.

`JobQueue` is the abstract promise: tasks are accepted or refused, begun in
order, ended, aborted or flushed. `QueueSpec` is the refinement.

### Manager (`dbManager.{h,cc}`, cells of `dbLayout.cc`, `dbCell.cc`)

`m_transactions`, `m_current`, `m_opened`, `m_replay` and `m_id_table` are the
members of `db::Manager`. A record of an operation has the object id, what it
does, whether it holds the cell, its `done` flag, and as history the document
before and after it. The objects are cells that a transaction creates, deletes
(the cell then lives in the operation) or changes. Undo, redo and the undo
inside `cancel()` replay operation by operation, since each may fail and the
progress may break in between; everything else is one call. The clients are the
kinds the editors use: plain transactions, one that keeps an id to join with,
and a `db::Transaction` that is closed and opened again around an interactive
operation. The joining client is `edt::InstService` with `Forgetful`: an undo
cancels what the views are editing, and it drops its id then
(`ViewsCancelled`). Without `Forgetful` it is the properties dialog, which is
not among those that are cancelled and keeps its id. Both call `transaction()`
and `commit()` in the same way.

`UndoLog` is the abstract promise: a document, the states undo goes back to and
those redo goes forward to. `LogSpec` is the refinement; while a replay is under
way the mapping gives the document as it was when the replay began.

### Events (`tlEventsVar.h`, `tlObject.cc`)

`frames` are the nested calls of `event::operator()`, each with its copy of the
receivers. A receiver that is called may do anything: the steps of the clients
are enabled whenever no firing is in its own code. Serial numbers stand for the
order of the vector and tell apart an object and its successor at the same
address. `due`, `called`, `attached` and `registered` are history.

### DeferredExecution (`tlDeferredExecution*.{h,cc}`)

`m_*` are the members of the scheduler, `events` and `timer` those of the Qt
event source. `frames` are the nested `do_execute()` calls. `schedule()` may
happen between any two steps, because other threads do it, all else only while
the main thread runs client code. `calls` counts what was asked for and not yet
served; `disturbed` notes that a batch was not executed straight to its end.

### FileSystemWatcher, LayoutFiles (`tlFileSystemWatcher.*`, `layLayoutHandle.cc`, `layLayoutViewBase.cc`, `layMainWindow.cc`)

`watch` holds the members `m_files` (with counts and stamps), `m_files_removed`
and `m_iter`; a `tick` is one `timeout()`, file by file, which ends when the
batch or its time is used up. The calls of the clients are operators on `watch`,
so that `LayoutFiles` can make one step of several of them, as
`LayoutHandle::load` does with remove and add. The content of a file is the
number of the write that made it; size and modification time identify it.
`LayoutFiles` adds the views: `load`, `reload`, `save_as` (give up the old file,
move it to a backup, write, stamp) and close, each with
its failure, and the notification timer of `MainWindow`. A reload has three
handles on the file while it reads: that of the layout before, which
`reload_layout` keeps up to its end, that of the empty placeholder, and that of
the new layout; when it returns or throws two of them go. A file being saved is
on the disk part by part, for ticks to see; a save that fails puts the
backup back, leaves the part it wrote, or no file, when its stream could not be
opened. All that is the GUI
thread; readers and writers report progress, which lets timers fire in between
but no user action. Other processes write, delete and create files at any time,
except that they leave alone a file being saved. `overtaken` and `vanished` are
history for the two cases in which a change is lost (below).

### LibraryManager (`dbLibraryManager.cc`, `dbLibrary.cc`, `dbLibraryProxy.cc`, `dbColdProxy.cc`, `dbLayout.cc`)

`db` is one record of everything, since the calls are long sequences of updates
in one thread: `m_libs` and `m_lib_by_name` of the manager, per library its
name, technologies, cells, variants and `m_refcount`, and per proxy whether it is in
a layout, held by an operation of the undo history, or cold. The sequence of
updates in a call is a composition of operators, one per function of the code
(`RegisterLib`, `UnregisterLib`, `RemapTo`, `Cleanup`, `RestoreProxies`, ...);
what a loop over the referrers does to the proxies it has not come to yet is in
these operators. `cleanup()` also deletes proxies that no cell uses; placements
are not modelled, and `DeleteCell` may delete any proxy at any time. A PCell has
one variant in a library, which comes with its
first proxy and goes with its last one. `disturbed` ends a run in which a
proxy inside the undo history lost its library: what an undo then brings back
has no meaning (below).

### RedrawThread (`layRedrawThread*.cc`, `layLayoutCanvas.cc`, `layLayoutViewBase.cc`, `dbLayoutStateModel.cc`)

The GUI thread (`gui`) takes one request at a time: it stops the job, which is
two steps since the workers have to come to rest, and then carries the request
out; requests are another viewport, another visible layer, a halt, or a change
of the layout, of which the listeners are told while the flag is still clear. A
paint event prepares a drawing, from the image cache or by a new job, and waits
for the first planes; `PaintStart`, `Prepare`, `Start` and `Wait` or `Paint` are
steps of it, since workers may come in between. Deferred methods run a pass at a
time between the requests. Workers take a layer, read the layout if it is not
being built (updating it first, if it is dirty), transfer what they have, and
finish or abort.

A drawing that nothing forces to be a full one keeps what is there: the planes
are shifted, and the workers draw the strips outside of `m_valid_region`
(`StartShifted`). `thread.valid` says how much of the planes that region is: none,
a part or all of what was drawn last; `stopped()` leaves it alone (what it cuts
off is outside of the planes), `finished()` makes it whole, `restart()` and a
full drawing empty it. Whether two viewports overlap and have the same scale is
not modelled: another viewport may be shifted to or not, the same one always is.

The job is what `ThreadedWorkers` promises (`QueueSpec`, `QuietWhenNotRunning`,
`RunningStopGuarantee` there): a run ends with all its tasks performed, or
`stop()` returns with all workers idle. It does not promise that `finished()` is
called once. A worker that was still to wake up for its start task when the run
ended or was stopped is counted idle meanwhile, and when it comes back for
another task it finds all of them idle and calls `finished()` again
(`NoFinishAfterStop` is for a job that is started once). `job.late` are these
workers; until the next start each of them may finish the job once more
(`FinishAgain`) or take a task that is scheduled already (`TakeEarly`).

A plane is abstracted to "full" (shows the layer as it is), "part" (does so in
the valid region only), "stale" (shows less or something older) and "lost": wrong
until it is cleared, because its layout could not be read or in one of the cases
in which the code forgets to draw it (listed below). Properties about complete
drawings exempt the lost planes, and only these. A
worker's reading is "torn" when the layout changed or was updated under it. The
cell frames (`Boxes`) stand for the queue entries besides the layers, and as a
change for one of the hierarchy, which concerns all planes.

## Runs

| Run | Question | Bounds |
|---|---|---|
| `jobs_single` | does a job that is filled, started once, waited for or stopped keep every promise of its header | 3 workers, 3 tasks, error limit 1 |
| `jobs_restart` | does a job with late scheduling and a second start keep count, queue and guarantees, and do all calls return | 2 workers, 2 tasks, 2 starts, C++20 flag |
| `jobs_pthread` | do spurious wakeups keep calls from returning | 2 workers, 2 tasks, 2 starts |
| `undo_history` | with well-behaved clients, is the manager an undo log, and can no assertion of a replay fail | 2 cells, 2 values, 3 transactions of 2 operations |
| `undo_stale` | outdated ids, recurring addresses, broken replays: owners, ids, completed replays, and a reopened `db::Transaction` stays one undo step | 2 cells, 2 transactions |
| `events` | who is called, who is registered, who stops | 2 objects, 2 functions, 3 registrations, 3 firings, 2 deep |
| `events_nested` (violation) | "during the call something deleted us. Stop immediately" | 2 firings, nested |
| `deferred` | are calls lost, invented or stuck | 2 methods, one compressed, 4 calls, 2 deep |
| `layout_files` | are files watched as long as handles need it, and outdated layouts announced | 2 files, 2 views, 4 calls, one write besides the first contents, batches of 1 |
| `library` | does every proxy lead to its cell, are counts exact, does nothing stay cold | 2 libraries, 2 names, 2 technologies, a static cell and a PCell, 2 proxies |
| `library_names` (violation) | is a registered library found by its name | 2 libraries of one name, 2 technologies |
| `redraw` | is no observed layout read while it changes, does the wait end, do screen and cache show the layout when all is quiet | 2 workers, 1 layer and the frames, 2 viewports, 1 cached image, `Bound` |

Why the bounds are enough to be interesting: two workers suffice for one to be
idle, late or waking up while the other ends the run, and the third in
`jobs_single` separates "one" from "all"; two starts are needed for leftovers of
the first; two errors exceed the limit of one. Two transactions give a past and
a future, the third one a join after an undo; two operations give an inner state
of a replay; one cell can be created and deleted and its id taken by the other.
Three registrations over two objects put two entries of one object into a list;
two firings deep with a third in sequence let an inner clean-up precede an outer
one. Four calls over two methods make a batch, a call behind it, one queued
while it executes and one more. With two files and batches of one, every tick
leaves a file for the next one, and the iterator stands between entries while
calls change them; four calls let two views open the same file and both do
something with it; the write may be one by others before, during or after a save
or load, or the part or the whole that a save writes. Two libraries of two names
for a technology and in general make every relation two libraries can have (same
id after a replacement, same name for other technologies, the generic one as a
fallback); two proxies make a first and a last one of a cell. Two tasks with two
workers, two viewports and a cache of one image have hits, misses, evictions,
pans forth and back with strips, a worker that goes on while the other has
aborted, and a late one beside one that draws. `Bound` in MCRedraw keeps apart
what would only multiply: a layout is built while no worker is late and no
strips are due, and three deferred methods wait at once only when neither is the
case. With one worker the run passes without it (19 million states). The view
`Seen` merges states that differ in what is overwritten before anyone reads it.
The theorems need none of this and hold for caches of every size.

`StopGuarantee` and `NoFinishAfterStop` are checked for a job that is filled and
started once, which is how the processors use it; after restarts they fail
(below). While a `db::Transaction` is closed and opened again (`undo_stale`), no
other client opens transactions: the header promises no joining across them.

Deadlock is checked in every run but those of the files and the libraries: the
calls are bounded there, and a program with nothing to do is no deadlock. The
model of the jobs has a step for a destroyed job so that the end of its life is
not taken for one; the other models always have something to do.

### Fairness

Jobs: each worker takes its next step if it keeps being able to (`WF` of its
steps), a task comes to an end, and the controller goes on inside a call. That
is what a preemptive scheduler gives threads on one mutex. Nothing is assumed of
the controller between calls, of tasks scheduling others or of spurious
wakeups. Deferred calls: methods return, `NoDeferredMethods` regions end, and
the main thread comes back to its event loop outside of them again and again
(`SF` of the event outside of all methods: it may be blocked in between, but not
for good). A program that never leaves a modal method never serves its queue, so
less would not do. Layout files: the timers fire while the event loop runs
(`WF` of the tick, its files and the notification of the main window); the
timer that notifies the views, which comes again while an operation is busy,
and the readers and writers, which go on between the timers they let through,
get `SF`. The other models have no liveness property and need no fairness; that a
drawing becomes complete is stated for every state in which nothing is under way
(`DrawnComplete`), and that the wait for it ends as `WaitEnds` together with the
fairness of the jobs.

## Where code and documentation disagree

Runs marked "violation" show one disagreement each:

* `events_nested`: the destructor of an event tells only the innermost firing;
  an outer one calls further receivers and writes to the destroyed event. An
  exception of the destroying receiver has the same effect (`Throwing`).
* `library_names`: `unregister_lib` erases all entries of the library's name,
  those of libraries for other technologies too (`dbLibraryManager.cc:155`).

The same models show further ones, by changing a constant or writing the
property:

* Jobs. `stop()` returns at once when `m_running` is off, while a worker that
  woke up late from the run before performs a task scheduled since:
  `StopGuarantee` (header, line 155: no worker is active) fails with two starts
  and late scheduling, and with `Condition = "pthread"` and one start, since
  `stop()` waits without a loop. `NoFinishAfterStop` fails with two starts: a
  worker still counted idle has a start task pending.
* Undo. `transaction()` compares `join_with` with the last list entry, not with
  the one before `m_current` (`dbManager.cc:124`). After an undo a client that
  kept its id, as `layPropertiesDialog.cc:729` does, joins an undone
  transaction, contrary to `dbManager.h:133`; the next undo fails its assertion
  (line 234) and clears the history: `AssertionsHold` and `LogSpec` fail in
  `undo_history` with `Forgetful = FALSE`, which is the client the code ships.
  With addresses that recur a client can also join the transaction of somebody
  else. What is left to rely on is checked with both in `undo_stale`.
  `ScopeIsOneTransaction` fails with `EmptyClose = TRUE` (closing an empty
  transaction deletes it, and the id no longer joins), `LogSpec` with `Breakable
  = TRUE` (a broken undo leaves half of a transaction undone and the history
  lost), and `UndoExact` with `Unlogged = TRUE` (a change that is not recorded
  is not undone either).
* Deferred calls. A compressed method that is cancelled while it waits in the
  batch keeps its flag, and all later calls of it are dropped; `NoCallLost`
  fails. `prepare_drawing` cancels such a method (`layLayoutCanvas.cc:432`), but
  from a paint event, outside of a batch.
* Files. A file shared by two views is stamped anew by the save or reload of one
  of them, and the other is never told (`overtaken`; `tlFileSystemWatcher.h:103`
  says that adding counts). A change between reading and stamping in
  `LayoutHandle::load` is lost. Adding a file that is missing for the moment
  does not count, so that the removal by another client ends the watch
  (`vanished`). `remove_file` forgets that a file was reported as removed.
* Libraries. A proxy in the undo history whose library is gone comes back with
  an id that leads nowhere or to the next library in that slot.
  `m_retired_count` is not decremented when a retired proxy is destroyed, so
  that `is_retired()` may be true with a living proxy. `rename()` does not
  restore the cold proxies of the new name, and renaming a library of a
  technology to the name of a generic one deletes the generic one. A replaced
  library is deleted, while `register_lib`'s comment says that it stays
  available by its id.
* Redraw. A layout that is in a transaction or under construction when the
  drawing starts is not observed; if that ends while workers go on, they may
  read it while it changes (`ReadsProtected` speaks of observed layouts only;
  `dbLayout.cc:2015`: "the deal is ..."). What such a layout shows is kept, also
  in the cache, and not drawn again when the transaction ends.
  `change_visibility` before the paint clears the list of layers to be drawn
  again, so that a changed layer stays as it was (`layLayoutCanvas.cc:1132`).
  `LayoutViewBase::stop_redraw` drops a pending redraw; the comment at
  `layZoomBox.cc:97` asks for a restart. A layer that is shown, and a pan in the
  same paint, leave that layer drawn in the strips only: `start()` takes
  `m_valid_region` for drawn in all layers (`layRedrawThread.cc:147`). A worker
  that wakes up late calls `finished()` again: m_valid_region becomes the whole
  viewport although the drawing was stopped, and when this happens after
  `prepare_drawing` cancelled the pending end ("so there is no race between
  finish and restart", `layLayoutCanvas.cc:431`) it closes the next open cache
  entry with planes that are not finished (`job.stray`). If it takes a task
  before `start()`, its own planes have been freed by `finish()` and the task
  fails. In all these cases planes become "lost".

## Proofs

All theorems hold for every value of the constants that satisfies the named
assumptions of the modules (`WorkersAssumption`, `TasksAssumption`,
`ObjectsAssumption`, `BoundsAssumption`, `ClientsAssumption`,
`MethodsAssumption`, `WatcherAssumption`, `ViewsAssumption`,
`LibrariesAssumption`, `RedrawAssumption`, ...), which TLC evaluates on every
run. The bounds in the guards are constants, so the theorems hold for all
bounds. Where a theorem needs more (which clients, which condition variable),
that is a hypothesis of the theorem, the run of the property has constants that
meet it, and the section on disagreements says how the property fails without
it. Every invariant and action property of the passing runs is the statement of
a theorem.

**ThreadedWorkersProofs.** `ThreadInv` = types, `ThreadsOK` (the threads are all
there or none is), the idle count, and `IdleFlag` (`m_is_idle` is set exactly
while the worker is counted; without it `Unidle` could count down twice). It is
inductive with any condition variable and gives `TypeCorrect` and
`IdleCountCorrect`. `RunInv` adds what a waiting controller may rely on: while
`stop()` waits nothing is queued and nothing can be, the controller is woken by
the end of the run only, and a call that returned left nothing behind. From both
follow `QuietCorrect`, `WaitCorrect` and `StopCorrect`, under
`Condition # "pthread"`: with spurious wakeups they are false.
`JobImplementsQueue` is the refinement of `JobQueue` for all builds; its
invariant says that a task is at one place only.

Without late scheduling a job that is not running has nobody at work and nothing
queued that could be taken (`RestInv`), which gives `StopGuaranteed` for any
number of starts. `ErrorInv` says that the tasks that threw are those in the
error list and those whose workers are about to put them there; with the limit
of the list it gives `ErrorsReportedCorrect`. `NoFinishAfterStopCorrect` is for
one start: `OnceStarted` says which of its own tasks each worker still has, and
that nobody comes to "enter" any more once the run is over, so that the count of
idle workers cannot become complete a second time.

**ManagerProofs.** `TypeCorrect` has the shape of the history (cursor, open
transaction, no empty ones, position of a replay). `ObjectInv` adds that each
operation that holds a cell holds a cell outside of the layout (`OpsOK`), that
each such cell has one holder (`Owned`), and that the id table is exact. It
gives `OwnershipCorrect` and `IdsCorrect` with all hazards switched on: joins by
outdated ids, recurring addresses, broken replays, unrecorded changes.

Ids that clients keep: `ScopeInv` (the transaction of an existing
`db::Transaction` is the last one, and all its changes went there) gives
`ScopeCorrect`, if no other client opens transactions meanwhile and the scope
does not close an empty one. Of clients that drop their ids before an undo
(`Remembered`), `TicketInv` says that who keeps an id has nothing undone.

What undo restores: in `HistoryInv(b)` the documents before and after the
operations form a chain from transaction b on, through all transactions that can
be undone or redone, and the document is where the cursor stands in it. A client
that joins an undone transaction breaks the chain there, and b is the last place
where that happened; undo and redo above b work, and an undo that comes to b
fails its assertion and clears the history. That the chain holds from some b on
is inductive whatever the clients join, and gives `UndoExactCorrect` (every
change is recorded: `~Unlogged`). With `Remembered` clients b is 0, which gives
`AssertionsCorrect`, and, when replays are not broken off, the refinement
`UndoLogImplemented`: a commit is a step of `UndoLog`, each replay one at its
end, all else stutters.

**EventsProofs.** `EntriesExact` says of a list of receivers that serials are
unique and that an entry has its object exactly as long as that object lives and
listens; `FrameExact` says of a firing that its copy still has everybody who was
due and that those it has come past are the ones it called. `Told` and `Left`
follow the destruction of the event. Together they are inductive and give
`TypeCorrect`, `RegistrationsCorrect`, `CallsCorrect`,
`EveryoneCorrect` and `StopsCorrect`, for any depth of nesting and any
exceptions.

**DeferredExecutionProofs.** `State` has the types and the nesting of
`do_execute()` calls (`TypeCorrect`); `EventOnTheWay` adds
that `m_scheduled` is set while something is queued and true to an event or the
timer (`EventCorrect`). `Balance` has two halves. What is queued or left of
the batch is never more than what was asked for, in any state: that gives
`NoSpuriousCorrect`. It is never less as long as no batch was disturbed, which
needs that nobody nests then and that the flag of a compressed method tells that
it is queued: `NoLossCorrect`.

**LayoutFilesProofs.** `Types` has the members of the watcher, with an iterator
that is at an entry or at the end while files come and go, and the phases of the
views (`TypeCorrect`). `Counted` says that a file is watched as often as there
are handles for it, and at most that often once it was added while missing; it
needs the handle counts inside of `reload` and `save_as`, where a view has three
handles or none, and the order in which they are added and removed. It gives
`WatchCorrect`. The other processes may do what they like in all of this.

**LibraryProofs.** Calls are long compositions of operators, so the invariant is
one about databases, `Consistent`: types, a library in one slot at most, counts
that are those of the living proxies, proxies that resolve, and no variant
without a proxy. Each operator has a lemma "...Effect" that says that it keeps
a database consistent and what it leaves alone, each call is the sum of them.
The hard operator is `Remap`, which makes variants, takes proxies off their
libraries (variants may go there) and adds them to others. It is consistent
under `Directs`: no library loses and gains proxies at once. Each caller has
its own reason for that; for a change of technology it is that a library that
kept its name for the new technology would have been found again under it. The
lemmas "...Keeps" say that nothing repairs a database once it is disturbed.
`ProxiesResolveCorrect` and `CountsExactCorrect` follow for the databases
that are not, as the properties say, and `TypesCorrect` with them.
`NoneLeftColdCorrect` holds in disturbed databases too: it rests on lemmas about
names and proxies only (`RestoreLeaves`, `RegisterLeaves`), not on the counts.

**RedrawProofs.** `RedrawInv` says that nobody works for a job that is not
running (`Resting`), that a layout that is observed by a redraw thread that runs
or is about to start is clean and not being changed (`LeftAlone`), that late
workers are there only between two runs (`LateEnded`), and that while the GUI
thread waits or is about to, the job runs and the first wakeup is still to come
(`HasWaker`). The second part is needed because `ReadsProtected` alone does not
say that the flag is clear when a worker takes its layer; the first because it
is what the return of `stop()` gives; the third because a late end between
`start()` and the wait would take the wakeup away. It is inductive for any
number of workers, layers, viewports and cached images and gives `ReadsCorrect`
and `WaitCorrect`.

`DrawInv` says where everything that is not shown yet waits for its turn. A
plane that is stale or has strips missing is in the job's queue, with a worker,
or in a request that a deferred method or the next paint event will serve
(`StaleComing`), and before the hierarchy changes a redraw of everything has
been asked for (`HierComing`). Where only strips are drawn they suffice: a plane
that lacks more than them has a full drawing coming (`StripsSuffice`), for which
`DirtyNotShown` is needed: what a change has made dirty is not taken for drawn.
An image that is open in the cache is the one being drawn, or, after the signal
of a late worker, one that will be marked (`OpenImage`), and a closed one is
that of its viewport, with nothing missing unless a redraw is coming (`Images`).
The screen lacks nothing that is not due (`OnScreen`). When all is quiet none of
these places is left, which is `DrawnCorrect` and `CacheCorrect`.

**Only model-checked.** Liveness (`CallsReturn`, `TasksPerformed`,
`CallsServed`, `OutdatedNoticed`): fairness and ENABLED are out of the prover's
reach. So are the types of a library database after a disturbance, where proxies
count for libraries in which they have no cell. The provers cannot use induction
over data in general either, nor unfold folds or `SelectSeq`. Where a model
needs no more than a smallest or a first element, the proofs take the least
counterexample of a set of numbers instead (`NatMin` in SelectionProofs), and
the models that are proved about are written without folds. The modules have no
recursive operators. The properties of the runs with "violation" are false, of
course.

## Not modelled

* Jobs: the job without workers, `tl::Boss`, and `start()` of a running job,
  whose assertion fails with the lock held.
* Manager: a disabled manager, merging through `last_queued`, the destructor;
  undo inside of another operation whose progress was cancelled already (its
  progress object then throws outside of the try block and `m_replay` stays
  set). Shapes and instances queue operations of the same form as the property.
* Events: arguments, `find_receiver`; weak pointers on several threads.
* Deferred calls: the scheduler without Qt, whose event does nothing; an event
  handler that catches an exception of an inner `do_execute()`, after which the
  outer loop has a dangling iterator.
* Files: `clear()` and the batch size at run time, which the controllers of
  libraries, fonts, macros and packages use to start over; names of handles.
* Libraries: what is inside of proxies (`update()`, replicas), libraries that
  use libraries, counts of retired proxies, the end of the process.
* Redraw: synchronous drawing, geometry of the viewports (which of them
  overlap), text planes, which are drawn in full beside strips, resizing,
  precious cache entries, several cellviews, property ids, busy mode; a request
  that comes from inside of a layout update in `do_start`
  (`layRedrawThread.cc:224`), where the sentinel returns but the request is
  taken for served.
* The parts of the inventory without a module. Object life time and copy on
  write are reference counts under one lock whose users own their pointers; the
  deep shape store, the processors and the databases are mostly geometry, which
  no finite instance represents faithfully; progress, packages, macros and the
  scripting bridge are sequential, or display. The reasons are given one by one
  in `PROJECT.json`.

The repository has three million lines, most of them generated bindings, vendored
code, geometry and user interface. The modules cover the part in which
order and concurrency decide, a small share of them.

## Plan

1. Done: the modules above, their runs and proofs.
2. Done: a theorem for every invariant and action property of the passing runs.
3. Left: the types of `LibraryManager` in a disturbed database; a stronger
   statement than `CallsReturn` that is safety (who waits has a waker, as
   `WaitEnds` says for the redraw), with the proof that it is inductive; that
   the job as `RedrawThread` uses it is implied by `JobQueue`; `NamesFound` for
   libraries without technologies, with the proof that it holds there.

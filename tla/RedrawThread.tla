---------------------------- MODULE RedrawThread ----------------------------
(***************************************************************************)
(* How a layout gets on the screen: lay::LayoutCanvas collects requests    *)
(* and prepares a drawing when it is painted, lay::RedrawThread gives its  *)
(* layers to the workers, these read the layout and fill the planes of the *)
(* canvas, and db::LayoutStateModel tells both before the layout changes   *)
(* (laybasic/laybasic/layRedrawThread*.cc, layLayoutCanvas.cc,             *)
(* layLayoutViewBase.cc, db/db/dbLayoutStateModel.cc, dbLayout.cc).        *)
(*                                                                         *)
(* One view of one layout.  The GUI thread takes one request at a time.    *)
(* The job is what ThreadedWorkers promises: it finishes with all tasks    *)
(* performed, or stop() returns with no worker at work; but a worker that  *)
(* is still to wake up for its start task finishes the job once more, or   *)
(* takes a task of the next one before that is started.                    *)
(***************************************************************************)
EXTENDS Selections, SequencesExt

CONSTANTS
  Workers,     \* the drawing workers, at least one
  Layers,      \* the layers of the view
  Boxes,       \* draw_boxes_queue_entry: the cell frames, always visible
  Viewports,   \* what the window can show
  CacheSize    \* m_image_cache_size

ASSUME RedrawAssumption ==
  Boxes \notin Layers /\ "none" \notin Layers \cup {Boxes} /\ Workers # {} /\ CacheSize \in Nat

VARIABLES
  gui,         \* the GUI thread: where it is, in which request, and how many
               \* deferred methods of the current pass are left
  layout,      \* dirty flags, under_construction() or a transaction, and
               \* whether the redraw thread is attached to its events
  job,         \* m_running and the task list; the late workers, with a start
               \* task of a job that ended; and, as history, whether one of
               \* them signalled an end of drawing after the cancel
  worker,      \* the task of each worker, and how it reads the layout for it
  m_initial_update,
  thread,      \* the redraw thread's enabled layers, the viewport drawn,
               \* m_valid_region, and whether the workers draw strips only
  canvas,      \* viewport, visible layers, and the pending redraw request
  screen,      \* a paint event is due, m_update_image, planes are on screen
  plane,       \* what the bitmaps of a layer show
  cache,       \* m_image_cache
  posted       \* deferred methods in the order they were scheduled

vars == <<gui, layout, job, worker, m_initial_update, thread, canvas, screen, plane, cache, posted>>

Tasks == Layers \cup {Boxes}

(* A task is a change too: that of a layer sets its flag in m_bboxes_dirty *)
(* and affects its planes; that of Boxes is one of the hierarchy, which    *)
(* sets m_hier_dirty and affects everything.                               *)
Affected(x) == IF x = Boxes THEN Tasks ELSE {x}

(* Planes: "full" shows the layer as it is; "part" does so in the valid    *)
(* region and lacks the strips outside of it; "stale" shows nothing, a bit *)
(* of the layer or what it was before a change; and a "lost" one counts as *)
(* wrong until it is cleared, because its layout could not be read or the  *)
(* code forgets to draw it.                                                *)
Plane == {"full", "part", "stale", "lost"}
Blank == [t \in Tasks |-> "stale"]
Aged(data, x) == [t \in Tasks |-> IF t \in Affected(x) /\ data[t] # "lost" THEN "stale" ELSE data[t]]
Abandoned(data) == [t \in Tasks |-> IF data[t] = "full" THEN "full" ELSE "lost"]

Entry == [open : BOOLEAN, vp : Viewports, visible : SUBSET Layers, drawn : Viewports, data : [Tasks -> Plane]]
InEntries(Op(_)) == [i \in DOMAIN cache |-> [cache[i] EXCEPT !.data = Op(@)]]

NoRequest == [kind |-> "none"]
Request == [kind : {"none", "new", "halt"}] \cup [kind : {"viewport"}, on : Viewports]
             \cup [kind : {"visibility"}, on : Layers] \cup [kind : {"change"}, on : Tasks]

Method == {"update_image", "end_of_drawing", "redraw"}

Visible == canvas.visible \cup {Boxes}
AtLoop == gui.pc = "idle" /\ gui.pass = 0
Idle(w) == worker[w] = [task |-> "none", reads |-> "no"]
AllIdle == \A w \in Workers : Idle(w)
Free == layout.building = "no"

-----------------------------------------------------------------------------
(* Deferred methods and the end of a drawing.                              *)

Posted(queue, m) == IF Contains(queue, m) THEN queue ELSE Append(queue, m)

(* RedrawThread::wakeup: the first one ends the initial wait. *)
Wakeup ==
  /\ m_initial_update' = FALSE
  /\ gui' = [gui EXCEPT !.pc = IF m_initial_update /\ @ = "waiting" THEN "woken" ELSE @]

WakeupPosts == IF m_initial_update THEN posted ELSE Posted(posted, "update_image")

Done == Wakeup /\ posted' = Posted(WakeupPosts, "end_of_drawing")

-----------------------------------------------------------------------------
(* Requests.  All of them stop the drawing first, most through             *)
(* LayoutCanvas::stop_redraw, which drops the open cache entry.            *)

Closed == Selected(cache, {i \in DOMAIN cache : ~cache[i].open})

Stop(request) ==
  /\ gui' = [gui EXCEPT !.pc = "stopping", !.request = request]
  /\ job' = [job EXCEPT !.queue = {}]
  /\ UNCHANGED <<layout, worker, m_initial_update, thread, canvas, screen, plane>>

StopRedraw(request) == Stop(request) /\ cache' = Closed

RequestViewport(v) ==
  /\ AtLoop /\ v # canvas.vp
  /\ StopRedraw([kind |-> "viewport", on |-> v])
  /\ UNCHANGED posted

RequestVisibility(l) ==
  /\ AtLoop
  /\ StopRedraw([kind |-> "visibility", on |-> l])
  /\ UNCHANGED posted

(* LayoutViewBase::stop_redraw. *)
RequestHalt ==
  /\ AtLoop
  /\ StopRedraw([kind |-> "halt"])
  /\ posted' = Without(posted, "redraw")

(* Slip: the redraw thread does not listen to hier_changed_event. *)
TellsLayersOnly(x) == x \in Layers

Tells(x) == x \in Layers \/ layout.attached

(* invalidate_bboxes and invalidate_hier: who listens is told before the   *)
(* flag is set and the layout changes, and only while the flag is clear.   *)
(* The view asks for the layer at once, for all of them when it can; the   *)
(* redraw thread stops.                                                    *)
RequestChange(x) ==
  /\ AtLoop /\ x \notin layout.dirty /\ Tells(x)
  /\ IF x = Boxes THEN /\ posted' = Posted(posted, "redraw")
                       /\ Stop([kind |-> "change", on |-> x])
                       /\ UNCHANGED cache
                  ELSE /\ StopRedraw([kind |-> "change", on |-> x])
                       /\ UNCHANGED posted

Change(x) ==
  /\ gui' = [gui EXCEPT !.pc = "changing", !.request = NoRequest]
  /\ layout' = [layout EXCEPT !.dirty = @ \cup {x}]
  /\ plane' = Aged(plane, x)

ReadersTorn == [w \in Workers |-> IF worker[w].reads = "no" THEN worker[w] ELSE [worker[w] EXCEPT !.reads = "torn"]]

(* A change nobody stops for: its flag is set already, or the view alone   *)
(* hears of it.                                                            *)
ChangeUnstopped(x) ==
  /\ AtLoop /\ (x \in layout.dirty \/ ~Tells(x))
  /\ Change(x)
  /\ posted' = IF x \in layout.dirty \/ x # Boxes THEN posted ELSE Posted(posted, "redraw")
  /\ cache' = InEntries(LAMBDA data : Aged(data, x))
  /\ worker' = ReadersTorn
  /\ UNCHANGED <<job, m_initial_update, thread, canvas, screen>>

ChangeDone ==
  /\ gui.pc = "changing"
  /\ gui' = [gui EXCEPT !.pc = "idle"]
  /\ UNCHANGED <<layout, job, worker, m_initial_update, thread, canvas, screen, plane, cache, posted>>

-----------------------------------------------------------------------------
(* JobBase::stop() returns, and the request is carried out.                *)

(* Any of these workers may be still to wake up; the first start, of       *)
(* workers that are new, is not told apart.                                *)
JobEnds(workers) == \E late \in SUBSET workers : job' = [job EXCEPT !.running = FALSE, !.late = late]

(* stopped() reduces m_valid_region to the viewport. *)
Stopped(kind) ==
  /\ gui.pc = "stopping" /\ gui.request.kind = kind /\ AllIdle
  /\ IF job.running THEN JobEnds(Workers) ELSE UNCHANGED job
  /\ posted' = IF job.running THEN Posted(Posted(posted, "update_image"), "end_of_drawing") ELSE posted
  /\ UNCHANGED <<worker, m_initial_update, thread>>

ToLoop == gui' = [gui EXCEPT !.pc = "idle", !.request = NoRequest]
PaintDue == screen' = [screen EXCEPT !.due = TRUE]

(* LayoutCanvas::do_redraw_all. *)
RedrawAll(vp, force) ==
  canvas' = [canvas EXCEPT !.vp = vp, !.need = TRUE, !.clearing = TRUE, !.force = @ \/ force]

ViewportSet ==
  /\ Stopped("viewport") /\ ToLoop /\ PaintDue
  /\ RedrawAll(gui.request.on, FALSE)
  /\ UNCHANGED <<layout, plane, cache>>

NewLayers ==
  /\ Stopped("new") /\ ToLoop /\ PaintDue
  /\ RedrawAll(canvas.vp, TRUE)
  /\ UNCHANGED <<layout, plane, cache>>

(* The layers a pending restart was for are forgotten, and their planes    *)
(* not cleared.                                                            *)
VisibilitySet ==
  /\ Stopped("visibility") /\ ToLoop /\ PaintDue
  /\ canvas' = [canvas EXCEPT
       !.visible = IF gui.request.on \in @ THEN @ \ {gui.request.on} ELSE @ \cup {gui.request.on},
       !.need = TRUE, !.restart = {}]
  /\ plane' = IF canvas.need /\ ~canvas.clearing
                THEN [t \in Tasks |-> IF t \in canvas.restart THEN Abandoned(plane)[t] ELSE plane[t]]
                ELSE plane
  /\ UNCHANGED <<layout, cache>>

Halted ==
  /\ Stopped("halt") /\ ToLoop
  /\ plane' = Abandoned(plane)
  /\ cache' = InEntries(Abandoned)
  /\ UNCHANGED <<layout, canvas, screen>>

(* LayoutCanvas::redraw_selected. *)
LayerChanges ==
  /\ Stopped("change") /\ gui.request.on # Boxes /\ PaintDue
  /\ cache' = <<>>
  /\ canvas' = [canvas EXCEPT !.need = TRUE, !.restart = @ \cup {gui.request.on}, !.force = TRUE]
  /\ Change(gui.request.on)

HierarchyChanges ==
  /\ Stopped("change") /\ gui.request.on = Boxes
  /\ Change(Boxes)
  /\ cache' = InEntries(LAMBDA data : Aged(data, Boxes))
  /\ UNCHANGED <<canvas, screen>>

-----------------------------------------------------------------------------
(* The layout: transactions, LayoutLocker and updates.                     *)

BeginBuilding(how) ==
  /\ AtLoop /\ Free
  /\ layout' = [layout EXCEPT !.building = how]
  /\ UNCHANGED <<gui, job, worker, m_initial_update, thread, canvas, screen, plane, cache, posted>>

Update ==
  /\ layout' = [layout EXCEPT !.dirty = {}, !.building = IF @ = "changes" THEN "no" ELSE @]
  /\ worker' = IF layout.dirty = {} THEN worker ELSE ReadersTorn
  /\ UNCHANGED <<gui, job, m_initial_update, thread, canvas, screen, plane, cache, posted>>

(* end_changes updates the layout, and so does whoever asks it. *)
EndChanges == AtLoop /\ layout.building = "changes" /\ Update
Ask == AtLoop /\ layout.building # "changes" /\ layout.dirty # {} /\ Update

EndTransaction ==
  /\ AtLoop /\ layout.building = "transaction"
  /\ layout' = [layout EXCEPT !.building = "no"]
  /\ UNCHANGED <<gui, job, worker, m_initial_update, thread, canvas, screen, plane, cache, posted>>

-----------------------------------------------------------------------------
(* Deferred methods, a pass at a time.                                     *)

StartPass ==
  /\ AtLoop /\ posted # <<>>
  /\ gui' = [gui EXCEPT !.pass = Len(posted)]
  /\ UNCHANGED <<layout, job, worker, m_initial_update, thread, canvas, screen, plane, cache, posted>>

Execute(method) ==
  /\ gui.pc = "idle" /\ gui.pass > 0 /\ Head(posted) = method
  /\ posted' = Tail(posted)

Executed == gui' = [gui EXCEPT !.pass = @ - 1]

DoUpdateImage ==
  /\ Execute("update_image") /\ Executed
  /\ screen' = [screen EXCEPT !.due = TRUE, !.update = TRUE]
  /\ UNCHANGED <<layout, job, worker, m_initial_update, thread, canvas, plane, cache>>

(* ImageCacheEntry::equals. *)
Equals(e) == e.vp = canvas.vp /\ canvas.visible \subseteq e.visible

(* The planes as they are now go into the last entry, supposed to be the   *)
(* open one; after the signal of a late worker they may be unfinished.     *)
Stored == IF job.stray THEN Abandoned(plane) ELSE plane

DoEndOfDrawing ==
  LET kept == Selected(cache, {i \in DOMAIN cache : cache[i].open => Equals(cache[i])})
  IN /\ Execute("end_of_drawing") /\ Executed
     /\ cache' = IF \E i \in DOMAIN kept : kept[i].open
                   THEN [kept EXCEPT ![Len(kept)] = [@ EXCEPT !.open = FALSE, !.drawn = thread.drawn, !.data = Stored]]
                   ELSE kept
     /\ job' = [job EXCEPT !.stray = FALSE]
     /\ UNCHANGED <<layout, worker, m_initial_update, thread, canvas, screen, plane>>

DoRedraw ==
  /\ Execute("redraw")
  /\ gui' = [gui EXCEPT !.pc = "stopping", !.request = [kind |-> "new"], !.pass = @ - 1]
  /\ job' = [job EXCEPT !.queue = {}]
  /\ cache' = <<>>
  /\ UNCHANGED <<layout, worker, m_initial_update, thread, canvas, screen, plane>>

-----------------------------------------------------------------------------
(* Painting.                                                               *)

(* The rest of the request does not count until there is another one.      *)
NothingNeeded == [canvas EXCEPT !.need = FALSE, !.clearing = FALSE, !.restart = {}, !.force = FALSE]

Shown == [due |-> FALSE, update |-> FALSE, shown |-> TRUE]

PaintOnly ==
  /\ AtLoop /\ screen.due /\ ~canvas.need
  /\ screen' = [due |-> FALSE, update |-> FALSE, shown |-> screen.shown \/ screen.update]
  /\ UNCHANGED <<gui, layout, job, worker, m_initial_update, thread, canvas, plane, cache, posted>>

(* Slip: a pending end_of_drawing of the drawing before stays. *)
EndKept == posted

EndCancelled == Without(posted, "end_of_drawing")

Hits == {i \in DOMAIN cache : ~cache[i].open /\ Equals(cache[i])}

(* RedrawThread::commit: the visible layers are drawn, the boxes not.      *)
Committed ==
  [enabled |-> (Layers \ canvas.visible) \cup {Boxes}, drawn |-> canvas.vp, valid |-> "whole", strips |-> FALSE]

(* prepare_drawing with an image of the cache: no drawing is started.      *)
PaintCached ==
  /\ AtLoop /\ screen.due /\ canvas.need
  /\ \E i \in Hits :
       /\ \A j \in Hits : i <= j
       /\ cache' = Append(RemoveAt(cache, i), cache[i])
       /\ plane' = cache[i].data
       /\ thread' = Committed
  /\ canvas' = NothingNeeded
  /\ screen' = Shown
  /\ posted' = EndCancelled
  /\ job' = [job EXCEPT !.stray = FALSE]
  /\ UNCHANGED <<gui, layout, worker, m_initial_update>>

Kept == LET n == Len(Closed) IN SubSeq(Closed, IF n < CacheSize THEN 1 ELSE n - CacheSize + 2, n)
NewEntry == [open |-> TRUE, vp |-> canvas.vp, visible |-> canvas.visible, drawn |-> canvas.vp, data |-> Blank]

(* prepare_drawing without an image, up to the call of the redraw thread.  *)
PaintStart ==
  /\ AtLoop /\ screen.due /\ canvas.need /\ Hits = {}
  /\ cache' = IF CacheSize = 0 THEN <<>> ELSE Append(Kept, NewEntry)
  /\ posted' = EndCancelled
  /\ job' = [job EXCEPT !.stray = FALSE]
  /\ gui' = [gui EXCEPT !.pc = "painting"]
  /\ screen' = [screen EXCEPT !.shown = FALSE]
  /\ UNCHANGED <<layout, worker, m_initial_update, thread, canvas, plane>>

(* start() shifts the planes and draws strips only if nothing forces a     *)
(* drawing in full and m_valid_region has something in common with the new *)
(* viewport, which it has if that is the old one.                          *)
(* Slip: a drawing in full is forgotten. *)
MayShiftAlways == thread.valid # "none"

MayShift == ~canvas.force /\ thread.valid # "none"
MustShift == MayShift /\ canvas.vp = thread.drawn

(* What is right in m_valid_region is shifted and stays right.  A visible  *)
(* layer that was still to be drawn there is not: it was shown after the   *)
(* drawing, or m_valid_region is wrong since a late worker finished.       *)
Shifted(t) ==
  IF plane[t] = "full" \/ (plane[t] = "part" /\ thread.valid = "part") THEN "part"
  ELSE IF plane[t] = "lost" \/ t \in Visible \cap thread.enabled THEN "lost" ELSE "stale"

StartShifted ==
  /\ thread' = [enabled |-> Tasks, drawn |-> canvas.vp, valid |-> "part", strips |-> TRUE]
  /\ plane' = [t \in Tasks |-> Shifted(t)]

StartBlank ==
  /\ thread' = [enabled |-> Tasks, drawn |-> canvas.vp, valid |-> "none", strips |-> FALSE]
  /\ plane' = Blank

Restart ==
  /\ thread' = [thread EXCEPT !.enabled = @ \cup canvas.restart, !.valid = "none", !.strips = FALSE]
  /\ plane' = [t \in Tasks |-> IF t \in canvas.restart THEN "stale" ELSE plane[t]]

(* do_start: a layout that is not being built is updated and observed; the *)
(* planes are shifted or cleared, all of them or those to be drawn again;  *)
(* and each visible layer not drawn yet becomes a task.                    *)
Observed == [layout EXCEPT !.attached = Free, !.dirty = IF Free THEN {} ELSE @]

Prepared ==
  IF canvas.clearing
    THEN (MayShift /\ StartShifted) \/ (~MustShift /\ StartBlank)
    ELSE Restart

Prepare ==
  /\ gui.pc = "painting"
  /\ gui' = [gui EXCEPT !.pc = "prepared"]
  /\ layout' = Observed
  /\ m_initial_update' = TRUE
  /\ Prepared
  /\ job' = [job EXCEPT !.queue = thread'.enabled \cap Visible]
  /\ UNCHANGED <<worker, canvas, screen, cache, posted>>

(* JobBase::start(): a new start task for each worker, the late ones too. *)
Start ==
  /\ gui.pc = "prepared"
  /\ gui' = [gui EXCEPT !.pc = "started"]
  /\ job' = [job EXCEPT !.running = TRUE, !.late = {}]
  /\ UNCHANGED <<layout, worker, m_initial_update, thread, canvas, screen, plane, cache, posted>>

(* Slip: the wait does not ask whether the first planes came already. *)
MustWaitAlways == canvas.clearing

MustWait == m_initial_update /\ canvas.clearing

Wait ==
  /\ gui.pc = "started" /\ MustWait
  /\ gui' = [gui EXCEPT !.pc = "waiting"]
  /\ UNCHANGED <<layout, job, worker, m_initial_update, thread, canvas, screen, plane, cache, posted>>

(* The end of do_start and of the paint event. *)
Paint ==
  /\ gui.pc = "woken" \/ (gui.pc = "started" /\ ~MustWait)
  /\ gui' = [gui EXCEPT !.pc = "idle"]
  /\ m_initial_update' = FALSE
  /\ canvas' = NothingNeeded
  /\ screen' = Shown
  /\ UNCHANGED <<layout, job, worker, thread, plane, cache, posted>>

-----------------------------------------------------------------------------
(* The workers.                                                            *)

Stopping == gui.pc = "stopping"

(* The first reader of a dirty layout updates it, under the layout's lock. *)
Take(w) ==
  /\ job.running /\ Idle(w)
  /\ \E t \in job.queue :
       /\ job' = [job EXCEPT !.queue = @ \ {t}]
       /\ worker' = [worker EXCEPT ![w] =
            [task |-> t, reads |-> IF ~Free THEN "no" ELSE IF gui.pc = "changing" THEN "torn" ELSE "yes"]]
  /\ layout' = [layout EXCEPT !.dirty = IF Free THEN {} ELSE @]
  /\ UNCHANGED <<gui, m_initial_update, thread, canvas, screen, plane, cache, posted>>

Transfer(t, how) == plane' = [plane EXCEPT ![t] = how] /\ screen' = [screen EXCEPT !.shown = FALSE]

(* A worker draws into a copy of the plane and puts it back.  What it read *)
(* is wrong while the layout changes; strips on a plane that lacks more    *)
(* than them leave it as it was.                                           *)
PartDrawn(w) ==
  LET t == worker[w].task
  IN CASE worker[w].reads = "torn" \/ plane[t] = "lost" -> "lost"
       [] OTHER -> IF thread.strips THEN plane[t] ELSE "stale"

Drawn(w) ==
  LET t == worker[w].task
  IN CASE worker[w].reads # "yes" \/ plane[t] = "lost" -> "lost"
       [] OTHER -> IF thread.strips /\ plane[t] = "stale" THEN "stale" ELSE "full"

(* test_snapshot transfers what is drawn so far; wakeup_checked only wakes *)
(* up when some time has passed.                                           *)
Snapshot(w) ==
  /\ worker[w].reads # "no"
  /\ Transfer(worker[w].task, PartDrawn(w))
  /\ \/ Wakeup /\ posted' = WakeupPosts
     \/ UNCHANGED <<gui, m_initial_update, posted>>
  /\ UNCHANGED <<layout, job, worker, thread, canvas, cache>>

Rest(w) == worker' = [worker EXCEPT ![w] = [task |-> "none", reads |-> "no"]]

FinishTask(w) ==
  /\ ~Idle(w)
  /\ Transfer(worker[w].task, Drawn(w))
  /\ thread' = [thread EXCEPT !.enabled = @ \ {worker[w].task}]
  /\ Rest(w)
  /\ UNCHANGED <<gui, layout, job, m_initial_update, canvas, cache, posted>>

(* checkpoint() throws once a stop is requested. *)
AbortTask(w) ==
  /\ Stopping /\ worker[w].reads # "no"
  /\ Rest(w)
  /\ UNCHANGED <<gui, layout, job, m_initial_update, thread, canvas, screen, plane, cache, posted>>

(* finished(): the whole viewport is m_valid_region now. *)
ValidWhole == thread' = [thread EXCEPT !.valid = "whole"]

JobFinished ==
  /\ job.running /\ job.queue = {} /\ AllIdle /\ ~Stopping
  /\ \E w \in Workers : JobEnds(Workers \ {w})
  /\ Done
  /\ ValidWhole
  /\ UNCHANGED <<layout, worker, canvas, screen, plane, cache>>

Preparing == gui.pc \in {"painting", "prepared"}

(* A late worker wakes up, has no other task and finds all workers idle:   *)
(* finished() is called once more.  Tasks may be scheduled after it looked.*)
FinishAgain(w) ==
  /\ w \in job.late
  /\ job' = [job EXCEPT !.late = @ \ {w}, !.stray = @ \/ Preparing]
  /\ Done
  /\ ValidWhole
  /\ UNCHANGED <<layout, worker, canvas, screen, plane, cache>>

(* A late worker finds a task of the job to be started next.  Its drawing  *)
(* planes were released when the last job ended: an assertion fails, the   *)
(* exception is caught, and the task is gone.                              *)
TakeEarly(w) ==
  /\ gui.pc = "prepared" /\ w \in job.late
  /\ \E t \in job.queue :
       /\ job' = [job EXCEPT !.queue = @ \ {t}]
       /\ plane' = [plane EXCEPT ![t] = "lost"]
  /\ UNCHANGED <<gui, layout, worker, m_initial_update, thread, canvas, screen, cache, posted>>

-----------------------------------------------------------------------------
Init ==
  /\ gui = [pc |-> "idle", request |-> NoRequest, pass |-> 0]
  /\ layout = [dirty |-> Tasks, building |-> "no", attached |-> FALSE]
  /\ job = [running |-> FALSE, queue |-> {}, late |-> {}, stray |-> FALSE]
  /\ worker = [w \in Workers |-> [task |-> "none", reads |-> "no"]]
  /\ m_initial_update = FALSE
  /\ \E v \in Viewports :
       /\ thread = [enabled |-> {}, drawn |-> v, valid |-> "none", strips |-> FALSE]
       /\ canvas = [vp |-> v, visible |-> Layers, need |-> FALSE, clearing |-> FALSE, restart |-> {}, force |-> TRUE]
  /\ screen = [due |-> TRUE, update |-> TRUE, shown |-> FALSE]
  /\ plane = Blank
  /\ cache = <<>>
  /\ posted = <<"redraw">>

Requests ==
  \/ \E v \in Viewports : RequestViewport(v)
  \/ \E l \in Layers : RequestVisibility(l)
  \/ RequestHalt
  \/ \E x \in Tasks : RequestChange(x) \/ ChangeUnstopped(x)
  \/ ChangeDone
  \/ ViewportSet \/ NewLayers \/ VisibilitySet \/ Halted \/ LayerChanges \/ HierarchyChanges

Building == (\E how \in {"transaction", "changes"} : BeginBuilding(how)) \/ EndTransaction \/ EndChanges \/ Ask
Deferred == StartPass \/ DoUpdateImage \/ DoEndOfDrawing \/ DoRedraw
Painting == PaintOnly \/ PaintCached \/ PaintStart \/ Prepare \/ Start \/ Wait \/ Paint
Working ==
  (\E w \in Workers : Take(w) \/ Snapshot(w) \/ FinishTask(w) \/ AbortTask(w) \/ FinishAgain(w) \/ TakeEarly(w)) \/ JobFinished

Next == Requests \/ Building \/ Deferred \/ Painting \/ Working

Spec == Init /\ [][Next]_vars

-----------------------------------------------------------------------------
(* Properties.                                                             *)

(* Every variable has its type; a deferred method is queued at most once,  *)
(* and the current pass does not run past the queue.                       *)
TypeOK ==
  /\ gui \in [pc : {"idle", "stopping", "changing", "painting", "prepared", "started", "waiting", "woken"}, request : Request, pass : 0..Len(posted)]
  /\ layout \in [dirty : SUBSET Tasks, building : {"no", "transaction", "changes"}, attached : BOOLEAN]
  /\ job \in [running : BOOLEAN, queue : SUBSET Tasks, late : SUBSET Workers, stray : BOOLEAN]
  /\ worker \in [Workers -> [task : Tasks \cup {"none"}, reads : {"no", "yes", "torn"}]]
  /\ m_initial_update \in BOOLEAN
  /\ thread \in [enabled : SUBSET Tasks, drawn : Viewports, valid : {"none", "part", "whole"}, strips : BOOLEAN]
  /\ canvas \in [vp : Viewports, visible : SUBSET Layers, need : BOOLEAN, clearing : BOOLEAN, restart : SUBSET Layers, force : BOOLEAN]
  /\ screen \in [due : BOOLEAN, update : BOOLEAN, shown : BOOLEAN]
  /\ plane \in [Tasks -> Plane]
  /\ \A i \in DOMAIN cache : cache[i] \in Entry
  /\ posted \in Seq(Method) /\ IsInjective(posted)

(* While a worker reads a layout the redraw thread observes, that layout   *)
(* is neither changed nor in need of an update: the thread was stopped     *)
(* before the flag was set.                                                *)
ReadsProtected ==
  layout.attached => \A w \in Workers : worker[w].reads # "no" => gui.pc # "changing" /\ layout.dirty = {}

(* The GUI thread waits for the first planes only while a drawing is under *)
(* way that still has to wake it up.                                       *)
WaitEnds == gui.pc = "waiting" => job.running /\ m_initial_update

Settled == AtLoop /\ ~job.running /\ posted = <<>> /\ ~screen.due

(* Once nothing is under way any more, the screen shows the planes, these  *)
(* are of the current viewport, and every visible layer is drawn as it is  *)
(* now, strips included, unless it is one of the lost.                     *)
DrawnComplete ==
  Settled => screen.shown /\ thread.drawn = canvas.vp /\ \A t \in Visible : plane[t] \in {"full", "lost"}

(* Then too, the image cache holds finished images only: of the viewport   *)
(* they are kept for, with every layer they are said to show but the lost. *)
CacheSound ==
  Settled => \A i \in DOMAIN cache :
    /\ ~cache[i].open /\ cache[i].drawn = cache[i].vp
    /\ \A t \in cache[i].visible \cup {Boxes} : cache[i].data[t] \in {"full", "lost"}
=============================================================================

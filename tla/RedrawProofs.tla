---------------------------- MODULE RedrawProofs ----------------------------
(***************************************************************************)
(* Proofs about RedrawThread for all numbers of workers, layers, viewports *)
(* and cached images.                                                      *)
(*                                                                         *)
(* RedrawInv says that a run that is over has left nobody at work, that    *)
(* the layout is clean and left alone while the redraw thread observes it  *)
(* and runs, and who will wake up the GUI thread.  DrawInv says where each *)
(* layer that is not drawn yet waits for its turn: in a request, for the   *)
(* next paint event, in the job's queue or with a worker; and what each    *)
(* image of the cache shows until then.                                    *)
(***************************************************************************)
EXTENDS RedrawThread, SelectionProofs

-----------------------------------------------------------------------------
(* The inductive invariant.                                                *)

Shapes ==
  /\ gui = [pc |-> gui.pc, request |-> gui.request, pass |-> gui.pass]
  /\ layout = [dirty |-> layout.dirty, building |-> layout.building, attached |-> layout.attached]
  /\ job = [running |-> job.running, queue |-> job.queue, late |-> job.late, stray |-> job.stray]
  /\ job.running \in BOOLEAN /\ layout.attached \in BOOLEAN /\ m_initial_update \in BOOLEAN

(* Nobody works for a job that is not running.                             *)
Resting == ~job.running => AllIdle

(* A layout that is observed by a redraw thread that runs, or is about to, *)
(* is left alone.                                                          *)
LeftAlone ==
  layout.attached /\ (job.running \/ gui.pc = "prepared") => layout.dirty = {} /\ gui.pc # "changing"

(* Start tasks of a job that is over are superseded by those of the next.  *)
LateEnded == job.late # {} => ~job.running

(* The GUI thread goes to sleep, or is about to, with its waker at work.   *)
HasWaker ==
  gui.pc = "waiting" \/ (gui.pc = "started" /\ m_initial_update) => job.running /\ m_initial_update

RedrawInv == Shapes /\ Resting /\ LeftAlone /\ LateEnded /\ HasWaker

-----------------------------------------------------------------------------
LEMMA TornIdle == ASSUME AllIdle PROVE \A w \in Workers : ReadersTorn[w] = worker[w]
  BY DEF AllIdle, Idle, ReadersTorn

(* JobBase::stop() has returned: everybody rests, whatever comes next.     *)
LEMMA StoppedKeeps ==
  ASSUME RedrawInv, NEW kind, Stopped(kind), ToLoop \/ (\E x : Change(x)), UNCHANGED layout \/ (\E x : Change(x))
  PROVE RedrawInv'
  <1> USE DEF RedrawInv, Shapes
  <1>1. job'.running = FALSE /\ job'.queue = job.queue /\ job'.stray = job.stray /\ AllIdle /\ UNCHANGED <<worker, m_initial_update>>
        /\ job' = [running |-> job'.running, queue |-> job'.queue, late |-> job'.late, stray |-> job'.stray]
    <2>1. CASE job.running
      <3>1. PICK late \in SUBSET Workers : job' = [job EXCEPT !.running = FALSE, !.late = late]
        BY <2>1 DEF Stopped, JobEnds
      <3> QED
        BY <3>1 DEF Stopped
    <2>2. CASE ~job.running
      BY <2>2 DEF Stopped
    <2> QED
      BY <2>1, <2>2
  <1>2. Shapes'
    BY <1>1 DEF ToLoop, Change
  <1>3. gui'.pc \in {"idle", "changing"}
    BY DEF ToLoop, Change
  <1> QED
    BY <1>1, <1>2, <1>3 DEF Resting, LeftAlone, LateEnded, HasWaker, AllIdle, Idle

LEMMA InitInv == Init => RedrawInv
  <1> SUFFICES ASSUME Init PROVE RedrawInv
    OBVIOUS
  <1>1. /\ gui = [pc |-> "idle", request |-> NoRequest, pass |-> 0]
        /\ layout = [dirty |-> Tasks, building |-> "no", attached |-> FALSE]
        /\ job = [running |-> FALSE, queue |-> {}, late |-> {}, stray |-> FALSE]
        /\ m_initial_update = FALSE
    BY DEF Init
  <1>2. AllIdle
    <2>1. worker = [w \in Workers |-> [task |-> "none", reads |-> "no"]]
      BY DEF Init
    <2> QED
      BY <2>1 DEF AllIdle, Idle
  <1>3. Shapes
    BY <1>1 DEF Shapes
  <1>4. Resting /\ LeftAlone /\ LateEnded /\ HasWaker
    BY <1>1, <1>2 DEF Resting, LeftAlone, LateEnded, HasWaker
  <1> QED
    BY <1>3, <1>4 DEF RedrawInv

LEMMA RequestsKeep ==
  ASSUME RedrawInv, Requests
  PROVE RedrawInv'
  <1> USE DEF RedrawInv, Shapes
  <1>1. ASSUME NEW request, AtLoop, Stop(request)
        PROVE RedrawInv'
    BY <1>1 DEF Stop, AtLoop, Resting, LeftAlone, LateEnded, HasWaker, AllIdle, Idle
  <1>2. ASSUME NEW v \in Viewports, RequestViewport(v) PROVE RedrawInv'
    BY <1>1, <1>2 DEF RequestViewport, StopRedraw
  <1>3. ASSUME NEW l \in Layers, RequestVisibility(l) PROVE RedrawInv'
    BY <1>1, <1>3 DEF RequestVisibility, StopRedraw
  <1>4. CASE RequestHalt
    BY <1>1, <1>4 DEF RequestHalt, StopRedraw
  <1>5. ASSUME NEW x \in Tasks, RequestChange(x) PROVE RedrawInv'
    BY <1>1, <1>5 DEF RequestChange, StopRedraw
  <1>6. ASSUME NEW x \in Tasks, ChangeUnstopped(x) PROVE RedrawInv'
    <2>1. Shapes' /\ LateEnded' /\ HasWaker'
      BY <1>6 DEF ChangeUnstopped, Change, LateEnded, HasWaker
    <2>2. Resting'
      BY <1>6, TornIdle DEF ChangeUnstopped, Resting, AllIdle, Idle
    <2>3. ~(layout.attached /\ job.running) /\ gui'.pc = "changing"
      BY <1>6 DEF ChangeUnstopped, Change, Tells, LeftAlone
    <2>4. LeftAlone'
      BY <1>6, <2>3 DEF ChangeUnstopped, Change, LeftAlone
    <2> QED
      BY <2>1, <2>2, <2>4
  <1>7. CASE ChangeDone
    BY <1>7 DEF ChangeDone, Resting, LeftAlone, LateEnded, HasWaker, AllIdle, Idle
  <1>8. CASE ViewportSet \/ NewLayers \/ VisibilitySet \/ Halted
    BY <1>8, StoppedKeeps DEF ViewportSet, NewLayers, VisibilitySet, Halted
  <1>9. CASE LayerChanges \/ HierarchyChanges
    BY <1>9, StoppedKeeps DEF LayerChanges, HierarchyChanges
  <1> QED
    BY <1>2, <1>3, <1>4, <1>5, <1>6, <1>7, <1>8, <1>9 DEF Requests

LEMMA BuildingKeeps ==
  ASSUME RedrawInv, Building
  PROVE RedrawInv'
  <1> USE DEF RedrawInv, Shapes
  <1>1. ASSUME NEW how, BeginBuilding(how) PROVE RedrawInv'
    BY <1>1 DEF BeginBuilding, Resting, LeftAlone, LateEnded, HasWaker, AllIdle, Idle
  <1>2. CASE EndTransaction
    BY <1>2 DEF EndTransaction, Resting, LeftAlone, LateEnded, HasWaker, AllIdle, Idle
  <1>3. CASE Update
    <2>1. Shapes' /\ LeftAlone' /\ LateEnded' /\ HasWaker'
      BY <1>3 DEF Update, LeftAlone, LateEnded, HasWaker
    <2>2. Resting'
      BY <1>3, TornIdle DEF Update, Resting, AllIdle, Idle
    <2> QED
      BY <2>1, <2>2
  <1> QED
    BY <1>1, <1>2, <1>3 DEF Building, EndChanges, Ask

LEMMA DeferredKeeps ==
  ASSUME RedrawInv, Deferred
  PROVE RedrawInv'
  BY DEF RedrawInv, Shapes, Deferred, StartPass, DoUpdateImage, DoEndOfDrawing, DoRedraw, Execute, Executed,
         AtLoop, Resting, LeftAlone, LateEnded, HasWaker, AllIdle, Idle

LEMMA PaintingKeeps ==
  ASSUME RedrawInv, Painting
  PROVE RedrawInv'
  <1> USE DEF RedrawInv, Shapes
  <1>1. CASE PaintOnly \/ PaintCached
    BY <1>1 DEF PaintOnly, PaintCached, Resting, LeftAlone, LateEnded, HasWaker, AllIdle, Idle
  <1>2. CASE PaintStart
    BY <1>2 DEF PaintStart, AtLoop, Resting, LeftAlone, LateEnded, HasWaker, AllIdle, Idle
  <1>5. CASE Prepare
    <2>1. /\ gui' = [gui EXCEPT !.pc = "prepared"] /\ layout' = Observed /\ m_initial_update' = TRUE /\ UNCHANGED worker
          /\ job' = [job EXCEPT !.queue = thread'.enabled \cap Visible]
      BY <1>5 DEF Prepare
    <2>2. PICK queue : job' = [job EXCEPT !.queue = queue]
      BY <2>1
    <2> QED
      BY <2>1, <2>2 DEF Observed, Free, Resting, LeftAlone, LateEnded, HasWaker, AllIdle, Idle
  <1>6. CASE Start
    BY <1>6 DEF Start, Resting, LeftAlone, LateEnded, HasWaker
  <1>3. CASE Wait
    BY <1>3 DEF Wait, MustWait, Resting, LeftAlone, LateEnded, HasWaker, AllIdle, Idle
  <1>4. CASE Paint
    BY <1>4 DEF Paint, Resting, LeftAlone, LateEnded, HasWaker, AllIdle, Idle
  <1> QED
    BY <1>1, <1>2, <1>3, <1>4, <1>5, <1>6 DEF Painting

LEMMA WorkingKeeps ==
  ASSUME RedrawInv, Working
  PROVE RedrawInv'
  <1> USE DEF RedrawInv, Shapes
  <1>1. ASSUME NEW w \in Workers, Take(w) PROVE RedrawInv'
    BY <1>1 DEF Take, Resting, LeftAlone, LateEnded, HasWaker
  <1>2. ASSUME NEW w \in Workers, Snapshot(w) PROVE RedrawInv'
    <2>1. UNCHANGED <<layout, job, worker>>
      BY <1>2 DEF Snapshot
    <2>2. Resting'
      BY <2>1 DEF Resting, AllIdle, Idle
    <2>3. CASE Wakeup
      <3>1. ~m_initial_update' /\ gui'.pc # "waiting" /\ (gui.pc # "changing" => gui'.pc # "changing")
        BY <2>3, <2>1 DEF Wakeup, HasWaker
      <3>2. Shapes'
        BY <2>3, <2>1 DEF Wakeup
      <3>3. LeftAlone' /\ LateEnded' /\ HasWaker'
        BY <2>3, <3>1, <2>1 DEF Wakeup, LeftAlone, LateEnded, HasWaker
      <3> QED
        BY <2>2, <3>2, <3>3
    <2>4. CASE UNCHANGED <<gui, m_initial_update>>
      BY <2>1, <2>2, <2>4 DEF LeftAlone, LateEnded, HasWaker
    <2> QED
      BY <1>2, <2>3, <2>4 DEF Snapshot
  <1>3. ASSUME NEW w \in Workers, FinishTask(w) \/ AbortTask(w) PROVE RedrawInv'
    <2>1. job.running
      BY <1>3 DEF FinishTask, AbortTask, Resting, AllIdle, Idle
    <2> QED
      BY <1>3, <2>1 DEF FinishTask, AbortTask, Resting, LeftAlone, LateEnded, HasWaker
  <1>4. CASE JobFinished
    <2>1. PICK late \in SUBSET Workers : job' = [job EXCEPT !.running = FALSE, !.late = late]
      BY <1>4 DEF JobFinished, JobEnds
    <2>2. AllIdle /\ UNCHANGED <<layout, worker>> /\ Wakeup
      BY <1>4 DEF JobFinished, Done
    <2> QED
      BY <2>1, <2>2 DEF Wakeup, Resting, LeftAlone, LateEnded, HasWaker, AllIdle, Idle
  <1>5. ASSUME NEW w \in Workers, FinishAgain(w) PROVE RedrawInv'
    <2>1. /\ w \in job.late /\ job' = [job EXCEPT !.late = @ \ {w}, !.stray = @ \/ Preparing]
          /\ Wakeup /\ UNCHANGED <<layout, worker>>
      BY <1>5 DEF FinishAgain, Done
    <2>2. /\ ~job.running /\ ~job'.running
          /\ job' = [running |-> job'.running, queue |-> job'.queue, late |-> job'.late, stray |-> job'.stray]
      BY <2>1 DEF LateEnded
    <2>3. gui.pc # "waiting" /\ gui' = gui /\ m_initial_update' = FALSE
      BY <2>1, <2>2 DEF Wakeup, HasWaker
    <2> QED
      BY <2>1, <2>2, <2>3 DEF Resting, LeftAlone, LateEnded, HasWaker, AllIdle, Idle
  <1>6. ASSUME NEW w \in Workers, TakeEarly(w) PROVE RedrawInv'
    BY <1>6 DEF TakeEarly, Resting, LeftAlone, LateEnded, HasWaker, AllIdle, Idle
  <1> QED
    BY <1>1, <1>2, <1>3, <1>4, <1>5, <1>6 DEF Working

LEMMA InvHolds == Spec => []RedrawInv
  <1>1. RedrawInv /\ UNCHANGED vars => RedrawInv'
    BY DEF vars, RedrawInv, Shapes, Resting, LeftAlone, LateEnded, HasWaker, AllIdle, Idle
  <1>2. RedrawInv /\ Next => RedrawInv'
    BY RequestsKeep, BuildingKeeps, DeferredKeeps, PaintingKeeps, WorkingKeeps DEF Next
  <1> QED
    BY InitInv, <1>1, <1>2, PTL DEF Spec

-----------------------------------------------------------------------------
(* No worker reads an observed layout while it changes or waits for an     *)
(* update (RedrawThread::layout_changed, LayoutStateModel), whatever the   *)
(* order of requests, transactions, drawings and deferred methods.         *)
THEOREM ReadsCorrect == Spec => []ReadsProtected
  <1>1. RedrawInv => ReadsProtected
    BY DEF RedrawInv, Resting, LeftAlone, ReadsProtected, AllIdle, Idle
  <1> QED
    BY <1>1, InvHolds, PTL

(* Whenever do_start waits, the job runs and has not called wakeup() yet:  *)
(* neither the first planes nor the end of the drawing come unnoticed.     *)
THEOREM WaitCorrect == Spec => []WaitEnds
  <1>1. RedrawInv => WaitEnds
    BY DEF RedrawInv, HasWaker, WaitEnds
  <1> QED
    BY <1>1, InvHolds, PTL
-----------------------------------------------------------------------------
(* The list of deferred methods, by what it contains.                      *)

LEMMA HoldsPosted ==
  ASSUME NEW q \in Seq(Method), IsInjective(q), NEW m \in Method
  PROVE /\ Posted(q, m) \in Seq(Method) /\ IsInjective(Posted(q, m)) /\ Len(q) <= Len(Posted(q, m))
        /\ \A k : Contains(Posted(q, m), k) <=> Contains(q, k) \/ k = m
  <1>1. CASE Contains(q, m)
    BY <1>1 DEF Posted
  <1>2. CASE ~Contains(q, m)
    <2>1. Posted(q, m) = Append(q, m)
      BY <1>2 DEF Posted
    <2>2. \A i \in 1..Len(q) : q[i] # m
      BY <1>2 DEF Contains
    <2>3. /\ Append(q, m) \in Seq(Method) /\ Len(Append(q, m)) = Len(q) + 1 /\ Len(q) \in Nat
          /\ \A i \in 1..Len(q) : Append(q, m)[i] = q[i]
          /\ Append(q, m)[Len(q) + 1] = m
      OBVIOUS
    <2>4. IsInjective(Append(q, m))
      BY <2>2, <2>3 DEF IsInjective
    <2>5. ASSUME NEW k PROVE Contains(Append(q, m), k) <=> Contains(q, k) \/ k = m
      BY <2>3 DEF Contains
    <2> QED
      BY <2>1, <2>3, <2>4, <2>5
  <1> QED
    BY <1>1, <1>2

LEMMA HoldsWithout ==
  ASSUME NEW q \in Seq(Method), IsInjective(q), NEW m
  PROVE /\ Without(q, m) \in Seq(Method) /\ IsInjective(Without(q, m))
        /\ \A k : Contains(Without(q, m), k) <=> Contains(q, k) /\ k # m
  <1> DEFINE I == DOMAIN q \ PositionsOf(q, m)
             r == Selected(q, I)
  <1>1. I \in SUBSET (1..Len(q)) /\ Len(q) \in Nat /\ DOMAIN q = 1..Len(q) /\ \A i \in 1..Len(q) : i \in I <=> q[i] # m
    BY DEF PositionsOf
  <1>2. /\ r \in Seq(Method) /\ Len(r) = Cardinality(I) /\ Cardinality(I) \in Nat
        /\ \A k \in 1..Cardinality(I) : AtRank(I, k) \in I /\ r[k] = q[AtRank(I, k)]
    BY <1>1, SelectedIsSeq
  <1>3. \A i \in I : Rank(I, i) \in 1..Cardinality(I) /\ AtRank(I, Rank(I, i)) = i
    BY <1>1, RankRises, AtRankOfRank
  <1>4. \A k, l \in 1..Cardinality(I) : k < l => AtRank(I, k) < AtRank(I, l)
    BY <1>1, SelectedInOrder
  <1> HIDE DEF I, r
  <1>5. IsInjective(r)
    <2> SUFFICES ASSUME NEW k \in 1..Cardinality(I), NEW l \in 1..Cardinality(I), r[k] = r[l] PROVE k = l
      BY <1>2 DEF IsInjective
    <2>1. PICK a \in DOMAIN q : a = AtRank(I, k) /\ r[k] = q[a]
      BY <1>1, <1>2
    <2>2. PICK b \in DOMAIN q : b = AtRank(I, l) /\ r[l] = q[b]
      BY <1>1, <1>2
    <2>3. \A i, j \in DOMAIN q : q[i] = q[j] => i = j
      BY Zenon DEF IsInjective
    <2>4. a = b
      BY <2>1, <2>2, <2>3, Zenon
    <2>5. a \in Int
      BY <1>1
    <2>6. ~(k < l) /\ ~(l < k)
      <3>1. /\ k < l => AtRank(I, k) < AtRank(I, l)
            /\ l < k => AtRank(I, l) < AtRank(I, k)
        BY <1>4, Zenon
      <3>2. ~(AtRank(I, k) < AtRank(I, l)) /\ ~(AtRank(I, l) < AtRank(I, k))
        BY <2>1, <2>2, <2>4, <2>5
      <3> QED
        BY <3>1, <3>2, Zenon
    <2>7. k \in Int /\ l \in Int
      BY <1>2
    <2> QED
      BY <2>6, <2>7
  <1>6. ASSUME NEW k PROVE Contains(r, k) <=> Contains(q, k) /\ k # m
    <2>1. Contains(r, k) => Contains(q, k) /\ k # m
      BY <1>1, <1>2 DEF Contains
    <2>2. ASSUME Contains(q, k), k # m PROVE Contains(r, k)
      <3>1. PICK i \in 1..Len(q) : q[i] = k
        BY <2>2 DEF Contains
      <3>2. i \in I
        BY <1>1, <2>2, <3>1
      <3> QED
        BY <1>2, <1>3, <3>1, <3>2 DEF Contains
    <2> QED
      BY <2>1, <2>2
  <1> QED
    BY <1>2, <1>5, <1>6 DEF Without, I, r

LEMMA HoldsTail ==
  ASSUME NEW q \in Seq(Method), IsInjective(q), q # <<>>
  PROVE /\ Tail(q) \in Seq(Method) /\ IsInjective(Tail(q)) /\ Len(Tail(q)) = Len(q) - 1
        /\ \A k : Contains(Tail(q), k) <=> Contains(q, k) /\ k # Head(q)
  <1>1. /\ Tail(q) \in Seq(Method) /\ Len(Tail(q)) = Len(q) - 1 /\ Len(q) \in Nat /\ Len(q) > 0
        /\ \A i \in 1..(Len(q) - 1) : Tail(q)[i] = q[i + 1]
        /\ Head(q) = q[1]
    OBVIOUS
  <1>2. IsInjective(Tail(q))
    <2> SUFFICES ASSUME NEW i \in 1..(Len(q) - 1), NEW j \in 1..(Len(q) - 1), Tail(q)[i] = Tail(q)[j] PROVE i = j
      BY <1>1 DEF IsInjective
    <2>1. i + 1 \in DOMAIN q /\ j + 1 \in DOMAIN q /\ q[i + 1] = q[j + 1]
      BY <1>1
    <2>2. i + 1 = j + 1
      BY <2>1 DEF IsInjective
    <2> QED
      BY <2>2
  <1>3. ASSUME NEW k PROVE Contains(Tail(q), k) <=> Contains(q, k) /\ k # Head(q)
    <2>1. ASSUME Contains(Tail(q), k) PROVE Contains(q, k) /\ k # Head(q)
      <3>1. PICK i \in 1..(Len(q) - 1) : Tail(q)[i] = k
        BY <1>1, <2>1 DEF Contains
      <3>2. i + 1 \in 1..Len(q) /\ 1 \in 1..Len(q) /\ q[i + 1] = k /\ i + 1 # 1
        BY <1>1, <3>1
      <3> QED
        BY <1>1, <3>2 DEF IsInjective, Contains
    <2>2. ASSUME Contains(q, k), k # Head(q) PROVE Contains(Tail(q), k)
      <3>1. PICK i \in 1..Len(q) : q[i] = k
        BY <2>2 DEF Contains
      <3>2. i - 1 \in 1..(Len(q) - 1) /\ Tail(q)[i - 1] = k
        BY <1>1, <2>2, <3>1
      <3> QED
        BY <1>1, <3>2 DEF Contains
    <2> QED
      BY <2>1, <2>2
  <1> QED
    BY <1>1, <1>2, <1>3

-----------------------------------------------------------------------------
(* Types.                                                                  *)

JobType == [running : BOOLEAN, queue : SUBSET Tasks, late : SUBSET Workers, stray : BOOLEAN]
ThreadType == [enabled : SUBSET Tasks, drawn : Viewports, valid : {"none", "part", "whole"}, strips : BOOLEAN]
CanvasType ==
  [vp : Viewports, visible : SUBSET Layers, need : BOOLEAN, clearing : BOOLEAN, restart : SUBSET Layers, force : BOOLEAN]

GuiTyped ==
  gui \in [pc : {"idle", "stopping", "changing", "painting", "prepared", "started", "waiting", "woken"}, request : Request, pass : Nat]
PostedTyped == posted \in Seq(Method) /\ IsInjective(posted) /\ gui.pass <= Len(posted)
JobTyped ==
  /\ job \in JobType
  /\ worker \in [Workers -> [task : Tasks \cup {"none"}, reads : {"no", "yes", "torn"}]]
  /\ thread \in ThreadType
LayoutTyped == layout \in [dirty : SUBSET Tasks, building : {"no", "transaction", "changes"}, attached : BOOLEAN]
CanvasTyped ==
  /\ canvas \in CanvasType
  /\ screen \in [due : BOOLEAN, update : BOOLEAN, shown : BOOLEAN]
PlaneTyped == plane \in [Tasks -> Plane] /\ cache \in Seq(Entry)

Types ==
  /\ GuiTyped /\ PostedTyped /\ JobTyped /\ LayoutTyped /\ CanvasTyped /\ PlaneTyped
  /\ m_initial_update \in BOOLEAN

LEMMA RequestFits ==
  ASSUME NEW r \in Request
  PROVE /\ r.kind \in {"none", "new", "halt", "viewport", "visibility", "change"}
        /\ r.kind = "viewport" => r.on \in Viewports
        /\ r.kind = "visibility" => r.on \in Layers
        /\ r.kind = "change" => r.on \in Tasks
  BY DEF Request

LEMMA RequestsFit ==
  /\ NoRequest \in Request /\ [kind |-> "new"] \in Request /\ [kind |-> "halt"] \in Request
  /\ \A v \in Viewports : [kind |-> "viewport", on |-> v] \in Request
  /\ \A l \in Layers : [kind |-> "visibility", on |-> l] \in Request
  /\ \A x \in Tasks : [kind |-> "change", on |-> x] \in Request
  BY DEF Request, NoRequest

(* An operator on the planes goes over the images of the cache.            *)
LEMMA ImagesFit ==
  ASSUME cache \in Seq(Entry), NEW op, \A i \in DOMAIN cache : op[i] \in [Tasks -> Plane],
         cache' = [i \in DOMAIN cache |-> [cache[i] EXCEPT !.data = op[i]]]
  PROVE /\ cache' \in Seq(Entry) /\ Len(cache') = Len(cache) /\ DOMAIN cache' = DOMAIN cache
        /\ \A i \in DOMAIN cache :
             /\ cache'[i].open = cache[i].open /\ cache'[i].vp = cache[i].vp /\ cache'[i].visible = cache[i].visible
             /\ cache'[i].drawn = cache[i].drawn /\ cache'[i].data = op[i]
  <1>1. \A i \in DOMAIN cache : cache[i] \in Entry
    OBVIOUS
  <1>2. \A r \in Entry, d \in [Tasks -> Plane] :
          LET e == [r EXCEPT !.data = d]
          IN /\ e \in Entry /\ e.open = r.open /\ e.vp = r.vp /\ e.visible = r.visible
             /\ e.drawn = r.drawn /\ e.data = d
    BY DEF Entry
  <1>3. ASSUME NEW i \in DOMAIN cache
        PROVE /\ cache'[i] \in Entry /\ cache'[i].open = cache[i].open /\ cache'[i].vp = cache[i].vp
              /\ cache'[i].visible = cache[i].visible /\ cache'[i].drawn = cache[i].drawn /\ cache'[i].data = op[i]
    <2>1. PICK r \in Entry, d \in [Tasks -> Plane] : r = cache[i] /\ d = op[i]
      BY <1>1
    <2>2. cache'[i] = [r EXCEPT !.data = d]
      BY <2>1
    <2> DEFINE e == [r EXCEPT !.data = d]
    <2>3. /\ e \in Entry /\ e.open = r.open /\ e.vp = r.vp /\ e.visible = r.visible
          /\ e.drawn = r.drawn /\ e.data = d
      BY <1>2
    <2> HIDE DEF e
    <2>4. cache'[i] = e
      BY <2>2 DEF e
    <2> QED
      BY <2>1, <2>3, <2>4
  <1>4. Len(cache) \in Nat /\ DOMAIN cache = 1..Len(cache)
    OBVIOUS
  <1>5. cache' \in Seq(Entry) /\ DOMAIN cache' = DOMAIN cache
    BY <1>3, <1>4
  <1> QED
    BY <1>3, <1>4, <1>5

LEMMA ImageFits ==
  ASSUME Types
  PROVE /\ cache \in Seq(Entry)
        /\ \A i \in DOMAIN cache : cache[i].data \in [Tasks -> Plane] /\ cache[i].visible \subseteq Layers
  <1>1. cache \in Seq(Entry)
    BY DEF Types, PlaneTyped
  <1>2. ASSUME NEW i \in DOMAIN cache PROVE cache[i].data \in [Tasks -> Plane] /\ cache[i].visible \subseteq Layers
    <2>1. PICK e \in Entry : e = cache[i]
      BY <1>1
    <2>2. e.data \in [Tasks -> Plane] /\ e.visible \subseteq Layers
      BY DEF Entry
    <2> QED
      BY <2>1, <2>2
  <1> QED
    BY <1>1, <1>2

(* What a plane shows of its layer, and what it lacks.                     *)
Shows == {"full", "part"}
Lacks == {"part", "stale"}

LEMMA AgedFits ==
  ASSUME NEW data \in [Tasks -> Plane], NEW x
  PROVE /\ Aged(data, x) \in [Tasks -> Plane]
        /\ \A t \in Tasks : Aged(data, x)[t] \in Shows => data[t] \in Shows /\ t \notin Affected(x)
        /\ \A t \in Tasks : Aged(data, x)[t] = "stale" => data[t] = "stale" \/ (t \in Affected(x) /\ data[t] \in Shows)
        /\ \A t \in Tasks : Aged(data, x)[t] \in Lacks => data[t] \in Lacks \/ (t \in Affected(x) /\ data[t] \in Shows)
  BY DEF Aged, Plane, Shows, Lacks

LEMMA AbandonedFits ==
  ASSUME NEW data \in [Tasks -> Plane]
  PROVE /\ Abandoned(data) \in [Tasks -> Plane]
        /\ \A t \in Tasks : Abandoned(data)[t] \notin Lacks /\ (Abandoned(data)[t] \in Shows => data[t] \in Shows)
  BY DEF Abandoned, Plane, Shows, Lacks

-----------------------------------------------------------------------------
(* The second invariant: what a plane lacks is drawn, after a request that *)
(* is pending, by the next paint event or by the workers, and the images of*)
(* the cache keep up with the layout.                                      *)

Posts(m) == Contains(posted, m)
InPaint == gui.pc \in {"prepared", "started", "waiting", "woken"}
NextPaint == canvas.need /\ ~InPaint
Halting == Stopping /\ gui.request.kind = "halt"

(* Everything is drawn in full sooner or later.                            *)
AllComing ==
  \/ Posts("redraw")
  \/ Stopping /\ gui.request.kind = "new"
  \/ canvas.clearing /\ canvas.force /\ NextPaint

Worked(t) == t \in job.queue \/ \E w \in Workers : worker[w].task = t

(* A layer the thread has enabled waits for a worker, unless it is hidden. *)
Coming(t) ==
  \/ AllComing \/ Halting
  \/ NextPaint /\ t \in canvas.restart
  \/ t \in thread.enabled /\ (t \in Visible => NextPaint \/ Stopping \/ Worked(t))

StaleComing == \A t \in Tasks : plane[t] \in Lacks => Coming(t)

(* Strips do not complete a plane that lacks more than them.               *)
StripsSuffice == thread.strips => \A t \in Tasks : Worked(t) /\ plane[t] = "stale" => AllComing \/ Halting

(* The view has asked for all layers before the hierarchy changes.         *)
HierComing == Stopping /\ gui.request.kind = "change" /\ gui.request.on = Boxes => Posts("redraw")

(* The open image is the last one, of the drawing to come, of the one under*)
(* way or of the one that has just ended; a request that stops that drawing*)
(* drops it.  If its end is announced before it has come, by a late worker,*)
(* the history knows.                                                      *)
OpenImage(i) ==
  /\ i = Len(cache) /\ cache[i].vp = canvas.vp /\ cache[i].visible = canvas.visible
  /\ job.running \/ Preparing \/ Posts("end_of_drawing")
  /\ (job.running \/ Preparing) /\ Posts("end_of_drawing") => job.stray
  /\ NextPaint => gui.pc = "painting"
  /\ Stopping => gui.request.kind = "change" /\ gui.request.on = Boxes

FinishedImage(i) ==
  /\ cache[i].drawn = cache[i].vp
  /\ \A t \in cache[i].visible \cup {Boxes} : cache[i].data[t] \in Lacks => Posts("redraw") \/ Halting

Images == \A i \in DOMAIN cache : (cache[i].open => OpenImage(i)) /\ (~cache[i].open => FinishedImage(i))

(* What changed since the last update is not shown as it is now.           *)
NotShown(data, dirty) == \A x \in dirty : \A t \in Affected(x) : data[t] \notin Shows

DirtyNotShown ==
  /\ NotShown(plane, layout.dirty) /\ \A i \in DOMAIN cache : NotShown(cache[i].data, layout.dirty)
  /\ \A w \in Workers : worker[w].reads = "yes" => layout.dirty = {}

(* Every task is with one worker, or in the queue, until it is drawn.      *)
Shared ==
  /\ job.queue \subseteq thread.enabled /\ job.queue \subseteq Visible
  /\ \A w \in Workers : worker[w].task # "none" => worker[w].task \in (thread.enabled \cap Visible) \ job.queue
  /\ \A w, u \in Workers : worker[w].task # "none" /\ worker[u].task = worker[w].task => u = w
  /\ \A w \in Workers : worker[w].task = "none" => worker[w].reads = "no"
  /\ Stopping \/ (~job.running /\ gui.pc # "prepared") => job.queue = {}
  /\ NextPaint \/ Preparing => ~job.running
  /\ ~job.running => \A w \in Workers : worker[w].task = "none"
  /\ job.late # {} => ~job.running

(* A request for a drawing waits for the paint event, and so do new planes *)
(* unless the drawing they belong to has not ended.                        *)
OnScreen ==
  /\ canvas.need => screen.due
  /\ InPaint \/ Preparing => canvas.need
  /\ canvas.clearing => canvas.need
  /\ canvas.restart # {} => canvas.need /\ canvas.force
  /\ m_initial_update => InPaint
  /\ thread.drawn = canvas.vp \/ (canvas.clearing /\ NextPaint)
  /\ screen.shown \/ job.running \/ Posts("update_image") \/ (screen.due /\ (screen.update \/ canvas.need))

DrawInv ==
  /\ Types /\ Shared /\ OnScreen /\ DirtyNotShown /\ Images
  /\ HierComing /\ StaleComing /\ StripsSuffice

LEMMA IdleWorkers ==
  ASSUME Types, Shared
  PROVE \A w \in Workers : Idle(w) <=> worker[w].task = "none"
  BY DEF Types, JobTyped, Shared, Idle

LEMMA ImagesLeft ==
  ASSUME Types, NEW I \in SUBSET DOMAIN cache
  PROVE /\ Selected(cache, I) \in Seq(Entry)
        /\ \A i \in DOMAIN Selected(cache, I) : \E j \in I : Selected(cache, I)[i] = cache[j]
  <1>1. cache \in Seq(Entry)
    BY DEF Types, PlaneTyped
  <1>2. /\ Selected(cache, I) \in Seq(Entry)
        /\ Len(Selected(cache, I)) = Cardinality(I) /\ Cardinality(I) \in Nat
        /\ \A k \in 1..Cardinality(I) : AtRank(I, k) \in I /\ Selected(cache, I)[k] = cache[AtRank(I, k)]
    BY <1>1, SelectedIsSeq
  <1>3. DOMAIN Selected(cache, I) = 1..Cardinality(I)
    BY <1>2
  <1> QED
    BY <1>2, <1>3

(* The GUI thread stops the drawing for a request.                         *)
LEMMA StopKeeps ==
  ASSUME DrawInv, gui.pc = "idle", NEW r \in Request,
         GuiTyped', PostedTyped', gui'.pc = "stopping", gui'.request = r, job' = [job EXCEPT !.queue = {}],
         UNCHANGED <<layout, worker, m_initial_update, thread, canvas, screen, plane>>,
         Posts("update_image") => Posts("update_image")',
         Posts("end_of_drawing")' <=> Posts("end_of_drawing"),
         Posts("redraw") => Posts("redraw")' \/ r.kind \in {"halt", "new"},
         r.kind = "change" /\ r.on = Boxes => Posts("redraw")',
         r.kind = "new" => cache' = <<>>,
         cache' \in Seq(Entry), \A i \in DOMAIN cache' : \E j \in DOMAIN cache : cache'[i] = cache[j],
         \/ cache' = cache /\ r.kind = "change" /\ r.on = Boxes
         \/ \A i \in DOMAIN cache' : ~cache'[i].open
  PROVE DrawInv'
  <1>1. Types /\ Shared /\ OnScreen /\ DirtyNotShown /\ Images /\ HierComing /\ StaleComing /\ StripsSuffice
    BY DEF DrawInv
  <1>2. ~InPaint /\ ~InPaint' /\ ~Stopping /\ Stopping' /\ (NextPaint' <=> NextPaint) /\ ~Halting /\ ~Preparing /\ ~Preparing'
    BY DEF InPaint, Stopping, NextPaint, Halting, Preparing
  <1>3. /\ job'.running = job.running /\ job'.queue = {} /\ job'.late = job.late /\ job'.stray = job.stray
        /\ job' \in JobType
    <2>1. PICK none \in SUBSET Tasks : none = {}
      OBVIOUS
    <2>2. job' = [job EXCEPT !.queue = none]
      BY <2>1
    <2> QED
      BY <1>1, <2>1, <2>2 DEF Types, JobTyped, JobType
  <1>4. Types'
    BY <1>1, <1>3 DEF Types, JobTyped, LayoutTyped, CanvasTyped, PlaneTyped
  <1>5. Shared'
    BY <1>1, <1>2, <1>3 DEF Shared, Visible
  <1>6. OnScreen'
    BY <1>1, <1>2, <1>3 DEF OnScreen
  <1>7. DirtyNotShown'
    BY <1>1 DEF DirtyNotShown, NotShown
  <1>8. Images'
    <2>1. CASE cache' = cache /\ r.kind = "change" /\ r.on = Boxes
      BY <1>1, <1>2, <1>3, <2>1 DEF Images, OpenImage, FinishedImage, Halting
    <2>2. CASE \A i \in DOMAIN cache' : ~cache'[i].open
      <3> SUFFICES ASSUME NEW i \in DOMAIN cache' PROVE FinishedImage(i)'
        BY <2>2 DEF Images
      <3>1. PICK j \in DOMAIN cache : cache'[i] = cache[j]
        OBVIOUS
      <3>2. FinishedImage(j) /\ ~(r.kind = "new")
        BY <1>1, <2>2, <3>1 DEF Images
      <3> QED
        BY <1>2, <3>1, <3>2 DEF FinishedImage, Halting
    <2> QED
      BY <2>1, <2>2
  <1>9. HierComing'
    BY DEF HierComing
  <1>10. AllComing => AllComing' \/ Halting'
    BY <1>2 DEF AllComing, Halting
  <1>11. StaleComing'
    <2> SUFFICES ASSUME NEW t \in Tasks, plane[t] \in Lacks PROVE Coming(t)'
      BY DEF StaleComing
    <2>1. Coming(t)
      BY <1>1 DEF StaleComing
    <2> QED
      BY <1>2, <1>10, <2>1 DEF Coming
  <1>12. StripsSuffice'
    BY <1>1, <1>2, <1>3, <1>10 DEF StripsSuffice, Worked
  <1> QED
    BY <1>4, <1>5, <1>6, <1>7, <1>8, <1>9, <1>11, <1>12 DEF DrawInv

(* What Stop does to the GUI thread.                                       *)
LEMMA StopFits ==
  ASSUME Types, NEW r \in Request, Stop(r)
  PROVE /\ GuiTyped' /\ gui'.pc = "stopping" /\ gui'.request = r /\ gui'.pass = gui.pass
        /\ job' = [job EXCEPT !.queue = {}]
        /\ UNCHANGED <<layout, worker, m_initial_update, thread, canvas, screen, plane>>
  <1>1. gui' = [gui EXCEPT !.pc = "stopping", !.request = r]
    BY DEF Stop
  <1>2. GuiTyped' /\ gui'.pc = "stopping" /\ gui'.request = r /\ gui'.pass = gui.pass
    BY <1>1 DEF Types, GuiTyped
  <1> QED
    BY <1>2 DEF Stop

LEMMA ClosedFits ==
  ASSUME Types
  PROVE /\ Closed \in Seq(Entry) /\ \A i \in DOMAIN Closed : ~Closed[i].open
        /\ \A i \in DOMAIN Closed : \E j \in DOMAIN cache : Closed[i] = cache[j]
  <1> DEFINE I == {i \in DOMAIN cache : ~cache[i].open}
  <1>1. /\ Selected(cache, I) \in Seq(Entry)
        /\ \A i \in DOMAIN Selected(cache, I) : \E j \in I : Selected(cache, I)[i] = cache[j]
    BY ImagesLeft
  <1> QED
    BY <1>1 DEF Closed

LEMMA PostedType == ASSUME Types PROVE posted \in Seq(Method) /\ IsInjective(posted) /\ gui.pass <= Len(posted) /\ gui.pass \in Nat
  BY DEF Types, PostedTyped, GuiTyped

(* stop_redraw for a new viewport, a layer to show or hide, or a halt.     *)
LEMMA StopRedrawKeeps ==
  ASSUME DrawInv, AtLoop, NEW r \in Request, StopRedraw(r), r.kind # "new", ~(r.kind = "change" /\ r.on = Boxes),
         posted' = posted \/ (r.kind = "halt" /\ posted' = Without(posted, "redraw"))
  PROVE DrawInv'
  <1>1. Types /\ gui.pc = "idle" /\ gui.pass = 0
    BY DEF DrawInv, AtLoop
  <1>2. Stop(r) /\ cache' = Closed
    BY DEF StopRedraw
  <1>3. /\ GuiTyped' /\ gui'.pc = "stopping" /\ gui'.request = r /\ gui'.pass = gui.pass
        /\ job' = [job EXCEPT !.queue = {}]
        /\ UNCHANGED <<layout, worker, m_initial_update, thread, canvas, screen, plane>>
    BY <1>1, <1>2, StopFits
  <1>4. /\ cache' \in Seq(Entry) /\ \A i \in DOMAIN cache' : ~cache'[i].open
        /\ \A i \in DOMAIN cache' : \E j \in DOMAIN cache : cache'[i] = cache[j]
    BY <1>1, <1>2, ClosedFits
  <1>5. posted \in Seq(Method) /\ IsInjective(posted)
    BY <1>1, PostedType
  <1>6. /\ posted' \in Seq(Method) /\ IsInjective(posted')
        /\ \A k : Contains(posted', k) => Contains(posted, k)
        /\ \A k : Contains(posted, k) => Contains(posted', k) \/ (r.kind = "halt" /\ k = "redraw")
    BY <1>5, HoldsWithout
  <1>7. /\ PostedTyped'
        /\ Posts("update_image") => Posts("update_image")'
        /\ Posts("end_of_drawing")' <=> Posts("end_of_drawing")
        /\ Posts("redraw") => Posts("redraw")' \/ r.kind \in {"halt", "new"}
    BY <1>1, <1>3, <1>6 DEF PostedTyped, Posts
  <1> QED
    BY <1>1, <1>3, <1>4, <1>7, StopKeeps

LEMMA RequestsStop ==
  ASSUME DrawInv,
         \/ \E v \in Viewports : RequestViewport(v)
         \/ \E l \in Layers : RequestVisibility(l)
         \/ RequestHalt
         \/ \E x \in Tasks : RequestChange(x)
  PROVE DrawInv'
  <1>1. ASSUME NEW v \in Viewports, RequestViewport(v) PROVE DrawInv'
    <2> DEFINE r == [kind |-> "viewport", on |-> v]
    <2>1. r \in Request /\ r.kind = "viewport"
      BY RequestsFit
    <2>2. AtLoop /\ StopRedraw(r) /\ posted' = posted
      BY <1>1 DEF RequestViewport
    <2> HIDE DEF r
    <2> QED
      BY <2>1, <2>2, StopRedrawKeeps
  <1>2. ASSUME NEW l \in Layers, RequestVisibility(l) PROVE DrawInv'
    <2> DEFINE r == [kind |-> "visibility", on |-> l]
    <2>1. r \in Request /\ r.kind = "visibility"
      BY RequestsFit
    <2>2. AtLoop /\ StopRedraw(r) /\ posted' = posted
      BY <1>2 DEF RequestVisibility
    <2> HIDE DEF r
    <2> QED
      BY <2>1, <2>2, StopRedrawKeeps
  <1>3. CASE RequestHalt
    <2> DEFINE r == [kind |-> "halt"]
    <2>1. r \in Request /\ r.kind = "halt"
      BY RequestsFit
    <2>2. AtLoop /\ StopRedraw(r) /\ posted' = Without(posted, "redraw")
      BY <1>3 DEF RequestHalt
    <2> HIDE DEF r
    <2> QED
      BY <2>1, <2>2, StopRedrawKeeps
  <1>4. ASSUME NEW x \in Tasks, RequestChange(x), x # Boxes PROVE DrawInv'
    <2> DEFINE r == [kind |-> "change", on |-> x]
    <2>1. r \in Request /\ r.kind = "change" /\ r.on = x
      BY RequestsFit
    <2>2. AtLoop /\ StopRedraw(r) /\ posted' = posted
      BY <1>4 DEF RequestChange
    <2> HIDE DEF r
    <2> QED
      BY <1>4, <2>1, <2>2, StopRedrawKeeps
  <1>5. ASSUME RequestChange(Boxes) PROVE DrawInv'
    <2> DEFINE r == [kind |-> "change", on |-> Boxes]
    <2>1. r \in Request /\ r.kind = "change" /\ r.on = Boxes
      BY RequestsFit DEF Tasks
    <2>2. gui.pc = "idle" /\ gui.pass = 0 /\ Stop(r) /\ cache' = cache /\ posted' = Posted(posted, "redraw")
      BY <1>5 DEF RequestChange, AtLoop
    <2> HIDE DEF r
    <2>3. Types
      BY DEF DrawInv
    <2>4. /\ GuiTyped' /\ gui'.pc = "stopping" /\ gui'.request = r /\ gui'.pass = gui.pass
          /\ job' = [job EXCEPT !.queue = {}]
          /\ UNCHANGED <<layout, worker, m_initial_update, thread, canvas, screen, plane>>
      BY <2>1, <2>2, <2>3, StopFits
    <2>5. posted \in Seq(Method) /\ IsInjective(posted) /\ "redraw" \in Method
      BY <2>3, PostedType DEF Method
    <2>6. /\ posted' \in Seq(Method) /\ IsInjective(posted')
          /\ \A k : Contains(posted', k) <=> Contains(posted, k) \/ k = "redraw"
      BY <2>2, <2>5, HoldsPosted
    <2>7. /\ PostedTyped'
          /\ Posts("update_image") => Posts("update_image")'
          /\ Posts("end_of_drawing")' <=> Posts("end_of_drawing")
          /\ Posts("redraw")'
      BY <2>2, <2>4, <2>6 DEF PostedTyped, Posts
    <2>8. cache' \in Seq(Entry) /\ \A i \in DOMAIN cache' : \E j \in DOMAIN cache : cache'[i] = cache[j]
      BY <2>2, <2>3 DEF Types, PlaneTyped
    <2> QED
      BY <2>1, <2>2, <2>4, <2>7, <2>8, StopKeeps
  <1> QED
    BY <1>1, <1>2, <1>3, <1>4, <1>5

(* One deferred method is taken from the list.                             *)
LEMMA ExecuteFits ==
  ASSUME Types, NEW method, Execute(method)
  PROVE /\ gui.pc = "idle" /\ gui.pass > 0 /\ gui.pass \in Nat /\ posted' \in Seq(Method) /\ IsInjective(posted')
        /\ gui.pass - 1 <= Len(posted') /\ gui.pass - 1 \in Nat
        /\ Contains(posted, method)
        /\ \A k : Contains(posted', k) <=> Contains(posted, k) /\ k # method
  <1>1. posted \in Seq(Method) /\ IsInjective(posted) /\ gui.pass <= Len(posted) /\ gui.pass \in Nat
    BY PostedType
  <1>2. gui.pc = "idle" /\ gui.pass > 0 /\ Head(posted) = method /\ posted' = Tail(posted)
    BY DEF Execute
  <1>3. posted # <<>> /\ Len(posted) \in Nat
    BY <1>1, <1>2
  <1>4. /\ Tail(posted) \in Seq(Method) /\ IsInjective(Tail(posted)) /\ Len(Tail(posted)) = Len(posted) - 1
        /\ \A k : Contains(Tail(posted), k) <=> Contains(posted, k) /\ k # Head(posted)
    BY <1>1, <1>3, HoldsTail
  <1>5. Contains(posted, method)
    BY <1>1, <1>2, <1>3 DEF Contains
  <1> QED
    BY <1>1, <1>2, <1>3, <1>4, <1>5

LEMMA RedrawKeeps ==
  ASSUME DrawInv, DoRedraw
  PROVE DrawInv'
  <1> DEFINE r == [kind |-> "new"]
  <1>1. r \in Request /\ r.kind = "new"
    BY RequestsFit
  <1>2. /\ Execute("redraw") /\ gui' = [gui EXCEPT !.pc = "stopping", !.request = r, !.pass = @ - 1]
        /\ job' = [job EXCEPT !.queue = {}] /\ cache' = <<>>
        /\ UNCHANGED <<layout, worker, m_initial_update, thread, canvas, screen, plane>>
    BY DEF DoRedraw
  <1> HIDE DEF r
  <1>3. Types
    BY DEF DrawInv
  <1>4. /\ gui.pc = "idle" /\ posted' \in Seq(Method) /\ IsInjective(posted')
        /\ gui.pass - 1 <= Len(posted') /\ gui.pass - 1 \in Nat
        /\ \A k : Contains(posted', k) <=> Contains(posted, k) /\ k # "redraw"
    BY <1>2, <1>3, ExecuteFits
  <1>5. GuiTyped' /\ gui'.pc = "stopping" /\ gui'.request = r /\ gui'.pass = gui.pass - 1
    <2>1. PICK n \in Nat : n = gui.pass - 1
      BY <1>4
    <2>2. gui' = [gui EXCEPT !.pc = "stopping", !.request = r, !.pass = n]
      BY <1>2, <2>1
    <2> QED
      BY <1>1, <1>3, <2>1, <2>2 DEF Types, GuiTyped
  <1>6. /\ PostedTyped'
        /\ Posts("update_image") => Posts("update_image")'
        /\ Posts("end_of_drawing")' <=> Posts("end_of_drawing")
    BY <1>4, <1>5 DEF PostedTyped, Posts
  <1>7. cache' \in Seq(Entry) /\ DOMAIN cache' = {}
    BY <1>2
  <1> QED
    BY <1>1, <1>2, <1>4, <1>5, <1>6, <1>7, StopKeeps

-----------------------------------------------------------------------------
(* The drawing has stopped, and the request is carried out.                *)

LEMMA StoppedFits ==
  ASSUME DrawInv, NEW kind, Stopped(kind)
  PROVE /\ gui.pc = "stopping" /\ gui.request.kind = kind /\ gui.request \in Request /\ Stopping
        /\ ~InPaint /\ ~Preparing /\ (NextPaint <=> canvas.need)
        /\ job' \in JobType /\ job'.running = FALSE /\ job'.queue = {} /\ job'.stray = job.stray
        /\ UNCHANGED <<worker, m_initial_update, thread>>
        /\ \A w \in Workers : worker[w].task = "none"
        /\ posted' \in Seq(Method) /\ IsInjective(posted') /\ gui.pass <= Len(posted')
        /\ \A k : Contains(posted, k) => Contains(posted', k)
        /\ Contains(posted', "redraw") <=> Contains(posted, "redraw")
        /\ job.running => Contains(posted', "update_image") /\ Contains(posted', "end_of_drawing")
        /\ ~job.running => posted' = posted
  <1>1. Types /\ Shared
    BY DEF DrawInv
  <1>2. /\ gui.pc = "stopping" /\ gui.request.kind = kind /\ AllIdle
        /\ IF job.running THEN JobEnds(Workers) ELSE UNCHANGED job
        /\ posted' = (IF job.running THEN Posted(Posted(posted, "update_image"), "end_of_drawing") ELSE posted)
        /\ UNCHANGED <<worker, m_initial_update, thread>>
    BY DEF Stopped
  <1>3. gui.request \in Request
    BY <1>1 DEF Types, GuiTyped
  <1>4. Stopping /\ ~InPaint /\ ~Preparing /\ (NextPaint <=> canvas.need)
    BY <1>2 DEF Stopping, InPaint, NextPaint, Preparing
  <1>5. job' \in JobType /\ job'.running = FALSE /\ job'.queue = {} /\ job'.stray = job.stray
    <2>1. job \in JobType /\ job.queue = {}
      BY <1>1, <1>4 DEF Types, JobTyped, Shared
    <2>2. CASE job.running
      <3>1. PICK late \in SUBSET Workers : job' = [job EXCEPT !.running = FALSE, !.late = late]
        BY <1>2, <2>2 DEF JobEnds
      <3> QED
        BY <2>1, <3>1 DEF JobType
    <2>3. CASE ~job.running
      BY <1>2, <2>1, <2>3 DEF JobType
    <2> QED
      BY <2>2, <2>3
  <1>6. \A w \in Workers : worker[w].task = "none"
    BY <1>2 DEF AllIdle, Idle
  <1>7. /\ posted \in Seq(Method) /\ IsInjective(posted) /\ gui.pass <= Len(posted) /\ gui.pass \in Nat
        /\ "update_image" \in Method /\ "end_of_drawing" \in Method
    BY <1>1, PostedType DEF Method
  <1> DEFINE q == Posted(posted, "update_image")
  <1>8. /\ q \in Seq(Method) /\ IsInjective(q) /\ Len(posted) <= Len(q)
        /\ \A k : Contains(q, k) <=> Contains(posted, k) \/ k = "update_image"
    BY <1>7, HoldsPosted
  <1> HIDE DEF q
  <1>9. LET p == Posted(q, "end_of_drawing")
        IN /\ p \in Seq(Method) /\ IsInjective(p) /\ Len(q) <= Len(p)
           /\ \A k : Contains(p, k) <=> Contains(q, k) \/ k = "end_of_drawing"
    BY <1>7, <1>8, HoldsPosted
  <1>10. /\ Len(posted) \in Nat /\ Len(q) \in Nat /\ Len(Posted(q, "end_of_drawing")) \in Nat
    BY <1>7, <1>8, <1>9
  <1>11. CASE job.running
    <2>1. posted' = Posted(q, "end_of_drawing")
      BY <1>2, <1>11 DEF q
    <2>2. /\ posted' \in Seq(Method) /\ IsInjective(posted') /\ gui.pass <= Len(posted')
          /\ \A k : Contains(posted', k) <=> Contains(posted, k) \/ k = "update_image" \/ k = "end_of_drawing"
      BY <1>7, <1>8, <1>9, <1>10, <2>1
    <2> QED
      BY <1>2, <1>3, <1>4, <1>5, <1>6, <1>11, <2>2
  <1>12. CASE ~job.running
    BY <1>2, <1>3, <1>4, <1>5, <1>6, <1>7, <1>12
  <1> QED
    BY <1>11, <1>12

LEMMA StoppedBack ==
  ASSUME DrawInv, NEW kind, Stopped(kind), GuiTyped', gui'.pc \in {"idle", "changing"}, gui'.pass = gui.pass,
         LayoutTyped', CanvasTyped', PlaneTyped',
         screen'.shown = screen.shown, screen'.update = screen.update, screen.due => screen'.due,
         canvas.need => canvas'.need, canvas'.need => screen'.due,
         canvas'.clearing => canvas'.need, canvas'.restart # {} => canvas'.need /\ canvas'.force,
         thread.drawn = canvas'.vp \/ canvas'.clearing
  PROVE Types' /\ Shared' /\ OnScreen' /\ HierComing' /\ StripsSuffice'
  <1>1. Types /\ Shared /\ OnScreen
    BY DEF DrawInv
  <1>2. /\ gui.pc = "stopping" /\ ~InPaint
        /\ job' \in JobType /\ job'.running = FALSE /\ job'.queue = {}
        /\ UNCHANGED <<worker, m_initial_update, thread>>
        /\ \A w \in Workers : worker[w].task = "none"
        /\ posted' \in Seq(Method) /\ IsInjective(posted') /\ gui.pass <= Len(posted')
        /\ \A k : Contains(posted, k) => Contains(posted', k)
        /\ job.running => Contains(posted', "update_image")
    BY StoppedFits
  <1>3. ~InPaint' /\ ~Preparing' /\ ~Stopping' /\ (NextPaint' <=> canvas'.need)
    BY DEF InPaint, Preparing, NextPaint, Stopping
  <1>4. Types'
    <2>1. JobTyped' /\ PostedTyped'
      BY <1>1, <1>2 DEF Types, JobTyped, PostedTyped
    <2> QED
      BY <1>1, <1>2, <2>1 DEF Types
  <1>5. Shared'
    BY <1>1, <1>2, <1>3 DEF Shared
  <1>6. OnScreen'
    BY <1>1, <1>2, <1>3 DEF OnScreen, Posts
  <1>7. HierComing'
    BY <1>3 DEF HierComing
  <1>8. StripsSuffice'
    <2>1. ASSUME NEW t \in Tasks PROVE ~Worked(t)'
      BY <1>2, RedrawAssumption DEF Worked, Tasks
    <2> QED
      BY <2>1 DEF StripsSuffice
  <1> QED
    BY <1>4, <1>5, <1>6, <1>7, <1>8

(* No open image is left when the request is none of the hierarchy.        *)
LEMMA StoppedImages ==
  ASSUME DrawInv, NEW kind, Stopped(kind), ~(kind = "change" /\ gui.request.on = Boxes)
  PROVE \A i \in DOMAIN cache : ~cache[i].open /\ FinishedImage(i)
  <1>1. Images /\ Stopping /\ gui.request.kind = kind
    BY StoppedFits DEF DrawInv
  <1> QED
    BY <1>1 DEF Images, OpenImage

LEMMA ToLoopFits == ASSUME Types, ToLoop PROVE GuiTyped' /\ gui'.pc = "idle" /\ gui'.pass = gui.pass
  <1>1. gui' = [gui EXCEPT !.pc = "idle", !.request = NoRequest]
    BY DEF ToLoop
  <1> QED
    BY <1>1, RequestsFit DEF Types, GuiTyped

LEMMA PaintDueFits ==
  ASSUME Types, PaintDue
  PROVE /\ screen' \in [due : BOOLEAN, update : BOOLEAN, shown : BOOLEAN]
        /\ screen'.due = TRUE /\ screen'.update = screen.update /\ screen'.shown = screen.shown
  BY DEF Types, CanvasTyped, PaintDue

LEMMA RedrawAllKeeps ==
  ASSUME DrawInv, NEW kind, kind \in {"viewport", "new"}, Stopped(kind), ToLoop, PaintDue,
         NEW vp \in Viewports, NEW force \in BOOLEAN, RedrawAll(vp, force), kind = "new" => force,
         UNCHANGED <<layout, plane, cache>>
  PROVE DrawInv'
  <1>1. Types /\ OnScreen /\ DirtyNotShown /\ StaleComing
    BY DEF DrawInv
  <1>2. /\ gui.pc = "stopping" /\ gui.request.kind = kind /\ ~InPaint /\ UNCHANGED <<worker, thread>> /\ (NextPaint <=> canvas.need)
        /\ Contains(posted', "redraw") <=> Contains(posted, "redraw")
    BY StoppedFits
  <1>3. GuiTyped' /\ gui'.pc = "idle" /\ gui'.pass = gui.pass
    BY <1>1, ToLoopFits
  <1>4. canvas' = [canvas EXCEPT !.vp = vp, !.need = TRUE, !.clearing = TRUE, !.force = @ \/ force]
    BY DEF RedrawAll
  <1>5. /\ canvas' \in CanvasType
        /\ canvas'.need = TRUE /\ canvas'.clearing = TRUE /\ canvas'.force = (canvas.force \/ force)
        /\ canvas'.visible = canvas.visible /\ canvas'.restart = canvas.restart
    BY <1>1, <1>4 DEF Types, CanvasTyped, CanvasType
  <1>6. /\ screen' \in [due : BOOLEAN, update : BOOLEAN, shown : BOOLEAN]
        /\ screen'.due = TRUE /\ screen'.update = screen.update /\ screen'.shown = screen.shown
    BY <1>1, PaintDueFits
  <1>7. CanvasTyped' /\ LayoutTyped' /\ PlaneTyped'
    BY <1>1, <1>5, <1>6 DEF CanvasTyped, LayoutTyped, PlaneTyped, Types
  <1>8. Types' /\ Shared' /\ OnScreen' /\ HierComing' /\ StripsSuffice'
    BY <1>1, <1>3, <1>5, <1>6, <1>7, StoppedBack DEF OnScreen
  <1>9. DirtyNotShown'
    BY <1>1, <1>2 DEF DirtyNotShown, NotShown
  <1>10. Images'
    <2>1. \A i \in DOMAIN cache : ~cache[i].open /\ FinishedImage(i)
      BY StoppedImages
    <2> QED
      BY <1>2, <2>1 DEF Images, FinishedImage, Posts, Halting
  <1>11. StaleComing'
    <2> SUFFICES ASSUME NEW t \in Tasks, plane[t] \in Lacks PROVE Coming(t)'
      BY DEF StaleComing
    <2>1. Coming(t) /\ ~Halting
      BY <1>1, <1>2 DEF StaleComing, Halting
    <2>2. NextPaint'
      BY <1>3, <1>5 DEF NextPaint, InPaint
    <2>3. CASE Posts("redraw") \/ kind = "new" \/ canvas.force
      BY <1>2, <1>5, <2>2, <2>3 DEF Coming, AllComing, Posts
    <2>4. CASE t \in canvas.restart \/ t \in thread.enabled
      BY <1>2, <1>5, <2>2, <2>4 DEF Coming
    <2> QED
      BY <1>2, <2>1, <2>3, <2>4 DEF Coming, AllComing
  <1> QED
    BY <1>8, <1>9, <1>10, <1>11 DEF DrawInv

LEMMA VisibilityKeeps ==
  ASSUME DrawInv, VisibilitySet
  PROVE DrawInv'
  <1> DEFINE visible == IF gui.request.on \in canvas.visible THEN canvas.visible \ {gui.request.on}
                        ELSE canvas.visible \cup {gui.request.on}
  <1>1. Types /\ OnScreen /\ DirtyNotShown /\ StaleComing
    BY DEF DrawInv
  <1>2. /\ Stopped("visibility") /\ ToLoop /\ PaintDue /\ UNCHANGED <<layout, cache>>
        /\ canvas' = [canvas EXCEPT !.visible = visible, !.need = TRUE, !.restart = {}]
        /\ plane' = IF canvas.need /\ ~canvas.clearing
                      THEN [t \in Tasks |-> IF t \in canvas.restart THEN Abandoned(plane)[t] ELSE plane[t]]
                      ELSE plane
    BY DEF VisibilitySet
  <1>3. /\ gui.pc = "stopping" /\ gui.request.kind = "visibility" /\ gui.request \in Request /\ ~InPaint
        /\ UNCHANGED <<worker, thread>> /\ (NextPaint <=> canvas.need)
        /\ Contains(posted', "redraw") <=> Contains(posted, "redraw")
    BY <1>2, StoppedFits
  <1>4. GuiTyped' /\ gui'.pc = "idle" /\ gui'.pass = gui.pass
    BY <1>1, <1>2, ToLoopFits
  <1>5. gui.request.on \in Layers
    BY <1>3, RequestFits
  <1>6. /\ canvas' \in CanvasType
        /\ canvas'.need = TRUE /\ canvas'.clearing = canvas.clearing /\ canvas'.restart = {} /\ canvas'.vp = canvas.vp
        /\ canvas'.force = canvas.force
    <2>1. PICK vis \in SUBSET Layers : vis = visible
      BY <1>1, <1>5 DEF Types, CanvasTyped, CanvasType
    <2>2. PICK nothing \in SUBSET Layers : nothing = {}
      OBVIOUS
    <2>3. canvas' = [canvas EXCEPT !.visible = vis, !.need = TRUE, !.restart = nothing]
      BY <1>2, <2>1, <2>2
    <2> QED
      BY <1>1, <2>2, <2>3 DEF Types, CanvasTyped, CanvasType
  <1>7. /\ screen' \in [due : BOOLEAN, update : BOOLEAN, shown : BOOLEAN]
        /\ screen'.due = TRUE /\ screen'.update = screen.update /\ screen'.shown = screen.shown
    BY <1>1, <1>2, PaintDueFits
  <1>8. plane \in [Tasks -> Plane] /\ Abandoned(plane) \in [Tasks -> Plane]
        /\ \A t \in Tasks : Abandoned(plane)[t] \notin Lacks /\ (Abandoned(plane)[t] \in Shows => plane[t] \in Shows)
    <2>1. plane \in [Tasks -> Plane]
      BY <1>1 DEF Types, PlaneTyped
    <2> QED
      BY <2>1, AbandonedFits
  <1>9. /\ plane' \in [Tasks -> Plane]
        /\ \A t \in Tasks : plane'[t] \in Shows => plane[t] \in Shows
        /\ \A t \in Tasks : plane'[t] \in Lacks => plane[t] \in Lacks
        /\ \A t \in Tasks : plane'[t] \in Lacks /\ canvas.need /\ ~canvas.clearing => t \notin canvas.restart
    BY <1>2, <1>8
  <1>10. CanvasTyped' /\ LayoutTyped' /\ PlaneTyped'
    BY <1>1, <1>2, <1>6, <1>7, <1>9 DEF CanvasTyped, LayoutTyped, PlaneTyped, Types
  <1>11. thread.drawn = canvas'.vp \/ canvas'.clearing
    BY <1>1, <1>6 DEF OnScreen
  <1>12. Types' /\ Shared' /\ OnScreen' /\ HierComing' /\ StripsSuffice'
    BY <1>2, <1>4, <1>6, <1>7, <1>10, <1>11, StoppedBack
  <1>13. DirtyNotShown'
    <2>1. \A x \in Tasks : Affected(x) \subseteq Tasks
      BY DEF Affected
    <2>2. layout.dirty \subseteq Tasks
      BY <1>1 DEF Types, LayoutTyped
    <2> QED
      BY <1>1, <1>2, <1>3, <1>9, <2>1, <2>2 DEF DirtyNotShown, NotShown
  <1>14. Images'
    <2>1. \A i \in DOMAIN cache : ~cache[i].open /\ FinishedImage(i)
      BY <1>2, StoppedImages
    <2> QED
      BY <1>2, <1>3, <2>1 DEF Images, FinishedImage, Posts, Halting
  <1>15. StaleComing'
    <2> SUFFICES ASSUME NEW t \in Tasks, plane'[t] \in Lacks PROVE Coming(t)'
      BY DEF StaleComing
    <2>1. Coming(t) /\ ~Halting
      BY <1>1, <1>3, <1>9 DEF StaleComing, Halting
    <2>2. NextPaint'
      BY <1>4, <1>6 DEF NextPaint, InPaint
    <2>3. CASE AllComing
      <3>1. AllComing'
        BY <1>3, <1>6, <2>2, <2>3 DEF AllComing, Posts
      <3> QED
        BY <3>1 DEF Coming
    <2>4. CASE ~AllComing
      <3>1. t \in thread.enabled \/ (canvas.need /\ t \in canvas.restart)
        BY <1>3, <2>1, <2>4 DEF Coming
      <3>2. canvas.restart # {} => ~canvas.clearing
        BY <1>1, <1>3, <2>4 DEF AllComing, OnScreen
      <3>3. t \in thread.enabled
        BY <1>9, <3>1, <3>2
      <3> QED
        BY <1>3, <2>2, <3>3 DEF Coming
    <2> QED
      BY <2>3, <2>4
  <1> QED
    BY <1>12, <1>13, <1>14, <1>15 DEF DrawInv

LEMMA HaltedKeeps ==
  ASSUME DrawInv, Halted
  PROVE DrawInv'
  <1>1. Types /\ OnScreen /\ DirtyNotShown
    BY DEF DrawInv
  <1>2. /\ Stopped("halt") /\ ToLoop /\ UNCHANGED <<layout, canvas, screen>>
        /\ plane' = Abandoned(plane) /\ cache' = InEntries(Abandoned)
    BY DEF Halted
  <1>3. gui.pc = "stopping" /\ gui.request.kind = "halt" /\ UNCHANGED <<worker, thread>> /\ (NextPaint <=> canvas.need)
    BY <1>2, StoppedFits
  <1>4. GuiTyped' /\ gui'.pc = "idle" /\ gui'.pass = gui.pass
    BY <1>1, <1>2, ToLoopFits
  <1>5. /\ plane \in [Tasks -> Plane] /\ cache \in Seq(Entry)
        /\ \A i \in DOMAIN cache : cache[i].data \in [Tasks -> Plane] /\ cache[i].visible \subseteq Layers
    BY <1>1, ImageFits DEF Types, PlaneTyped
  <1> DEFINE op == [i \in DOMAIN cache |-> Abandoned(cache[i].data)]
  <1>6. \A i \in DOMAIN cache :
          /\ op[i] \in [Tasks -> Plane]
          /\ \A t \in Tasks : op[i][t] \notin Lacks /\ (op[i][t] \in Shows => cache[i].data[t] \in Shows)
    BY <1>5, AbandonedFits
  <1>7. cache' = [i \in DOMAIN cache |-> [cache[i] EXCEPT !.data = op[i]]]
    BY <1>2 DEF InEntries
  <1> HIDE DEF op
  <1>8. /\ cache' \in Seq(Entry) /\ Len(cache') = Len(cache) /\ DOMAIN cache' = DOMAIN cache
        /\ \A i \in DOMAIN cache :
             /\ cache'[i].open = cache[i].open /\ cache'[i].vp = cache[i].vp /\ cache'[i].visible = cache[i].visible
             /\ cache'[i].drawn = cache[i].drawn /\ cache'[i].data = op[i]
    BY <1>5, <1>6, <1>7, ImagesFit
  <1>9. CanvasTyped' /\ LayoutTyped' /\ PlaneTyped'
    BY <1>1, <1>2, <1>5, <1>8, AbandonedFits DEF CanvasTyped, LayoutTyped, PlaneTyped, Types
  <1>10. /\ thread.drawn = canvas'.vp \/ canvas'.clearing
         /\ canvas.need => canvas'.need /\ screen'.due
         /\ (canvas'.clearing => canvas'.need) /\ (canvas'.restart # {} => canvas'.need /\ canvas'.force)
    BY <1>1, <1>2 DEF OnScreen
  <1>11. Types' /\ Shared' /\ OnScreen' /\ HierComing' /\ StripsSuffice'
    <2>1. /\ screen'.shown = screen.shown /\ screen'.update = screen.update /\ screen.due => screen'.due
          /\ canvas'.clearing => canvas'.need
          /\ canvas'.restart # {} => canvas'.need /\ canvas'.force
      BY <1>1, <1>2 DEF OnScreen
    <2>2. canvas.need => canvas'.need
      BY <1>2
    <2>3. canvas'.need => screen'.due
      BY <1>1, <1>2 DEF OnScreen
    <2> QED
      BY <1>2, <1>4, <1>9, <1>10, <2>1, <2>2, <2>3, StoppedBack
  <1>12. \A x \in layout.dirty : Affected(x) \subseteq Tasks
    BY <1>1 DEF Types, LayoutTyped, Affected
  <1>13. DirtyNotShown'
    <2>1. NotShown(plane', layout.dirty)
      BY <1>1, <1>2, <1>5, <1>12, AbandonedFits DEF DirtyNotShown, NotShown
    <2>2. \A i \in DOMAIN cache' : NotShown(cache'[i].data, layout.dirty)
      BY <1>1, <1>6, <1>8, <1>12 DEF DirtyNotShown, NotShown
    <2> QED
      BY <1>1, <1>2, <1>3, <2>1, <2>2 DEF DirtyNotShown
  <1>14. Images'
    <2>1. \A i \in DOMAIN cache : ~cache[i].open /\ FinishedImage(i)
      BY <1>2, StoppedImages
    <2>2. \A i \in DOMAIN cache : cache[i].visible \cup {Boxes} \subseteq Tasks
      BY <1>5 DEF Tasks
    <2>3. \A i \in DOMAIN cache' : ~cache'[i].open /\ FinishedImage(i)'
      BY <1>6, <1>8, <2>1, <2>2 DEF FinishedImage
    <2> QED
      BY <2>3 DEF Images
  <1>15. StaleComing'
    BY <1>2, <1>5, AbandonedFits DEF StaleComing
  <1> QED
    BY <1>11, <1>13, <1>14, <1>15 DEF DrawInv

(* The layout changes; nothing shows what has changed as it is now.        *)
LEMMA ChangeFits ==
  ASSUME DrawInv, NEW x \in Tasks, Change(x)
  PROVE /\ GuiTyped' /\ gui'.pc = "changing" /\ gui'.pass = gui.pass
        /\ LayoutTyped' /\ layout'.dirty = layout.dirty \cup {x} /\ layout'.attached = layout.attached
        /\ layout'.building = layout.building
        /\ plane' \in [Tasks -> Plane] /\ NotShown(plane', layout'.dirty)
        /\ \A t \in Tasks : plane'[t] \in Lacks => plane[t] \in Lacks \/ (t \in Affected(x) /\ x \notin layout.dirty)
        /\ \A t \in Tasks : plane'[t] = "stale" => plane[t] = "stale" \/ (t \in Affected(x) /\ x \notin layout.dirty)
  <1>1. Types /\ DirtyNotShown
    BY DEF DrawInv
  <1>2. /\ gui' = [gui EXCEPT !.pc = "changing", !.request = NoRequest]
        /\ layout' = [layout EXCEPT !.dirty = layout.dirty \cup {x}] /\ plane' = Aged(plane, x)
    BY DEF Change
  <1>3. GuiTyped' /\ gui'.pc = "changing" /\ gui'.pass = gui.pass
    BY <1>1, <1>2, RequestsFit DEF Types, GuiTyped
  <1>4. /\ LayoutTyped' /\ layout'.dirty = layout.dirty \cup {x} /\ layout'.attached = layout.attached
        /\ layout'.building = layout.building
    BY <1>1, <1>2 DEF Types, LayoutTyped
  <1>5. plane \in [Tasks -> Plane]
    BY <1>1 DEF Types, PlaneTyped
  <1>6. \A y \in layout.dirty \cup {x} : Affected(y) \subseteq Tasks
    BY <1>1 DEF Types, LayoutTyped, Affected
  <1>7. /\ plane' \in [Tasks -> Plane]
        /\ \A t \in Tasks : plane'[t] \in Shows => plane[t] \in Shows /\ t \notin Affected(x)
        /\ \A t \in Tasks : plane'[t] = "stale" => plane[t] = "stale" \/ (t \in Affected(x) /\ plane[t] \in Shows)
        /\ \A t \in Tasks : plane'[t] \in Lacks => plane[t] \in Lacks \/ (t \in Affected(x) /\ plane[t] \in Shows)
    BY <1>2, <1>5, AgedFits
  <1>8. NotShown(plane', layout'.dirty)
    BY <1>1, <1>4, <1>6, <1>7 DEF DirtyNotShown, NotShown
  <1>9. \A t \in Tasks : t \in Affected(x) /\ plane[t] \in Shows => x \notin layout.dirty
    BY <1>1 DEF DirtyNotShown, NotShown
  <1> QED
    BY <1>3, <1>4, <1>7, <1>8, <1>9

(* The images of the cache are aged with the planes.                       *)
LEMMA CacheAges ==
  ASSUME DrawInv, NEW x \in Tasks, cache' = InEntries(LAMBDA data : Aged(data, x)), layout'.dirty = layout.dirty \cup {x}
  PROVE /\ cache' \in Seq(Entry) /\ Len(cache') = Len(cache) /\ DOMAIN cache' = DOMAIN cache
        /\ \A i \in DOMAIN cache :
             /\ cache'[i].open = cache[i].open /\ cache'[i].vp = cache[i].vp /\ cache'[i].visible = cache[i].visible
             /\ cache'[i].drawn = cache[i].drawn
             /\ \A t \in Tasks : cache'[i].data[t] \in Lacks => cache[i].data[t] \in Lacks \/ x \notin layout.dirty
             /\ NotShown(cache'[i].data, layout'.dirty)
  <1>1. Types /\ DirtyNotShown
    BY DEF DrawInv
  <1>2. cache \in Seq(Entry) /\ \A i \in DOMAIN cache : cache[i].data \in [Tasks -> Plane]
    BY <1>1, ImageFits
  <1> DEFINE op == [i \in DOMAIN cache |-> Aged(cache[i].data, x)]
  <1>3. \A i \in DOMAIN cache :
          /\ op[i] \in [Tasks -> Plane]
          /\ \A t \in Tasks : op[i][t] \in Lacks => cache[i].data[t] \in Lacks \/ (t \in Affected(x) /\ cache[i].data[t] \in Shows)
          /\ \A t \in Tasks : op[i][t] \in Shows => cache[i].data[t] \in Shows /\ t \notin Affected(x)
    BY <1>2, AgedFits
  <1>4. cache' = [i \in DOMAIN cache |-> [cache[i] EXCEPT !.data = op[i]]]
    BY DEF InEntries
  <1> HIDE DEF op
  <1>5. /\ cache' \in Seq(Entry) /\ Len(cache') = Len(cache) /\ DOMAIN cache' = DOMAIN cache
        /\ \A i \in DOMAIN cache :
             /\ cache'[i].open = cache[i].open /\ cache'[i].vp = cache[i].vp /\ cache'[i].visible = cache[i].visible
             /\ cache'[i].drawn = cache[i].drawn /\ cache'[i].data = op[i]
    BY <1>2, <1>3, <1>4, ImagesFit
  <1>6. \A y \in layout.dirty \cup {x} : Affected(y) \subseteq Tasks
    BY <1>1 DEF Types, LayoutTyped, Affected
  <1>7. \A i \in DOMAIN cache : NotShown(op[i], layout.dirty \cup {x})
    BY <1>1, <1>3, <1>6 DEF DirtyNotShown, NotShown
  <1>8. \A i \in DOMAIN cache : \A t \in Tasks : t \in Affected(x) /\ cache[i].data[t] \in Shows => x \notin layout.dirty
    BY <1>1 DEF DirtyNotShown, NotShown
  <1>9. ASSUME NEW i \in DOMAIN cache
        PROVE /\ \A t \in Tasks : cache'[i].data[t] \in Lacks => cache[i].data[t] \in Lacks \/ x \notin layout.dirty
              /\ NotShown(cache'[i].data, layout'.dirty)
    <2>1. cache'[i].data = op[i]
      BY <1>5
    <2>2. NotShown(cache'[i].data, layout'.dirty)
      BY <1>7, <2>1
    <2> QED
      BY <1>3, <1>8, <2>1, <2>2
  <1> QED
    BY <1>5, <1>9

LEMMA LayerKeeps ==
  ASSUME DrawInv, LayerChanges
  PROVE DrawInv'
  <1> DEFINE x == gui.request.on
  <1>1. Types /\ OnScreen /\ StaleComing /\ DirtyNotShown
    BY DEF DrawInv
  <1>2. /\ Stopped("change") /\ x # Boxes /\ PaintDue /\ cache' = <<>> /\ Change(x)
        /\ canvas' = [canvas EXCEPT !.need = TRUE, !.restart = canvas.restart \cup {x}, !.force = TRUE]
    BY DEF LayerChanges
  <1>3. /\ gui.pc = "stopping" /\ gui.request.kind = "change" /\ gui.request \in Request /\ ~InPaint /\ Stopping
        /\ UNCHANGED <<worker, thread>> /\ (NextPaint <=> canvas.need)
        /\ \A w \in Workers : worker[w].task = "none"
        /\ Contains(posted', "redraw") <=> Contains(posted, "redraw")
    BY <1>2, StoppedFits
  <1>4. x \in Tasks /\ x \in Layers
    BY <1>2, <1>3, RequestFits DEF Tasks
  <1> HIDE DEF x
  <1>5. /\ GuiTyped' /\ gui'.pc = "changing" /\ gui'.pass = gui.pass
        /\ LayoutTyped' /\ plane' \in [Tasks -> Plane] /\ NotShown(plane', layout'.dirty)
        /\ \A t \in Tasks : plane'[t] \in Lacks => plane[t] \in Lacks \/ t \in Affected(x)
    BY <1>2, <1>4, ChangeFits
  <1>6. /\ canvas' \in CanvasType
        /\ canvas'.need = TRUE /\ canvas'.clearing = canvas.clearing /\ canvas'.restart = canvas.restart \cup {x}
        /\ canvas'.vp = canvas.vp /\ canvas'.visible = canvas.visible /\ canvas'.force = TRUE
    BY <1>1, <1>2, <1>4 DEF Types, CanvasTyped, CanvasType
  <1>7. /\ screen' \in [due : BOOLEAN, update : BOOLEAN, shown : BOOLEAN]
        /\ screen'.due = TRUE /\ screen'.update = screen.update /\ screen'.shown = screen.shown
    BY <1>1, <1>2, PaintDueFits
  <1>8. CanvasTyped' /\ PlaneTyped' /\ DOMAIN cache' = {}
    BY <1>2, <1>5, <1>6, <1>7 DEF CanvasTyped, PlaneTyped
  <1>9. thread.drawn = canvas'.vp \/ canvas'.clearing
    BY <1>1, <1>6 DEF OnScreen
  <1>10. Types' /\ Shared' /\ OnScreen' /\ HierComing' /\ StripsSuffice'
    BY <1>2, <1>5, <1>6, <1>7, <1>8, <1>9, StoppedBack
  <1>11. DirtyNotShown' /\ Images'
    <2>1. \A w \in Workers : worker'[w].reads # "yes"
      BY <1>3 DEF DrawInv, Shared
    <2> QED
      BY <1>5, <1>8, <2>1 DEF DirtyNotShown, Images
  <1>12. StaleComing'
    <2> SUFFICES ASSUME NEW t \in Tasks, plane'[t] \in Lacks PROVE Coming(t)'
      BY DEF StaleComing
    <2>1. NextPaint'
      BY <1>5, <1>6 DEF NextPaint, InPaint
    <2>2. CASE t = x
      BY <1>6, <2>1, <2>2 DEF Coming
    <2>3. CASE t # x
      <3>1. Coming(t) /\ ~Halting
        BY <1>1, <1>3, <1>4, <1>2, <1>5, <2>3 DEF StaleComing, Halting, Affected
      <3>2. t \in thread.enabled \/ t \in canvas.restart \/ Posts("redraw") \/ canvas.clearing
        BY <1>3, <3>1 DEF Coming, AllComing
      <3> QED
        BY <1>3, <1>6, <2>1, <3>2 DEF Coming, AllComing, Posts
    <2> QED
      BY <2>2, <2>3
  <1> QED
    BY <1>10, <1>11, <1>12 DEF DrawInv

LEMMA HierarchyKeeps ==
  ASSUME DrawInv, HierarchyChanges
  PROVE DrawInv'
  <1>1. Types /\ OnScreen /\ Images /\ HierComing
    BY DEF DrawInv
  <1>2. /\ Stopped("change") /\ gui.request.on = Boxes /\ Change(Boxes) /\ UNCHANGED <<canvas, screen>>
        /\ cache' = InEntries(LAMBDA data : Aged(data, Boxes))
    BY DEF HierarchyChanges
  <1>3. /\ gui.pc = "stopping" /\ gui.request.kind = "change" /\ ~InPaint /\ Stopping /\ ~Preparing
        /\ UNCHANGED <<worker, thread>> /\ (NextPaint <=> canvas.need)
        /\ \A w \in Workers : worker[w].task = "none"
        /\ job'.running = FALSE
        /\ Contains(posted', "redraw") <=> Contains(posted, "redraw")
        /\ Contains(posted, "end_of_drawing") => Contains(posted', "end_of_drawing")
        /\ job.running => Contains(posted', "end_of_drawing")
        /\ ~job.running => posted' = posted
    BY <1>2, StoppedFits
  <1>4. Posts("redraw")' /\ Boxes \in Tasks
    BY <1>1, <1>2, <1>3 DEF HierComing, Posts, Tasks
  <1>5. /\ GuiTyped' /\ gui'.pc = "changing" /\ gui'.pass = gui.pass
        /\ LayoutTyped' /\ layout'.dirty = layout.dirty \cup {Boxes}
        /\ plane' \in [Tasks -> Plane] /\ NotShown(plane', layout'.dirty)
    BY <1>2, <1>4, ChangeFits
  <1>6. /\ cache' \in Seq(Entry) /\ Len(cache') = Len(cache) /\ DOMAIN cache' = DOMAIN cache
        /\ \A i \in DOMAIN cache :
             /\ cache'[i].open = cache[i].open /\ cache'[i].vp = cache[i].vp /\ cache'[i].visible = cache[i].visible
             /\ cache'[i].drawn = cache[i].drawn
             /\ NotShown(cache'[i].data, layout'.dirty)
    BY <1>2, <1>4, <1>5, CacheAges
  <1>7. CanvasTyped' /\ PlaneTyped'
    BY <1>1, <1>2, <1>5, <1>6 DEF CanvasTyped, PlaneTyped, Types
  <1>8. /\ thread.drawn = canvas'.vp \/ canvas'.clearing
        /\ canvas'.clearing => canvas'.need
        /\ canvas'.restart # {} => canvas'.need /\ canvas'.force
        /\ canvas'.need => screen'.due
    BY <1>1, <1>2 DEF OnScreen
  <1>9. Types' /\ Shared' /\ OnScreen' /\ HierComing' /\ StripsSuffice'
    BY <1>2, <1>5, <1>7, <1>8, StoppedBack
  <1>10. DirtyNotShown'
    <2>1. \A w \in Workers : worker'[w].reads # "yes"
      BY <1>3 DEF DrawInv, Shared
    <2> QED
      BY <1>5, <1>6, <2>1 DEF DirtyNotShown
  <1>11. Images'
    <2> SUFFICES ASSUME NEW i \in DOMAIN cache'
                 PROVE (cache'[i].open => OpenImage(i)') /\ (~cache'[i].open => FinishedImage(i)')
      BY DEF Images
    <2>1. (cache[i].open => OpenImage(i)) /\ (~cache[i].open => FinishedImage(i)) /\ i \in DOMAIN cache
      BY <1>1, <1>6 DEF Images
    <2>2. ~cache'[i].open => FinishedImage(i)'
      BY <1>4, <1>6, <2>1 DEF FinishedImage
    <2>3. ASSUME cache[i].open PROVE OpenImage(i)'
      <3>1. OpenImage(i)
        BY <2>1, <2>3
      <3>2. ~NextPaint' /\ ~Stopping' /\ ~Preparing'
        BY <1>2, <1>3, <1>5, <3>1 DEF OpenImage, NextPaint, InPaint, Stopping, Preparing
      <3>3. Posts("end_of_drawing")'
        BY <1>3, <3>1 DEF OpenImage, Posts
      <3> QED
        BY <1>2, <1>3, <1>6, <2>1, <3>1, <3>2, <3>3 DEF OpenImage
    <2> QED
      BY <1>6, <2>1, <2>2, <2>3
  <1>12. StaleComing'
    BY <1>4 DEF StaleComing, Coming, AllComing
  <1> QED
    BY <1>9, <1>10, <1>11, <1>12 DEF DrawInv

(* Whoever reads when the layout changes or is updated reads nothing good. *)
LEMMA TornFits ==
  ASSUME Types, worker' = ReadersTorn
  PROVE /\ worker' \in [Workers -> [task : Tasks \cup {"none"}, reads : {"no", "yes", "torn"}]]
        /\ \A w \in Workers : /\ worker'[w].task = worker[w].task /\ worker'[w].reads # "yes"
                              /\ worker'[w].reads = "no" <=> worker[w].reads = "no"
  BY DEF Types, JobTyped, ReadersTorn

LEMMA UnstoppedKeeps ==
  ASSUME DrawInv, NEW x \in Tasks, ChangeUnstopped(x)
  PROVE DrawInv'
  <1>1. Types /\ Shared /\ OnScreen /\ Images /\ StaleComing /\ StripsSuffice
    BY DEF DrawInv
  <1>2. /\ gui.pc = "idle" /\ gui.pass = 0 /\ (x \in layout.dirty \/ ~Tells(x)) /\ Change(x)
        /\ posted' = (IF x \in layout.dirty \/ x # Boxes THEN posted ELSE Posted(posted, "redraw"))
        /\ cache' = InEntries(LAMBDA data : Aged(data, x)) /\ worker' = ReadersTorn
        /\ UNCHANGED <<job, m_initial_update, thread, canvas, screen>>
    BY DEF ChangeUnstopped, AtLoop
  <1>3. x \in layout.dirty \/ x = Boxes
    BY <1>2 DEF Tells, Tasks
  <1>4. posted \in Seq(Method) /\ IsInjective(posted) /\ "redraw" \in Method
    BY <1>1, PostedType DEF Method
  <1>5. /\ posted' \in Seq(Method) /\ IsInjective(posted') /\ Len(posted') \in Nat
        /\ \A k : Contains(posted, k) => Contains(posted', k)
        /\ Contains(posted', "update_image") <=> Contains(posted, "update_image")
        /\ Contains(posted', "end_of_drawing") <=> Contains(posted, "end_of_drawing")
        /\ x \notin layout.dirty => Contains(posted', "redraw")
    <2>1. LET q == Posted(posted, "redraw")
          IN q \in Seq(Method) /\ IsInjective(q) /\ \A k : Contains(q, k) <=> Contains(posted, k) \/ k = "redraw"
      BY <1>4, HoldsPosted
    <2>2. CASE posted' = posted /\ x \in layout.dirty
      BY <1>4, <2>2
    <2>3. CASE posted' = Posted(posted, "redraw")
      BY <2>1, <2>3
    <2> QED
      BY <1>2, <1>3, <2>2, <2>3
  <1>6. /\ GuiTyped' /\ gui'.pc = "changing" /\ gui'.pass = gui.pass
        /\ LayoutTyped' /\ layout'.dirty = layout.dirty \cup {x}
        /\ plane' \in [Tasks -> Plane] /\ NotShown(plane', layout'.dirty)
        /\ \A t \in Tasks : plane'[t] \in Lacks => plane[t] \in Lacks \/ x \notin layout.dirty
        /\ \A t \in Tasks : plane'[t] = "stale" => plane[t] = "stale" \/ x \notin layout.dirty
    BY <1>2, ChangeFits
  <1>7. /\ cache' \in Seq(Entry) /\ Len(cache') = Len(cache) /\ DOMAIN cache' = DOMAIN cache
        /\ \A i \in DOMAIN cache :
             /\ cache'[i].open = cache[i].open /\ cache'[i].vp = cache[i].vp /\ cache'[i].visible = cache[i].visible
             /\ cache'[i].drawn = cache[i].drawn
             /\ \A t \in Tasks : cache'[i].data[t] \in Lacks => cache[i].data[t] \in Lacks \/ x \notin layout.dirty
             /\ NotShown(cache'[i].data, layout'.dirty)
    BY <1>2, <1>6, CacheAges
  <1>8. /\ worker' \in [Workers -> [task : Tasks \cup {"none"}, reads : {"no", "yes", "torn"}]]
        /\ \A w \in Workers : /\ worker'[w].task = worker[w].task /\ worker'[w].reads # "yes"
                              /\ worker'[w].reads = "no" <=> worker[w].reads = "no"
    BY <1>1, <1>2, TornFits
  <1>9. /\ ~InPaint /\ ~InPaint' /\ ~Stopping /\ ~Stopping' /\ ~Halting /\ ~Halting' /\ ~Preparing /\ ~Preparing'
        /\ NextPaint' <=> NextPaint
    BY <1>2, <1>6 DEF InPaint, Stopping, Halting, NextPaint, Preparing
  <1>10. Types'
    <2>1. PostedTyped'
      BY <1>2, <1>5, <1>6 DEF PostedTyped
    <2> QED
      BY <1>1, <1>2, <1>6, <1>7, <1>8, <2>1 DEF Types, JobTyped, CanvasTyped, PlaneTyped
  <1>11. Shared'
    BY <1>1, <1>2, <1>6, <1>8, <1>9 DEF Shared, Visible
  <1>12. OnScreen'
    BY <1>1, <1>2, <1>5, <1>9 DEF OnScreen, Posts
  <1>13. DirtyNotShown'
    BY <1>6, <1>7, <1>8 DEF DirtyNotShown
  <1>14. Images'
    <2> SUFFICES ASSUME NEW i \in DOMAIN cache'
                 PROVE (cache'[i].open => OpenImage(i)') /\ (~cache'[i].open => FinishedImage(i)')
      BY DEF Images
    <2>1. (cache[i].open => OpenImage(i)) /\ (~cache[i].open => FinishedImage(i)) /\ i \in DOMAIN cache
      BY <1>1, <1>7 DEF Images
    <2>2. ASSUME cache[i].open PROVE OpenImage(i)'
      BY <1>2, <1>5, <1>7, <1>9, <2>1, <2>2 DEF OpenImage, Posts
    <2>3. ASSUME ~cache[i].open PROVE FinishedImage(i)'
      <3>1. cache[i].visible \cup {Boxes} \subseteq Tasks
        BY <1>1, <2>1, ImageFits DEF Tasks
      <3> QED
        BY <1>5, <1>7, <1>9, <2>1, <2>3, <3>1 DEF FinishedImage, Posts
    <2> QED
      BY <1>7, <2>1, <2>2, <2>3
  <1>15. HierComing'
    BY <1>9 DEF HierComing
  <1>16. AllComing => AllComing'
    BY <1>2, <1>5, <1>9 DEF AllComing, Posts
  <1>17. \A t \in Tasks : Worked(t)' <=> Worked(t)
    BY <1>2, <1>8 DEF Worked
  <1>18. StaleComing'
    <2> SUFFICES ASSUME NEW t \in Tasks, plane'[t] \in Lacks PROVE Coming(t)'
      BY DEF StaleComing
    <2>1. CASE x \notin layout.dirty
      BY <1>5, <2>1 DEF Coming, AllComing, Posts
    <2>2. CASE x \in layout.dirty
      <3>1. Coming(t)
        BY <1>1, <1>6, <2>2 DEF StaleComing
      <3>2. Visible' = Visible
        BY <1>2 DEF Visible
      <3> QED
        BY <1>2, <1>9, <1>16, <1>17, <3>1, <3>2 DEF Coming
    <2> QED
      BY <2>1, <2>2
  <1>19. StripsSuffice'
    <2>1. CASE x \notin layout.dirty
      BY <1>5, <2>1 DEF StripsSuffice, AllComing, Posts
    <2>2. CASE x \in layout.dirty
      BY <1>1, <1>2, <1>6, <1>9, <1>16, <1>17, <2>2 DEF StripsSuffice
    <2> QED
      BY <2>1, <2>2
  <1> QED
    BY <1>10, <1>11, <1>12, <1>13, <1>14, <1>15, <1>18, <1>19 DEF DrawInv

(* Steps of the GUI thread that leave the drawing alone.                   *)
LEMMA LoopKeeps ==
  ASSUME DrawInv, gui.pc \in {"idle", "changing"}, gui'.pc = "idle", GuiTyped', PostedTyped', LayoutTyped',
         JobTyped', CanvasTyped', cache' \in Seq(Entry), (layout'.dirty = layout.dirty \/ layout'.dirty = {}),
         \A w \in Workers : /\ worker'[w].task = worker[w].task /\ (worker'[w].reads = "no" <=> worker[w].reads = "no")
                            /\ worker'[w].reads = "yes" => worker[w].reads = "yes",
         job'.running = job.running, job'.queue = job.queue, job'.late = job.late,
         UNCHANGED <<m_initial_update, thread, canvas, plane>>,
         canvas.need => screen'.due,
         \/ screen'.shown \/ job.running \/ Contains(posted', "update_image")
         \/ screen'.due /\ (screen'.update \/ canvas.need),
         Contains(posted', "redraw") <=> Contains(posted, "redraw"),
         Images', \A i \in DOMAIN cache' : NotShown(cache'[i].data, layout.dirty)
  PROVE DrawInv'
  <1>1. Types /\ Shared /\ OnScreen /\ DirtyNotShown /\ StaleComing /\ StripsSuffice
    BY DEF DrawInv
  <1>2. /\ ~InPaint /\ ~InPaint' /\ ~Stopping /\ ~Stopping' /\ ~Halting /\ ~Halting' /\ ~Preparing /\ ~Preparing'
        /\ NextPaint' <=> NextPaint
    BY DEF InPaint, Stopping, Halting, NextPaint, Preparing
  <1>3. Types'
    BY <1>1 DEF Types, PlaneTyped
  <1>4. Shared'
    BY <1>1, <1>2 DEF Shared, Visible
  <1>5. OnScreen'
    BY <1>1, <1>2 DEF OnScreen, Posts
  <1>6. DirtyNotShown'
    BY <1>1 DEF DirtyNotShown, NotShown
  <1>7. HierComing'
    BY <1>2 DEF HierComing
  <1>8. AllComing => AllComing'
    BY <1>2 DEF AllComing, Posts
  <1>9. \A t \in Tasks : Worked(t)' <=> Worked(t)
    BY DEF Worked
  <1>10. StaleComing'
    <2> SUFFICES ASSUME NEW t \in Tasks, plane[t] \in Lacks PROVE Coming(t)'
      BY DEF StaleComing
    <2>1. Coming(t)
      BY <1>1 DEF StaleComing
    <2>2. Visible' = Visible
      BY DEF Visible
    <2> QED
      BY <1>2, <1>8, <1>9, <2>1, <2>2 DEF Coming
  <1>11. StripsSuffice'
    BY <1>1, <1>2, <1>8, <1>9 DEF StripsSuffice
  <1> QED
    BY <1>3, <1>4, <1>5, <1>6, <1>7, <1>10, <1>11 DEF DrawInv

LEMMA QuietKeeps ==
  ASSUME DrawInv, gui.pc \in {"idle", "changing"}, gui'.pc = "idle", GuiTyped', PostedTyped', LayoutTyped',
         JobTyped', CanvasTyped', (layout'.dirty = layout.dirty \/ layout'.dirty = {}),
         \A w \in Workers : /\ worker'[w].task = worker[w].task /\ (worker'[w].reads = "no" <=> worker[w].reads = "no")
                            /\ worker'[w].reads = "yes" => worker[w].reads = "yes",
         UNCHANGED <<job, m_initial_update, thread, canvas, plane, cache>>,
         screen'.shown = screen.shown, screen.due => screen'.due, screen.update => screen'.update,
         Contains(posted', "redraw") <=> Contains(posted, "redraw"),
         Contains(posted', "end_of_drawing") <=> Contains(posted, "end_of_drawing"),
         Contains(posted, "update_image") => Contains(posted', "update_image") \/ (screen'.due /\ screen'.update)
  PROVE DrawInv'
  <1>1. Types /\ OnScreen /\ DirtyNotShown /\ Images
    BY DEF DrawInv
  <1>2. /\ ~Stopping /\ ~Stopping' /\ ~Halting /\ ~Halting' /\ ~Preparing /\ ~Preparing'
        /\ NextPaint' <=> NextPaint
    BY DEF InPaint, Stopping, Halting, NextPaint, Preparing
  <1>3. Images'
    BY <1>1, <1>2 DEF Images, OpenImage, FinishedImage, Posts
  <1>4. cache' \in Seq(Entry) /\ \A i \in DOMAIN cache' : NotShown(cache'[i].data, layout.dirty)
    BY <1>1 DEF Types, PlaneTyped, DirtyNotShown
  <1>5. /\ canvas.need => screen'.due
        /\ \/ screen'.shown \/ job.running \/ Contains(posted', "update_image")
           \/ screen'.due /\ (screen'.update \/ canvas.need)
    BY <1>1 DEF OnScreen, Posts
  <1>6. /\ job'.running = job.running /\ job'.queue = job.queue /\ job'.late = job.late
        /\ UNCHANGED <<m_initial_update, thread, canvas, plane>>
    OBVIOUS
  <1> QED
    BY <1>3, <1>4, <1>5, <1>6, LoopKeeps

LEMMA QuietStepsKeep ==
  ASSUME DrawInv,
         \/ ChangeDone \/ (\E how \in {"transaction", "changes"} : BeginBuilding(how)) \/ EndTransaction
         \/ EndChanges \/ Ask \/ StartPass
  PROVE DrawInv'
  <1>1. Types
    BY DEF DrawInv
  <1>2. /\ posted \in Seq(Method) /\ IsInjective(posted) /\ gui.pass <= Len(posted) /\ gui.pass \in Nat
        /\ Len(posted) \in Nat
    BY <1>1, PostedType
  <1>3. /\ gui.pc \in {"idle", "changing"} /\ gui'.pc = "idle" /\ GuiTyped' /\ gui'.pass <= Len(posted)
        /\ UNCHANGED <<job, m_initial_update, thread, canvas, screen, plane, cache, posted>>
    <2>1. CASE ChangeDone
      <3>1. gui' = [gui EXCEPT !.pc = "idle"] /\ gui.pc = "changing"
        BY <2>1 DEF ChangeDone
      <3>2. gui'.pc = "idle" /\ GuiTyped' /\ gui'.pass = gui.pass
        BY <1>1, <3>1 DEF Types, GuiTyped
      <3> QED
        BY <1>2, <2>1, <3>1, <3>2 DEF ChangeDone
    <2>2. CASE StartPass
      <3>1. gui' = [gui EXCEPT !.pass = Len(posted)] /\ gui.pc = "idle"
        BY <2>2 DEF StartPass, AtLoop
      <3>2. PICK n \in Nat : n = Len(posted)
        BY <1>2
      <3>3. gui'.pc = "idle" /\ GuiTyped' /\ gui'.pass = n
        BY <1>1, <3>1, <3>2 DEF Types, GuiTyped
      <3> QED
        BY <1>2, <2>2, <3>1, <3>2, <3>3 DEF StartPass
    <2>3. CASE (\E how \in {"transaction", "changes"} : BeginBuilding(how)) \/ EndTransaction \/ EndChanges \/ Ask
      <3>1. /\ gui.pc = "idle" /\ gui' = gui
            /\ UNCHANGED <<job, m_initial_update, thread, canvas, screen, plane, cache, posted>>
        BY <2>3 DEF BeginBuilding, EndTransaction, EndChanges, Ask, Update, AtLoop
      <3> QED
        BY <1>1, <1>2, <3>1 DEF Types, GuiTyped
    <2> QED
      BY <2>1, <2>2, <2>3
  <1>4. PostedTyped' /\ CanvasTyped'
    BY <1>1, <1>2, <1>3 DEF PostedTyped, CanvasTyped, Types
  <1>5. /\ LayoutTyped' /\ (layout'.dirty = layout.dirty \/ layout'.dirty = {})
        /\ worker' = worker \/ worker' = ReadersTorn
    <2>1. CASE ChangeDone \/ StartPass
      BY <1>1, <2>1 DEF ChangeDone, StartPass, Types, LayoutTyped
    <2>2. ASSUME NEW how \in {"transaction", "changes"}, BeginBuilding(how)
          PROVE LayoutTyped' /\ layout'.dirty = layout.dirty /\ worker' = worker
      BY <1>1, <2>2 DEF BeginBuilding, Types, LayoutTyped
    <2>3. CASE EndTransaction
      BY <1>1, <2>3 DEF EndTransaction, Types, LayoutTyped
    <2>4. CASE EndChanges \/ Ask
      <3>1. /\ layout' = [layout EXCEPT !.dirty = {}, !.building = IF @ = "changes" THEN "no" ELSE @]
            /\ worker' = worker \/ worker' = ReadersTorn
        BY <2>4 DEF EndChanges, Ask, Update
      <3>2. LayoutTyped' /\ layout'.dirty = {}
        BY <1>1, <3>1 DEF Types, LayoutTyped
      <3> QED
        BY <3>1, <3>2
    <2> QED
      BY <2>1, <2>2, <2>3, <2>4
  <1>6. /\ JobTyped'
        /\ \A w \in Workers : /\ worker'[w].task = worker[w].task /\ (worker'[w].reads = "no" <=> worker[w].reads = "no")
                              /\ worker'[w].reads = "yes" => worker[w].reads = "yes"
    <2>1. CASE worker' = worker
      BY <1>1, <1>3, <2>1 DEF Types, JobTyped
    <2>2. CASE worker' = ReadersTorn
      BY <1>1, <1>3, <2>2, TornFits DEF Types, JobTyped
    <2> QED
      BY <1>5, <2>1, <2>2
  <1>7. UNCHANGED <<job, m_initial_update, thread, canvas, plane, cache>>
    BY <1>3
  <1>8. /\ screen'.shown = screen.shown /\ screen.due => screen'.due
        /\ screen.update => screen'.update
        /\ Contains(posted', "redraw") <=> Contains(posted, "redraw")
        /\ Contains(posted', "end_of_drawing") <=> Contains(posted, "end_of_drawing")
        /\ Contains(posted, "update_image") => Contains(posted', "update_image") \/ (screen'.due /\ screen'.update)
    BY <1>3
  <1> QED
    BY <1>3, <1>4, <1>5, <1>6, <1>7, <1>8, QuietKeeps

LEMMA ExecutedFits ==
  ASSUME Types, gui.pc = "idle", Executed, posted' \in Seq(Method), IsInjective(posted'),
         gui.pass - 1 <= Len(posted'), gui.pass - 1 \in Nat
  PROVE gui'.pc = "idle" /\ gui'.request = gui.request /\ GuiTyped' /\ PostedTyped'
  <1>1. PICK n \in Nat : n = gui.pass - 1
    OBVIOUS
  <1>2. gui' = [gui EXCEPT !.pass = n]
    BY <1>1 DEF Executed
  <1>3. gui'.pc = "idle" /\ gui'.request = gui.request /\ gui'.pass = n /\ GuiTyped'
    BY <1>2 DEF Types, GuiTyped
  <1> QED
    BY <1>1, <1>3 DEF PostedTyped

LEMMA UpdateImageKeeps ==
  ASSUME DrawInv, DoUpdateImage
  PROVE DrawInv'
  <1>1. Types
    BY DEF DrawInv
  <1>2. /\ Execute("update_image") /\ Executed /\ screen' = [screen EXCEPT !.due = TRUE, !.update = TRUE]
        /\ UNCHANGED <<layout, job, worker, m_initial_update, thread, canvas, plane, cache>>
    BY DEF DoUpdateImage
  <1>3. /\ gui.pc = "idle" /\ posted' \in Seq(Method) /\ IsInjective(posted')
        /\ gui.pass - 1 <= Len(posted') /\ gui.pass - 1 \in Nat
        /\ \A k : Contains(posted', k) <=> Contains(posted, k) /\ k # "update_image"
    BY <1>1, <1>2, ExecuteFits
  <1>4. gui'.pc = "idle" /\ GuiTyped' /\ PostedTyped'
    BY <1>1, <1>2, <1>3, ExecutedFits
  <1>5. /\ screen' \in [due : BOOLEAN, update : BOOLEAN, shown : BOOLEAN]
        /\ screen'.due = TRUE /\ screen'.update = TRUE /\ screen'.shown = screen.shown
    BY <1>1, <1>2 DEF Types, CanvasTyped
  <1>6. LayoutTyped' /\ JobTyped' /\ CanvasTyped' /\ layout'.dirty = layout.dirty
    BY <1>1, <1>2, <1>5 DEF Types, LayoutTyped, JobTyped, CanvasTyped
  <1>7. \A w \in Workers : /\ worker'[w].task = worker[w].task /\ (worker'[w].reads = "no" <=> worker[w].reads = "no")
                           /\ worker'[w].reads = "yes" => worker[w].reads = "yes"
    BY <1>2
  <1>8. UNCHANGED <<job, m_initial_update, thread, canvas, plane, cache>>
    BY <1>2
  <1> QED
    BY <1>3, <1>4, <1>5, <1>6, <1>7, <1>8, QuietKeeps

(* The end of a drawing: an open image is the last one, and finished.      *)
LEMMA EndOfDrawingKeeps ==
  ASSUME DrawInv, DoEndOfDrawing
  PROVE DrawInv'
  <1> DEFINE I == {i \in DOMAIN cache : cache[i].open => Equals(cache[i])}
             kept == Selected(cache, I)
             n == Cardinality(I)
  <1>1. Types /\ OnScreen /\ Shared /\ DirtyNotShown /\ Images /\ StaleComing
    BY DEF DrawInv
  <1>2. /\ Execute("end_of_drawing") /\ Executed
        /\ cache' = IF \E i \in DOMAIN kept : kept[i].open
                      THEN [kept EXCEPT ![Len(kept)] = [kept[Len(kept)] EXCEPT !.open = FALSE, !.drawn = thread.drawn, !.data = Stored]]
                      ELSE kept
        /\ job' = [job EXCEPT !.stray = FALSE]
        /\ UNCHANGED <<layout, worker, m_initial_update, thread, canvas, screen, plane>>
    BY Zenon DEF DoEndOfDrawing
  <1>3. /\ gui.pc = "idle" /\ posted' \in Seq(Method) /\ IsInjective(posted')
        /\ gui.pass - 1 <= Len(posted') /\ gui.pass - 1 \in Nat
        /\ Contains(posted, "end_of_drawing")
        /\ \A k : Contains(posted', k) <=> Contains(posted, k) /\ k # "end_of_drawing"
    BY <1>1, <1>2, ExecuteFits
  <1>4. gui'.pc = "idle" /\ GuiTyped' /\ PostedTyped'
    BY <1>1, <1>2, <1>3, ExecutedFits
  <1>5. ~Stopping /\ ~Halting /\ ~InPaint /\ ~Preparing /\ gui.pc # "painting"
    BY <1>3 DEF Stopping, Halting, InPaint, Preparing
  <1>6. cache \in Seq(Entry) /\ I \in SUBSET DOMAIN cache
    BY <1>1 DEF Types, PlaneTyped
  <1> HIDE DEF I
  <1>7. /\ kept \in Seq(Entry) /\ Len(kept) = n /\ n \in Nat
        /\ \A k \in 1..n : AtRank(I, k) \in I /\ kept[k] = cache[AtRank(I, k)]
    BY <1>6, SelectedIsSeq
  <1>8. \A k \in 1..n, l \in 1..n : k < l => AtRank(I, k) < AtRank(I, l)
    BY <1>6, SelectedInOrder
  <1> HIDE DEF kept, n
  <1>9. DOMAIN kept = 1..n /\ DOMAIN cache = 1..Len(cache) /\ Len(cache) \in Nat
    BY <1>6, <1>7
  <1>10. ASSUME NEW k \in 1..n, kept[k].open
         PROVE /\ k = n /\ kept[k].vp = canvas.vp /\ kept[k].visible = canvas.visible
               /\ (job.running => job.stray) /\ ~NextPaint
    <2> DEFINE j == AtRank(I, k)
    <2>1. j \in DOMAIN cache /\ cache[j].open /\ kept[k] = cache[j]
      BY <1>6, <1>7, <1>10
    <2>2. OpenImage(j)
      BY <1>1, <2>1 DEF Images
    <2>3. j = Len(cache) /\ kept[k].vp = canvas.vp /\ kept[k].visible = canvas.visible
          /\ (job.running => job.stray) /\ ~NextPaint
      BY <1>3, <1>5, <2>1, <2>2 DEF OpenImage, Posts
    <2> HIDE DEF j
    <2>4. ~(k < n)
      <3>1. k < n => AtRank(I, n) \in DOMAIN cache /\ j < AtRank(I, n)
        BY <1>6, <1>7, <1>8 DEF j
      <3> QED
        BY <1>9, <2>3, <3>1
    <2> QED
      BY <1>7, <2>3, <2>4
  <1>11. ASSUME NEW k \in 1..n, ~kept[k].open
         PROVE /\ kept[k].drawn = kept[k].vp
               /\ \A t \in kept[k].visible \cup {Boxes} : kept[k].data[t] \in Lacks => Posts("redraw")
    <2>1. AtRank(I, k) \in DOMAIN cache /\ kept[k] = cache[AtRank(I, k)]
      BY <1>6, <1>7
    <2> QED
      BY <1>1, <1>5, <1>11, <2>1 DEF Images, FinishedImage
  <1>12. \A k \in 1..n : NotShown(kept[k].data, layout.dirty)
    BY <1>1, <1>6, <1>7 DEF DirtyNotShown
  <1>13. /\ cache' \in Seq(Entry)
         /\ \A i \in DOMAIN cache' :
              /\ ~cache'[i].open /\ cache'[i].drawn = cache'[i].vp /\ NotShown(cache'[i].data, layout.dirty)
              /\ \A t \in cache'[i].visible \cup {Boxes} : cache'[i].data[t] \in Lacks => Posts("redraw")
    <2>1. CASE ~\E i \in DOMAIN kept : kept[i].open
      <3>1. cache' = kept
        BY <1>2, <2>1
      <3> QED
        BY <1>7, <1>9, <1>11, <1>12, <2>1, <3>1
    <2>2. CASE \E i \in DOMAIN kept : kept[i].open
      <3>1. n \in 1..n /\ kept[n].open
        BY <1>9, <1>10, <2>2
      <3>2. PICK e \in Entry : e = kept[n]
        BY <1>7, <1>9, <3>1
      <3>3. PICK no \in BOOLEAN : no = FALSE
        OBVIOUS
      <3>4. plane \in [Tasks -> Plane] /\ Stored \in [Tasks -> Plane] /\ thread.drawn \in Viewports
        BY <1>1, AbandonedFits DEF Types, PlaneTyped, JobTyped, ThreadType, Stored
      <3>5. LET d == [e EXCEPT !.open = no, !.drawn = thread.drawn, !.data = Stored]
            IN /\ d \in Entry /\ d.open = no /\ d.drawn = thread.drawn /\ d.data = Stored
               /\ d.vp = e.vp /\ d.visible = e.visible
        BY <3>4 DEF Entry
      <3> DEFINE d == [e EXCEPT !.open = no, !.drawn = thread.drawn, !.data = Stored]
      <3>6. cache' = [kept EXCEPT ![n] = d]
        BY <1>2, <1>7, <2>2, <3>2, <3>3
      <3> HIDE DEF d
      <3>7. /\ d \in Entry /\ d.open = FALSE /\ d.drawn = thread.drawn /\ d.data = Stored
            /\ d.vp = canvas.vp /\ d.visible = canvas.visible /\ (job.running => job.stray) /\ ~NextPaint
        BY <1>10, <3>1, <3>2, <3>3, <3>5 DEF d
      <3>8. /\ cache' \in Seq(Entry) /\ DOMAIN cache' = 1..n
            /\ \A i \in 1..n : cache'[i] = IF i = n THEN d ELSE kept[i]
        <4>1. kept \in [1..n -> Entry]
          BY <1>7
        <4>2. /\ cache' \in [1..n -> Entry] /\ DOMAIN cache' = 1..n
              /\ \A i \in 1..n : cache'[i] = IF i = n THEN d ELSE kept[i]
          BY <3>6, <3>7, <4>1
        <4>3. cache' \in Seq(Entry)
          BY <1>7, <4>2
        <4> QED
          BY <4>2, <4>3
      <3>9. thread.drawn = canvas.vp
        BY <1>1, <3>7 DEF OnScreen
      <3>10. NotShown(Stored, layout.dirty)
        <4>1. \A x \in layout.dirty : Affected(x) \subseteq Tasks
          BY <1>1 DEF Types, LayoutTyped, Affected
        <4> QED
          BY <1>1, <3>4, <4>1, AbandonedFits DEF DirtyNotShown, NotShown, Stored
      <3>11. ASSUME NEW t \in canvas.visible \cup {Boxes}, Stored[t] \in Lacks PROVE Posts("redraw")
        <4>1. t \in Tasks /\ t \in Visible /\ t # "none"
          BY <1>1, RedrawAssumption DEF Types, CanvasTyped, CanvasType, Tasks, Visible
        <4>2. plane[t] \in Lacks /\ ~job.running
          BY <3>4, <3>7, <3>11, <4>1, AbandonedFits DEF Stored
        <4>3. ~Worked(t)
          BY <1>1, <1>5, <4>1, <4>2 DEF Shared, Worked, Preparing
        <4>4. Coming(t)
          BY <1>1, <4>1, <4>2 DEF StaleComing
        <4> QED
          BY <1>5, <3>7, <4>1, <4>3, <4>4 DEF Coming, AllComing
      <3>12. \A i \in 1..n : i # n => ~kept[i].open
        BY <1>10
      <3>13. ASSUME NEW i \in 1..n
             PROVE /\ ~cache'[i].open /\ cache'[i].drawn = cache'[i].vp /\ NotShown(cache'[i].data, layout.dirty)
                   /\ \A t \in cache'[i].visible \cup {Boxes} : cache'[i].data[t] \in Lacks => Posts("redraw")
        <4>1. CASE i = n
          <5>1. cache'[i] = d
            BY <3>8, <4>1
          <5> QED
            BY <3>7, <3>9, <3>10, <3>11, <5>1
        <4>2. CASE i # n
          <5>1. cache'[i] = kept[i]
            BY <3>8, <4>2
          <5> QED
            BY <1>11, <1>12, <3>12, <4>2, <5>1
        <4> QED
          BY <4>1, <4>2
      <3> QED
        BY <3>8, <3>13
    <2> QED
      BY <2>1, <2>2
  <1>14. Contains(posted', "redraw") <=> Contains(posted, "redraw")
    BY <1>3
  <1>15. Images'
    BY <1>13, <1>14 DEF Images, FinishedImage, Posts
  <1>16. /\ canvas.need => screen'.due
         /\ \/ screen'.shown \/ job.running \/ Contains(posted', "update_image")
            \/ screen'.due /\ (screen'.update \/ canvas.need)
    BY <1>1, <1>2, <1>3 DEF OnScreen, Posts
  <1>17. LayoutTyped' /\ JobTyped' /\ CanvasTyped' /\ layout'.dirty = layout.dirty
    BY <1>1, <1>2 DEF Types, LayoutTyped, JobTyped, JobType, CanvasTyped
  <1>18. \A w \in Workers : /\ worker'[w].task = worker[w].task /\ (worker'[w].reads = "no" <=> worker[w].reads = "no")
                            /\ worker'[w].reads = "yes" => worker[w].reads = "yes"
    BY <1>2
  <1>19. /\ job'.running = job.running /\ job'.queue = job.queue /\ job'.late = job.late
         /\ UNCHANGED <<m_initial_update, thread, canvas, plane>>
    BY <1>1, <1>2 DEF Types, JobTyped, JobType
  <1> QED
    BY <1>3, <1>4, <1>13, <1>14, <1>15, <1>16, <1>17, <1>18, <1>19, LoopKeeps

-----------------------------------------------------------------------------
(* Painting.                                                               *)

LEMMA PaintOnlyKeeps ==
  ASSUME DrawInv, PaintOnly
  PROVE DrawInv'
  <1>1. Types /\ OnScreen /\ DirtyNotShown /\ Images
    BY DEF DrawInv
  <1>2. /\ gui.pc = "idle" /\ gui' = gui /\ screen.due /\ ~canvas.need
        /\ screen' = [due |-> FALSE, update |-> FALSE, shown |-> screen.shown \/ screen.update]
        /\ UNCHANGED <<layout, job, worker, m_initial_update, thread, canvas, plane, cache, posted>>
    BY DEF PaintOnly, AtLoop
  <1>3. GuiTyped' /\ PostedTyped' /\ LayoutTyped' /\ JobTyped' /\ CanvasTyped' /\ cache' \in Seq(Entry)
    BY <1>1, <1>2 DEF Types, GuiTyped, PostedTyped, LayoutTyped, JobTyped, CanvasTyped, PlaneTyped
  <1>4. \A w \in Workers : /\ worker'[w].task = worker[w].task /\ (worker'[w].reads = "no" <=> worker[w].reads = "no")
                           /\ worker'[w].reads = "yes" => worker[w].reads = "yes"
    BY <1>2
  <1>5. \/ screen'.shown \/ job.running \/ Contains(posted', "update_image")
        \/ screen'.due /\ (screen'.update \/ canvas.need)
    BY <1>1, <1>2 DEF OnScreen, Posts
  <1>6. Images' /\ \A i \in DOMAIN cache' : NotShown(cache'[i].data, layout.dirty)
    BY <1>1, <1>2 DEF DirtyNotShown, Images, OpenImage, FinishedImage, NextPaint, InPaint, Preparing, Stopping, Halting, Posts
  <1>7. /\ job'.running = job.running /\ job'.queue = job.queue /\ job'.late = job.late
        /\ UNCHANGED <<m_initial_update, thread, canvas, plane>>
    BY <1>2
  <1>8. /\ gui.pc \in {"idle", "changing"} /\ gui'.pc = "idle" /\ layout'.dirty = layout.dirty
        /\ canvas.need => screen'.due
        /\ Contains(posted', "redraw") <=> Contains(posted, "redraw")
    BY <1>2
  <1> QED
    BY <1>3, <1>4, <1>5, <1>6, <1>7, <1>8, LoopKeeps

(* Before a paint event that prepares a drawing nothing is under way.      *)
LEMMA NothingUnderWay ==
  ASSUME DrawInv, AtLoop, canvas.need
  PROVE /\ gui.pc = "idle" /\ gui.pass = 0 /\ NextPaint /\ ~InPaint /\ ~Preparing
        /\ ~Stopping /\ ~Halting /\ ~job.running /\ job.queue = {}
        /\ m_initial_update = FALSE
        /\ \A w \in Workers : worker[w].task = "none" /\ worker[w].reads = "no"
        /\ \A i \in DOMAIN cache : ~cache[i].open /\ FinishedImage(i)
  <1>1. Types /\ Shared /\ OnScreen /\ Images
    BY DEF DrawInv
  <1>2. gui.pc = "idle" /\ gui.pass = 0 /\ NextPaint /\ ~InPaint /\ ~Preparing /\ ~Stopping /\ ~Halting
    BY DEF AtLoop, NextPaint, InPaint, Preparing, Stopping, Halting
  <1>3. ~job.running /\ job.queue = {} /\ \A w \in Workers : worker[w].task = "none" /\ worker[w].reads = "no"
    BY <1>1, <1>2 DEF Shared
  <1>4. m_initial_update = FALSE
    BY <1>1, <1>2 DEF OnScreen, Types
  <1>5. \A i \in DOMAIN cache : ~cache[i].open /\ FinishedImage(i)
    BY <1>1, <1>2 DEF Images, OpenImage
  <1> QED
    BY <1>2, <1>3, <1>4, <1>5

LEMMA NothingNeededFits ==
  ASSUME Types, canvas' = NothingNeeded
  PROVE /\ canvas' \in CanvasType
        /\ canvas'.vp = canvas.vp /\ canvas'.visible = canvas.visible
        /\ canvas'.need = FALSE /\ canvas'.clearing = FALSE /\ canvas'.restart = {}
  <1>1. PICK no \in BOOLEAN, nothing \in SUBSET Layers : no = FALSE /\ nothing = {}
    OBVIOUS
  <1>2. canvas' = [canvas EXCEPT !.need = no, !.clearing = no, !.restart = nothing, !.force = no]
    BY <1>1 DEF NothingNeeded
  <1>3. /\ canvas' \in CanvasType
        /\ canvas'.vp = canvas.vp /\ canvas'.visible = canvas.visible
        /\ canvas'.need = no /\ canvas'.clearing = no /\ canvas'.restart = nothing
    BY <1>2 DEF Types, CanvasTyped, CanvasType
  <1> QED
    BY <1>1, <1>3

LEMMA EndCancelledFits ==
  ASSUME Types, gui.pass = 0, posted' = EndCancelled, gui'.pass = 0
  PROVE /\ PostedTyped' /\ ~Contains(posted', "end_of_drawing")
        /\ Contains(posted', "redraw") <=> Contains(posted, "redraw")
  <1>1. posted \in Seq(Method) /\ IsInjective(posted)
    BY PostedType
  <1>2. /\ posted' \in Seq(Method) /\ IsInjective(posted')
        /\ \A k : Contains(posted', k) <=> Contains(posted, k) /\ k # "end_of_drawing"
    BY <1>1, HoldsWithout DEF EndCancelled
  <1> QED
    BY <1>2 DEF PostedTyped

LEMMA RemoveFits ==
  ASSUME NEW s \in Seq(Entry), NEW i \in DOMAIN s
  PROVE /\ RemoveAt(s, i) \in Seq(Entry)
        /\ \A k \in DOMAIN RemoveAt(s, i) : \E j \in DOMAIN s : RemoveAt(s, i)[k] = s[j]
  <1> DEFINE a == SubSeq(s, 1, i - 1)
             b == SubSeq(s, i + 1, Len(s))
  <1>1. i \in 1..Len(s) /\ Len(s) \in Nat /\ DOMAIN s = 1..Len(s)
    OBVIOUS
  <1>2. a \in Seq(Entry) /\ Len(a) = i - 1 /\ \A k \in 1..(i - 1) : a[k] = s[k]
    BY <1>1
  <1>3. b \in Seq(Entry) /\ Len(b) = Len(s) - i /\ \A k \in 1..(Len(s) - i) : b[k] = s[i + k]
    BY <1>1
  <1> HIDE DEF a, b
  <1> DEFINE c == a \o b
  <1>4. /\ c \in Seq(Entry) /\ DOMAIN c = 1..(Len(s) - 1)
        /\ \A k \in 1..(Len(s) - 1) : c[k] = IF k <= i - 1 THEN a[k] ELSE b[k - (i - 1)]
    <2>1. i - 1 \in Nat /\ Len(s) - i \in Nat /\ (i - 1) + (Len(s) - i) = Len(s) - 1
      BY <1>1
    <2>2. /\ c \in Seq(Entry) /\ Len(c) = Len(a) + Len(b)
          /\ \A k \in 1..(Len(a) + Len(b)) : c[k] = IF k <= Len(a) THEN a[k] ELSE b[k - Len(a)]
      BY <1>2, <1>3
    <2> HIDE DEF c
    <2> QED
      BY <1>2, <1>3, <2>1, <2>2
  <1>5. RemoveAt(s, i) = c
    BY DEF RemoveAt, a, b, c
  <1> HIDE DEF c
  <1>6. ASSUME NEW k \in DOMAIN c PROVE \E j \in DOMAIN s : c[k] = s[j]
    <2>1. CASE k <= i - 1
      <3>1. k \in 1..(i - 1) /\ k \in DOMAIN s
        BY <1>1, <1>4, <1>6, <2>1
      <3> QED
        BY <1>2, <1>4, <1>6, <2>1, <3>1
    <2>2. CASE ~(k <= i - 1)
      <3>1. k - (i - 1) \in 1..(Len(s) - i) /\ i + (k - (i - 1)) = k + 1 /\ k + 1 \in DOMAIN s
        BY <1>1, <1>4, <1>6, <2>2
      <3> QED
        BY <1>3, <1>4, <1>6, <2>2, <3>1
    <2> QED
      BY <2>1, <2>2
  <1> QED
    BY <1>4, <1>5, <1>6

(* The image taken from the cache becomes the last one.                    *)
LEMMA CachedKeeps ==
  ASSUME DrawInv, PaintCached
  PROVE DrawInv'
  <1>1. Types /\ DirtyNotShown
    BY DEF DrawInv
  <1>2. /\ AtLoop /\ canvas.need /\ canvas' = NothingNeeded /\ screen' = Shown /\ posted' = EndCancelled
        /\ job' = [job EXCEPT !.stray = FALSE] /\ UNCHANGED <<gui, layout, worker, m_initial_update>>
    BY DEF PaintCached
  <1>3. PICK i \in Hits : /\ cache' = Append(RemoveAt(cache, i), cache[i])
                          /\ plane' = cache[i].data /\ thread' = Committed
    BY DEF PaintCached
  <1>4. i \in DOMAIN cache /\ canvas.visible \subseteq cache[i].visible
    BY DEF Hits, Equals
  <1>5. /\ gui.pc = "idle" /\ gui.pass = 0 /\ ~Stopping /\ ~Halting /\ ~job.running /\ job.queue = {}
        /\ m_initial_update = FALSE
        /\ \A w \in Workers : worker[w].task = "none" /\ worker[w].reads = "no"
        /\ \A j \in DOMAIN cache : ~cache[j].open /\ FinishedImage(j)
    BY <1>2, NothingUnderWay
  <1>6. ~InPaint' /\ ~Preparing' /\ ~Stopping' /\ ~Halting'
    BY <1>2, <1>5 DEF InPaint, Preparing, Stopping, Halting
  <1>7. /\ canvas' \in CanvasType
        /\ canvas'.vp = canvas.vp /\ canvas'.visible = canvas.visible
        /\ canvas'.need = FALSE /\ canvas'.clearing = FALSE /\ canvas'.restart = {}
    BY <1>1, <1>2, NothingNeededFits
  <1>8. ~NextPaint'
    BY <1>7 DEF NextPaint
  <1>9. /\ PostedTyped' /\ ~Contains(posted', "end_of_drawing")
        /\ Contains(posted', "redraw") <=> Contains(posted, "redraw")
    BY <1>1, <1>2, <1>5, EndCancelledFits
  <1>10. cache \in Seq(Entry) /\ \A j \in DOMAIN cache : cache[j].data \in [Tasks -> Plane] /\ cache[j].visible \subseteq Layers
    BY <1>1, ImageFits
  <1>11. cache' \in Seq(Entry) /\ \A k \in DOMAIN cache' : \E j \in DOMAIN cache : cache'[k] = cache[j]
    <2> DEFINE rest == RemoveAt(cache, i)
    <2>1. rest \in Seq(Entry) /\ \A k \in DOMAIN rest : \E j \in DOMAIN cache : rest[k] = cache[j]
      BY <1>4, <1>10, RemoveFits
    <2> HIDE DEF rest
    <2>2. /\ cache' \in Seq(Entry) /\ DOMAIN cache' = 1..(Len(rest) + 1) /\ Len(rest) \in Nat /\ DOMAIN rest = 1..Len(rest)
          /\ cache'[Len(rest) + 1] = cache[i] /\ \A k \in 1..Len(rest) : cache'[k] = rest[k]
      BY <1>3, <1>4, <1>10, <2>1 DEF rest
    <2>3. ASSUME NEW k \in DOMAIN cache' PROVE \E j \in DOMAIN cache : cache'[k] = cache[j]
      <3>1. k = Len(rest) + 1 \/ k \in 1..Len(rest)
        BY <2>2
      <3> QED
        BY <1>4, <2>1, <2>2, <3>1
    <2> QED
      BY <2>2, <2>3
  <1>12. /\ thread' \in ThreadType /\ thread'.drawn = canvas.vp
         /\ thread'.enabled = (Layers \ canvas.visible) \cup {Boxes} /\ ~thread'.strips
         /\ job' \in JobType /\ job'.running = FALSE /\ job'.queue = {} /\ job'.late = job.late
    <2>1. canvas.vp \in Viewports /\ (Layers \ canvas.visible) \cup {Boxes} \in SUBSET Tasks
      BY <1>1 DEF Types, CanvasTyped, CanvasType, Tasks
    <2>2. job \in JobType
      BY <1>1 DEF Types, JobTyped
    <2> QED
      BY <1>2, <1>3, <1>5, <2>1, <2>2 DEF Committed, JobType, ThreadType
  <1>13. Types'
    <2>1. GuiTyped' /\ JobTyped' /\ LayoutTyped'
      BY <1>1, <1>2, <1>12 DEF Types, GuiTyped, JobTyped, LayoutTyped
    <2>2. CanvasTyped' /\ PlaneTyped'
      BY <1>2, <1>3, <1>4, <1>7, <1>10, <1>11 DEF CanvasTyped, PlaneTyped, Shown
    <2> QED
      BY <1>1, <1>2, <1>9, <2>1, <2>2 DEF Types
  <1>14. Shared'
    BY <1>2, <1>5, <1>6, <1>8, <1>12 DEF Shared
  <1>15. OnScreen'
    BY <1>2, <1>5, <1>6, <1>7, <1>12 DEF OnScreen, Shown
  <1>16. DirtyNotShown'
    BY <1>1, <1>2, <1>3, <1>4, <1>5, <1>11 DEF DirtyNotShown
  <1>17. Images'
    <2> SUFFICES ASSUME NEW k \in DOMAIN cache' PROVE ~cache'[k].open /\ FinishedImage(k)'
      BY DEF Images
    <2>1. PICK j \in DOMAIN cache : cache'[k] = cache[j]
      BY <1>11
    <2> QED
      BY <1>5, <1>9, <2>1 DEF FinishedImage, Posts
  <1>18. HierComing'
    BY <1>6 DEF HierComing
  <1>19. StaleComing'
    <2> SUFFICES ASSUME NEW t \in Tasks, plane'[t] \in Lacks PROVE Coming(t)'
      BY DEF StaleComing
    <2>1. CASE t \in cache[i].visible \cup {Boxes}
      BY <1>3, <1>4, <1>5, <1>9, <2>1 DEF FinishedImage, Coming, AllComing, Posts
    <2>2. CASE t \notin cache[i].visible \cup {Boxes}
      BY <1>4, <1>7, <1>12, <2>2 DEF Coming, Tasks, Visible
    <2> QED
      BY <2>1, <2>2
  <1>20. StripsSuffice'
    BY <1>12 DEF StripsSuffice
  <1> QED
    BY <1>13, <1>14, <1>15, <1>16, <1>17, <1>18, <1>19, <1>20 DEF DrawInv

LEMMA KeptFits ==
  ASSUME Types, CacheSize # 0
  PROVE Kept \in Seq(Entry) /\ \A k \in DOMAIN Kept : \E j \in DOMAIN cache : Kept[k] = cache[j] /\ ~cache[j].open
  <1> DEFINE n == Len(Closed)
             m == IF n < CacheSize THEN 1 ELSE n - CacheSize + 2
  <1>1. /\ Closed \in Seq(Entry) /\ \A i \in DOMAIN Closed : ~Closed[i].open
        /\ \A i \in DOMAIN Closed : \E j \in DOMAIN cache : Closed[i] = cache[j]
    BY ClosedFits
  <1>2. n \in Nat /\ DOMAIN Closed = 1..n /\ CacheSize \in Nat
    BY <1>1, RedrawAssumption
  <1>3. m \in Nat /\ 1 <= m /\ m <= n + 1
    BY <1>2
  <1> HIDE DEF m, n
  <1> DEFINE k == SubSeq(Closed, m, n)
  <1>4. k \in Seq(Entry) /\ DOMAIN k = 1..(n - m + 1) /\ \A i \in 1..(n - m + 1) : k[i] = Closed[m + i - 1]
    <2>1. \A i \in m..n : Closed[i] \in Entry
      BY <1>1, <1>2, <1>3
    <2>2. n - m + 1 \in Nat
      BY <1>2, <1>3
    <2>3. k = [i \in 1..(n - m + 1) |-> Closed[m + i - 1]]
      BY <1>2, <1>3
    <2>4. \A i \in 1..(n - m + 1) : m + i - 1 \in m..n
      BY <1>2, <1>3
    <2> HIDE DEF k
    <2>5. k \in [1..(n - m + 1) -> Entry]
      BY <2>1, <2>3, <2>4
    <2> QED
      BY <2>2, <2>3, <2>5
  <1>5. Kept = k
    BY DEF Kept, k, m, n
  <1> HIDE DEF k
  <1>6. ASSUME NEW i \in DOMAIN k PROVE \E j \in DOMAIN cache : k[i] = cache[j] /\ ~cache[j].open
    <2>1. m + i - 1 \in DOMAIN Closed /\ k[i] = Closed[m + i - 1]
      BY <1>2, <1>3, <1>4, <1>6
    <2> QED
      BY <1>1, <2>1
  <1> QED
    BY <1>4, <1>5, <1>6

(* The cache of a drawing that starts: its open image is the last one.     *)
LEMMA NewEntryFits ==
  ASSUME Types, cache' = (IF CacheSize = 0 THEN <<>> ELSE Append(Kept, NewEntry))
  PROVE /\ cache' \in Seq(Entry)
        /\ \A k \in DOMAIN cache' :
             \/ \E j \in DOMAIN cache : cache'[k] = cache[j] /\ ~cache[j].open
             \/ /\ k = Len(cache') /\ cache'[k].open /\ cache'[k].vp = canvas.vp /\ cache'[k].visible = canvas.visible
                /\ cache'[k].data = Blank
  <1>1. CASE CacheSize = 0
    BY <1>1
  <1>2. CASE CacheSize # 0
    <2>1. Kept \in Seq(Entry) /\ \A k \in DOMAIN Kept : \E j \in DOMAIN cache : Kept[k] = cache[j] /\ ~cache[j].open
      BY <1>2, KeptFits
    <2>2. /\ NewEntry \in Entry /\ NewEntry.open = TRUE /\ NewEntry.vp = canvas.vp /\ NewEntry.visible = canvas.visible
          /\ NewEntry.data = Blank
      BY DEF NewEntry, Entry, Types, CanvasTyped, CanvasType, Blank, Plane
    <2>3. cache' = Append(Kept, NewEntry)
      BY <1>2
    <2>4. /\ cache' \in Seq(Entry) /\ DOMAIN cache' = 1..(Len(Kept) + 1) /\ Len(cache') = Len(Kept) + 1
          /\ Len(Kept) \in Nat /\ DOMAIN Kept = 1..Len(Kept)
          /\ cache'[Len(Kept) + 1] = NewEntry /\ \A k \in 1..Len(Kept) : cache'[k] = Kept[k]
      BY <2>1, <2>2, <2>3
    <2>5. ASSUME NEW k \in DOMAIN cache'
          PROVE \/ \E j \in DOMAIN cache : cache'[k] = cache[j] /\ ~cache[j].open
                \/ /\ k = Len(cache') /\ cache'[k].open /\ cache'[k].vp = canvas.vp /\ cache'[k].visible = canvas.visible
                   /\ cache'[k].data = Blank
      <3>1. k = Len(Kept) + 1 \/ k \in 1..Len(Kept)
        BY <2>4
      <3>2. CASE k = Len(Kept) + 1
        BY <2>2, <2>4, <3>2
      <3>3. CASE k \in 1..Len(Kept)
        BY <2>1, <2>4, <3>3
      <3> QED
        BY <3>1, <3>2, <3>3
    <2> QED
      BY <2>4, <2>5
  <1> QED
    BY <1>1, <1>2

(* The paint event that prepares a drawing.                                *)
LEMMA PaintStartKeeps ==
  ASSUME DrawInv, PaintStart
  PROVE DrawInv'
  <1>1. Types /\ OnScreen /\ DirtyNotShown /\ StaleComing
    BY DEF DrawInv
  <1>2. /\ AtLoop /\ canvas.need /\ screen.due /\ posted' = EndCancelled /\ job' = [job EXCEPT !.stray = FALSE]
        /\ cache' = (IF CacheSize = 0 THEN <<>> ELSE Append(Kept, NewEntry))
        /\ gui' = [gui EXCEPT !.pc = "painting"] /\ screen' = [screen EXCEPT !.shown = FALSE]
        /\ UNCHANGED <<layout, worker, m_initial_update, thread, canvas, plane>>
    BY DEF PaintStart
  <1>3. /\ gui.pc = "idle" /\ gui.pass = 0 /\ ~InPaint /\ ~Stopping /\ ~Halting /\ NextPaint
        /\ ~job.running /\ job.queue = {} /\ m_initial_update = FALSE
        /\ \A w \in Workers : worker[w].task = "none" /\ worker[w].reads = "no"
        /\ \A j \in DOMAIN cache : ~cache[j].open /\ FinishedImage(j)
    BY <1>2, NothingUnderWay
  <1>4. GuiTyped' /\ gui'.pc = "painting" /\ gui'.pass = 0
    BY <1>1, <1>2, <1>3 DEF Types, GuiTyped
  <1>5. ~InPaint' /\ Preparing' /\ ~Stopping' /\ ~Halting' /\ NextPaint'
    BY <1>2, <1>4 DEF InPaint, Preparing, Stopping, Halting, NextPaint
  <1>6. /\ PostedTyped' /\ ~Contains(posted', "end_of_drawing")
        /\ Contains(posted', "redraw") <=> Contains(posted, "redraw")
    BY <1>1, <1>2, <1>3, <1>4, EndCancelledFits
  <1>7. /\ cache' \in Seq(Entry)
        /\ \A k \in DOMAIN cache' :
             \/ \E j \in DOMAIN cache : cache'[k] = cache[j] /\ ~cache[j].open
             \/ /\ k = Len(cache') /\ cache'[k].open /\ cache'[k].vp = canvas.vp /\ cache'[k].visible = canvas.visible
                /\ cache'[k].data = Blank
    BY <1>1, <1>2, NewEntryFits
  <1>8. job' \in JobType /\ job'.running = FALSE /\ job'.queue = {} /\ job'.late = job.late
    BY <1>1, <1>2, <1>3 DEF Types, JobTyped, JobType
  <1>9. Types'
    <2>1. JobTyped' /\ PlaneTyped' /\ LayoutTyped'
      BY <1>1, <1>2, <1>7, <1>8 DEF Types, JobTyped, PlaneTyped, LayoutTyped
    <2>2. CanvasTyped'
      <3>1. PICK no \in BOOLEAN : no = FALSE
        OBVIOUS
      <3>2. screen' = [screen EXCEPT !.shown = no]
        BY <1>2, <3>1
      <3> QED
        BY <1>1, <1>2, <3>2 DEF Types, CanvasTyped
    <2> QED
      BY <1>1, <1>2, <1>4, <1>6, <2>1, <2>2 DEF Types
  <1>10. Shared'
    BY <1>2, <1>3, <1>5, <1>8 DEF Shared
  <1>11. OnScreen'
    <2>1. screen'.due
      BY <1>1, <1>2 DEF Types, CanvasTyped
    <2> QED
      BY <1>1, <1>2, <1>3, <1>5, <2>1 DEF OnScreen
  <1>12. DirtyNotShown'
    <2>1. \A x \in layout.dirty : Affected(x) \subseteq Tasks
      BY <1>1 DEF Types, LayoutTyped, Affected
    <2>2. ASSUME NEW k \in DOMAIN cache' PROVE NotShown(cache'[k].data, layout'.dirty)
      <3>1. CASE cache'[k].data = Blank
        BY <1>2, <2>1, <3>1 DEF NotShown, Blank, Shows
      <3>2. CASE \E j \in DOMAIN cache : cache'[k] = cache[j]
        BY <1>1, <1>2, <3>2 DEF DirtyNotShown
      <3> QED
        BY <1>7, <3>1, <3>2
    <2> QED
      BY <1>1, <1>2, <2>2 DEF DirtyNotShown
  <1>13. Images'
    <2> SUFFICES ASSUME NEW k \in DOMAIN cache'
                 PROVE (cache'[k].open => OpenImage(k)') /\ (~cache'[k].open => FinishedImage(k)')
      BY DEF Images
    <2>1. CASE \E j \in DOMAIN cache : cache'[k] = cache[j] /\ ~cache[j].open
      <3>1. PICK j \in DOMAIN cache : cache'[k] = cache[j] /\ ~cache[j].open
        BY <2>1
      <3> QED
        BY <1>3, <1>6, <3>1 DEF FinishedImage, Posts
    <2>2. CASE /\ k = Len(cache') /\ cache'[k].open /\ cache'[k].vp = canvas.vp /\ cache'[k].visible = canvas.visible
      BY <1>2, <1>4, <1>5, <1>6, <2>2 DEF OpenImage, Posts
    <2> QED
      BY <1>7, <2>1, <2>2
  <1>14. HierComing'
    BY <1>5 DEF HierComing
  <1>15. StaleComing'
    <2> SUFFICES ASSUME NEW t \in Tasks, plane[t] \in Lacks PROVE Coming(t)'
      BY <1>2 DEF StaleComing
    <2>1. Coming(t)
      BY <1>1 DEF StaleComing
    <2> QED
      BY <1>2, <1>3, <1>5, <1>6, <2>1 DEF Coming, AllComing, Posts
  <1>16. StripsSuffice'
    <2>1. ASSUME NEW t \in Tasks PROVE ~Worked(t)'
      BY <1>2, <1>3, <1>8, RedrawAssumption DEF Worked, Tasks
    <2> QED
      BY <2>1 DEF StripsSuffice
  <1> QED
    BY <1>9, <1>10, <1>11, <1>12, <1>13, <1>14, <1>15, <1>16 DEF DrawInv

(* What a drawing starts with: enabled is what it draws.  Strips are drawn *)
(* when nothing was stale but what another drawing is to come for.         *)
LEMMA PreparedFits ==
  ASSUME Types, Prepared
  PROVE /\ thread' \in ThreadType /\ plane' \in [Tasks -> Plane]
        /\ \A t \in Tasks : plane'[t] \in Shows => plane[t] \in Shows
        /\ canvas.clearing => thread'.enabled = Tasks /\ thread'.drawn = canvas.vp
        /\ ~canvas.clearing => /\ thread'.enabled = thread.enabled \cup canvas.restart /\ thread'.drawn = thread.drawn
                               /\ \A t \in Tasks : plane'[t] \in Lacks => t \in canvas.restart \/ plane[t] \in Lacks
        /\ thread'.strips => /\ canvas.clearing /\ ~canvas.force
                             /\ \A t \in Tasks \cap Visible : plane'[t] = "stale" => plane[t] \in Lacks /\ t \notin thread.enabled
  <1>1. /\ thread \in ThreadType /\ plane \in [Tasks -> Plane]
        /\ canvas.vp \in Viewports /\ canvas.restart \subseteq Tasks /\ Tasks \in SUBSET Tasks
    BY DEF Types, JobTyped, PlaneTyped, CanvasTyped, CanvasType, Tasks
  <1>2. CASE canvas.clearing /\ MayShift /\ StartShifted
    <2>1. /\ thread' = [enabled |-> Tasks, drawn |-> canvas.vp, valid |-> "part", strips |-> TRUE]
          /\ plane' = [t \in Tasks |-> Shifted(t)] /\ ~canvas.force
      BY <1>2 DEF StartShifted, MayShift
    <2>2. ASSUME NEW t \in Tasks
          PROVE /\ Shifted(t) \in Plane /\ (Shifted(t) \in Shows => plane[t] \in Shows)
                /\ Shifted(t) = "stale" /\ t \in Visible => plane[t] \in Lacks /\ t \notin thread.enabled
      BY <1>1 DEF Shifted, Plane, Shows, Lacks
    <2>3. thread' \in ThreadType /\ thread'.enabled = Tasks /\ thread'.drawn = canvas.vp
      BY <1>1, <2>1 DEF ThreadType
    <2> QED
      BY <1>2, <2>1, <2>2, <2>3
  <1>3. CASE canvas.clearing /\ StartBlank
    <2>1. thread' = [enabled |-> Tasks, drawn |-> canvas.vp, valid |-> "none", strips |-> FALSE] /\ plane' = Blank
      BY <1>3 DEF StartBlank
    <2>2. thread' \in ThreadType /\ thread'.enabled = Tasks /\ thread'.drawn = canvas.vp /\ thread'.strips = FALSE
      BY <1>1, <2>1 DEF ThreadType
    <2> QED
      BY <1>3, <2>1, <2>2 DEF Blank, Plane, Shows
  <1>4. CASE ~canvas.clearing
    <2>1. /\ thread' = [thread EXCEPT !.enabled = thread.enabled \cup canvas.restart, !.valid = "none", !.strips = FALSE]
          /\ plane' = [t \in Tasks |-> IF t \in canvas.restart THEN "stale" ELSE plane[t]]
      BY <1>4 DEF Prepared, Restart
    <2>2. thread.enabled \cup canvas.restart \in SUBSET Tasks
      BY <1>1 DEF ThreadType
    <2>3. /\ thread' \in ThreadType /\ thread'.strips = FALSE
          /\ thread'.enabled = thread.enabled \cup canvas.restart /\ thread'.drawn = thread.drawn
      BY <1>1, <2>1, <2>2 DEF ThreadType
    <2>4. "stale" \in Plane /\ "stale" \notin Shows
      BY DEF Plane, Shows
    <2> QED
      BY <1>1, <1>4, <2>1, <2>3, <2>4
  <1> QED
    BY <1>2, <1>3, <1>4 DEF Prepared

LEMMA PrepareKeeps ==
  ASSUME DrawInv, Prepare
  PROVE DrawInv'
  <1>1. Types /\ Shared /\ OnScreen /\ DirtyNotShown /\ Images /\ StaleComing
    BY DEF DrawInv
  <1>2. /\ gui.pc = "painting" /\ gui' = [gui EXCEPT !.pc = "prepared"] /\ layout' = Observed
        /\ m_initial_update' = TRUE /\ Prepared /\ job' = [job EXCEPT !.queue = thread'.enabled \cap Visible]
        /\ UNCHANGED <<worker, canvas, screen, cache, posted>>
    BY DEF Prepare
  <1>3. /\ ~InPaint /\ Preparing /\ ~Stopping /\ ~Halting /\ NextPaint /\ canvas.need /\ ~job.running
        /\ \A w \in Workers : worker[w].task = "none" /\ worker[w].reads = "no"
    BY <1>1, <1>2 DEF InPaint, Preparing, Stopping, Halting, NextPaint, OnScreen, Shared
  <1>4. GuiTyped' /\ gui'.pc = "prepared" /\ gui'.pass = gui.pass
    BY <1>1, <1>2 DEF Types, GuiTyped
  <1>5. InPaint' /\ Preparing' /\ ~Stopping' /\ ~Halting' /\ ~NextPaint'
    BY <1>4 DEF InPaint, Preparing, Stopping, Halting, NextPaint
  <1>6. /\ thread' \in ThreadType /\ plane' \in [Tasks -> Plane]
        /\ \A t \in Tasks : plane'[t] \in Shows => plane[t] \in Shows
        /\ canvas.clearing => thread'.enabled = Tasks /\ thread'.drawn = canvas.vp
        /\ ~canvas.clearing => /\ thread'.enabled = thread.enabled \cup canvas.restart /\ thread'.drawn = thread.drawn
                               /\ \A t \in Tasks : plane'[t] \in Lacks => t \in canvas.restart \/ plane[t] \in Lacks
        /\ thread'.strips => /\ canvas.clearing /\ ~canvas.force
                             /\ \A t \in Tasks \cap Visible : plane'[t] = "stale" => plane[t] \in Lacks /\ t \notin thread.enabled
    BY <1>1, <1>2, PreparedFits
  <1>7. LayoutTyped' /\ layout'.dirty \subseteq layout.dirty
    <2>1. PICK free \in BOOLEAN : free = Free
      BY DEF Free
    <2>2. PICK d \in SUBSET Tasks : d = (IF free THEN {} ELSE layout.dirty)
      BY <1>1 DEF Types, LayoutTyped
    <2>3. layout' = [layout EXCEPT !.attached = free, !.dirty = d]
      BY <1>2, <2>1, <2>2 DEF Observed
    <2>4. LayoutTyped' /\ layout'.dirty = d
      BY <1>1, <2>3 DEF Types, LayoutTyped
    <2> QED
      BY <2>2, <2>4
  <1>8. Visible \subseteq Tasks /\ Visible' = Visible
    BY <1>1, <1>2 DEF Types, CanvasTyped, CanvasType, Visible, Tasks
  <1>9. /\ job' \in JobType /\ job'.running = FALSE /\ job'.queue = thread'.enabled \cap Visible
        /\ job'.late = job.late /\ job'.stray = job.stray
    <2>1. PICK queue \in SUBSET Tasks : queue = thread'.enabled \cap Visible
      BY <1>8
    <2>2. job' = [job EXCEPT !.queue = queue]
      BY <1>2, <2>1
    <2> QED
      BY <1>1, <1>3, <2>1, <2>2 DEF Types, JobTyped, JobType
  <1>10. Types'
    <2>1. JobTyped' /\ PlaneTyped' /\ CanvasTyped' /\ PostedTyped'
      BY <1>1, <1>2, <1>4, <1>6, <1>9 DEF Types, JobTyped, PlaneTyped, CanvasTyped, PostedTyped
    <2> QED
      BY <1>2, <1>4, <1>7, <2>1 DEF Types
  <1>11. Shared'
    BY <1>2, <1>3, <1>4, <1>5, <1>8, <1>9 DEF Shared
  <1>12. OnScreen'
    <2>1. thread'.drawn = canvas.vp
      BY <1>1, <1>6 DEF OnScreen
    <2> QED
      BY <1>1, <1>2, <1>3, <1>5, <1>9, <2>1 DEF OnScreen, Posts
  <1>13. DirtyNotShown'
    <2>1. \A x \in layout.dirty : Affected(x) \subseteq Tasks
      BY <1>1 DEF Types, LayoutTyped, Affected
    <2>2. NotShown(plane', layout'.dirty)
      BY <1>1, <1>6, <1>7, <2>1 DEF DirtyNotShown, NotShown
    <2>3. \A i \in DOMAIN cache' : NotShown(cache'[i].data, layout'.dirty)
      BY <1>1, <1>2, <1>7 DEF DirtyNotShown, NotShown
    <2> QED
      BY <1>2, <1>3, <2>2, <2>3 DEF DirtyNotShown
  <1>14. Images'
    BY <1>1, <1>2, <1>3, <1>5, <1>9 DEF Images, OpenImage, FinishedImage, Posts
  <1>15. HierComing'
    BY <1>5 DEF HierComing
  <1>16. ASSUME NEW t \in Tasks, plane[t] \in Lacks
         PROVE Posts("redraw")' \/ canvas.clearing \/ t \in thread.enabled \/ t \in canvas.restart
    <2>1. Coming(t)
      BY <1>1, <1>16 DEF StaleComing
    <2> QED
      BY <1>2, <1>3, <2>1 DEF Coming, AllComing, Posts
  <1>17. StaleComing'
    <2> SUFFICES ASSUME NEW t \in Tasks, plane'[t] \in Lacks PROVE Coming(t)'
      BY DEF StaleComing
    <2>1. ASSUME t \in thread'.enabled PROVE Coming(t)'
      BY <1>8, <1>9, <2>1 DEF Coming, Worked
    <2>2. ASSUME Posts("redraw")' PROVE Coming(t)'
      BY <2>2 DEF Coming, AllComing
    <2> QED
      BY <1>6, <1>16, <2>1, <2>2
  <1>18. StripsSuffice'
    <2> SUFFICES ASSUME thread'.strips, NEW t \in Tasks, Worked(t)', plane'[t] = "stale" PROVE AllComing'
      BY DEF StripsSuffice
    <2>1. t \in Visible
      BY <1>2, <1>3, <1>9, RedrawAssumption DEF Worked, Tasks
    <2>2. plane[t] \in Lacks /\ t \notin thread.enabled /\ ~canvas.force
      BY <1>6, <2>1
    <2>3. Coming(t) /\ t \notin canvas.restart
      BY <1>1, <2>2 DEF StaleComing, OnScreen
    <2> QED
      BY <1>2, <1>3, <2>2, <2>3 DEF Coming, AllComing, Posts
  <1> QED
    BY <1>10, <1>11, <1>12, <1>13, <1>14, <1>15, <1>17, <1>18 DEF DrawInv

LEMMA StartKeeps ==
  ASSUME DrawInv, Start
  PROVE DrawInv'
  <1>1. Types /\ Shared /\ OnScreen /\ DirtyNotShown /\ Images /\ StaleComing /\ StripsSuffice
    BY DEF DrawInv
  <1>2. /\ gui.pc = "prepared" /\ gui' = [gui EXCEPT !.pc = "started"]
        /\ job' = [job EXCEPT !.running = TRUE, !.late = {}]
        /\ UNCHANGED <<layout, worker, m_initial_update, thread, canvas, screen, plane, cache, posted>>
    BY DEF Start
  <1>3. GuiTyped' /\ gui'.pc = "started" /\ gui'.pass = gui.pass
    BY <1>1, <1>2 DEF Types, GuiTyped
  <1>4. /\ InPaint /\ InPaint' /\ Preparing /\ ~Preparing' /\ ~Stopping /\ ~Stopping' /\ ~Halting /\ ~Halting'
        /\ ~NextPaint /\ ~NextPaint'
    BY <1>2, <1>3 DEF InPaint, Preparing, Stopping, Halting, NextPaint
  <1>5. /\ job' \in JobType /\ job'.running = TRUE /\ job'.late = {} /\ job'.queue = job.queue /\ job'.stray = job.stray
    <2>1. PICK nobody \in SUBSET Workers : nobody = {}
      OBVIOUS
    <2>2. job' = [job EXCEPT !.running = TRUE, !.late = nobody]
      BY <1>2, <2>1
    <2> QED
      BY <1>1, <2>1, <2>2 DEF Types, JobTyped, JobType
  <1>6. Types'
    BY <1>1, <1>2, <1>3, <1>5 DEF Types, JobTyped, PlaneTyped, CanvasTyped, PostedTyped, LayoutTyped
  <1>7. Visible' = Visible /\ \A t : Worked(t)' <=> Worked(t)
    BY <1>2, <1>5 DEF Visible, Worked
  <1>8. Shared'
    BY <1>1, <1>2, <1>4, <1>5, <1>7 DEF Shared
  <1>9. OnScreen'
    BY <1>1, <1>2, <1>4, <1>5 DEF OnScreen
  <1>10. DirtyNotShown'
    BY <1>1, <1>2 DEF DirtyNotShown, NotShown
  <1>11. Images'
    BY <1>1, <1>2, <1>4, <1>5 DEF Images, OpenImage, FinishedImage, Posts
  <1>12. HierComing'
    BY <1>4 DEF HierComing
  <1>13. AllComing => AllComing'
    BY <1>2, <1>4 DEF AllComing, Posts
  <1>14. StaleComing'
    BY <1>1, <1>2, <1>4, <1>7, <1>13 DEF StaleComing, Coming
  <1>15. StripsSuffice'
    BY <1>1, <1>2, <1>4, <1>7, <1>13 DEF StripsSuffice
  <1> QED
    BY <1>6, <1>8, <1>9, <1>10, <1>11, <1>12, <1>14, <1>15 DEF DrawInv

(* The rest of the paint event; the request is served when it returns.     *)
LEMMA PaintKeeps ==
  ASSUME DrawInv, Wait \/ Paint
  PROVE DrawInv'
  <1>1. Types /\ Shared /\ OnScreen /\ DirtyNotShown /\ Images /\ StaleComing /\ StripsSuffice
    BY DEF DrawInv
  <1>2. /\ InPaint /\ ~NextPaint /\ ~Stopping /\ ~Halting /\ ~Preparing
        /\ UNCHANGED <<layout, job, worker, thread, plane, cache, posted>>
    BY DEF Wait, Paint, InPaint, NextPaint, Stopping, Halting, Preparing
  <1>3. /\ GuiTyped' /\ gui'.pass = gui.pass /\ CanvasTyped' /\ m_initial_update' \in BOOLEAN
        /\ canvas'.vp = canvas.vp /\ canvas'.visible = canvas.visible
        /\ \/ InPaint' /\ m_initial_update' = m_initial_update /\ screen' = screen /\ canvas' = canvas
           \/ /\ ~InPaint' /\ ~m_initial_update' /\ screen'.shown
              /\ ~canvas'.need /\ ~canvas'.clearing /\ canvas'.restart = {}
        /\ ~Stopping' /\ ~Preparing'
    <2>1. CASE Wait
      <3>1. gui' = [gui EXCEPT !.pc = "waiting"] /\ UNCHANGED <<m_initial_update, canvas, screen>>
        BY <2>1 DEF Wait
      <3>2. GuiTyped' /\ gui'.pc = "waiting" /\ gui'.pass = gui.pass
        BY <1>1, <3>1 DEF Types, GuiTyped
      <3> QED
        BY <1>1, <3>1, <3>2 DEF Types, CanvasTyped, InPaint, Stopping, Preparing
    <2>2. CASE Paint
      <3>1. gui' = [gui EXCEPT !.pc = "idle"] /\ m_initial_update' = FALSE /\ canvas' = NothingNeeded /\ screen' = Shown
        BY <2>2 DEF Paint
      <3>2. GuiTyped' /\ gui'.pc = "idle" /\ gui'.pass = gui.pass
        BY <1>1, <3>1 DEF Types, GuiTyped
      <3>3. /\ canvas' \in CanvasType
            /\ canvas'.vp = canvas.vp /\ canvas'.visible = canvas.visible
            /\ canvas'.need = FALSE /\ canvas'.clearing = FALSE /\ canvas'.restart = {}
        BY <1>1, <3>1, NothingNeededFits
      <3>4. CanvasTyped' /\ screen'.shown
        BY <3>1, <3>3 DEF CanvasTyped, Shown
      <3> QED
        BY <3>1, <3>2, <3>3, <3>4 DEF InPaint, Stopping, Preparing
    <2> QED
      BY <2>1, <2>2
  <1>4. ~NextPaint' /\ ~Halting'
    BY <1>3 DEF NextPaint, Halting
  <1>5. Types'
    BY <1>1, <1>2, <1>3 DEF Types, PostedTyped, JobTyped, LayoutTyped, PlaneTyped
  <1>6. Shared'
    BY <1>1, <1>2, <1>3, <1>4 DEF Shared, Visible, Preparing
  <1>7. OnScreen'
    <2>1. thread'.drawn = canvas'.vp
      BY <1>1, <1>2, <1>3 DEF OnScreen
    <2>2. CASE InPaint' /\ m_initial_update' = m_initial_update /\ screen' = screen /\ canvas' = canvas
      BY <1>1, <1>2, <2>1, <2>2 DEF OnScreen, Posts
    <2>3. CASE /\ ~InPaint' /\ ~m_initial_update' /\ screen'.shown
               /\ ~canvas'.need /\ ~canvas'.clearing /\ canvas'.restart = {}
      BY <1>3, <2>1, <2>3 DEF OnScreen
    <2> QED
      BY <1>3, <2>2, <2>3
  <1>8. DirtyNotShown'
    BY <1>1, <1>2 DEF DirtyNotShown, NotShown
  <1>9. Images'
    BY <1>1, <1>2, <1>3, <1>4 DEF Images, OpenImage, FinishedImage, Posts
  <1>10. HierComing'
    BY <1>3 DEF HierComing
  <1>11. AllComing => AllComing'
    BY <1>2 DEF AllComing, Posts
  <1>12. StaleComing'
    <2> SUFFICES ASSUME NEW t \in Tasks, plane[t] \in Lacks PROVE Coming(t)'
      BY <1>2 DEF StaleComing
    <2>1. Coming(t)
      BY <1>1 DEF StaleComing
    <2>2. Visible' = Visible /\ (Worked(t)' <=> Worked(t))
      BY <1>2, <1>3 DEF Visible, Worked
    <2> QED
      BY <1>2, <1>11, <2>1, <2>2 DEF Coming
  <1>13. StripsSuffice'
    <2>1. \A t \in Tasks : Worked(t)' <=> Worked(t)
      BY <1>2 DEF Worked
    <2> QED
      BY <1>1, <1>2, <1>11, <2>1 DEF StripsSuffice
  <1> QED
    BY <1>5, <1>6, <1>7, <1>8, <1>9, <1>10, <1>12, <1>13 DEF DrawInv

-----------------------------------------------------------------------------
(* The workers.                                                            *)

LEMMA TakeKeeps ==
  ASSUME DrawInv, NEW w \in Workers, Take(w)
  PROVE DrawInv'
  <1>1. Types /\ Shared /\ OnScreen /\ DirtyNotShown /\ Images /\ HierComing /\ StaleComing /\ StripsSuffice
    BY DEF DrawInv
  <1>2. /\ job.running /\ Idle(w) /\ layout' = [layout EXCEPT !.dirty = IF Free THEN {} ELSE @]
        /\ UNCHANGED <<gui, m_initial_update, thread, canvas, screen, plane, cache, posted>>
    BY DEF Take
  <1> DEFINE how == IF ~Free THEN "no" ELSE IF gui.pc = "changing" THEN "torn" ELSE "yes"
  <1>3. PICK t \in job.queue : /\ job' = [job EXCEPT !.queue = job.queue \ {t}]
                               /\ worker' = [worker EXCEPT ![w] = [task |-> t, reads |-> how]]
    BY DEF Take
  <1>4. /\ job' \in JobType /\ job'.running = job.running /\ job'.queue = job.queue \ {t}
        /\ job'.late = job.late /\ job'.stray = job.stray /\ t \in Tasks /\ t # "none"
    BY <1>1, <1>3, RedrawAssumption DEF Types, JobTyped, JobType, Tasks
  <1>5. how \in {"no", "yes", "torn"} /\ (how = "yes" => Free)
    OBVIOUS
  <1> HIDE DEF how
  <1>6. /\ worker' \in [Workers -> [task : Tasks \cup {"none"}, reads : {"no", "yes", "torn"}]]
        /\ worker'[w].task = t /\ worker'[w].reads = how
        /\ \A u \in Workers : u # w => worker'[u] = worker[u]
    BY <1>1, <1>3, <1>4, <1>5 DEF Types, JobTyped
  <1>7. worker[w].task = "none"
    BY <1>2 DEF Idle
  <1>8. LayoutTyped' /\ (layout'.dirty = layout.dirty \/ layout'.dirty = {}) /\ (Free => layout'.dirty = {})
    BY <1>1, <1>2 DEF Types, LayoutTyped
  <1>9. /\ (InPaint' <=> InPaint) /\ (NextPaint' <=> NextPaint) /\ (Stopping' <=> Stopping) /\ (Halting' <=> Halting)
        /\ ~Stopping /\ (Preparing' <=> Preparing) /\ Visible' = Visible
    BY <1>1, <1>2, <1>3 DEF InPaint, NextPaint, Stopping, Halting, Shared, Preparing, Visible
  <1>10. Types'
    BY <1>1, <1>2, <1>4, <1>6, <1>8 DEF Types, GuiTyped, PostedTyped, JobTyped, CanvasTyped, PlaneTyped
  <1>11. Shared'
    <2>1. \A u \in Workers : worker'[u].task # "none" => worker'[u].task \in (thread.enabled \cap Visible) \ job'.queue
      BY <1>1, <1>3, <1>4, <1>6 DEF Shared
    <2>2. \A u, v \in Workers : worker'[u].task # "none" /\ worker'[v].task = worker'[u].task => v = u
      <3> SUFFICES ASSUME NEW u \in Workers, NEW v \in Workers, worker'[u].task # "none", worker'[v].task = worker'[u].task
                   PROVE v = u
        OBVIOUS
      <3>1. \A x \in Workers : worker[x].task # t
        BY <1>1, <1>3, <1>4 DEF Shared
      <3> QED
        BY <1>1, <1>6, <3>1 DEF Shared
    <2>3. \A u \in Workers : worker'[u].task = "none" => worker'[u].reads = "no"
      BY <1>1, <1>4, <1>6 DEF Shared
    <2> QED
      BY <1>1, <1>2, <1>4, <1>9, <2>1, <2>2, <2>3 DEF Shared
  <1>12. OnScreen'
    BY <1>1, <1>2, <1>4, <1>9 DEF OnScreen, Posts
  <1>13. DirtyNotShown'
    <2>1. NotShown(plane', layout'.dirty) /\ \A i \in DOMAIN cache' : NotShown(cache'[i].data, layout'.dirty)
      BY <1>1, <1>2, <1>8 DEF DirtyNotShown, NotShown
    <2>2. ASSUME NEW u \in Workers, worker'[u].reads = "yes" PROVE layout'.dirty = {}
      BY <1>1, <1>5, <1>6, <1>8, <2>2 DEF DirtyNotShown
    <2> QED
      BY <2>1, <2>2 DEF DirtyNotShown
  <1>14. Images'
    BY <1>1, <1>2, <1>4, <1>9 DEF Images, OpenImage, FinishedImage, Posts
  <1>15. HierComing'
    BY <1>9 DEF HierComing
  <1>16. AllComing => AllComing'
    BY <1>2, <1>9 DEF AllComing, Posts
  <1>17. StaleComing'
    <2> SUFFICES ASSUME NEW x \in Tasks, plane[x] \in Lacks PROVE Coming(x)'
      BY <1>2 DEF StaleComing
    <2>1. Coming(x)
      BY <1>1 DEF StaleComing
    <2>2. Worked(x) => Worked(x)'
      <3>1. x # "none"
        BY RedrawAssumption DEF Tasks
      <3>2. CASE x \in job.queue
        BY <1>4, <1>6, <3>2 DEF Worked
      <3>3. ASSUME NEW u \in Workers, worker[u].task = x PROVE Worked(x)'
        BY <1>6, <1>7, <3>1, <3>3 DEF Worked
      <3> QED
        BY <3>2, <3>3 DEF Worked
    <2> QED
      BY <1>2, <1>9, <1>16, <2>1, <2>2 DEF Coming
  <1>18. StripsSuffice'
    <2>1. ASSUME NEW x \in Tasks, Worked(x)' PROVE Worked(x)
      BY <1>3, <1>4, <1>6, <2>1 DEF Worked
    <2> QED
      BY <1>1, <1>2, <1>9, <1>16, <2>1 DEF StripsSuffice
  <1> QED
    BY <1>10, <1>11, <1>12, <1>13, <1>14, <1>15, <1>17, <1>18 DEF DrawInv

LEMMA WakeupFits ==
  ASSUME Types, Wakeup \/ UNCHANGED <<gui, m_initial_update>>
  PROVE /\ GuiTyped' /\ gui'.pass = gui.pass /\ gui'.request = gui.request /\ m_initial_update' \in BOOLEAN
        /\ (InPaint' <=> InPaint) /\ (Stopping' <=> Stopping) /\ (Halting' <=> Halting)
        /\ (Preparing' <=> Preparing) /\ \A pc \in {"idle", "painting", "prepared"} : gui'.pc = pc <=> gui.pc = pc
        /\ m_initial_update' => m_initial_update
  <1>1. CASE UNCHANGED <<gui, m_initial_update>>
    BY <1>1 DEF Types, GuiTyped, InPaint, Stopping, Halting, Preparing
  <1>2. CASE Wakeup
    <2>1. m_initial_update' = FALSE /\ gui' = [gui EXCEPT !.pc = IF m_initial_update /\ @ = "waiting" THEN "woken" ELSE @]
      BY <1>2 DEF Wakeup
    <2>2. PICK pc \in {"idle", "stopping", "changing", "painting", "prepared", "started", "waiting", "woken"} :
            pc = IF m_initial_update /\ gui.pc = "waiting" THEN "woken" ELSE gui.pc
      BY DEF Types, GuiTyped
    <2>3. gui' = [gui EXCEPT !.pc = pc]
      BY <2>1, <2>2
    <2>4. GuiTyped' /\ gui'.pc = pc /\ gui'.pass = gui.pass /\ gui'.request = gui.request
      BY <2>3 DEF Types, GuiTyped
    <2>5. pc = gui.pc \/ (pc = "woken" /\ gui.pc = "waiting")
      BY <2>2
    <2> QED
      BY <2>1, <2>4, <2>5 DEF InPaint, Stopping, Halting, Preparing
  <1> QED
    BY <1>1, <1>2

LEMMA WakeupPostsFit ==
  ASSUME Types, NEW p, p = WakeupPosts \/ p = posted
  PROVE /\ p \in Seq(Method) /\ IsInjective(p) /\ gui.pass <= Len(p)
        /\ \A k : Contains(posted, k) => Contains(p, k)
        /\ Contains(p, "redraw") <=> Contains(posted, "redraw")
        /\ Contains(p, "end_of_drawing") <=> Contains(posted, "end_of_drawing")
        /\ p = WakeupPosts /\ ~m_initial_update => Contains(p, "update_image")
  <1>1. /\ posted \in Seq(Method) /\ IsInjective(posted) /\ gui.pass <= Len(posted) /\ gui.pass \in Nat
        /\ "update_image" \in Method
    BY PostedType DEF Method
  <1> DEFINE q == Posted(posted, "update_image")
  <1>2. /\ q \in Seq(Method) /\ IsInjective(q) /\ Len(posted) <= Len(q)
        /\ \A k : Contains(q, k) <=> Contains(posted, k) \/ k = "update_image"
    BY <1>1, HoldsPosted
  <1> HIDE DEF q
  <1>3. gui.pass <= Len(q)
    BY <1>1, <1>2
  <1>4. p = posted \/ (p = q /\ ~m_initial_update)
    BY DEF WakeupPosts, q
  <1>5. p = posted /\ p = WakeupPosts /\ ~m_initial_update => Contains(p, "update_image")
    <2>1. p = posted /\ p = WakeupPosts /\ ~m_initial_update => p = q
      BY DEF WakeupPosts, q
    <2> QED
      BY <1>2, <2>1
  <1> QED
    BY <1>1, <1>2, <1>3, <1>4, <1>5

LEMMA TransferFits ==
  ASSUME Types, NEW t \in Tasks, NEW how \in Plane, Transfer(t, how)
  PROVE /\ plane' \in [Tasks -> Plane] /\ plane'[t] = how /\ \A x \in Tasks : x # t => plane'[x] = plane[x]
        /\ screen' \in [due : BOOLEAN, update : BOOLEAN, shown : BOOLEAN]
        /\ screen'.due = screen.due /\ screen'.update = screen.update
  <1>1. plane' = [plane EXCEPT ![t] = how] /\ screen' = [screen EXCEPT !.shown = FALSE]
    BY DEF Transfer
  <1>2. PICK no \in BOOLEAN : screen' = [screen EXCEPT !.shown = no]
    BY <1>1
  <1> QED
    BY <1>1, <1>2 DEF Types, PlaneTyped, CanvasTyped

LEMMA SnapshotKeeps ==
  ASSUME DrawInv, NEW w \in Workers, Snapshot(w)
  PROVE DrawInv'
  <1>1. Types /\ Shared /\ OnScreen /\ DirtyNotShown /\ Images /\ HierComing /\ StaleComing /\ StripsSuffice
    BY DEF DrawInv
  <1>2. /\ worker[w].reads # "no" /\ Transfer(worker[w].task, PartDrawn(w))
        /\ (Wakeup /\ posted' = WakeupPosts) \/ UNCHANGED <<gui, m_initial_update, posted>>
        /\ UNCHANGED <<layout, job, worker, thread, canvas, cache>>
    BY DEF Snapshot
  <1>3. PICK t \in Tasks : t = worker[w].task /\ t \in thread.enabled /\ Worked(t) /\ job.running
    BY <1>1, <1>2 DEF Types, JobTyped, Shared, Worked
  <1>4. PICK how \in Plane :
          /\ Transfer(t, how) /\ (how \in Shows => plane[t] \in Shows)
          /\ thread.strips /\ how = "stale" => plane[t] = "stale"
    <2>1. plane[t] \in Plane
      BY <1>1, <1>3 DEF Types, PlaneTyped
    <2>2. PICK how : how = PartDrawn(w)
      OBVIOUS
    <2>3. /\ how \in Plane /\ (how \in Shows => plane[t] \in Shows)
          /\ thread.strips /\ how = "stale" => plane[t] = "stale"
      BY <1>3, <2>1, <2>2 DEF PartDrawn, Plane, Shows
    <2>4. Transfer(t, how)
      BY <1>2, <1>3, <2>2 DEF Transfer
    <2> QED
      BY <2>3, <2>4
  <1>5. /\ plane' \in [Tasks -> Plane] /\ plane'[t] = how /\ \A x \in Tasks : x # t => plane'[x] = plane[x]
        /\ screen' \in [due : BOOLEAN, update : BOOLEAN, shown : BOOLEAN]
        /\ screen'.due = screen.due /\ screen'.update = screen.update
    BY <1>1, <1>2, <1>3, <1>4, TransferFits
  <1>6. /\ GuiTyped' /\ gui'.pass = gui.pass /\ gui'.request = gui.request /\ m_initial_update' \in BOOLEAN
        /\ (InPaint' <=> InPaint) /\ (Stopping' <=> Stopping) /\ (Halting' <=> Halting)
        /\ (Preparing' <=> Preparing) /\ \A pc \in {"idle", "painting", "prepared"} : gui'.pc = pc <=> gui.pc = pc
        /\ m_initial_update' => m_initial_update
    BY <1>1, <1>2, WakeupFits
  <1>7. /\ posted' \in Seq(Method) /\ IsInjective(posted') /\ gui.pass <= Len(posted')
        /\ \A k : Contains(posted, k) => Contains(posted', k)
        /\ Contains(posted', "redraw") <=> Contains(posted, "redraw")
        /\ Contains(posted', "end_of_drawing") <=> Contains(posted, "end_of_drawing")
    BY <1>1, <1>2, WakeupPostsFit
  <1>8. NextPaint' <=> NextPaint
    BY <1>2, <1>6 DEF NextPaint
  <1>9. Types'
    BY <1>1, <1>2, <1>5, <1>6, <1>7 DEF Types, PostedTyped, JobTyped, LayoutTyped, CanvasTyped, PlaneTyped
  <1>10. Shared'
    BY <1>1, <1>2, <1>6, <1>8 DEF Shared, Visible
  <1>11. OnScreen'
    BY <1>1, <1>2, <1>3, <1>5, <1>6, <1>8 DEF OnScreen
  <1>12. DirtyNotShown'
    <2>1. NotShown(plane', layout.dirty)
      <3>1. \A x \in layout.dirty : Affected(x) \subseteq Tasks
        BY <1>1 DEF Types, LayoutTyped, Affected
      <3> QED
        BY <1>1, <1>5, <1>4, <3>1 DEF DirtyNotShown, NotShown
    <2> QED
      BY <1>1, <1>2, <2>1 DEF DirtyNotShown
  <1>13. Images'
    BY <1>1, <1>2, <1>6, <1>7, <1>8 DEF Images, OpenImage, FinishedImage, Posts
  <1>14. HierComing'
    BY <1>1, <1>6, <1>7 DEF HierComing, Posts
  <1>15. AllComing => AllComing'
    BY <1>2, <1>6, <1>7, <1>8 DEF AllComing, Posts
  <1>16. StaleComing'
    <2> SUFFICES ASSUME NEW x \in Tasks, plane'[x] \in Lacks PROVE Coming(x)'
      BY DEF StaleComing
    <2>1. Coming(x)
      BY <1>1, <1>3, <1>5 DEF StaleComing, Coming
    <2>2. Visible' = Visible /\ (Worked(x)' <=> Worked(x))
      BY <1>2 DEF Visible, Worked
    <2> QED
      BY <1>2, <1>6, <1>8, <1>15, <2>1, <2>2 DEF Coming
  <1>17. StripsSuffice'
    <2> SUFFICES ASSUME thread.strips, NEW x \in Tasks, Worked(x)', plane'[x] = "stale" PROVE AllComing' \/ Halting'
      BY <1>2 DEF StripsSuffice
    <2>1. Worked(x)
      BY <1>2 DEF Worked
    <2>2. plane[x] = "stale"
      BY <1>5, <1>4
    <2> QED
      BY <1>1, <1>6, <1>15, <2>1, <2>2 DEF StripsSuffice
  <1> QED
    BY <1>9, <1>10, <1>11, <1>12, <1>13, <1>14, <1>16, <1>17 DEF DrawInv

LEMMA RestFits ==
  ASSUME Types, Shared, NEW w \in Workers, Rest(w)
  PROVE /\ worker' \in [Workers -> [task : Tasks \cup {"none"}, reads : {"no", "yes", "torn"}]]
        /\ worker'[w].task = "none" /\ worker'[w].reads = "no"
        /\ \A u \in Workers : u # w => worker'[u] = worker[u]
  <1>1. worker' = [worker EXCEPT ![w] = [task |-> "none", reads |-> "no"]]
    BY DEF Rest
  <1> QED
    BY <1>1 DEF Types, JobTyped

LEMMA FinishKeeps ==
  ASSUME DrawInv, NEW w \in Workers, FinishTask(w)
  PROVE DrawInv'
  <1>1. Types /\ Shared /\ OnScreen /\ DirtyNotShown /\ Images /\ HierComing /\ StaleComing /\ StripsSuffice
    BY DEF DrawInv
  <1>2. /\ ~Idle(w) /\ Transfer(worker[w].task, Drawn(w)) /\ Rest(w)
        /\ thread' = [thread EXCEPT !.enabled = thread.enabled \ {worker[w].task}]
        /\ UNCHANGED <<gui, layout, job, m_initial_update, canvas, cache, posted>>
    BY DEF FinishTask
  <1>3. PICK t \in Tasks : /\ t = worker[w].task /\ t # "none" /\ t \notin job.queue /\ job.running /\ Worked(t)
                           /\ \A u \in Workers : u # w => worker[u].task # t
    <2>1. worker[w].task # "none"
      BY <1>1, <1>2, IdleWorkers
    <2> QED
      BY <1>1, <2>1 DEF Types, JobTyped, Shared, Worked
  <1>4. PICK how \in Plane : /\ Transfer(t, how) /\ (how \in Shows => layout.dirty = {})
                             /\ how \in Lacks => AllComing \/ Halting
    <2>1. plane[t] \in Plane
      BY <1>1, <1>3 DEF Types, PlaneTyped
    <2>2. PICK how : how = Drawn(w)
      OBVIOUS
    <2>3. how \in Plane /\ (how \in Shows => worker[w].reads = "yes")
      BY <2>1, <2>2 DEF Drawn, Plane, Shows
    <2>4. how \in Lacks => thread.strips /\ plane[t] = "stale"
      BY <1>3, <2>1, <2>2 DEF Drawn, Plane, Lacks
    <2>5. how \in Shows => layout.dirty = {}
      BY <1>1, <2>3 DEF DirtyNotShown
    <2>6. how \in Lacks => AllComing \/ Halting
      BY <1>1, <1>3, <2>4 DEF StripsSuffice
    <2>7. Transfer(t, how)
      BY <1>2, <1>3, <2>2 DEF Transfer
    <2> QED
      BY <2>3, <2>5, <2>6, <2>7
  <1>5. /\ plane' \in [Tasks -> Plane] /\ plane'[t] = how /\ \A x \in Tasks : x # t => plane'[x] = plane[x]
        /\ screen' \in [due : BOOLEAN, update : BOOLEAN, shown : BOOLEAN]
        /\ screen'.due = screen.due /\ screen'.update = screen.update
    BY <1>1, <1>2, <1>3, <1>4, TransferFits
  <1>6. /\ worker' \in [Workers -> [task : Tasks \cup {"none"}, reads : {"no", "yes", "torn"}]]
        /\ worker'[w].task = "none" /\ worker'[w].reads = "no"
        /\ \A u \in Workers : u # w => worker'[u] = worker[u]
    BY <1>1, <1>2, RestFits
  <1>7. /\ thread' \in ThreadType
        /\ thread'.enabled = thread.enabled \ {t} /\ thread'.drawn = thread.drawn
        /\ thread'.strips = thread.strips
    BY <1>1, <1>2, <1>3 DEF Types, JobTyped, ThreadType
  <1>8. (InPaint' <=> InPaint) /\ (NextPaint' <=> NextPaint) /\ (Stopping' <=> Stopping) /\ (Halting' <=> Halting)
        /\ (Preparing' <=> Preparing) /\ Visible' = Visible
    BY <1>2 DEF InPaint, NextPaint, Stopping, Halting, Preparing, Visible
  <1>9. Types'
    BY <1>1, <1>2, <1>5, <1>6, <1>7 DEF Types, GuiTyped, PostedTyped, JobTyped, LayoutTyped, CanvasTyped, PlaneTyped
  <1>10. Shared'
    <2>1. \A u \in Workers : worker'[u].task # "none" => u # w /\ worker'[u].task = worker[u].task
      BY <1>6
    <2>2. \A u \in Workers : worker'[u].task = "none" => worker'[u].reads = "no"
      BY <1>1, <1>6 DEF Shared
    <2> QED
      BY <1>1, <1>2, <1>3, <1>7, <1>8, <2>1, <2>2 DEF Shared
  <1>11. OnScreen'
    BY <1>1, <1>2, <1>3, <1>5, <1>7, <1>8 DEF OnScreen
  <1>12. DirtyNotShown'
    <2>1. NotShown(plane', layout.dirty)
      <3>1. \A x \in layout.dirty : Affected(x) \subseteq Tasks
        BY <1>1 DEF Types, LayoutTyped, Affected
      <3> QED
        BY <1>1, <1>4, <1>5, <3>1 DEF DirtyNotShown, NotShown
    <2>2. \A u \in Workers : worker'[u].reads = "yes" => layout.dirty = {}
      BY <1>1, <1>6 DEF DirtyNotShown
    <2> QED
      BY <1>1, <1>2, <2>1, <2>2 DEF DirtyNotShown
  <1>13. Images'
    BY <1>1, <1>2, <1>8 DEF Images, OpenImage, FinishedImage, Posts
  <1>14. HierComing'
    BY <1>1, <1>2, <1>8 DEF HierComing, Posts
  <1>15. AllComing => AllComing'
    BY <1>2, <1>8 DEF AllComing, Posts
  <1>16. \A x \in Tasks : Worked(x)' <=> Worked(x) /\ x # t
    BY <1>2, <1>3, <1>6, RedrawAssumption DEF Worked, Tasks
  <1>17. StaleComing'
    <2> SUFFICES ASSUME NEW x \in Tasks, plane'[x] \in Lacks PROVE Coming(x)'
      BY DEF StaleComing
    <2>1. CASE x = t
      BY <1>4, <1>5, <1>8, <1>15, <2>1 DEF Coming
    <2>2. CASE x # t
      <3>1. Coming(x)
        BY <1>1, <1>5, <2>2 DEF StaleComing
      <3> QED
        BY <1>2, <1>7, <1>8, <1>15, <1>16, <2>2, <3>1 DEF Coming
    <2> QED
      BY <2>1, <2>2
  <1>18. StripsSuffice'
    BY <1>1, <1>5, <1>7, <1>8, <1>15, <1>16 DEF StripsSuffice
  <1> QED
    BY <1>9, <1>10, <1>11, <1>12, <1>13, <1>14, <1>17, <1>18 DEF DrawInv

LEMMA AbortKeeps ==
  ASSUME DrawInv, NEW w \in Workers, AbortTask(w)
  PROVE DrawInv'
  <1>1. Types /\ Shared /\ OnScreen /\ DirtyNotShown /\ Images /\ HierComing /\ StaleComing /\ StripsSuffice
    BY DEF DrawInv
  <1>2. /\ Stopping /\ Rest(w)
        /\ UNCHANGED <<gui, layout, job, m_initial_update, thread, canvas, screen, plane, cache, posted>>
    BY DEF AbortTask
  <1>3. /\ worker' \in [Workers -> [task : Tasks \cup {"none"}, reads : {"no", "yes", "torn"}]]
        /\ worker'[w].task = "none" /\ worker'[w].reads = "no"
        /\ \A u \in Workers : u # w => worker'[u] = worker[u]
    BY <1>1, <1>2, RestFits
  <1>4. (InPaint' <=> InPaint) /\ (NextPaint' <=> NextPaint) /\ Stopping' /\ (Halting' <=> Halting)
        /\ (Preparing' <=> Preparing) /\ Visible' = Visible
    BY <1>2 DEF InPaint, NextPaint, Stopping, Halting, Preparing, Visible
  <1>5. Types'
    BY <1>1, <1>2, <1>3 DEF Types, GuiTyped, PostedTyped, JobTyped, LayoutTyped, CanvasTyped, PlaneTyped
  <1>6. Shared'
    <2>1. \A u \in Workers : worker'[u].task # "none" => u # w /\ worker'[u].task = worker[u].task
      BY <1>3
    <2>2. \A u \in Workers : worker'[u].task = "none" => worker'[u].reads = "no"
      BY <1>1, <1>3 DEF Shared
    <2> QED
      BY <1>1, <1>2, <1>3, <1>4, <2>1, <2>2 DEF Shared
  <1>7. OnScreen'
    BY <1>1, <1>2, <1>4 DEF OnScreen, Posts
  <1>8. DirtyNotShown'
    <2>1. \A u \in Workers : worker'[u].reads = "yes" => layout.dirty = {}
      BY <1>1, <1>3 DEF DirtyNotShown
    <2> QED
      BY <1>1, <1>2, <2>1 DEF DirtyNotShown, NotShown
  <1>9. Images'
    BY <1>1, <1>2, <1>4 DEF Images, OpenImage, FinishedImage, Posts
  <1>10. HierComing'
    BY <1>1, <1>2 DEF HierComing, Posts
  <1>11. AllComing => AllComing'
    BY <1>2, <1>4 DEF AllComing, Posts
  <1>12. StaleComing'
    <2> SUFFICES ASSUME NEW x \in Tasks, plane[x] \in Lacks PROVE Coming(x)'
      BY <1>2 DEF StaleComing
    <2>1. Coming(x)
      BY <1>1 DEF StaleComing
    <2> QED
      BY <1>2, <1>4, <1>11, <2>1 DEF Coming
  <1>13. StripsSuffice'
    <2>1. ASSUME NEW x \in Tasks, Worked(x)' PROVE Worked(x)
      BY <1>2, <1>3, <2>1, RedrawAssumption DEF Worked, Tasks
    <2> QED
      BY <1>1, <1>2, <1>4, <1>11, <2>1 DEF StripsSuffice
  <1> QED
    BY <1>5, <1>6, <1>7, <1>8, <1>9, <1>10, <1>12, <1>13 DEF DrawInv

(* finished() wakes up the GUI thread and announces the end of the drawing.*)
LEMMA DoneFits ==
  ASSUME Types, Done, ValidWhole
  PROVE /\ GuiTyped' /\ PostedTyped' /\ gui'.pass = gui.pass /\ gui'.request = gui.request /\ m_initial_update' \in BOOLEAN
        /\ (InPaint' <=> InPaint) /\ (Stopping' <=> Stopping) /\ (Halting' <=> Halting)
        /\ (Preparing' <=> Preparing) /\ \A pc \in {"idle", "painting", "prepared"} : gui'.pc = pc <=> gui.pc = pc
        /\ m_initial_update' => m_initial_update
        /\ \A k : Contains(posted, k) => Contains(posted', k)
        /\ Contains(posted', "redraw") <=> Contains(posted, "redraw")
        /\ Contains(posted', "end_of_drawing")
        /\ ~m_initial_update => Contains(posted', "update_image")
        /\ thread' \in ThreadType /\ thread'.enabled = thread.enabled /\ thread'.drawn = thread.drawn
        /\ thread'.strips = thread.strips
  <1>1. Wakeup /\ posted' = Posted(WakeupPosts, "end_of_drawing")
    BY DEF Done
  <1>2. /\ GuiTyped' /\ gui'.pass = gui.pass /\ gui'.request = gui.request /\ m_initial_update' \in BOOLEAN
        /\ (InPaint' <=> InPaint) /\ (Stopping' <=> Stopping) /\ (Halting' <=> Halting)
        /\ (Preparing' <=> Preparing) /\ \A pc \in {"idle", "painting", "prepared"} : gui'.pc = pc <=> gui.pc = pc
        /\ m_initial_update' => m_initial_update
    BY <1>1, WakeupFits
  <1> DEFINE p == WakeupPosts
  <1>3. /\ p \in Seq(Method) /\ IsInjective(p) /\ gui.pass <= Len(p)
        /\ \A k : Contains(posted, k) => Contains(p, k)
        /\ Contains(p, "redraw") <=> Contains(posted, "redraw")
        /\ ~m_initial_update => Contains(p, "update_image")
    BY WakeupPostsFit
  <1> HIDE DEF p
  <1>4. /\ posted' \in Seq(Method) /\ IsInjective(posted') /\ gui.pass <= Len(posted')
        /\ \A k : Contains(posted', k) <=> Contains(p, k) \/ k = "end_of_drawing"
    <2>1. "end_of_drawing" \in Method /\ posted' = Posted(p, "end_of_drawing")
      BY <1>1 DEF Method, p
    <2>2. /\ posted' \in Seq(Method) /\ IsInjective(posted') /\ Len(p) <= Len(posted')
          /\ \A k : Contains(posted', k) <=> Contains(p, k) \/ k = "end_of_drawing"
      BY <1>3, <2>1, HoldsPosted
    <2>3. gui.pass \in Nat
      BY PostedType
    <2> QED
      BY <1>3, <2>2, <2>3
  <1>5. PostedTyped'
    BY <1>2, <1>4 DEF PostedTyped
  <1>6. /\ thread' \in ThreadType /\ thread'.enabled = thread.enabled /\ thread'.drawn = thread.drawn
        /\ thread'.strips = thread.strips
    BY DEF ValidWhole, Types, JobTyped, ThreadType
  <1> QED
    BY <1>2, <1>3, <1>4, <1>5, <1>6

(* Nothing is left to be drawn when a job ends, or ends once more.         *)
LEMMA EndKeeps ==
  ASSUME DrawInv, Done, ValidWhole, UNCHANGED <<layout, worker, canvas, screen, plane, cache>>,
         job' \in JobType, job'.queue = job.queue, job'.running = FALSE,
         \/ job.running /\ job.queue = {} /\ job'.stray = job.stray
         \/ ~job.running /\ job'.stray = (job.stray \/ Preparing),
         \A w \in Workers : worker[w].task = "none"
  PROVE DrawInv'
  <1>1. Types /\ Shared /\ OnScreen /\ DirtyNotShown /\ Images /\ HierComing /\ StaleComing /\ StripsSuffice
    BY DEF DrawInv
  <1>2. /\ GuiTyped' /\ PostedTyped' /\ gui'.pass = gui.pass /\ gui'.request = gui.request /\ m_initial_update' \in BOOLEAN
        /\ (InPaint' <=> InPaint) /\ (Stopping' <=> Stopping) /\ (Halting' <=> Halting)
        /\ (Preparing' <=> Preparing) /\ \A pc \in {"idle", "painting", "prepared"} : gui'.pc = pc <=> gui.pc = pc
        /\ m_initial_update' => m_initial_update
        /\ \A k : Contains(posted, k) => Contains(posted', k)
        /\ Contains(posted', "redraw") <=> Contains(posted, "redraw")
        /\ Contains(posted', "end_of_drawing")
        /\ ~m_initial_update => Contains(posted', "update_image")
        /\ thread' \in ThreadType /\ thread'.enabled = thread.enabled /\ thread'.drawn = thread.drawn
        /\ thread'.strips = thread.strips
    BY <1>1, DoneFits
  <1>3. (NextPaint' <=> NextPaint) /\ Visible' = Visible
    BY <1>2 DEF NextPaint, Visible
  <1>4. \A t \in Tasks : Worked(t)' <=> Worked(t)
    BY DEF Worked
  <1>5. Types'
    BY <1>1, <1>2 DEF Types, JobTyped, LayoutTyped, CanvasTyped, PlaneTyped
  <1>6. Shared'
    BY <1>1, <1>2, <1>3 DEF Shared
  <1>7. OnScreen'
    BY <1>1, <1>2, <1>3 DEF OnScreen, Posts
  <1>8. DirtyNotShown'
    BY <1>1 DEF DirtyNotShown, NotShown
  <1>9. Images'
    <2> SUFFICES ASSUME NEW i \in DOMAIN cache'
                 PROVE (cache'[i].open => OpenImage(i)') /\ (~cache'[i].open => FinishedImage(i)')
      BY DEF Images
    <2>1. (cache[i].open => OpenImage(i)) /\ (~cache[i].open => FinishedImage(i))
      BY <1>1 DEF Images
    <2>2. ASSUME cache[i].open PROVE OpenImage(i)'
      <3>1. (job.running => ~Preparing) /\ OpenImage(i)
        BY <1>1, <2>1, <2>2 DEF Shared
      <3> QED
        BY <1>2, <1>3, <3>1 DEF OpenImage, Posts
    <2>3. ASSUME ~cache[i].open PROVE FinishedImage(i)'
      BY <1>2, <2>1, <2>3 DEF FinishedImage, Posts
    <2> QED
      BY <2>2, <2>3
  <1>10. HierComing'
    BY <1>1, <1>2 DEF HierComing, Posts
  <1>11. AllComing => AllComing'
    BY <1>2, <1>3 DEF AllComing, Posts
  <1>12. StaleComing'
    BY <1>1, <1>2, <1>3, <1>4, <1>11 DEF StaleComing, Coming
  <1>13. StripsSuffice'
    BY <1>1, <1>2, <1>4, <1>11 DEF StripsSuffice
  <1> QED
    BY <1>5, <1>6, <1>7, <1>8, <1>9, <1>10, <1>12, <1>13 DEF DrawInv

LEMMA FinishedKeeps ==
  ASSUME DrawInv, JobFinished
  PROVE DrawInv'
  <1>1. PICK late \in SUBSET Workers : job' = [job EXCEPT !.running = FALSE, !.late = late]
    BY DEF JobFinished, JobEnds
  <1>2. job.running /\ job.queue = {} /\ \A w \in Workers : worker[w].task = "none"
    BY DEF JobFinished, AllIdle, Idle
  <1>3. job' \in JobType /\ job'.running = FALSE /\ job'.queue = job.queue /\ job'.stray = job.stray
    BY <1>1 DEF DrawInv, Types, JobTyped, JobType
  <1>4. Done /\ ValidWhole /\ UNCHANGED <<layout, worker, canvas, screen, plane, cache>>
    BY DEF JobFinished
  <1> QED
    BY <1>2, <1>3, <1>4, EndKeeps

LEMMA FinishAgainKeeps ==
  ASSUME DrawInv, NEW w \in Workers, FinishAgain(w)
  PROVE DrawInv'
  <1>1. /\ w \in job.late /\ job' = [job EXCEPT !.late = @ \ {w}, !.stray = @ \/ Preparing]
        /\ Done /\ ValidWhole /\ UNCHANGED <<layout, worker, canvas, screen, plane, cache>>
    BY DEF FinishAgain
  <1>2. ~job.running /\ \A u \in Workers : worker[u].task = "none"
    BY <1>1 DEF DrawInv, Shared
  <1>3. /\ job' \in JobType /\ job'.running = FALSE /\ job'.queue = job.queue
        /\ job'.stray = (job.stray \/ Preparing)
    <2>1. PICK late \in SUBSET Workers, stray \in BOOLEAN : late = job.late \ {w} /\ stray = (job.stray \/ Preparing)
      BY DEF DrawInv, Types, JobTyped, JobType, Preparing
    <2>2. job' = [job EXCEPT !.late = late, !.stray = stray]
      BY <1>1, <2>1
    <2> QED
      BY <1>2, <2>1, <2>2 DEF DrawInv, Types, JobTyped, JobType
  <1> QED
    BY <1>1, <1>2, <1>3, EndKeeps

LEMMA TakeEarlyKeeps ==
  ASSUME DrawInv, NEW w \in Workers, TakeEarly(w)
  PROVE DrawInv'
  <1>1. Types /\ Shared /\ OnScreen /\ DirtyNotShown /\ Images /\ HierComing /\ StaleComing /\ StripsSuffice
    BY DEF DrawInv
  <1>2. PICK t \in job.queue : job' = [job EXCEPT !.queue = job.queue \ {t}] /\ plane' = [plane EXCEPT ![t] = "lost"]
    BY DEF TakeEarly
  <1>3. UNCHANGED <<gui, layout, worker, m_initial_update, thread, canvas, screen, cache, posted>>
    BY DEF TakeEarly
  <1>4. /\ job' \in JobType /\ job'.queue = job.queue \ {t} /\ t \in Tasks
        /\ job'.running = job.running /\ job'.late = job.late /\ job'.stray = job.stray
    BY <1>1, <1>2 DEF Types, JobTyped, JobType
  <1>5. /\ plane' \in [Tasks -> Plane] /\ plane'[t] \notin Shows \cup Lacks
        /\ \A x \in Tasks : x # t => plane'[x] = plane[x]
    BY <1>1, <1>2, <1>4 DEF Types, PlaneTyped, Plane, Shows, Lacks
  <1>6. /\ (InPaint' <=> InPaint) /\ (NextPaint' <=> NextPaint) /\ (Stopping' <=> Stopping) /\ (Halting' <=> Halting)
        /\ (Preparing' <=> Preparing) /\ Visible' = Visible
    BY <1>3 DEF InPaint, NextPaint, Stopping, Halting, Preparing, Visible
  <1>7. Types'
    BY <1>1, <1>3, <1>4, <1>5 DEF Types, GuiTyped, PostedTyped, JobTyped, LayoutTyped, CanvasTyped, PlaneTyped
  <1>8. Shared'
    BY <1>1, <1>3, <1>4, <1>6 DEF Shared
  <1>9. OnScreen'
    BY <1>1, <1>3, <1>4, <1>6 DEF OnScreen, Posts
  <1>10. DirtyNotShown'
    <2>1. \A x \in layout.dirty : Affected(x) \subseteq Tasks
      BY <1>1 DEF Types, LayoutTyped, Affected
    <2> QED
      BY <1>1, <1>3, <1>5, <2>1 DEF DirtyNotShown, NotShown
  <1>11. Images'
    BY <1>1, <1>3, <1>4, <1>6 DEF Images, OpenImage, FinishedImage, Posts
  <1>12. HierComing'
    BY <1>1, <1>3, <1>6 DEF HierComing, Posts
  <1>13. AllComing => AllComing'
    BY <1>3, <1>6 DEF AllComing, Posts
  <1>14. \A x \in Tasks : (Worked(x)' => Worked(x)) /\ (x # t /\ Worked(x) => Worked(x)')
    BY <1>3, <1>4 DEF Worked
  <1>15. StaleComing'
    <2> SUFFICES ASSUME NEW x \in Tasks, plane'[x] \in Lacks PROVE Coming(x)'
      BY DEF StaleComing
    <2>1. x # t /\ Coming(x)
      BY <1>1, <1>5 DEF StaleComing
    <2> QED
      BY <1>3, <1>6, <1>13, <1>14, <2>1 DEF Coming
  <1>16. StripsSuffice'
    <2> SUFFICES ASSUME thread.strips, NEW x \in Tasks, Worked(x)', plane'[x] = "stale" PROVE AllComing' \/ Halting'
      BY <1>3 DEF StripsSuffice
    <2>1. x # t /\ plane[x] = "stale" /\ Worked(x)
      BY <1>5, <1>14 DEF Lacks
    <2> QED
      BY <1>1, <1>6, <1>13, <2>1 DEF StripsSuffice
  <1> QED
    BY <1>7, <1>8, <1>9, <1>10, <1>11, <1>12, <1>15, <1>16 DEF DrawInv

LEMMA DrawInit ==
  ASSUME Init
  PROVE DrawInv
  <1>1. /\ gui = [pc |-> "idle", request |-> NoRequest, pass |-> 0]
        /\ layout = [dirty |-> Tasks, building |-> "no", attached |-> FALSE]
        /\ job = [running |-> FALSE, queue |-> {}, late |-> {}, stray |-> FALSE]
        /\ worker = [w \in Workers |-> [task |-> "none", reads |-> "no"]]
        /\ m_initial_update = FALSE
        /\ screen = [due |-> TRUE, update |-> TRUE, shown |-> FALSE]
        /\ plane = Blank /\ cache = <<>> /\ posted = <<"redraw">>
    BY DEF Init
  <1>2. PICK v \in Viewports :
          /\ thread = [enabled |-> {}, drawn |-> v, valid |-> "none", strips |-> FALSE]
          /\ canvas = [vp |-> v, visible |-> Layers, need |-> FALSE, clearing |-> FALSE, restart |-> {}, force |-> TRUE]
    BY DEF Init
  <1>3. posted \in Seq(Method) /\ IsInjective(posted) /\ Len(posted) = 1 /\ Posts("redraw")
    BY <1>1 DEF Method, IsInjective, Posts, Contains
  <1>4. NoRequest \in Request
    BY RequestsFit
  <1>5. Types
    <2>1. GuiTyped /\ PostedTyped /\ LayoutTyped
      BY <1>1, <1>3, <1>4 DEF GuiTyped, PostedTyped, LayoutTyped
    <2>2. JobTyped /\ CanvasTyped
      BY <1>1, <1>2 DEF JobTyped, JobType, ThreadType, CanvasTyped, CanvasType
    <2>3. PlaneTyped
      BY <1>1 DEF PlaneTyped, Blank, Plane
    <2> QED
      BY <1>1, <2>1, <2>2, <2>3 DEF Types
  <1>6. ~InPaint /\ ~Preparing /\ ~Stopping /\ ~NextPaint
    BY <1>1, <1>2 DEF InPaint, Preparing, Stopping, NextPaint
  <1>7. Shared
    BY <1>1, <1>2, <1>6 DEF Shared
  <1>8. OnScreen
    BY <1>1, <1>2, <1>6 DEF OnScreen
  <1>9. DirtyNotShown
    <2>1. \A x \in layout.dirty : Affected(x) \subseteq Tasks
      BY <1>1 DEF Affected
    <2> QED
      BY <1>1, <2>1 DEF DirtyNotShown, NotShown, Blank, Shows
  <1>10. Images /\ HierComing /\ StaleComing /\ StripsSuffice
    BY <1>1, <1>2, <1>3, <1>6 DEF Images, HierComing, StaleComing, StripsSuffice, Coming, AllComing
  <1> QED
    BY <1>5, <1>7, <1>8, <1>9, <1>10 DEF DrawInv

LEMMA DrawStutters ==
  ASSUME DrawInv, UNCHANGED vars
  PROVE DrawInv'
  <1>1. UNCHANGED <<gui, layout, job, worker, m_initial_update, thread, canvas, screen, plane, cache, posted>>
    BY DEF vars
  <1>2. Types'
    BY <1>1 DEF DrawInv, Types, GuiTyped, PostedTyped, JobTyped, LayoutTyped, CanvasTyped, PlaneTyped
  <1>3. Shared' /\ OnScreen' /\ HierComing'
    BY <1>1 DEF DrawInv, Shared, OnScreen, HierComing, Visible, InPaint, Preparing, Stopping, NextPaint, Posts
  <1>4. DirtyNotShown'
    BY <1>1 DEF DrawInv, DirtyNotShown, NotShown
  <1>5. Images'
    BY <1>1 DEF DrawInv, Images, OpenImage, FinishedImage, NextPaint, InPaint, Preparing, Stopping, Halting, Posts
  <1>6. StaleComing'
    BY <1>1 DEF DrawInv, StaleComing, Coming, AllComing, Worked, Visible, NextPaint, InPaint, Stopping, Halting, Posts
  <1>7. StripsSuffice'
    BY <1>1 DEF DrawInv, StripsSuffice, AllComing, Worked, NextPaint, InPaint, Stopping, Halting, Posts
  <1> QED
    BY <1>2, <1>3, <1>4, <1>5, <1>6, <1>7 DEF DrawInv

LEMMA DrawStep ==
  ASSUME DrawInv, [Next]_vars
  PROVE DrawInv'
  <1>1. CASE Requests
    <2>1. CASE \/ \E v \in Viewports : RequestViewport(v)
               \/ \E l \in Layers : RequestVisibility(l)
               \/ RequestHalt
               \/ \E x \in Tasks : RequestChange(x)
      BY <2>1, RequestsStop
    <2>2. CASE \E x \in Tasks : ChangeUnstopped(x)
      BY <2>2, UnstoppedKeeps
    <2>3. CASE ChangeDone
      BY <2>3, QuietStepsKeep
    <2>4. CASE ViewportSet
      <3>1. /\ Stopped("viewport") /\ ToLoop /\ PaintDue /\ RedrawAll(gui.request.on, FALSE)
            /\ UNCHANGED <<layout, plane, cache>>
        BY <2>4 DEF ViewportSet
      <3>2. gui.request.on \in Viewports
        BY <3>1, StoppedFits, RequestFits
      <3>3. "viewport" \in {"viewport", "new"} /\ "viewport" # "new" /\ FALSE \in BOOLEAN
        OBVIOUS
      <3> QED
        BY <3>1, <3>2, <3>3, RedrawAllKeeps
    <2>5. CASE NewLayers
      <3>1. /\ Stopped("new") /\ ToLoop /\ PaintDue /\ RedrawAll(canvas.vp, TRUE)
            /\ UNCHANGED <<layout, plane, cache>>
        BY <2>5 DEF NewLayers
      <3>2. canvas.vp \in Viewports
        BY DEF DrawInv, Types, CanvasTyped, CanvasType
      <3>3. "new" \in {"viewport", "new"} /\ TRUE \in BOOLEAN
        OBVIOUS
      <3> QED
        BY <3>1, <3>2, <3>3, RedrawAllKeeps
    <2>6. CASE VisibilitySet \/ Halted \/ LayerChanges \/ HierarchyChanges
      BY <2>6, VisibilityKeeps, HaltedKeeps, LayerKeeps, HierarchyKeeps
    <2> QED
      BY <1>1, <2>1, <2>2, <2>3, <2>4, <2>5, <2>6 DEF Requests
  <1>2. CASE Building
    BY <1>2, QuietStepsKeep DEF Building
  <1>3. CASE Deferred
    BY <1>3, QuietStepsKeep, UpdateImageKeeps, EndOfDrawingKeeps, RedrawKeeps DEF Deferred
  <1>4. CASE Painting
    BY <1>4, PaintOnlyKeeps, CachedKeeps, PaintStartKeeps, PrepareKeeps, StartKeeps, PaintKeeps DEF Painting
  <1>5. CASE Working
    BY <1>5, TakeKeeps, SnapshotKeeps, FinishKeeps, AbortKeeps, FinishAgainKeeps, TakeEarlyKeeps, FinishedKeeps DEF Working
  <1>6. CASE UNCHANGED vars
    BY <1>6, DrawStutters
  <1> QED
    BY <1>1, <1>2, <1>3, <1>4, <1>5, <1>6 DEF Next

LEMMA DrawInductive == Spec => []DrawInv
  BY DrawInit, DrawStep, PTL DEF Spec

-----------------------------------------------------------------------------
(* The theorems.                                                           *)

(* Every variable has its type, a deferred method is queued at most once,  *)
(* and the pass that runs does not run past the queue.                     *)
THEOREM TypeCorrect == Spec => []TypeOK
  <1>1. DrawInv => TypeOK
    <2> SUFFICES ASSUME Types PROVE TypeOK
      BY DEF DrawInv
    <2>1. /\ posted \in Seq(Method) /\ IsInjective(posted) /\ gui.pass <= Len(posted) /\ gui.pass \in Nat
          /\ Len(posted) \in Nat
      BY PostedType
    <2>2. gui.pass \in 0..Len(posted)
      BY <2>1
    <2>3. gui \in [pc : {"idle", "stopping", "changing", "painting", "prepared", "started", "waiting", "woken"}, request : Request, pass : 0..Len(posted)]
      BY <2>2 DEF Types, GuiTyped
    <2>4. \A i \in DOMAIN cache : cache[i] \in Entry
      BY DEF Types, PlaneTyped
    <2> QED
      BY <2>1, <2>3, <2>4 DEF Types, JobTyped, JobType, ThreadType, LayoutTyped, CanvasTyped, CanvasType, PlaneTyped, TypeOK
  <1> QED
    BY <1>1, DrawInductive, PTL

(* When the queue is empty, no job runs and no paint event is due, nothing *)
(* stale is coming any more, so nothing stale is left that is visible.     *)
THEOREM DrawnCorrect == Spec => []DrawnComplete
  <1>1. DrawInv => DrawnComplete
    <2> SUFFICES ASSUME DrawInv, Settled PROVE screen.shown /\ thread.drawn = canvas.vp /\ \A t \in Visible : plane[t] \in {"full", "lost"}
      BY DEF DrawnComplete
    <2>1. Types /\ Shared /\ OnScreen /\ StaleComing
      BY DEF DrawInv
    <2>2. /\ gui.pc = "idle" /\ ~job.running /\ ~screen.due /\ ~canvas.need /\ ~canvas.clearing /\ ~NextPaint
          /\ ~Stopping /\ ~Halting /\ \A m : ~Posts(m)
      BY <2>1 DEF Settled, AtLoop, OnScreen, NextPaint, Stopping, Halting, Posts, Contains
    <2>3. screen.shown /\ thread.drawn = canvas.vp
      BY <2>1, <2>2 DEF OnScreen
    <2>4. ASSUME NEW t \in Visible PROVE plane[t] \in {"full", "lost"}
      <3>1. t \in Tasks /\ t # "none"
        BY <2>1, RedrawAssumption DEF Types, CanvasTyped, CanvasType, Visible, Tasks
      <3>2. ~Worked(t)
        BY <2>1, <2>2, <3>1 DEF Shared, Worked
      <3>3. ~Coming(t)
        BY <2>2, <2>4, <3>2 DEF Coming, AllComing
      <3>4. plane[t] \notin Lacks /\ plane[t] \in Plane
        BY <2>1, <3>1, <3>3 DEF StaleComing, Types, PlaneTyped
      <3> QED
        BY <3>4 DEF Lacks, Plane
    <2> QED
      BY <2>3, <2>4
  <1> QED
    BY <1>1, DrawInductive, PTL

(* Then too the images of the cache are finished: the open one would have  *)
(* been closed by the end of its drawing, which is posted when it ends.    *)
THEOREM CacheCorrect == Spec => []CacheSound
  <1>1. DrawInv => CacheSound
    <2> SUFFICES ASSUME DrawInv, Settled, NEW i \in DOMAIN cache
                 PROVE /\ ~cache[i].open /\ cache[i].drawn = cache[i].vp
                       /\ \A t \in cache[i].visible \cup {Boxes} : cache[i].data[t] \in {"full", "lost"}
      BY DEF CacheSound
    <2>1. Images /\ ~job.running /\ ~Preparing /\ ~Halting /\ \A m : ~Posts(m)
      BY DEF DrawInv, Settled, AtLoop, Preparing, Stopping, Halting, Posts, Contains
    <2>2. ~cache[i].open /\ FinishedImage(i)
      BY <2>1 DEF Images, OpenImage
    <2>3. /\ cache[i].data \in [Tasks -> Plane] /\ cache[i].visible \cup {Boxes} \subseteq Tasks
      BY ImageFits DEF DrawInv, Tasks
    <2>4. \A t \in cache[i].visible \cup {Boxes} : cache[i].data[t] \in Plane /\ cache[i].data[t] \notin Lacks
      BY <2>1, <2>2, <2>3 DEF FinishedImage
    <2> QED
      BY <2>2, <2>4 DEF FinishedImage, Lacks, Plane
  <1> QED
    BY <1>1, DrawInductive, PTL
=============================================================================

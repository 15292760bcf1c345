--------------------------- MODULE ThreadedWorkers ---------------------------
(***************************************************************************)
(* tl::JobBase and tl::Worker with at least one worker thread              *)
(* (tl/tl/tlThreadedWorkers.cc).  One controlling thread calls schedule,   *)
(* start, wait, stop, terminate, set_num_workers and the destructor; the   *)
(* workers loop in Worker::run.  A step is what a thread does between      *)
(* taking m_lock and releasing it (or blocking on a condition variable).   *)
(*                                                                         *)
(* The condition variables follow one of the three builds of               *)
(* tl::WaitCondition (tl/tl/tlThreads.{h,cc}).                             *)
(***************************************************************************)
EXTENDS Naturals, FiniteSets, Sequences, Functions

CONSTANTS
  MaxWorkers,      \* largest number of workers set_num_workers is given
  Tasks,           \* the task objects
  NoTask,
  MaxErrors,       \* JobBase's max_errors
  MaxStarts,       \* bound: number of start() calls
  LateScheduling,  \* the controller also schedules while worker threads exist
  Condition        \* the build of tl::WaitCondition

ASSUME WorkersAssumption == MaxWorkers \in Nat \ {0}
ASSUME TasksAssumption == NoTask \notin Tasks
ASSUME ErrorsAssumption == MaxErrors \in Nat /\ MaxStarts \in Nat
ASSUME ConditionAssumption ==
  /\ LateScheduling \in BOOLEAN
  /\ Condition \in {"QWaitCondition", "pthread", "atomic_flag"}

VARIABLES
  m_nworkers, m_task_list,
  mp_per_worker_task_lists,  \* per worker: a sequence of "start" and "exit"
  m_idle_workers, m_stopping, m_running, m_error_messages,
  pc,                \* where a worker is in get_task/run
  current,           \* the task a worker performs
  is_idle,           \* Worker::m_is_idle
  m_stop_requested,  \* Worker::m_stop_requested
  mpc,               \* where the controller is
  call,              \* the call the controller's stop() is part of
  ret,               \* outcome of the controller's last call
  task_flag,         \* the atomic_flag of m_task_available_condition
  queue_flag,        \* the atomic_flag of m_queue_empty_condition
  starts,            \* history: number of start() calls
  callbacks,         \* history: finished() and stopped() since start()
  done, dropped,     \* history: tasks performed, tasks deleted unperformed
  failed,            \* history: tasks that threw since start()
  late               \* history: tasks accepted while no run was on, since start()

jobVars == <<m_nworkers, m_task_list, mp_per_worker_task_lists,
             m_idle_workers, m_stopping, m_running, m_error_messages>>
workerVars == <<pc, current, is_idle, m_stop_requested>>
mainVars == <<mpc, call, ret>>
condVars == <<task_flag, queue_flag>>
historyVars == <<starts, callbacks, done, dropped, failed, late>>
vars == <<jobVars, workerVars, mainVars, condVars, historyVars>>

Workers == 1..MaxWorkers
Live == {w \in Workers : pc[w] # "none"}              \* mp_workers
Idle == {w \in Workers : pc[w] \in {"waiting", "woken"}}
Performing == {w \in Workers : pc[w] = "perform"}
Active == {current[w] : w \in Performing}
Pending == Range(m_task_list) \union Active
Used == Pending \union done \union dropped

-----------------------------------------------------------------------------
(* tl::WaitCondition.  QWaitCondition and pthread move every waiter out of *)
(* the wait; the C++20 build sets one flag all waiters poll, and a thread  *)
(* that begins to wait clears it for everyone.                             *)

WakeAllWorkers(p) ==
  IF Condition = "atomic_flag" THEN p
  ELSE [w \in Workers |-> IF p[w] = "waiting" THEN "woken" ELSE p[w]]

WakeController(m) ==
  IF Condition = "atomic_flag" THEN m
  ELSE CASE m = "waiting" -> "waitwoken"
         [] m = "stopwait" -> "stopwoken"
         [] OTHER -> m

(* Slip: the flag is not set. *)
SetFlagNever(f) == f

SetFlag(f) == IF Condition = "atomic_flag" THEN TRUE ELSE f

(* A poller of the C++20 build leaves the wait when it sees the flag set.  *)
WorkerWakes(w) ==
  /\ pc[w] = "waiting"
  /\ pc' = [pc EXCEPT ![w] = "woken"]
  /\ UNCHANGED <<jobVars, current, is_idle, m_stop_requested, mainVars,
                 condVars, historyVars>>

ControllerWakes ==
  /\ mpc \in {"waiting", "stopwait"}
  /\ mpc' = IF mpc = "waiting" THEN "waitwoken" ELSE "stopwoken"
  /\ UNCHANGED <<jobVars, workerVars, call, ret, condVars, historyVars>>

WorkerSeesFlag(w) == task_flag /\ WorkerWakes(w)
ControllerSeesFlag == queue_flag /\ ControllerWakes

(* pthread_cond_wait may return for no reason.                             *)
SpuriousWakeup ==
  /\ Condition = "pthread"
  /\ ControllerWakes \/ \E w \in Workers : WorkerWakes(w)

-----------------------------------------------------------------------------
(* JobBase::schedule, by the controller or by a task being performed.      *)

MayAccept == ~m_stopping

WakeOnSchedule(p) == IF m_running THEN WakeAllWorkers(p) ELSE p

PutTask(t) ==
  /\ t \in Tasks \ Used
  /\ IF MayAccept
     THEN /\ m_task_list' = Append(m_task_list, t)
          /\ pc' = WakeOnSchedule(pc)
          /\ task_flag' = IF m_running THEN SetFlag(task_flag) ELSE task_flag
          /\ late' = IF m_running THEN late ELSE late \union {t}
          /\ UNCHANGED dropped
     ELSE /\ dropped' = dropped \union {t}
          /\ UNCHANGED <<m_task_list, pc, task_flag, late>>
  /\ UNCHANGED <<m_nworkers, mp_per_worker_task_lists, m_idle_workers,
                 m_stopping, m_running, m_error_messages, current, is_idle,
                 m_stop_requested, mpc, call, queue_flag, starts, callbacks,
                 done, failed>>

Schedule(t) ==
  /\ mpc = "ready"
  /\ LateScheduling \/ Live = {}
  /\ PutTask(t)
  /\ ret' = "none"

TaskSchedules(w, t) == w \in Performing /\ PutTask(t) /\ UNCHANGED ret

-----------------------------------------------------------------------------
(* JobBase::start with worker threads.  tl_assert (! m_running) is the     *)
(* caller's obligation.                                                    *)

ResetErrors(errors) == <<>>

PutStartTasks(lists) ==
  [w \in Workers |-> IF w <= m_nworkers THEN <<"start">> \o lists[w]
                                        ELSE lists[w]]

EnsureWorkers(p) ==
  IF Live = {} THEN [w \in Workers |-> IF w <= m_nworkers THEN "enter" ELSE "none"]
  ELSE WakeAllWorkers(p)

Start ==
  /\ mpc = "ready"
  /\ ~m_running
  /\ starts < MaxStarts
  /\ m_error_messages' = ResetErrors(m_error_messages)
  /\ m_running' = TRUE
  /\ mp_per_worker_task_lists' = PutStartTasks(mp_per_worker_task_lists)
  /\ pc' = EnsureWorkers(pc)
  /\ task_flag' = SetFlag(task_flag)
  /\ m_stop_requested' = [w \in Workers |-> FALSE]
  /\ ret' = "none"
  /\ starts' = starts + 1
  /\ callbacks' = <<>> /\ failed' = {} /\ late' = {}
  /\ UNCHANGED <<m_nworkers, m_task_list, m_idle_workers, m_stopping, current,
                 is_idle, mpc, call, queue_flag, done, dropped>>

-----------------------------------------------------------------------------
(* JobBase::wait (timeout).                                                *)

(* Slip: an empty queue is taken for the end of the run. *)
MustWaitForQueue == m_running /\ m_task_list # <<>>

MustWait == m_running

WaitCall ==
  /\ mpc = "ready"
  /\ IF MustWait
     THEN mpc' = "waiting" /\ ret' = "none" /\ queue_flag' = FALSE
     ELSE mpc' = "ready" /\ ret' = "done" /\ UNCHANGED queue_flag
  /\ UNCHANGED <<jobVars, workerVars, call, task_flag, historyVars>>

WaitTimeout ==
  /\ mpc = "waiting"
  /\ mpc' = "ready" /\ ret' = "timeout"
  /\ UNCHANGED <<jobVars, workerVars, call, condVars, historyVars>>

WaitReturn ==
  /\ mpc = "waitwoken"
  /\ mpc' = "ready" /\ ret' = "done"
  /\ UNCHANGED <<jobVars, workerVars, call, condVars, historyVars>>

-----------------------------------------------------------------------------
(* JobBase::stop, on its own or as the first part of terminate(),          *)
(* set_num_workers() and the destructor.                                   *)

(* Slip: only the first worker is looked at. *)
BusyFirst == {w \in Live : w = 1 /\ ~is_idle[w]}

Busy == {w \in Live : ~is_idle[w]}

AfterStop(c) == IF c = "stop" THEN "ready" ELSE "terminate"

RequestStop(ws) == [w \in Workers |-> m_stop_requested[w] \/ w \in ws]

(* m_running is read without the lock.                                     *)
StopCall ==
  /\ mpc = "ready"
  /\ call' \in {"stop", "terminate", "resize", "destroy"}
  /\ mpc' = IF m_running THEN "stoplock" ELSE AfterStop(call')
  /\ ret' = IF call' = "stop" /\ ~m_running THEN "notrunning" ELSE "none"
  /\ UNCHANGED <<jobVars, workerVars, condVars, historyVars>>

FlushTasks ==
  /\ m_task_list' = <<>>
  /\ dropped' = dropped \union Range(m_task_list)

StopReturns ==
  /\ m_stopping' = FALSE
  /\ m_running' = FALSE
  /\ callbacks' = Append(callbacks, "stopped")
  /\ mpc' = AfterStop(call)
  /\ ret' = IF call = "stop" THEN "stopped" ELSE "none"
  /\ UNCHANGED call

StopIdle ==
  /\ mpc = "stoplock" /\ Busy = {}
  /\ FlushTasks
  /\ StopReturns
  /\ UNCHANGED <<m_nworkers, mp_per_worker_task_lists, m_idle_workers,
                 m_error_messages, workerVars, condVars, starts, done, failed,
                 late>>

StopBusy ==
  /\ mpc = "stoplock" /\ Busy # {}
  /\ FlushTasks
  /\ m_stopping' = TRUE
  /\ m_stop_requested' = RequestStop(Busy)
  /\ pc' = WakeAllWorkers(pc)
  /\ task_flag' = SetFlag(task_flag)
  /\ queue_flag' = FALSE
  /\ mpc' = "stopwait"
  /\ UNCHANGED <<m_nworkers, mp_per_worker_task_lists, m_idle_workers,
                 m_running, m_error_messages, current, is_idle, call, ret,
                 starts, callbacks, done, failed, late>>

StopFinish ==
  /\ mpc = "stopwoken"
  /\ StopReturns
  /\ UNCHANGED <<m_nworkers, m_task_list, mp_per_worker_task_lists,
                 m_idle_workers, m_error_messages, workerVars, condVars,
                 starts, done, dropped, failed, late>>

-----------------------------------------------------------------------------
(* JobBase::terminate after stop(): an exit task per worker, then join.    *)

(* Slip: idle workers get no exit task. *)
PutExitTasksBusy(lists) ==
  [w \in Workers |-> IF w \in Busy THEN Append(lists[w], "exit") ELSE lists[w]]

PutExitTasks(lists) ==
  [w \in Workers |-> IF w \in Live THEN Append(lists[w], "exit") ELSE lists[w]]

TerminateLock ==
  /\ mpc = "terminate"
  /\ m_stop_requested' = RequestStop(Live)
  /\ mp_per_worker_task_lists' = PutExitTasks(mp_per_worker_task_lists)
  /\ pc' = WakeAllWorkers(pc)
  /\ task_flag' = IF Live = {} THEN task_flag ELSE SetFlag(task_flag)
  /\ mpc' = "join"
  /\ UNCHANGED <<m_nworkers, m_task_list, m_idle_workers, m_stopping,
                 m_running, m_error_messages, current, is_idle, call, ret,
                 queue_flag, historyVars>>

Joined == \A w \in Live : pc[w] = "exited"

(* set_num_workers builds the lists of the new workers.                    *)
Resize ==
  /\ m_nworkers' \in Workers
  /\ m_idle_workers' = 0
  /\ mp_per_worker_task_lists' = [w \in Workers |-> <<>>]
  /\ mpc' = "ready"
  /\ UNCHANGED <<m_task_list, dropped>>

(* ~JobBase deletes the tasks nobody performed.                            *)
Destroy ==
  /\ FlushTasks
  /\ mpc' = "dead"
  /\ UNCHANGED <<m_nworkers, m_idle_workers, mp_per_worker_task_lists>>

Terminated ==
  /\ mpc' = "ready"
  /\ UNCHANGED <<m_nworkers, m_task_list, m_idle_workers,
                 mp_per_worker_task_lists, dropped>>

TerminateFinish ==
  /\ mpc = "join" /\ Joined
  /\ pc' = [w \in Workers |-> "none"]
  /\ is_idle' = [w \in Workers |-> FALSE]
  /\ m_stop_requested' = [w \in Workers |-> FALSE]
  /\ CASE call = "resize" -> Resize
       [] call = "destroy" -> Destroy
       [] OTHER -> Terminated
  /\ UNCHANGED <<m_stopping, m_running, m_error_messages, current, call, ret,
                 condVars, starts, callbacks, done, failed, late>>

-----------------------------------------------------------------------------
(* JobBase::get_task and Worker::run.                                      *)

AtLock(w) == pc[w] \in {"enter", "woken"}

TaskAvailable(w) == m_task_list # <<>> \/ mp_per_worker_task_lists[w] # <<>>

(* Slips: the counter is never taken down; it is taken down by every fetch. *)
UnidleKeep(w) ==
  m_idle_workers' = m_idle_workers /\ is_idle' = [is_idle EXCEPT ![w] = FALSE]
UnidleTwice(w) ==
  m_idle_workers' = m_idle_workers - 1 /\ is_idle' = [is_idle EXCEPT ![w] = FALSE]

(* A worker that leaves the wait is no longer idle.                        *)
Unidle(w) ==
  /\ m_idle_workers' = IF pc[w] = "woken" THEN m_idle_workers - 1 ELSE m_idle_workers
  /\ is_idle' = [is_idle EXCEPT ![w] = FALSE]

(* The worker's own list goes first: a start task is dropped, an exit task *)
(* ends the thread.                                                        *)
FetchOwn(w) ==
  /\ AtLock(w)
  /\ mp_per_worker_task_lists[w] # <<>>
  /\ Unidle(w)
  /\ pc' = [pc EXCEPT ![w] = IF Head(mp_per_worker_task_lists[w]) = "exit"
                              THEN "exited" ELSE "enter"]
  /\ mp_per_worker_task_lists' = [mp_per_worker_task_lists EXCEPT ![w] = Tail(@)]
  /\ UNCHANGED <<m_nworkers, m_task_list, m_stopping, m_running,
                 m_error_messages, current, m_stop_requested, mainVars,
                 condVars, historyVars>>

(* Slip: the task put last goes first. *)
NextTaskLast(list) == list[Len(list)]

NextTask(list) == Head(list)

FetchTask(w) ==
  /\ AtLock(w)
  /\ mp_per_worker_task_lists[w] = <<>>
  /\ m_task_list # <<>>
  /\ Unidle(w)
  /\ pc' = [pc EXCEPT ![w] = "perform"]
  /\ current' = [current EXCEPT ![w] = NextTask(m_task_list)]
  /\ m_task_list' = Tail(m_task_list)
  /\ UNCHANGED <<m_nworkers, mp_per_worker_task_lists, m_stopping, m_running,
                 m_error_messages, m_stop_requested, mainVars, condVars,
                 historyVars>>

(* Slip: one worker too early. *)
AllIdleEarly(n) == n + 1 >= m_nworkers

(* The last worker to go idle ends the run.                                *)
AllIdle(n) == n = m_nworkers

(* Slip: finished() even though stop() is waiting. *)
CallFinishedAlways == TRUE

CallFinished == ~m_stopping

GoIdle(w) ==
  /\ pc[w] = "enter"
  /\ ~TaskAvailable(w)
  /\ m_idle_workers' = m_idle_workers + 1
  /\ IF AllIdle(m_idle_workers + 1)
     THEN /\ callbacks' = IF CallFinished THEN Append(callbacks, "finished")
                          ELSE callbacks
          /\ m_running' = FALSE
          /\ mpc' = WakeController(mpc)
          /\ queue_flag' = SetFlag(queue_flag)
     ELSE UNCHANGED <<callbacks, m_running, mpc, queue_flag>>
  /\ is_idle' = [is_idle EXCEPT ![w] = TRUE]
  /\ pc' = [pc EXCEPT ![w] = "waiting"]
  /\ task_flag' = FALSE
  /\ UNCHANGED <<m_nworkers, m_task_list, mp_per_worker_task_lists, m_stopping,
                 m_error_messages, current, m_stop_requested, call, ret,
                 starts, done, dropped, failed, late>>

(* Woken, but another worker took the task: wait again.                    *)
Rewait(w) ==
  /\ pc[w] = "woken"
  /\ ~TaskAvailable(w)
  /\ pc' = [pc EXCEPT ![w] = "waiting"]
  /\ task_flag' = FALSE
  /\ UNCHANGED <<jobVars, current, is_idle, m_stop_requested, mainVars,
                 queue_flag, historyVars>>

TaskDone(w) ==
  /\ w \in Performing
  /\ pc' = [pc EXCEPT ![w] = "enter"]
  /\ current' = [current EXCEPT ![w] = NoTask]
  /\ done' = done \union {current[w]}
  /\ UNCHANGED <<jobVars, is_idle, m_stop_requested, mainVars, condVars,
                 starts, callbacks, dropped, failed, late>>

(* Worker::checkpoint throws TaskTerminatedException on a stop request.    *)
TaskAborted(w) ==
  /\ w \in Performing
  /\ m_stop_requested[w]
  /\ pc' = [pc EXCEPT ![w] = "enter"]
  /\ current' = [current EXCEPT ![w] = NoTask]
  /\ dropped' = dropped \union {current[w]}
  /\ UNCHANGED <<jobVars, is_idle, m_stop_requested, mainVars, condVars,
                 starts, callbacks, done, failed, late>>

(* Slip: the error is swallowed. *)
AfterErrorSwallow == "enter"

AfterError == "logging"

TaskThrows(w) ==
  /\ w \in Performing
  /\ pc' = [pc EXCEPT ![w] = AfterError]
  /\ current' = [current EXCEPT ![w] = NoTask]
  /\ done' = done \union {current[w]}
  /\ failed' = failed \union {current[w]}
  /\ UNCHANGED <<jobVars, is_idle, m_stop_requested, mainVars, condVars,
                 starts, callbacks, dropped, late>>

AddError(errors) ==
  CASE Len(errors) = MaxErrors -> Append(errors, "abbreviated")
    [] Len(errors) < MaxErrors -> Append(errors, "error")
    [] OTHER -> errors

LogError(w) ==
  /\ pc[w] = "logging"
  /\ pc' = [pc EXCEPT ![w] = "enter"]
  /\ m_error_messages' = AddError(m_error_messages)
  /\ UNCHANGED <<m_nworkers, m_task_list, mp_per_worker_task_lists,
                 m_idle_workers, m_stopping, m_running, current, is_idle,
                 m_stop_requested, mainVars, condVars, historyVars>>

-----------------------------------------------------------------------------
Init ==
  /\ m_nworkers \in Workers
  /\ m_task_list = <<>>
  /\ mp_per_worker_task_lists = [w \in Workers |-> <<>>]
  /\ m_idle_workers = 0
  /\ m_stopping = FALSE /\ m_running = FALSE
  /\ m_error_messages = <<>>
  /\ pc = [w \in Workers |-> "none"]
  /\ current = [w \in Workers |-> NoTask]
  /\ is_idle = [w \in Workers |-> FALSE]
  /\ m_stop_requested = [w \in Workers |-> FALSE]
  /\ mpc = "ready" /\ call = "stop" /\ ret = "none"
  /\ task_flag = FALSE /\ queue_flag = FALSE
  /\ starts = 0 /\ callbacks = <<>>
  /\ done = {} /\ dropped = {} /\ failed = {} /\ late = {}

WorkerStep(w) ==
  \/ WorkerSeesFlag(w) \/ FetchOwn(w) \/ FetchTask(w) \/ GoIdle(w) \/ Rewait(w)
  \/ TaskDone(w) \/ TaskAborted(w) \/ TaskThrows(w) \/ LogError(w)

(* The steps that bring a call the controller has begun to its return.     *)
ControllerStep ==
  \/ ControllerSeesFlag \/ WaitReturn \/ StopIdle \/ StopBusy \/ StopFinish
  \/ TerminateLock \/ TerminateFinish

ControllerCall == Start \/ WaitCall \/ WaitTimeout \/ StopCall

Destroyed == mpc = "dead" /\ UNCHANGED vars

Next ==
  \/ \E t \in Tasks : Schedule(t)
  \/ ControllerCall
  \/ ControllerStep
  \/ \E w \in Workers : WorkerStep(w)
  \/ \E w \in Workers, t \in Tasks : TaskSchedules(w, t)
  \/ SpuriousWakeup
  \/ Destroyed

Spec == Init /\ [][Next]_vars

(* Every thread keeps running: a worker takes its next step, a task comes  *)
(* to an end, and the controller goes on with the call it is in.           *)
Fairness == WF_vars(ControllerStep) /\ \A w \in Workers : WF_vars(WorkerStep(w))

FairSpec == Spec /\ Fairness

-----------------------------------------------------------------------------
WorkerStates ==
  {"none", "enter", "waiting", "woken", "perform", "logging", "exited"}
ControllerStates ==
  {"ready", "waiting", "waitwoken", "stoplock", "stopwait", "stopwoken",
   "terminate", "join", "dead"}

JobTypeOK ==
  /\ m_nworkers \in Workers
  /\ m_task_list \in Seq(Tasks)
  /\ mp_per_worker_task_lists \in [Workers -> Seq({"start", "exit"})]
  /\ m_idle_workers \in Nat
  /\ m_stopping \in BOOLEAN /\ m_running \in BOOLEAN
  /\ m_error_messages \in Seq({"error", "abbreviated"})

WorkerTypeOK ==
  /\ pc \in [Workers -> WorkerStates]
  /\ current \in [Workers -> Tasks \union {NoTask}]
  /\ \A w \in Workers : current[w] \in Tasks <=> pc[w] = "perform"
  /\ is_idle \in [Workers -> BOOLEAN]
  /\ m_stop_requested \in [Workers -> BOOLEAN]

ControllerTypeOK ==
  /\ mpc \in ControllerStates
  /\ call \in {"stop", "terminate", "resize", "destroy"}
  /\ ret \in {"none", "done", "timeout", "stopped", "notrunning"}
  /\ task_flag \in BOOLEAN /\ queue_flag \in BOOLEAN

HistoryTypeOK ==
  /\ starts \in Nat
  /\ callbacks \in Seq({"finished", "stopped"})
  /\ done \in SUBSET Tasks /\ dropped \in SUBSET Tasks
  /\ failed \in SUBSET Tasks /\ late \in SUBSET Tasks

(* Every variable has its type, and a worker holds a task exactly while it *)
(* performs it (get_task, Worker::run).                                    *)
TypeOK == JobTypeOK /\ WorkerTypeOK /\ ControllerTypeOK /\ HistoryTypeOK

(* The counter that detects the empty queue counts exactly the workers     *)
(* that wait for a task, across spurious and shared wakeups, restarts,     *)
(* termination and resizing (get_task, set_num_workers).                   *)
IdleCount == m_idle_workers = Cardinality(Idle)

(* A run ends only when nothing of it is left: while m_running is off, the *)
(* tasks queued or being performed are ones schedule() accepted after the  *)
(* run had ended.                                                          *)
QuietWhenNotRunning == ~m_running => Pending \subseteq late

(* "If wait returns true": when wait() reports completion, every task of   *)
(* the run, also those its tasks scheduled, has been performed or dropped. *)
WaitGuarantee == ret = "done" => Pending \subseteq late

(* "It is guaranteed that the job is stopped and no worker is active after *)
(* stop has been called" (tlThreadedWorkers.h).                            *)
StopGuarantee == ret \in {"stopped", "notrunning"} => Active = {}

(* The part of that guarantee stop() gives when it found the job running:  *)
(* nothing is queued or performed when it returns.                         *)
RunningStopGuarantee == ret = "stopped" => Pending = {}

(* finished() "is not called, when the job has been stopped": neither      *)
(* while stop() waits for the workers nor after it has called stopped().   *)
NoFinishAfterStop ==
  [][callbacks' = Append(callbacks, "finished")
       => mpc # "stopwait" /\ "stopped" \notin Range(callbacks)]_vars

(* When wait() reports completion, the error list shows every task that    *)
(* threw in this run, up to the limit, and that the limit was exceeded.    *)
ErrorsReported ==
  ret = "done" =>
    IF Cardinality(failed) <= MaxErrors
    THEN m_error_messages = [i \in 1..Cardinality(failed) |-> "error"]
    ELSE /\ Len(m_error_messages) = MaxErrors + 1
         /\ m_error_messages[MaxErrors + 1] = "abbreviated"

(* Every call of the controller returns: wait() without a timeout, stop(), *)
(* terminate(), set_num_workers() and the destructor never hang.           *)
CallsReturn == mpc # "ready" ~> mpc \in {"ready", "dead"}

(* A task in the queue of a running job is performed or dropped.           *)
TasksPerformed ==
  \A t \in Tasks :
    (m_running /\ t \in Range(m_task_list)) ~> t \in done \union dropped

(* The job implements the abstract queue of JobQueue: order of processing, *)
(* at most once, nothing lost.                                             *)
Queue == INSTANCE JobQueue WITH queue <- m_task_list, active <- Active

QueueSpec == Queue!Spec
=============================================================================

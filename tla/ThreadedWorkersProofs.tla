------------------------ MODULE ThreadedWorkersProofs ------------------------
(***************************************************************************)
(* Theorems about ThreadedWorkers for every number of workers and tasks.   *)
(* ThreadInv (threads, counter, flags) holds with every condition          *)
(* variable; RunInv (who may end a run and who is told) without spurious   *)
(* wakeups; RestInv, ErrorInv and OnceStarted for jobs that are not        *)
(* scheduled late, or started only once.                                   *)
(***************************************************************************)
EXTENDS ThreadedWorkers, FiniteSetTheorems, TLAPS

(* The worker threads are either all there or none is.                     *)
ThreadsOK == Live = {} \/ Live = 1..m_nworkers

(* m_is_idle is set exactly while a worker is counted.                     *)
IdleFlag == \A w \in Workers : is_idle[w] <=> w \in Idle

(* While stop() waits, nothing is queued and nothing can be.               *)
StoppingOK ==
  /\ m_stopping <=> mpc \in {"stopwait", "stopwoken"}
  /\ m_stopping => m_task_list = <<>>

(* The controller is woken only by the end of the run.                     *)
WaitWoken == mpc = "waitwoken" \/ (mpc = "waiting" /\ queue_flag)
StopWoken == mpc = "stopwoken" \/ (mpc = "stopwait" /\ queue_flag)

WakeupOK ==
  /\ WaitWoken => ~m_running
  /\ StopWoken => ~m_running /\ Active = {}

ReturnOK ==
  /\ ret = "done" => ~m_running
  /\ ret = "stopped" => Active = {} /\ m_task_list = <<>>

ThreadInv == TypeOK /\ ThreadsOK /\ IdleCount /\ IdleFlag

RunInv == StoppingOK /\ WakeupOK /\ ReturnOK /\ QuietWhenNotRunning

-----------------------------------------------------------------------------
(* Sets of workers are finite, so that counting them makes sense.          *)
LEMMA WorkersFinite ==
  ASSUME NEW S \in SUBSET Workers
  PROVE  IsFiniteSet(S) /\ Cardinality(S) \in Nat
<1>1. IsFiniteSet(Workers)
  BY WorkersAssumption, FS_Interval DEF Workers
<1> QED
  BY <1>1, FS_Subset, FS_CardinalityType

(* Waking workers up changes neither who exists, who waits nor who works.  *)
LEMMA WakeKeeps ==
  ASSUME WorkerTypeOK
  PROVE  /\ WakeAllWorkers(pc) \in [Workers -> WorkerStates]
         /\ \A w \in Workers :
              /\ WakeAllWorkers(pc)[w] = "none" <=> pc[w] = "none"
              /\ WakeAllWorkers(pc)[w] = "perform" <=> pc[w] = "perform"
              /\ WakeAllWorkers(pc)[w] \in {"waiting", "woken"}
                   <=> pc[w] \in {"waiting", "woken"}
BY DEF WorkerTypeOK, WakeAllWorkers, WorkerStates

(* What a step may do to the position of the workers as far as idling is   *)
(* concerned: nothing, one worker leaving or one worker entering the wait. *)
SameIdle ==
  /\ \A w \in Workers : pc'[w] = "none" <=> pc[w] = "none"
  /\ \A w \in Workers : pc'[w] \in {"waiting", "woken"} <=> pc[w] \in {"waiting", "woken"}
  /\ is_idle' = is_idle
  /\ m_idle_workers' = m_idle_workers
  /\ m_nworkers' = m_nworkers

(* Steps that leave threads and idle flags alone.                          *)
LEMMA SameIdleKeeps ==
  ASSUME ThreadInv, TypeOK', SameIdle
  PROVE  ThreadInv'
<1>1. Idle' = Idle /\ Live' = Live
  BY DEF SameIdle, Idle, Live
<1> QED
  BY <1>1 DEF ThreadInv, SameIdle, ThreadsOK, IdleCount, IdleFlag

(* A new job has no threads and counts none.                               *)
LEMMA ThreadInit == Init => ThreadInv
<1> SUFFICES ASSUME Init PROVE ThreadInv
  OBVIOUS
<1>1. JobTypeOK
  <2>1. <<>> \in Seq({"start", "exit"})
    OBVIOUS
  <2>2. mp_per_worker_task_lists \in [Workers -> Seq({"start", "exit"})]
    BY <2>1, Zenon DEF Init
  <2>3. m_task_list \in Seq(Tasks) /\ m_error_messages \in Seq({"error", "abbreviated"})
    BY DEF Init
  <2>4. m_nworkers \in Workers /\ m_idle_workers \in Nat /\ m_stopping \in BOOLEAN /\ m_running \in BOOLEAN
    BY DEF Init
  <2> QED
    BY <2>2, <2>3, <2>4 DEF JobTypeOK
<1>2. WorkerTypeOK
  BY TasksAssumption DEF Init, WorkerTypeOK, WorkerStates
<1>3. ControllerTypeOK
  BY DEF Init, ControllerTypeOK, ControllerStates
<1>7. HistoryTypeOK
  BY DEF Init, HistoryTypeOK
<1>4. Live = {} /\ Idle = {}
  BY DEF Init, Live, Idle
<1>5. IdleCount
  BY <1>4, FS_EmptySet DEF Init, IdleCount
<1>6. IdleFlag
  BY <1>4 DEF Init, IdleFlag
<1> QED
  BY <1>1, <1>2, <1>3, <1>4, <1>5, <1>6, <1>7 DEF ThreadInv, TypeOK, ThreadsOK

(* Fetching from a list takes one of its elements.                         *)
LEMMA RangeTail ==
  ASSUME NEW S, NEW s \in Seq(S), s # <<>>
  PROVE  /\ Range(Tail(s)) \subseteq Range(s)
         /\ Head(s) \in Range(s)
         /\ Range(s) \subseteq S
BY DEF Range

(* What a list holds after a task was put into it.                         *)
LEMMA RangeAppend ==
  ASSUME NEW S, NEW s \in Seq(S), NEW e
  PROVE  Range(Append(s, e)) = Range(s) \union {e}
<1>1. DOMAIN Append(s, e) = DOMAIN s \union {Len(s) + 1}
  OBVIOUS
<1>2. /\ \A i \in DOMAIN s : Append(s, e)[i] = s[i]
      /\ Append(s, e)[Len(s) + 1] = e
  OBVIOUS
<1> QED
  BY <1>1, <1>2 DEF Range

(* schedule() keeps the types.                                             *)
LEMMA ScheduleType ==
  ASSUME TypeOK, NEW t \in Tasks, PutTask(t)
  PROVE  JobTypeOK' /\ WorkerTypeOK' /\ HistoryTypeOK'
<1>1. JobTypeOK'
  <2>1. Append(m_task_list, t) \in Seq(Tasks)
    BY DEF TypeOK, JobTypeOK
  <2>2. m_task_list' \in Seq(Tasks)
    BY <2>1 DEF TypeOK, JobTypeOK, PutTask
  <2> QED
    BY <2>2 DEF TypeOK, JobTypeOK, PutTask
<1>2. WorkerTypeOK'
  BY WakeKeeps DEF TypeOK, WorkerTypeOK, PutTask, WakeOnSchedule
<1>3. HistoryTypeOK'
  BY DEF TypeOK, HistoryTypeOK, PutTask
<1> QED
  BY <1>1, <1>2, <1>3

(* start() keeps the types.                                                *)
LEMMA StartType ==
  ASSUME TypeOK, Start
  PROVE  TypeOK'
<1>1. JobTypeOK'
  <2>1. ASSUME NEW w \in Workers
        PROVE  <<"start">> \o mp_per_worker_task_lists[w] \in Seq({"start", "exit"})
    BY DEF TypeOK, JobTypeOK
  <2>2. mp_per_worker_task_lists' \in [Workers -> Seq({"start", "exit"})]
    BY <2>1 DEF TypeOK, JobTypeOK, Start, PutStartTasks
  <2>3. m_error_messages' \in Seq({"error", "abbreviated"})
    BY DEF Start, ResetErrors
  <2> QED
    BY <2>2, <2>3 DEF TypeOK, JobTypeOK, Start
<1>2. WorkerTypeOK'
  BY WakeKeeps DEF TypeOK, WorkerTypeOK, Start, EnsureWorkers, Live, WorkerStates
<1>3. ControllerTypeOK'
  BY DEF TypeOK, ControllerTypeOK, Start, SetFlag
<1>4. HistoryTypeOK'
  BY DEF TypeOK, HistoryTypeOK, Start
<1> QED
  BY <1>1, <1>2, <1>3, <1>4 DEF TypeOK

(* wait(), the begin of stop() and the returns of both leave the job and   *)
(* the workers alone.                                                      *)
LEMMA ControllerType ==
  ASSUME TypeOK, WaitCall \/ WaitTimeout \/ WaitReturn \/ StopCall \/ ControllerWakes
  PROVE  TypeOK'
<1>1. UNCHANGED <<jobVars, workerVars, historyVars>>
  BY DEF WaitCall, WaitTimeout, WaitReturn, StopCall, ControllerWakes, workerVars
<1>2. JobTypeOK' /\ WorkerTypeOK' /\ HistoryTypeOK'
  BY <1>1 DEF TypeOK, JobTypeOK, WorkerTypeOK, HistoryTypeOK, jobVars, workerVars, historyVars
<1>3. ControllerTypeOK'
  BY DEF TypeOK, ControllerTypeOK, ControllerStates, WaitCall, WaitTimeout,
         WaitReturn, StopCall, ControllerWakes, AfterStop, condVars
<1> QED
  BY <1>2, <1>3 DEF TypeOK

(* Flushing the queue keeps the types.                                     *)
LEMMA FlushType ==
  ASSUME TypeOK, FlushTasks
  PROVE  m_task_list' \in Seq(Tasks) /\ dropped' \in SUBSET Tasks
BY DEF TypeOK, JobTypeOK, HistoryTypeOK, FlushTasks, Range

(* stop() keeps the types.                                                 *)
LEMMA StopType ==
  ASSUME TypeOK, StopIdle \/ StopBusy \/ StopFinish
  PROVE  TypeOK'
<1>1. CASE StopIdle
  <2>1. JobTypeOK'
    BY <1>1, FlushType DEF TypeOK, JobTypeOK, StopIdle, StopReturns
  <2>2. WorkerTypeOK'
    BY <1>1 DEF TypeOK, WorkerTypeOK, StopIdle, workerVars
  <2>3. ControllerTypeOK'
    BY <1>1 DEF TypeOK, ControllerTypeOK, ControllerStates, StopIdle, StopReturns, AfterStop, condVars
  <2>4. HistoryTypeOK'
    <3>1. callbacks' \in Seq({"finished", "stopped"})
      BY <1>1 DEF TypeOK, HistoryTypeOK, StopIdle, StopReturns
    <3> QED
      BY <1>1, <3>1, FlushType DEF TypeOK, HistoryTypeOK, StopIdle
  <2> QED
    BY <2>1, <2>2, <2>3, <2>4 DEF TypeOK
<1>2. CASE StopBusy
  <2>1. JobTypeOK'
    BY <1>2, FlushType DEF TypeOK, JobTypeOK, StopBusy
  <2>2. WorkerTypeOK'
    BY <1>2, WakeKeeps DEF TypeOK, WorkerTypeOK, StopBusy, RequestStop
  <2>3. ControllerTypeOK'
    BY <1>2 DEF TypeOK, ControllerTypeOK, ControllerStates, StopBusy, SetFlag
  <2>4. HistoryTypeOK'
    BY <1>2, FlushType DEF TypeOK, HistoryTypeOK, StopBusy
  <2> QED
    BY <2>1, <2>2, <2>3, <2>4 DEF TypeOK
<1>3. CASE StopFinish
  <2>1. JobTypeOK'
    BY <1>3 DEF TypeOK, JobTypeOK, StopFinish, StopReturns
  <2>2. WorkerTypeOK'
    BY <1>3 DEF TypeOK, WorkerTypeOK, StopFinish, workerVars
  <2>3. ControllerTypeOK'
    BY <1>3 DEF TypeOK, ControllerTypeOK, ControllerStates, StopFinish, StopReturns, AfterStop, condVars
  <2>4. HistoryTypeOK'
    <3>1. callbacks' \in Seq({"finished", "stopped"})
      BY <1>3 DEF TypeOK, HistoryTypeOK, StopFinish, StopReturns
    <3> QED
      BY <1>3, <3>1 DEF TypeOK, HistoryTypeOK, StopFinish
  <2> QED
    BY <2>1, <2>2, <2>3, <2>4 DEF TypeOK
<1> QED
  BY <1>1, <1>2, <1>3

(* terminate() keeps the types.                                            *)
LEMMA TerminateType ==
  ASSUME TypeOK, TerminateLock \/ TerminateFinish
  PROVE  TypeOK'
<1>1. CASE TerminateLock
  <2>1. ASSUME NEW w \in Workers
        PROVE  Append(mp_per_worker_task_lists[w], "exit") \in Seq({"start", "exit"})
    BY DEF TypeOK, JobTypeOK
  <2>2. mp_per_worker_task_lists' \in [Workers -> Seq({"start", "exit"})]
    BY <1>1, <2>1 DEF TypeOK, JobTypeOK, TerminateLock, PutExitTasks
  <2>3. JobTypeOK'
    BY <1>1, <2>2 DEF TypeOK, JobTypeOK, TerminateLock
  <2>4. WorkerTypeOK'
    BY <1>1, WakeKeeps DEF TypeOK, WorkerTypeOK, TerminateLock, RequestStop
  <2>5. ControllerTypeOK'
    BY <1>1 DEF TypeOK, ControllerTypeOK, ControllerStates, TerminateLock, SetFlag
  <2>6. HistoryTypeOK'
    BY <1>1 DEF TypeOK, HistoryTypeOK, TerminateLock, historyVars
  <2> QED
    BY <2>3, <2>4, <2>5, <2>6 DEF TypeOK
<1>2. CASE TerminateFinish
  <2>1. \/ call = "resize" /\ Resize
        \/ call = "destroy" /\ Destroy
        \/ call \notin {"resize", "destroy"} /\ Terminated
    BY <1>2 DEF TerminateFinish
  <2>2. mp_per_worker_task_lists' \in [Workers -> Seq({"start", "exit"})]
    <3>1. <<>> \in Seq({"start", "exit"})
      OBVIOUS
    <3>2. [w \in Workers |-> <<>>] \in [Workers -> Seq({"start", "exit"})]
      BY <3>1
    <3> QED
      BY <2>1, <3>2 DEF Resize, Destroy, Terminated, TypeOK, JobTypeOK
  <2>3. /\ m_nworkers' \in Workers /\ m_idle_workers' \in Nat
        /\ m_task_list' \in Seq(Tasks) /\ dropped' \in SUBSET Tasks
        /\ mpc' \in ControllerStates
    BY <2>1, FlushType DEF Resize, Destroy, Terminated, TypeOK, JobTypeOK,
                           HistoryTypeOK, ControllerStates
  <2>4. JobTypeOK'
    BY <1>2, <2>2, <2>3 DEF TypeOK, JobTypeOK, TerminateFinish
  <2>5. WorkerTypeOK'
    <3>1. \A w \in Workers : pc[w] # "perform"
      BY <1>2 DEF TerminateFinish, Joined, Live
    <3> QED
      BY <1>2, <3>1 DEF TypeOK, WorkerTypeOK, WorkerStates, TerminateFinish
  <2>6. ControllerTypeOK'
    BY <1>2, <2>3 DEF TypeOK, ControllerTypeOK, TerminateFinish, condVars
  <2>7. HistoryTypeOK'
    BY <1>2, <2>3 DEF TypeOK, HistoryTypeOK, TerminateFinish
  <2> QED
    BY <2>4, <2>5, <2>6, <2>7 DEF TypeOK
<1> QED
  BY <1>1, <1>2

(* A worker's own step.  The counter is looked at by IdleStep below.       *)
LEMMA WorkerType ==
  ASSUME TypeOK, NEW w \in Workers, WorkerStep(w) \/ WorkerWakes(w),
         m_idle_workers' \in Nat
  PROVE  TypeOK'
<1>1. CASE WorkerWakes(w) \/ Rewait(w)
  <2>1. JobTypeOK' /\ HistoryTypeOK'
    BY <1>1 DEF TypeOK, JobTypeOK, HistoryTypeOK, WorkerWakes, Rewait, jobVars, historyVars
  <2>2. WorkerTypeOK'
    BY <1>1 DEF TypeOK, WorkerTypeOK, WorkerStates, WorkerWakes, Rewait
  <2>3. ControllerTypeOK'
    BY <1>1 DEF TypeOK, ControllerTypeOK, WorkerWakes, Rewait, mainVars, condVars
  <2> QED
    BY <2>1, <2>2, <2>3 DEF TypeOK
<1>2. CASE FetchOwn(w)
  <2>1. Tail(mp_per_worker_task_lists[w]) \in Seq({"start", "exit"})
    BY <1>2 DEF TypeOK, JobTypeOK, FetchOwn
  <2>2. mp_per_worker_task_lists' \in [Workers -> Seq({"start", "exit"})]
    BY <1>2, <2>1 DEF TypeOK, JobTypeOK, FetchOwn
  <2>3. JobTypeOK'
    BY <1>2, <2>2 DEF TypeOK, JobTypeOK, FetchOwn
  <2>4. WorkerTypeOK'
    BY <1>2 DEF TypeOK, WorkerTypeOK, WorkerStates, FetchOwn, Unidle, AtLock
  <2>5. ControllerTypeOK' /\ HistoryTypeOK'
    BY <1>2 DEF TypeOK, ControllerTypeOK, HistoryTypeOK, FetchOwn, mainVars, condVars, historyVars
  <2> QED
    BY <2>3, <2>4, <2>5 DEF TypeOK
<1>3. CASE FetchTask(w)
  <2>1. Tail(m_task_list) \in Seq(Tasks) /\ Head(m_task_list) \in Tasks
    BY <1>3 DEF TypeOK, JobTypeOK, FetchTask
  <2>2. JobTypeOK'
    BY <1>3, <2>1 DEF TypeOK, JobTypeOK, FetchTask
  <2>3. WorkerTypeOK'
    BY <1>3, <2>1 DEF TypeOK, WorkerTypeOK, WorkerStates, FetchTask, NextTask, Unidle, AtLock
  <2>4. ControllerTypeOK' /\ HistoryTypeOK'
    BY <1>3 DEF TypeOK, ControllerTypeOK, HistoryTypeOK, FetchTask, mainVars, condVars, historyVars
  <2> QED
    BY <2>2, <2>3, <2>4 DEF TypeOK
<1>4. CASE GoIdle(w)
  <2>1. JobTypeOK'
    BY <1>4 DEF TypeOK, JobTypeOK, GoIdle
  <2>2. WorkerTypeOK'
    BY <1>4 DEF TypeOK, WorkerTypeOK, WorkerStates, GoIdle
  <2>3. ControllerTypeOK'
    <3>1. WakeController(mpc) \in ControllerStates
      BY DEF TypeOK, ControllerTypeOK, ControllerStates, WakeController
    <3> QED
      BY <1>4, <3>1 DEF TypeOK, ControllerTypeOK, GoIdle, SetFlag
  <2>4. HistoryTypeOK'
    <3>1. Append(callbacks, "finished") \in Seq({"finished", "stopped"})
      BY DEF TypeOK, HistoryTypeOK
    <3> QED
      BY <1>4, <3>1 DEF TypeOK, HistoryTypeOK, GoIdle
  <2> QED
    BY <2>1, <2>2, <2>3, <2>4 DEF TypeOK
<1>5. CASE TaskDone(w) \/ TaskAborted(w) \/ TaskThrows(w)
  <2>1. current[w] \in Tasks
    BY <1>5 DEF TypeOK, WorkerTypeOK, TaskDone, TaskAborted, TaskThrows, Performing
  <2>2. JobTypeOK'
    BY <1>5 DEF TypeOK, JobTypeOK, TaskDone, TaskAborted, TaskThrows, jobVars
  <2>3. WorkerTypeOK'
    BY <1>5, TasksAssumption DEF TypeOK, WorkerTypeOK, WorkerStates, TaskDone, TaskAborted,
                                 TaskThrows, AfterError
  <2>4. ControllerTypeOK'
    BY <1>5 DEF TypeOK, ControllerTypeOK, TaskDone, TaskAborted, TaskThrows, mainVars, condVars
  <2>5. HistoryTypeOK'
    BY <1>5, <2>1 DEF TypeOK, HistoryTypeOK, TaskDone, TaskAborted, TaskThrows
  <2> QED
    BY <2>2, <2>3, <2>4, <2>5 DEF TypeOK
<1>6. CASE LogError(w)
  <2>1. AddError(m_error_messages) \in Seq({"error", "abbreviated"})
    BY ErrorsAssumption DEF TypeOK, JobTypeOK, AddError
  <2>2. JobTypeOK'
    BY <1>6, <2>1 DEF TypeOK, JobTypeOK, LogError
  <2>3. WorkerTypeOK'
    BY <1>6 DEF TypeOK, WorkerTypeOK, WorkerStates, LogError
  <2>4. ControllerTypeOK' /\ HistoryTypeOK'
    BY <1>6 DEF TypeOK, ControllerTypeOK, HistoryTypeOK, LogError, mainVars, condVars, historyVars
  <2> QED
    BY <2>2, <2>3, <2>4 DEF TypeOK
<1> QED
  BY <1>1, <1>2, <1>3, <1>4, <1>5, <1>6 DEF WorkerStep, WorkerSeesFlag

-----------------------------------------------------------------------------
(* Counting the idle workers.                                              *)

(* A worker step keeps the idle count.                                     *)
LEMMA WorkerCount ==
  ASSUME ThreadInv, NEW w \in Workers, WorkerStep(w) \/ WorkerWakes(w)
  PROVE  ThreadInv'
<1> USE DEF ThreadInv
<1>1. Idle \in SUBSET Workers /\ IsFiniteSet(Idle) /\ Cardinality(Idle) \in Nat
  BY WorkersFinite DEF Idle
<1>2. pc \in [Workers -> WorkerStates] /\ is_idle \in [Workers -> BOOLEAN]
  BY DEF TypeOK, WorkerTypeOK
<1>3. CASE WorkerWakes(w) \/ Rewait(w) \/ TaskDone(w) \/ TaskAborted(w) \/ TaskThrows(w) \/ LogError(w)
  <2>1. SameIdle
    BY <1>2, <1>3 DEF SameIdle, WorkerWakes, Rewait, TaskDone, TaskAborted, TaskThrows,
          AfterError, LogError, Performing, jobVars
  <2>2. TypeOK'
    BY <1>3, <2>1, WorkerType DEF SameIdle, TypeOK, JobTypeOK
  <2> QED
    BY <2>1, <2>2, SameIdleKeeps
<1>4. CASE FetchOwn(w) \/ FetchTask(w)
  <2>1. /\ AtLock(w) /\ Unidle(w) /\ m_nworkers' = m_nworkers
        /\ \E s \in {"enter", "exited", "perform"} : pc' = [pc EXCEPT ![w] = s]
    BY <1>4 DEF FetchOwn, FetchTask
  <2>2. Idle' = Idle \ {w} /\ Live' = Live
    BY <1>2, <2>1 DEF Idle, Live, AtLock
  <2>3. IdleCount' /\ m_idle_workers' \in Nat
    <3>1. CASE pc[w] = "woken"
      <4>1. w \in Idle
        BY <3>1 DEF Idle
      <4>2. Cardinality(Idle \ {w}) = Cardinality(Idle) - 1 /\ Cardinality(Idle \ {w}) \in Nat
        BY <1>1, <4>1, FS_RemoveElement, WorkersFinite
      <4> QED
        BY <2>1, <2>2, <3>1, <4>2 DEF IdleCount, Unidle
    <3>2. CASE pc[w] # "woken"
      <4>1. w \notin Idle
        BY <2>1, <3>2 DEF Idle, AtLock
      <4>2. Idle' = Idle
        BY <2>2, <4>1
      <4> QED
        BY <1>1, <2>1, <3>2, <4>2 DEF IdleCount, Unidle
    <3> QED
      BY <3>1, <3>2
  <2>4. IdleFlag'
    BY <1>2, <2>1, <2>2 DEF IdleFlag, Unidle
  <2>5. TypeOK'
    BY <1>4, <2>3, WorkerType DEF WorkerStep
  <2> QED
    BY <2>1, <2>2, <2>3, <2>4, <2>5 DEF ThreadsOK
<1>5. CASE GoIdle(w)
  <2>1. /\ pc[w] = "enter" /\ pc' = [pc EXCEPT ![w] = "waiting"]
        /\ m_idle_workers' = m_idle_workers + 1 /\ m_nworkers' = m_nworkers
        /\ is_idle' = [is_idle EXCEPT ![w] = TRUE]
    BY <1>5 DEF GoIdle
  <2>2. Idle' = Idle \union {w} /\ Live' = Live /\ w \notin Idle
    BY <1>2, <2>1 DEF Idle, Live
  <2>3. IdleCount' /\ m_idle_workers' \in Nat
    <3>1. Cardinality(Idle \union {w}) = Cardinality(Idle) + 1
      BY <1>1, <2>2, FS_AddElement
    <3> QED
      BY <1>1, <2>1, <2>2, <3>1 DEF IdleCount
  <2>4. IdleFlag'
    BY <1>2, <2>1, <2>2 DEF IdleFlag
  <2>5. TypeOK'
    BY <1>5, <2>3, WorkerType DEF WorkerStep
  <2> QED
    BY <2>1, <2>2, <2>3, <2>4, <2>5 DEF ThreadsOK
<1> QED
  BY <1>3, <1>4, <1>5 DEF WorkerStep, WorkerSeesFlag

(* schedule() keeps the idle count.                                        *)
LEMMA ScheduleThreads ==
  ASSUME ThreadInv, NEW t \in Tasks, PutTask(t), TypeOK'
  PROVE  ThreadInv'
<1>1. pc' = pc \/ pc' = WakeAllWorkers(pc)
  BY DEF PutTask, WakeOnSchedule
<1>2. SameIdle
  BY <1>1, WakeKeeps DEF SameIdle, PutTask, ThreadInv, TypeOK
<1> QED
  BY <1>2, SameIdleKeeps

(* start() keeps the idle count: new threads are not idle.                 *)
LEMMA StartThreads ==
  ASSUME ThreadInv, Start
  PROVE  ThreadInv'
<1>1. TypeOK'
  BY StartType DEF ThreadInv
<1>2. CASE Live # {}
  <2>1. pc' = WakeAllWorkers(pc)
    BY <1>2 DEF Start, EnsureWorkers
  <2>2. SameIdle
    BY <2>1, WakeKeeps DEF SameIdle, Start, ThreadInv, TypeOK
  <2> QED
    BY <1>1, <2>2, SameIdleKeeps
<1>3. CASE Live = {}
  <2>1. pc' = [w \in Workers |-> IF w <= m_nworkers THEN "enter" ELSE "none"]
    BY <1>3 DEF Start, EnsureWorkers
  <2>2. Idle = {} /\ Idle' = {}
    BY <1>3, <2>1 DEF Idle, Live
  <2>3. Live' = 1..m_nworkers
    BY <2>1, WorkersAssumption DEF Live, Workers, ThreadInv, TypeOK, JobTypeOK
  <2>4. m_nworkers' = m_nworkers /\ m_idle_workers' = m_idle_workers /\ is_idle' = is_idle
    BY DEF Start
  <2> QED
    BY <1>1, <2>2, <2>3, <2>4 DEF ThreadInv, ThreadsOK, IdleCount, IdleFlag
<1> QED
  BY <1>2, <1>3

(* The other calls of the controller keep the idle count.                  *)
LEMMA ControllerThreads ==
  ASSUME ThreadInv, TypeOK',
         \/ UNCHANGED <<pc, is_idle, m_idle_workers, m_nworkers>>
         \/ StopBusy \/ TerminateLock
  PROVE  ThreadInv'
<1>1. pc' = pc \/ pc' = WakeAllWorkers(pc)
  BY DEF StopBusy, TerminateLock
<1>2. SameIdle
  BY <1>1, WakeKeeps DEF SameIdle, StopBusy, TerminateLock, ThreadInv, TypeOK
<1> QED
  BY <1>2, SameIdleKeeps

(* terminate() joins all threads and counts none.                          *)
LEMMA TerminateThreads ==
  ASSUME ThreadInv, TerminateFinish
  PROVE  ThreadInv'
<1>1. TypeOK'
  BY TerminateType DEF ThreadInv
<1>2. Idle = {} /\ Idle' = {} /\ Live' = {}
  BY DEF TerminateFinish, Joined, Idle, Live
<1>3. m_idle_workers' = 0
  BY <1>2, FS_EmptySet DEF TerminateFinish, Resize, Destroy, Terminated, ThreadInv, IdleCount
<1>4. IdleFlag'
  BY <1>2 DEF IdleFlag, TerminateFinish
<1> QED
  BY <1>1, <1>2, <1>3, <1>4, FS_EmptySet DEF ThreadInv, ThreadsOK, IdleCount

(* Every step keeps threads, types and idle count.                         *)
LEMMA ThreadStep == ThreadInv /\ [Next]_vars => ThreadInv'
<1> SUFFICES ASSUME ThreadInv, [Next]_vars PROVE ThreadInv'
  OBVIOUS
<1>0. TypeOK
  BY DEF ThreadInv
<1>1. ASSUME NEW t \in Tasks, PutTask(t), UNCHANGED ret \/ ret' = "none"
      PROVE  ThreadInv'
  <2>1. ControllerTypeOK'
    BY <1>0, <1>1 DEF TypeOK, ControllerTypeOK, PutTask, SetFlag
  <2> QED
    BY <1>0, <1>1, <2>1, ScheduleType, ScheduleThreads DEF TypeOK
<1>2. ASSUME NEW t \in Tasks, Schedule(t) PROVE ThreadInv'
  BY <1>1, <1>2 DEF Schedule
<1>3. ASSUME NEW w \in Workers, NEW t \in Tasks, TaskSchedules(w, t) PROVE ThreadInv'
  BY <1>1, <1>3 DEF TaskSchedules
<1>4. ASSUME NEW w \in Workers, WorkerStep(w) \/ WorkerWakes(w) PROVE ThreadInv'
  BY <1>4, WorkerCount
<1>5. CASE Start
  BY <1>5, StartThreads
<1>6. CASE WaitCall \/ WaitTimeout \/ WaitReturn \/ StopCall \/ ControllerWakes
  <2>1. UNCHANGED <<pc, is_idle, m_idle_workers, m_nworkers>>
    BY <1>6 DEF WaitCall, WaitTimeout, WaitReturn, StopCall, ControllerWakes, jobVars, workerVars
  <2> QED
    BY <1>0, <1>6, <2>1, ControllerType, ControllerThreads
<1>7. CASE StopIdle \/ StopFinish
  <2>1. UNCHANGED <<pc, is_idle, m_idle_workers, m_nworkers>>
    BY <1>7 DEF StopIdle, StopFinish, workerVars
  <2> QED
    BY <1>0, <1>7, <2>1, StopType, ControllerThreads
<1>8. CASE StopBusy
  BY <1>0, <1>8, StopType, ControllerThreads
<1>9. CASE TerminateLock
  BY <1>0, <1>9, TerminateType, ControllerThreads
<1>10. CASE TerminateFinish
  BY <1>10, TerminateThreads
<1>11. CASE UNCHANGED vars
  <2>1. UNCHANGED <<jobVars, workerVars, mainVars, condVars, historyVars>>
    BY <1>11 DEF vars
  <2>2. TypeOK'
    BY <1>0, <2>1 DEF TypeOK, JobTypeOK, WorkerTypeOK, ControllerTypeOK, HistoryTypeOK,
                      jobVars, workerVars, mainVars, condVars, historyVars
  <2> QED
    BY <2>1, <2>2, ControllerThreads DEF jobVars, workerVars
<1> QED
  BY <1>2, <1>3, <1>4, <1>5, <1>6, <1>7, <1>8, <1>9, <1>10, <1>11
  DEF Next, ControllerCall, ControllerStep, ControllerSeesFlag, SpuriousWakeup, Destroyed

(* Type correctness and the idle count (get_task): m_idle_workers is the   *)
(* number of workers waiting for a task, whatever the number of workers    *)
(* and tasks and whichever condition variable is built in.                 *)
THEOREM ThreadInvariant == Spec => []ThreadInv
<1>1. Init => ThreadInv
  BY ThreadInit
<1>2. ThreadInv /\ [Next]_vars => ThreadInv'
  BY ThreadStep
<1> QED
  BY <1>1, <1>2, PTL DEF Spec

(* The types hold in every state, with any condition variable.             *)
THEOREM TypeCorrect == Spec => []TypeOK
<1>1. ThreadInv => TypeOK
  BY DEF ThreadInv
<1> QED
  BY <1>1, ThreadInvariant, PTL

(* The idle count itself: m_idle_workers is the number of idle workers.    *)
THEOREM IdleCountCorrect == Spec => []IdleCount
<1>1. ThreadInv => IdleCount
  BY DEF ThreadInv
<1> QED
  BY <1>1, ThreadInvariant, PTL

-----------------------------------------------------------------------------
(* The guarantees of wait() and stop().  They need condition variables     *)
(* without spurious wakeups: both calls wait once, without a loop.         *)

SamePerforming ==
  /\ \A w \in Workers : pc'[w] = "perform" <=> pc[w] = "perform"
  /\ current' = current

(* Steps that begin or end no task.                                        *)
LEMMA SameActive ==
  ASSUME SamePerforming
  PROVE  Active' = Active
<1>1. Performing' = Performing
  BY DEF SamePerforming, Performing
<1> QED
  BY <1>1 DEF SamePerforming, Active

(* Waking up begins no task.                                               *)
LEMMA WakePerforming ==
  ASSUME TypeOK, pc' = pc \/ pc' = WakeAllWorkers(pc), current' = current
  PROVE  Active' = Active
<1>1. SamePerforming
  BY WakeKeeps DEF TypeOK, SamePerforming
<1> QED
  BY <1>1, SameActive

(* schedule() keeps the invariant of a run.                                *)
LEMMA RunSchedule ==
  ASSUME ThreadInv, RunInv, NEW t \in Tasks, PutTask(t),
         ret' = "none" \/ (ret' = ret /\ Active # {})
  PROVE  RunInv'
<1> USE DEF RunInv
<1>1. TypeOK /\ m_task_list \in Seq(Tasks)
  BY DEF ThreadInv, TypeOK, JobTypeOK
<1>2. Active' = Active
  BY <1>1, WakePerforming DEF PutTask, WakeOnSchedule
<1>3. UNCHANGED <<m_stopping, m_running, mpc, queue_flag>>
  BY DEF PutTask
<1>4. StoppingOK'
  BY <1>3 DEF StoppingOK, PutTask, MayAccept
<1>5. WakeupOK'
  BY <1>2, <1>3 DEF WakeupOK, WaitWoken, StopWoken
<1>6. ReturnOK'
  BY <1>2, <1>3 DEF ReturnOK
<1>7. QuietWhenNotRunning'
  <2> SUFFICES ASSUME ~m_running PROVE Pending' \subseteq late'
    BY <1>3 DEF QuietWhenNotRunning
  <2>1. Pending \subseteq late
    BY DEF QuietWhenNotRunning
  <2>2. CASE MayAccept
    <3>1. m_task_list' = Append(m_task_list, t) /\ late' = late \union {t}
      BY <2>2 DEF PutTask
    <3> QED
      BY <1>1, <1>2, <2>1, <3>1, RangeAppend DEF Pending
  <2>3. CASE ~MayAccept
    BY <1>2, <2>1, <2>3 DEF PutTask, Pending
  <2> QED
    BY <2>2, <2>3
<1> QED
  BY <1>4, <1>5, <1>6, <1>7

(* When the last worker goes idle, no worker performs a task.              *)
LEMMA AllIdleQuiet ==
  ASSUME ThreadInv, NEW w \in Workers, GoIdle(w), AllIdle(m_idle_workers + 1)
  PROVE  Active = {} /\ Active' = {} /\ m_task_list = <<>>
<1>1. /\ pc[w] = "enter" /\ pc' = [pc EXCEPT ![w] = "waiting"]
      /\ m_task_list = <<>> /\ m_idle_workers + 1 = m_nworkers
  BY DEF GoIdle, TaskAvailable, AllIdle
<1>2. pc \in [Workers -> WorkerStates] /\ m_nworkers \in Workers
  BY DEF ThreadInv, TypeOK, WorkerTypeOK, JobTypeOK
<1>3. m_nworkers \in Nat
  BY <1>2, WorkersAssumption DEF Workers
<1>4. Live = 1..m_nworkers
  BY <1>1 DEF ThreadInv, ThreadsOK, Live
<1>5. IsFiniteSet(Live) /\ Cardinality(Live) = m_nworkers
  BY <1>3, <1>4, FS_Interval
<1>6. Idle \subseteq Live /\ w \in Live \ Idle
  BY <1>1 DEF Idle, Live
<1>7. Idle \union {w} = Live
  <2>1. IsFiniteSet(Idle) /\ Cardinality(Idle) \in Nat
    BY WorkersFinite DEF Idle
  <2>2. Cardinality(Idle \union {w}) = Cardinality(Idle) + 1
    BY <1>6, <2>1, FS_AddElement
  <2>3. Cardinality(Idle \union {w}) = m_nworkers
    BY <1>1, <2>2 DEF ThreadInv, IdleCount
  <2> QED
    BY <1>5, <1>6, <2>3, FS_Subset
<1>8. Performing = {}
  BY <1>1, <1>7 DEF Performing, Live, Idle
<1>9. Performing' = {}
  BY <1>1, <1>2, <1>8 DEF Performing
<1> QED
  BY <1>1, <1>8, <1>9 DEF Active

(* A worker step keeps the invariant of a run.                             *)
LEMMA RunWorker ==
  ASSUME ThreadInv, RunInv, NEW w \in Workers, WorkerStep(w)
  PROVE  RunInv'
<1> USE DEF RunInv
<1>1. /\ pc \in [Workers -> WorkerStates] /\ m_task_list \in Seq(Tasks)
      /\ current \in [Workers -> Tasks \union {NoTask}]
      /\ mpc \in ControllerStates
  BY DEF ThreadInv, TypeOK, WorkerTypeOK, JobTypeOK, ControllerTypeOK
<1>2. CASE WorkerWakes(w) \/ Rewait(w) \/ FetchOwn(w) \/ LogError(w)
           \/ TaskDone(w) \/ TaskAborted(w) \/ TaskThrows(w)
  <2>1. UNCHANGED <<m_task_list, m_stopping, m_running, mpc, ret, queue_flag, late>>
    BY <1>2 DEF WorkerWakes, Rewait, FetchOwn, LogError, TaskDone, TaskAborted, TaskThrows,
                jobVars, mainVars, condVars, historyVars
  <2>2. Active' \subseteq Active
    <3>1. CASE WorkerWakes(w) \/ Rewait(w) \/ FetchOwn(w) \/ LogError(w)
      <4>1. SamePerforming
        BY <1>1, <3>1 DEF SamePerforming, WorkerWakes, Rewait, FetchOwn, LogError, AtLock
      <4> QED
        BY <4>1, SameActive
    <3>2. CASE TaskDone(w) \/ TaskAborted(w) \/ TaskThrows(w)
      <4>1. Performing' = Performing \ {w}
        BY <1>1, <3>2 DEF Performing, TaskDone, TaskAborted, TaskThrows, AfterError
      <4>2. \A v \in Workers \ {w} : current'[v] = current[v]
        BY <1>1, <3>2 DEF TaskDone, TaskAborted, TaskThrows
      <4> QED
        BY <4>1, <4>2 DEF Active, Performing
    <3> QED
      BY <1>2, <3>1, <3>2
  <2>3. StoppingOK'
    BY <2>1 DEF StoppingOK
  <2>4. WakeupOK'
    BY <2>1, <2>2 DEF WakeupOK, WaitWoken, StopWoken
  <2>5. ReturnOK'
    BY <2>1, <2>2 DEF ReturnOK
  <2>6. QuietWhenNotRunning'
    BY <2>1, <2>2 DEF QuietWhenNotRunning, Pending
  <2> QED
    BY <2>3, <2>4, <2>5, <2>6
<1>3. CASE FetchTask(w)
  <2>1. /\ UNCHANGED <<m_stopping, m_running, mpc, ret, queue_flag, late>>
        /\ m_task_list # <<>> /\ m_task_list' = Tail(m_task_list)
        /\ AtLock(w)
        /\ pc' = [pc EXCEPT ![w] = "perform"]
        /\ current' = [current EXCEPT ![w] = Head(m_task_list)]
    BY <1>3 DEF FetchTask, NextTask, mainVars, condVars, historyVars
  <2>2. ~m_stopping /\ mpc \notin {"stopwait", "stopwoken"} /\ ret # "stopped"
    BY <2>1 DEF StoppingOK, ReturnOK
  <2>3. StoppingOK'
    BY <2>1, <2>2 DEF StoppingOK
  <2>4. WakeupOK'
    BY <2>1, <2>2 DEF WakeupOK, WaitWoken, StopWoken
  <2>5. ReturnOK'
    BY <2>1, <2>2 DEF ReturnOK
  <2>6. QuietWhenNotRunning'
    <3>1. Performing' = Performing \union {w}
      BY <1>1, <2>1 DEF Performing
    <3>2. \A v \in Performing' : current'[v] = IF v = w THEN Head(m_task_list) ELSE current[v]
      BY <1>1, <2>1 DEF Performing
    <3>3. Active' \subseteq Active \union {Head(m_task_list)}
      BY <3>1, <3>2 DEF Active
    <3> QED
      BY <1>1, <2>1, <3>3, RangeTail DEF QuietWhenNotRunning, Pending
  <2> QED
    BY <2>3, <2>4, <2>5, <2>6
<1>4. CASE GoIdle(w)
  <2>1. UNCHANGED <<m_task_list, m_stopping, ret, late>>
    BY <1>4 DEF GoIdle
  <2>2. CASE AllIdle(m_idle_workers + 1)
    <3>1. Active = {} /\ Active' = {} /\ m_task_list = <<>>
      BY <1>4, <2>2, AllIdleQuiet
    <3>2. m_running' = FALSE /\ mpc' = WakeController(mpc)
      BY <1>4, <2>2 DEF GoIdle
    <3>3. mpc' \in {"stopwait", "stopwoken"} <=> mpc \in {"stopwait", "stopwoken"}
      BY <3>2 DEF WakeController
    <3>4. Range(m_task_list') = {}
      BY <2>1, <3>1 DEF Range
    <3> QED
      BY <2>1, <3>1, <3>2, <3>3, <3>4
      DEF StoppingOK, WakeupOK, ReturnOK, QuietWhenNotRunning, Pending
  <2>3. CASE ~AllIdle(m_idle_workers + 1)
    <3>1. UNCHANGED <<m_running, mpc, queue_flag>>
      BY <1>4, <2>3 DEF GoIdle
    <3>2. SamePerforming
      BY <1>1, <1>4 DEF GoIdle, SamePerforming
    <3>3. Active' = Active
      BY <3>2, SameActive
    <3> QED
      BY <2>1, <3>1, <3>3 DEF StoppingOK, WakeupOK, WaitWoken, StopWoken, ReturnOK,
                              QuietWhenNotRunning, Pending
  <2> QED
    BY <2>2, <2>3
<1> QED
  BY <1>2, <1>3, <1>4 DEF WorkerStep, WorkerSeesFlag

(* start() and wait() keep the invariant of a run.                         *)
LEMMA RunCall ==
  ASSUME ThreadInv, RunInv, ControllerCall \/ WaitReturn \/ ControllerSeesFlag
  PROVE  RunInv'
<1> USE DEF RunInv
<1>0. TypeOK
  BY DEF ThreadInv
<1>1. CASE Start
  <2>1. mpc = "ready" /\ mpc' = "ready" /\ m_running' = TRUE /\ ret' = "none"
        /\ UNCHANGED m_stopping
    BY <1>1 DEF Start
  <2> QED
    BY <2>1 DEF StoppingOK, WakeupOK, WaitWoken, StopWoken, ReturnOK, QuietWhenNotRunning
<1>2. CASE WaitCall \/ WaitTimeout \/ WaitReturn \/ StopCall \/ ControllerSeesFlag
  <2>1. UNCHANGED <<m_task_list, m_stopping, m_running, pc, current, late>>
    BY <1>2 DEF WaitCall, WaitTimeout, WaitReturn, StopCall, ControllerSeesFlag,
                ControllerWakes, jobVars, workerVars, historyVars
  <2>2. Active' = Active
    BY <1>0, <2>1, WakePerforming
  <2>3. StoppingOK'
    BY <1>2, <2>1 DEF StoppingOK, WaitCall, WaitTimeout, WaitReturn, StopCall,
                      ControllerSeesFlag, ControllerWakes, AfterStop
  <2>4. WakeupOK'
    BY <1>2, <2>1, <2>2 DEF WakeupOK, WaitWoken, StopWoken, WaitCall, WaitTimeout, WaitReturn,
                            StopCall, ControllerSeesFlag, ControllerWakes, AfterStop, condVars
  <2>5. ReturnOK'
    BY <1>2, <2>1, <2>2 DEF ReturnOK, WaitCall, MustWait, WaitTimeout, WaitReturn, StopCall,
                            ControllerSeesFlag, ControllerWakes, WakeupOK, WaitWoken
  <2>6. QuietWhenNotRunning'
    BY <2>1, <2>2 DEF QuietWhenNotRunning, Pending
  <2> QED
    BY <2>3, <2>4, <2>5, <2>6
<1> QED
  BY <1>1, <1>2 DEF ControllerCall

(* stop() keeps the invariant of a run.                                    *)
LEMMA RunStop ==
  ASSUME ThreadInv, RunInv, StopIdle \/ StopBusy \/ StopFinish
  PROVE  RunInv'
<1> USE DEF RunInv
<1>0. TypeOK
  BY DEF ThreadInv
<1>1. CASE StopIdle
  <2>1. /\ m_task_list' = <<>> /\ m_stopping' = FALSE /\ m_running' = FALSE
        /\ mpc' \in {"ready", "terminate"} /\ ret' \in {"none", "stopped"}
        /\ UNCHANGED <<pc, current>>
    BY <1>1 DEF StopIdle, StopReturns, FlushTasks, AfterStop, workerVars
  <2>2. Performing = {}
    BY <1>1 DEF StopIdle, Busy, Live, Performing, ThreadInv, IdleFlag, Idle
  <2>3. Active' = {}
    BY <2>1, <2>2 DEF Performing, Active
  <2>4. Range(m_task_list') = {}
    BY <2>1 DEF Range
  <2> QED
    BY <2>1, <2>3, <2>4 DEF StoppingOK, WakeupOK, WaitWoken, StopWoken, ReturnOK,
                            QuietWhenNotRunning, Pending
<1>2. CASE StopBusy
  <2>1. /\ m_task_list' = <<>> /\ m_stopping' = TRUE /\ mpc' = "stopwait"
        /\ queue_flag' = FALSE /\ pc' = WakeAllWorkers(pc)
        /\ UNCHANGED <<m_running, ret, current, late>>
    BY <1>2 DEF StopBusy, FlushTasks
  <2>2. Active' = Active
    BY <1>0, <2>1, WakePerforming
  <2>3. Range(m_task_list') = {}
    BY <2>1 DEF Range
  <2> QED
    BY <2>1, <2>2, <2>3 DEF StoppingOK, WakeupOK, WaitWoken, StopWoken, ReturnOK,
                            QuietWhenNotRunning, Pending
<1>3. CASE StopFinish
  <2>1. /\ m_stopping' = FALSE /\ m_running' = FALSE
        /\ mpc = "stopwoken" /\ mpc' \in {"ready", "terminate"} /\ ret' \in {"none", "stopped"}
        /\ UNCHANGED <<m_task_list, pc, current, late>>
    BY <1>3 DEF StopFinish, StopReturns, AfterStop, workerVars
  <2>2. Active = {} /\ m_task_list = <<>>
    BY <2>1 DEF WakeupOK, StopWoken, StoppingOK
  <2>3. Active' = Active
    BY <1>0, <2>1, WakePerforming
  <2>4. Range(m_task_list') = {}
    BY <2>1, <2>2 DEF Range
  <2> QED
    BY <2>1, <2>2, <2>3, <2>4 DEF StoppingOK, WakeupOK, WaitWoken, StopWoken, ReturnOK,
                                  QuietWhenNotRunning, Pending
<1> QED
  BY <1>1, <1>2, <1>3

(* terminate() keeps the invariant of a run.                               *)
LEMMA RunTerminate ==
  ASSUME ThreadInv, RunInv, TerminateLock \/ TerminateFinish
  PROVE  RunInv'
<1> USE DEF RunInv
<1>0. TypeOK /\ m_task_list \in Seq(Tasks)
  BY DEF ThreadInv, TypeOK, JobTypeOK
<1>1. CASE TerminateLock
  <2>1. /\ mpc = "terminate" /\ mpc' = "join" /\ pc' = WakeAllWorkers(pc)
        /\ UNCHANGED <<m_task_list, m_stopping, m_running, ret, current, late>>
    BY <1>1 DEF TerminateLock, historyVars
  <2>2. Active' = Active
    BY <1>0, <2>1, WakePerforming
  <2> QED
    BY <2>1, <2>2 DEF StoppingOK, WakeupOK, WaitWoken, StopWoken, ReturnOK,
                      QuietWhenNotRunning, Pending
<1>2. CASE TerminateFinish
  <2>1. /\ mpc = "join" /\ mpc' \in {"ready", "dead"}
        /\ m_task_list' \in {<<>>, m_task_list}
        /\ pc' = [w \in Workers |-> "none"]
        /\ UNCHANGED <<m_stopping, m_running, ret, late>>
    BY <1>2 DEF TerminateFinish, Resize, Destroy, Terminated, FlushTasks
  <2>2. Active' = {}
    BY <2>1 DEF Active, Performing
  <2>3. Range(m_task_list') \subseteq Range(m_task_list)
    BY <2>1 DEF Range
  <2> QED
    BY <2>1, <2>2, <2>3 DEF StoppingOK, WakeupOK, WaitWoken, StopWoken, ReturnOK,
                            QuietWhenNotRunning, Pending
<1> QED
  BY <1>1, <1>2

(* Every step keeps the invariant of a run.                                *)
LEMMA RunStep ==
  ASSUME Condition # "pthread", ThreadInv, RunInv, [Next]_vars
  PROVE  RunInv'
<1>1. ASSUME NEW t \in Tasks, Schedule(t) PROVE RunInv'
  BY <1>1, RunSchedule DEF Schedule
<1>2. ASSUME NEW w \in Workers, NEW t \in Tasks, TaskSchedules(w, t) PROVE RunInv'
  <2>1. Active # {}
    BY <1>2 DEF TaskSchedules, Active
  <2> QED
    BY <1>2, <2>1, RunSchedule DEF TaskSchedules
<1>3. CASE UNCHANGED vars
  <2>1. UNCHANGED <<m_task_list, m_stopping, m_running, mpc, ret, queue_flag, pc, current, late>>
    BY <1>3 DEF vars, jobVars, workerVars, mainVars, condVars, historyVars
  <2>2. Active' = Active
    BY <2>1, WakePerforming DEF ThreadInv
  <2> QED
    BY <2>1, <2>2 DEF RunInv, StoppingOK, WakeupOK, WaitWoken, StopWoken, ReturnOK,
                      QuietWhenNotRunning, Pending
<1> QED
  BY <1>1, <1>2, <1>3, RunWorker, RunCall, RunStop, RunTerminate
  DEF Next, ControllerStep, ControllerCall, SpuriousWakeup, Destroyed

(* A new job satisfies the invariant of a run.                             *)
LEMMA RunInit == Init => RunInv
<1> SUFFICES ASSUME Init PROVE RunInv
  OBVIOUS
<1>1. Performing = {} /\ Range(m_task_list) = {}
  BY DEF Init, Performing, Range
<1>2. Pending = {} /\ Active = {}
  BY <1>1 DEF Pending, Active
<1> QED
  BY <1>2 DEF Init, RunInv, StoppingOK, WakeupOK, WaitWoken, StopWoken, ReturnOK,
              QuietWhenNotRunning

(* Without spurious wakeups (Qt and C++20 builds), a run is over only when *)
(* nothing of it is queued or performed.                                   *)
THEOREM RunInvariant ==
  ASSUME Condition # "pthread"
  PROVE  Spec => [](ThreadInv /\ RunInv)
<1>1. Init => ThreadInv /\ RunInv
  BY ThreadInit, RunInit
<1>2. ThreadInv /\ RunInv /\ [Next]_vars => (ThreadInv /\ RunInv)'
  BY ThreadStep, RunStep
<1> QED
  BY <1>1, <1>2, PTL DEF Spec

(* A job that is not running and not being stopped has no leftover task.   *)
THEOREM QuietCorrect ==
  ASSUME Condition # "pthread"
  PROVE  Spec => []QuietWhenNotRunning
<1>1. ThreadInv /\ RunInv => QuietWhenNotRunning
  BY DEF RunInv
<1> QED
  BY <1>1, RunInvariant, PTL

(* wait() that reports completion: every task of the run is through.       *)
THEOREM WaitCorrect ==
  ASSUME Condition # "pthread"
  PROVE  Spec => []WaitGuarantee
<1>1. ThreadInv /\ RunInv => WaitGuarantee
  BY DEF RunInv, ReturnOK, QuietWhenNotRunning, WaitGuarantee
<1> QED
  BY <1>1, RunInvariant, PTL

(* stop() of a running job: no worker is active and nothing is queued when *)
(* it returns.                                                             *)
THEOREM StopCorrect ==
  ASSUME Condition # "pthread"
  PROVE  Spec => []RunningStopGuarantee
<1>1. ASSUME ThreadInv, RunInv PROVE RunningStopGuarantee
  <2>1. m_task_list = <<>> => Range(m_task_list) = {}
    BY DEF Range
  <2> QED
    BY <1>1, <2>1 DEF RunInv, ReturnOK, RunningStopGuarantee, Pending
<1> QED
  BY <1>1, RunInvariant, PTL

-----------------------------------------------------------------------------
(* The job implements JobQueue.  A task is at one place only: no two       *)
(* entries of the queue and no two workers hold the same one.              *)

Distinct(s) == \A i, j \in DOMAIN s : s[i] = s[j] => i = j

OnceInv ==
  /\ Distinct(m_task_list)
  /\ Range(m_task_list) \intersect Active = {}
  /\ \A v, w \in Performing : current[v] = current[w] => v = w

(* Fetching a task leaves no second copy of it.                            *)
LEMMA DistinctTail ==
  ASSUME NEW S, NEW s \in Seq(S), s # <<>>, Distinct(s)
  PROVE  Distinct(Tail(s)) /\ Head(s) \notin Range(Tail(s))
<1>1. Len(Tail(s)) = Len(s) - 1 /\ Len(s) \in Nat /\ Head(s) = s[1]
  OBVIOUS
<1>2. \A i \in DOMAIN Tail(s) : i \in Nat /\ i + 1 \in DOMAIN s /\ Tail(s)[i] = s[i + 1]
  OBVIOUS
<1>3. 1 \in DOMAIN s /\ \A i \in DOMAIN Tail(s) : i + 1 # 1
  OBVIOUS
<1>4. Distinct(Tail(s))
  BY <1>2 DEF Distinct
<1>5. Head(s) \notin Range(Tail(s))
  BY <1>1, <1>2, <1>3 DEF Distinct, Range
<1> QED
  BY <1>4, <1>5

(* Putting a new task keeps the queue free of copies.                      *)
LEMMA DistinctAppend ==
  ASSUME NEW S, NEW s \in Seq(S), NEW e, e \notin Range(s), Distinct(s)
  PROVE  Distinct(Append(s, e))
<1>1. DOMAIN Append(s, e) = DOMAIN s \union {Len(s) + 1}
  OBVIOUS
<1>2. /\ \A i \in DOMAIN s : Append(s, e)[i] = s[i]
      /\ Append(s, e)[Len(s) + 1] = e
  OBVIOUS
<1> QED
  BY <1>1, <1>2 DEF Distinct, Range

(* Steps that neither move a task nor begin or end one.                    *)
LEMMA QueueStutters ==
  ASSUME OnceInv, SamePerforming, UNCHANGED <<m_task_list, done, dropped>>
  PROVE  OnceInv' /\ UNCHANGED Queue!queueVars
<1>1. Performing' = Performing /\ Active' = Active
  BY SameActive DEF SamePerforming, Performing
<1> QED
  BY <1>1 DEF SamePerforming, OnceInv, Queue!queueVars, Distinct

(* schedule() is Accept or Refuse of the abstract queue.                   *)
LEMMA QueueAccepts ==
  ASSUME TypeOK, OnceInv, NEW t \in Tasks, PutTask(t)
  PROVE  OnceInv' /\ (Queue!Accept(t) \/ Queue!Refuse(t))
<1>1. SamePerforming
  <2>1. pc' = pc \/ pc' = WakeAllWorkers(pc)
    BY DEF PutTask, WakeOnSchedule
  <2> QED
    BY <2>1, WakeKeeps DEF TypeOK, SamePerforming, PutTask
<1>2. Performing' = Performing /\ Active' = Active /\ current' = current
  BY <1>1, SameActive DEF SamePerforming, Performing
<1>3. m_task_list \in Seq(Tasks)
  BY DEF TypeOK, JobTypeOK
<1>4. t \notin Range(m_task_list) /\ t \notin Active /\ t \in Queue!Fresh
  BY DEF PutTask, Used, Pending, Queue!Fresh, Range, Queue!Range
<1>5. CASE MayAccept
  <2>1. m_task_list' = Append(m_task_list, t) /\ UNCHANGED <<done, dropped>>
    BY <1>5 DEF PutTask
  <2>2. Distinct(m_task_list') /\ Range(m_task_list') = Range(m_task_list) \union {t}
    BY <1>3, <1>4, <2>1, DistinctAppend, RangeAppend DEF OnceInv
  <2> QED
    BY <1>2, <1>4, <2>1, <2>2 DEF OnceInv, Queue!Accept
<1>6. CASE ~MayAccept
  <2>1. dropped' = dropped \union {t} /\ UNCHANGED <<m_task_list, done>>
    BY <1>6 DEF PutTask
  <2> QED
    BY <1>2, <1>4, <2>1 DEF OnceInv, Distinct, Queue!Refuse
<1> QED
  BY <1>5, <1>6

(* Fetching a task is Begin of the abstract queue.                         *)
LEMMA QueueBegins ==
  ASSUME TypeOK, OnceInv, NEW w \in Workers, FetchTask(w)
  PROVE  OnceInv' /\ Queue!Begin
<1>1. /\ m_task_list # <<>> /\ m_task_list' = Tail(m_task_list)
      /\ AtLock(w) /\ UNCHANGED <<done, dropped>>
      /\ pc' = [pc EXCEPT ![w] = "perform"]
      /\ current' = [current EXCEPT ![w] = Head(m_task_list)]
  BY DEF FetchTask, NextTask, historyVars
<1>2. /\ pc \in [Workers -> WorkerStates] /\ m_task_list \in Seq(Tasks)
      /\ current \in [Workers -> Tasks \union {NoTask}]
  BY DEF TypeOK, WorkerTypeOK, JobTypeOK
<1>3. Performing' = Performing \union {w} /\ w \notin Performing
  BY <1>1, <1>2 DEF Performing, AtLock
<1>4. \A v \in Performing' : current'[v] = IF v = w THEN Head(m_task_list) ELSE current[v]
  BY <1>1, <1>2 DEF Performing
<1>5. Active' = Active \union {Head(m_task_list)}
  BY <1>3, <1>4 DEF Active
<1>6. Head(m_task_list) \in Range(m_task_list) /\ Range(m_task_list') \subseteq Range(m_task_list)
  BY <1>1, <1>2, RangeTail
<1>7. Distinct(m_task_list') /\ Head(m_task_list) \notin Range(m_task_list')
  BY <1>1, <1>2, DistinctTail DEF OnceInv
<1>8. Head(m_task_list) \notin Active
  BY <1>6 DEF OnceInv
<1>9. \A u, v \in Performing' : current'[u] = current'[v] => u = v
  BY <1>3, <1>4, <1>8 DEF OnceInv, Active
<1>10. Range(m_task_list') \intersect Active' = {}
  BY <1>5, <1>6, <1>7 DEF OnceInv
<1> QED
  BY <1>1, <1>5, <1>7, <1>9, <1>10 DEF OnceInv, Queue!Begin

(* A task that returns, throws or aborts is End or Abort.                  *)
LEMMA QueueEnds ==
  ASSUME TypeOK, OnceInv, NEW w \in Workers, TaskDone(w) \/ TaskAborted(w) \/ TaskThrows(w)
  PROVE  OnceInv' /\ (Queue!End(current[w]) \/ Queue!Abort(current[w])) /\ current[w] \in Tasks
<1>1. /\ w \in Performing /\ UNCHANGED m_task_list
      /\ pc'[w] # "perform"
      /\ \A v \in Workers \ {w} : pc'[v] = pc[v] /\ current'[v] = current[v]
  BY DEF TaskDone, TaskAborted, TaskThrows, jobVars, AfterError, TypeOK, WorkerTypeOK
<1>2. Performing' = Performing \ {w}
  BY <1>1 DEF Performing
<1>3. \A v \in Performing' : current'[v] = current[v]
  BY <1>1, <1>2 DEF Performing
<1>4. Active' = Active \ {current[w]} /\ current[w] \in Active
  BY <1>1, <1>2, <1>3 DEF Active, OnceInv
<1>5. OnceInv'
  BY <1>1, <1>2, <1>3, <1>4 DEF OnceInv, Distinct
<1>6. \/ done' = done \union {current[w]} /\ UNCHANGED dropped
      \/ dropped' = dropped \union {current[w]} /\ UNCHANGED done
  BY DEF TaskDone, TaskAborted, TaskThrows
<1>7. current[w] \in Tasks
  BY <1>1 DEF Performing, TypeOK, WorkerTypeOK
<1> QED
  BY <1>1, <1>4, <1>5, <1>6, <1>7 DEF Queue!End, Queue!Abort

(* Flushing is Flush of the abstract queue.                                *)
LEMMA QueueFlushes ==
  ASSUME OnceInv, FlushTasks, UNCHANGED done, SamePerforming
  PROVE  OnceInv' /\ Queue!Flush
<1>1. Performing' = Performing /\ Active' = Active /\ current' = current
  BY SameActive DEF SamePerforming, Performing
<1>2. m_task_list' = <<>>
  BY DEF FlushTasks
<1>3. Distinct(m_task_list') /\ Range(m_task_list') = {}
  BY <1>2 DEF Distinct, Range
<1> QED
  BY <1>1, <1>3 DEF OnceInv, Queue!Flush, FlushTasks, Range, Queue!Range

(* Every step is a step of the abstract queue or a stutter.                *)
LEMMA QueueStep ==
  ASSUME ThreadInv, OnceInv, [Next]_vars
  PROVE  OnceInv' /\ [Queue!Next]_(Queue!queueVars)
<1>0. TypeOK /\ pc \in [Workers -> WorkerStates]
  BY DEF ThreadInv, TypeOK, WorkerTypeOK
<1>1. ASSUME NEW t \in Tasks, Schedule(t) \/ \E w \in Workers : TaskSchedules(w, t)
      PROVE  OnceInv' /\ Queue!Next
  BY <1>0, <1>1, QueueAccepts DEF Schedule, TaskSchedules, Queue!Next
<1>2. ASSUME NEW w \in Workers, FetchTask(w) PROVE OnceInv' /\ Queue!Next
  BY <1>0, <1>2, QueueBegins DEF Queue!Next
<1>3. ASSUME NEW w \in Workers, TaskDone(w) \/ TaskAborted(w) \/ TaskThrows(w)
      PROVE  OnceInv' /\ Queue!Next
  BY <1>0, <1>3, QueueEnds DEF Queue!Next
<1>4. ASSUME NEW w \in Workers,
             WorkerWakes(w) \/ Rewait(w) \/ FetchOwn(w) \/ LogError(w) \/ GoIdle(w)
      PROVE  OnceInv' /\ UNCHANGED Queue!queueVars
  <2>1. SamePerforming
    BY <1>0, <1>4 DEF SamePerforming, WorkerWakes, Rewait, FetchOwn, LogError, GoIdle, AtLock
  <2>2. UNCHANGED <<m_task_list, done, dropped>>
    BY <1>4 DEF WorkerWakes, Rewait, FetchOwn, LogError, GoIdle, jobVars, historyVars
  <2> QED
    BY <2>1, <2>2, QueueStutters
<1>5. CASE StopIdle \/ StopBusy
  <2>1. SamePerforming
    BY <1>0, <1>5, WakeKeeps DEF TypeOK, SamePerforming, StopIdle, StopBusy, workerVars
  <2>2. FlushTasks /\ UNCHANGED done
    BY <1>5 DEF StopIdle, StopBusy
  <2> QED
    BY <2>1, <2>2, QueueFlushes DEF Queue!Next
<1>6. CASE TerminateFinish
  <2>1. /\ \A w \in Workers : pc[w] # "perform"
        /\ pc' = [w \in Workers |-> "none"] /\ UNCHANGED <<current, done>>
    BY <1>6 DEF TerminateFinish, Joined, Live
  <2>2. SamePerforming
    BY <2>1 DEF SamePerforming
  <2>3. FlushTasks \/ UNCHANGED <<m_task_list, dropped>>
    BY <1>6 DEF TerminateFinish, Resize, Destroy, Terminated
  <2> QED
    BY <2>1, <2>2, <2>3, QueueFlushes, QueueStutters DEF Queue!Next
<1>7. CASE Start \/ TerminateLock \/ UNCHANGED vars
           \/ WaitCall \/ WaitTimeout \/ WaitReturn \/ StopCall \/ StopFinish \/ ControllerWakes
  <2>1. UNCHANGED <<m_task_list, done, dropped, current>>
    BY <1>7 DEF Start, TerminateLock, WaitCall, WaitTimeout, WaitReturn, StopCall, StopFinish,
                ControllerWakes, vars, jobVars, workerVars, historyVars
  <2>2. SamePerforming
    <3>1. CASE Start
      <4>1. CASE Live = {}
        BY <3>1, <4>1 DEF Start, EnsureWorkers, Live, SamePerforming
      <4>2. CASE Live # {}
        BY <1>0, <3>1, <4>2, WakeKeeps DEF TypeOK, Start, EnsureWorkers, SamePerforming
      <4> QED
        BY <4>1, <4>2
    <3>2. CASE TerminateLock
      BY <1>0, <3>2, WakeKeeps DEF TypeOK, TerminateLock, SamePerforming
    <3>3. CASE UNCHANGED pc
      BY <2>1, <3>3 DEF SamePerforming
    <3> QED
      BY <1>7, <3>1, <3>2, <3>3 DEF WaitCall, WaitTimeout, WaitReturn, StopCall, StopFinish,
         ControllerWakes, vars, workerVars
  <2> QED
    BY <2>1, <2>2, QueueStutters
<1> QED
  BY <1>1, <1>2, <1>3, <1>4, <1>5, <1>6, <1>7
  DEF Next, WorkerStep, WorkerSeesFlag, ControllerCall, ControllerStep, ControllerSeesFlag,
      SpuriousWakeup, Destroyed

(* Order of processing, at most once, nothing lost: with any condition     *)
(* variable, any number of workers and of runs, and any mix of calls.      *)
THEOREM JobImplementsQueue == Spec => QueueSpec
<1>1. Init => OnceInv /\ Queue!Init
  <2> SUFFICES ASSUME Init PROVE OnceInv /\ Queue!Init
    OBVIOUS
  <2>1. Performing = {}
    BY DEF Init, Performing
  <2>2. Active = {}
    BY <2>1 DEF Active
  <2>3. m_task_list = <<>> /\ done = {} /\ dropped = {}
    BY DEF Init
  <2> QED
    BY <2>1, <2>2, <2>3 DEF OnceInv, Distinct, Queue!Init
<1>2. ThreadInv /\ OnceInv /\ [Next]_vars => OnceInv' /\ [Queue!Next]_(Queue!queueVars)
  BY QueueStep
<1> QED
  BY <1>1, <1>2, ThreadInvariant, PTL DEF Spec, QueueSpec, Queue!Spec

-----------------------------------------------------------------------------
(* Jobs whose tasks are scheduled by other tasks, or while there are no    *)
(* worker threads: these have nothing left to do when a run is over.       *)

Logging == {w \in Workers : pc[w] = "logging"}

RestInv ==
  /\ ~m_running => Performing = {} /\ Logging = {} /\ (m_task_list = <<>> \/ Live = {})
  /\ ret \in {"done", "notrunning"} => ~m_running

(* Who waits for a task neither performs one nor logs an error.            *)
LEMMA IdleRests ==
  ASSUME ThreadInv, Live \subseteq Idle
  PROVE  Performing = {} /\ Logging = {}
BY DEF Live, Idle, Performing, Logging

(* The last worker that goes idle leaves all of them idle.                 *)
LEMMA AllIdleRests ==
  ASSUME ThreadInv, NEW w \in Workers, GoIdle(w), AllIdle(m_idle_workers + 1)
  PROVE  /\ Performing' = {} /\ Logging' = {} /\ m_task_list' = <<>>
         /\ \A v \in Workers : pc'[v] \in {"none", "waiting", "woken"}
<1>1. /\ pc[w] = "enter" /\ pc' = [pc EXCEPT ![w] = "waiting"]
      /\ m_task_list = <<>> /\ m_task_list' = m_task_list /\ m_idle_workers + 1 = m_nworkers
  BY DEF GoIdle, TaskAvailable, AllIdle
<1>2. pc \in [Workers -> WorkerStates] /\ m_nworkers \in Workers
  BY DEF ThreadInv, TypeOK, WorkerTypeOK, JobTypeOK
<1>3. m_nworkers \in Nat
  BY <1>2, WorkersAssumption DEF Workers
<1>4. Live = 1..m_nworkers
  BY <1>1 DEF ThreadInv, ThreadsOK, Live
<1>5. IsFiniteSet(Live) /\ Cardinality(Live) = m_nworkers
  BY <1>3, <1>4, FS_Interval
<1>6. Idle \subseteq Live /\ w \in Live \ Idle
  BY <1>1 DEF Idle, Live
<1>7. Idle \union {w} = Live
  <2>1. IsFiniteSet(Idle) /\ Cardinality(Idle) \in Nat
    BY WorkersFinite DEF Idle
  <2>2. Cardinality(Idle \union {w}) = Cardinality(Idle) + 1
    BY <1>6, <2>1, FS_AddElement
  <2>3. Cardinality(Idle \union {w}) = m_nworkers
    BY <1>1, <2>2 DEF ThreadInv, IdleCount
  <2> QED
    BY <1>5, <1>6, <2>3, FS_Subset
<1>8. \A v \in Workers : v = w \/ pc[v] \in {"none", "waiting", "woken"}
  BY <1>7 DEF Live, Idle
<1>9. \A v \in Workers : pc'[v] \in {"none", "waiting", "woken"}
  BY <1>1, <1>2, <1>8
<1> QED
  BY <1>1, <1>9 DEF Performing, Logging

LEMMA RestStep ==
  ASSUME Condition # "pthread", ~LateScheduling, ThreadInv, RunInv, RestInv, [Next]_vars
  PROVE  RestInv'
<1>0. /\ TypeOK /\ pc \in [Workers -> WorkerStates]
      /\ \A w \in Workers : /\ WakeAllWorkers(pc)[w] = "none" <=> pc[w] = "none"
                            /\ WakeAllWorkers(pc)[w] = "perform" <=> pc[w] = "perform"
                            /\ WakeAllWorkers(pc)[w] = "logging" <=> pc[w] = "logging"
  BY WakeKeeps DEF ThreadInv, TypeOK, WorkerTypeOK, WakeAllWorkers, WorkerStates
<1>1. ASSUME NEW t \in Tasks, Schedule(t) PROVE RestInv'
  <2>1. Live = {} /\ ret' = "none" /\ UNCHANGED m_running /\ PutTask(t)
    BY <1>1 DEF Schedule, PutTask
  <2>2. pc' = pc \/ pc' = WakeAllWorkers(pc)
    BY <2>1 DEF PutTask, WakeOnSchedule
  <2>3. Live' = {} /\ Performing' = {} /\ Logging' = {}
    BY <1>0, <2>1, <2>2 DEF Live, Performing, Logging
  <2> QED
    BY <2>1, <2>3 DEF RestInv
<1>2. ASSUME NEW w \in Workers, NEW t \in Tasks, TaskSchedules(w, t) PROVE RestInv'
  <2>1. m_running /\ m_running' = m_running /\ ret' = ret
    BY <1>2 DEF TaskSchedules, PutTask, RestInv
  <2> QED
    BY <2>1 DEF RestInv
<1>3. ASSUME NEW w \in Workers, WorkerStep(w) \/ WorkerWakes(w) PROVE RestInv'
  <2>1. ret' = ret
    BY <1>3 DEF WorkerStep, WorkerSeesFlag, WorkerWakes, FetchOwn, FetchTask, GoIdle, Rewait, TaskDone,
          TaskAborted, TaskThrows, LogError, mainVars
  <2>2. CASE GoIdle(w) /\ AllIdle(m_idle_workers + 1)
    <3>1. m_running' = FALSE
      BY <2>2 DEF GoIdle
    <3> QED
      BY <2>1, <2>2, <3>1, AllIdleRests DEF RestInv
  <2>3. CASE ~(GoIdle(w) /\ AllIdle(m_idle_workers + 1))
    <3>1. m_running' = m_running
      BY <1>3, <2>3 DEF WorkerStep, WorkerSeesFlag, WorkerWakes, FetchOwn, FetchTask, GoIdle, Rewait, TaskDone,
            TaskAborted, TaskThrows, LogError, jobVars
    <3>2. SUFFICES ASSUME ~m_running PROVE Performing' = {} /\ Logging' = {} /\ (m_task_list' = <<>> \/ Live' = {})
      BY <2>1, <3>1 DEF RestInv
    <3>3. Performing = {} /\ Logging = {} /\ (m_task_list = <<>> \/ Live = {})
      BY <3>2 DEF RestInv
    <3>4. ~(TaskDone(w) \/ TaskAborted(w) \/ TaskThrows(w) \/ LogError(w))
      BY <3>3 DEF TaskDone, TaskAborted, TaskThrows, LogError, Logging
    <3>5. ~FetchTask(w)
      BY <3>3 DEF FetchTask, AtLock, Live
    <3>6. /\ \E s \in {"enter", "waiting", "woken", "exited"} : pc' = [pc EXCEPT ![w] = s]
          /\ pc[w] # "none" /\ m_task_list' = m_task_list
      BY <1>3, <3>4, <3>5 DEF WorkerStep, WorkerSeesFlag, WorkerWakes, FetchOwn, GoIdle, Rewait, AtLock, jobVars
    <3> QED
      BY <1>0, <3>3, <3>6 DEF Performing, Logging, Live
  <2> QED
    BY <2>2, <2>3
<1>4. CASE Start
  BY <1>4 DEF Start, RestInv
<1>5. CASE WaitCall \/ WaitTimeout \/ WaitReturn \/ StopCall \/ ControllerWakes
  <2>1. UNCHANGED <<m_running, m_task_list, pc>>
    BY <1>5 DEF WaitCall, WaitTimeout, WaitReturn, StopCall, ControllerWakes, jobVars, workerVars
  <2>2. ret' \in {"done", "notrunning"} => ~m_running
    BY <1>5 DEF RestInv, WaitCall, MustWait, WaitTimeout, WaitReturn, StopCall, ControllerWakes, RunInv, WakeupOK,
          WaitWoken
  <2> QED
    BY <2>1, <2>2 DEF RestInv, Performing, Logging, Live
<1>6. CASE StopIdle
  <2>1. /\ Busy = {} /\ m_task_list' = <<>> /\ m_running' = FALSE /\ UNCHANGED pc
    BY <1>6 DEF StopIdle, FlushTasks, StopReturns, workerVars
  <2>2. Live \subseteq Idle
    BY <2>1 DEF Busy, Live, ThreadInv, IdleFlag
  <2> QED
    BY <2>1, <2>2, IdleRests DEF RestInv, Performing, Logging
<1>7. CASE StopBusy
  <2>1. m_task_list' = <<>> /\ pc' = WakeAllWorkers(pc) /\ UNCHANGED <<m_running, ret>>
    BY <1>7 DEF StopBusy, FlushTasks
  <2> QED
    BY <1>0, <2>1 DEF RestInv, Performing, Logging
<1>8. CASE StopFinish
  <2>1. /\ m_running' = FALSE /\ UNCHANGED <<m_task_list, pc>> /\ ~m_running
    BY <1>8 DEF StopFinish, StopReturns, workerVars, RunInv, WakeupOK, StopWoken
  <2> QED
    BY <2>1 DEF RestInv, Performing, Logging, Live
<1>9. CASE TerminateLock
  <2>1. pc' = WakeAllWorkers(pc) /\ UNCHANGED <<m_task_list, m_running, ret>>
    BY <1>9 DEF TerminateLock
  <2> QED
    BY <1>0, <2>1 DEF RestInv, Performing, Logging, Live
<1>10. CASE TerminateFinish
  <2>1. pc' = [w \in Workers |-> "none"] /\ UNCHANGED <<m_running, ret>>
    BY <1>10 DEF TerminateFinish
  <2> QED
    BY <2>1 DEF RestInv, Performing, Logging, Live
<1>11. CASE UNCHANGED vars
  <2>1. UNCHANGED <<m_running, ret, m_task_list, pc>>
    BY <1>11 DEF vars, jobVars, workerVars, mainVars
  <2> QED
    BY <2>1 DEF RestInv, Performing, Logging, Live
<1> QED
  BY <1>1, <1>2, <1>3, <1>4, <1>5, <1>6, <1>7, <1>8, <1>9, <1>10, <1>11
  DEF Next, ControllerCall, ControllerStep, ControllerSeesFlag, SpuriousWakeup, Destroyed

LEMMA RestInvariant ==
  ASSUME Condition # "pthread", ~LateScheduling
  PROVE  Spec => [](ThreadInv /\ RunInv /\ RestInv)
<1>1. Init => ThreadInv /\ RunInv /\ RestInv
  <2>1. Init => RestInv
    BY DEF Init, RestInv, Performing, Logging
  <2> QED
    BY <2>1, ThreadInit, RunInit
<1>2. ThreadInv /\ RunInv /\ RestInv /\ [Next]_vars => (ThreadInv /\ RunInv /\ RestInv)'
  BY ThreadStep, RunStep, RestStep
<1> QED
  BY <1>1, <1>2, PTL DEF Spec

(* "No worker is active after stop has been called", also when stop() did  *)
(* not find the job running.                                               *)
THEOREM StopGuaranteed ==
  ASSUME Condition # "pthread", ~LateScheduling
  PROVE  Spec => []StopGuarantee
<1>1. ASSUME ThreadInv, RunInv, RestInv PROVE StopGuarantee
  BY <1>1 DEF RunInv, ReturnOK, RestInv, StopGuarantee, Active
<1> QED
  BY <1>1, RestInvariant, PTL

-----------------------------------------------------------------------------
(* The error list of a run: what n calls of log_error leave there.         *)
Listed(n) ==
  [i \in 1..(IF n <= MaxErrors THEN n ELSE MaxErrors + 1) |->
     IF i <= MaxErrors THEN "error" ELSE "abbreviated"]

(* A task that was performed is not queued and not performed again.        *)
DoneInv == done \intersect Pending = {}

(* Tasks that threw were performed, and each of them is in the list or     *)
(* with a worker that is about to put it there.                            *)
ErrorInv ==
  /\ failed \subseteq done /\ IsFiniteSet(failed)
  /\ \E n \in Nat : /\ Cardinality(failed) = n + Cardinality(Logging)
                    /\ m_error_messages = Listed(n)

(* One more error gives the list of one more error.                        *)
LEMMA ListedNext ==
  ASSUME NEW n \in Nat
  PROVE  AddError(Listed(n)) = Listed(n + 1) /\ Listed(0) = <<>>
<1> USE ErrorsAssumption
<1>1. Listed(0) = <<>>
  BY DEF Listed
<1>2. CASE n < MaxErrors
  <2>1. Listed(n) = [i \in 1..n |-> "error"] /\ Listed(n + 1) = [i \in 1..(n + 1) |-> "error"]
    BY <1>2 DEF Listed
  <2>2. Listed(n) \in Seq({"error"}) /\ Len(Listed(n)) = n
    BY <2>1
  <2>3. AddError(Listed(n)) = Append(Listed(n), "error")
    BY <1>2, <2>2 DEF AddError
  <2> QED
    BY <1>1, <2>1, <2>2, <2>3
<1>3. CASE n = MaxErrors
  <2>1. Listed(n) = [i \in 1..n |-> "error"]
    BY <1>3 DEF Listed
  <2>2. Listed(n + 1) = [i \in 1..(n + 1) |-> IF i <= n THEN "error" ELSE "abbreviated"]
    BY <1>3 DEF Listed
  <2>3. Listed(n) \in Seq({"error"}) /\ Len(Listed(n)) = n
    BY <2>1
  <2>4. AddError(Listed(n)) = Append(Listed(n), "abbreviated")
    BY <1>3, <2>3 DEF AddError
  <2> QED
    BY <1>1, <2>1, <2>2, <2>3, <2>4
<1>4. CASE n > MaxErrors
  <2>1. Listed(n + 1) = Listed(n)
    BY <1>4 DEF Listed
  <2>2. Len(Listed(n)) = MaxErrors + 1
    BY <1>4 DEF Listed
  <2>3. AddError(Listed(n)) = Listed(n)
    BY <2>2 DEF AddError
  <2> QED
    BY <1>1, <2>1, <2>3
<1> QED
  BY <1>2, <1>3, <1>4

(* A task that was performed does not come back.                           *)
LEMMA DoneStep ==
  ASSUME ThreadInv, OnceInv, DoneInv, [Next]_vars
  PROVE  DoneInv'
<1>1. OnceInv' /\ [Queue!Next]_(Queue!queueVars)
  BY QueueStep
<1>2. m_task_list \in Seq(Tasks)
  BY DEF ThreadInv, TypeOK, JobTypeOK
<1>3. CASE Queue!Begin
  <2>1. Range(Tail(m_task_list)) \subseteq Range(m_task_list) /\ Head(m_task_list) \in Range(m_task_list)
    BY <1>2, <1>3, RangeTail DEF Queue!Begin
  <2> QED
    BY <1>3, <2>1 DEF Queue!Begin, DoneInv, Pending
<1>4. CASE Queue!Flush
  <2>1. Range(m_task_list') = {}
    BY <1>4 DEF Queue!Flush, Range
  <2> QED
    BY <1>4, <2>1 DEF Queue!Flush, DoneInv, Pending
<1>5. ASSUME NEW t \in Tasks, Queue!Accept(t) PROVE DoneInv'
  <2>1. Range(m_task_list') = Range(m_task_list) \union {t}
    BY <1>2, <1>5, RangeAppend DEF Queue!Accept
  <2>2. t \notin done
    BY <1>5 DEF Queue!Accept, Queue!Fresh
  <2> QED
    BY <1>5, <2>1, <2>2 DEF Queue!Accept, DoneInv, Pending
<1>6. ASSUME NEW t \in Tasks, Queue!Refuse(t) PROVE DoneInv'
  BY <1>6 DEF Queue!Refuse, DoneInv, Pending
<1>7. ASSUME NEW t \in Tasks, Queue!End(t) PROVE DoneInv'
  <2>1. t \in Active /\ Active' = Active \ {t} /\ m_task_list' = m_task_list /\ done' = done \union {t}
    BY <1>7 DEF Queue!End
  <2>2. t \notin Range(m_task_list)
    BY <2>1 DEF OnceInv
  <2> QED
    BY <2>1, <2>2 DEF DoneInv, Pending
<1>8. ASSUME NEW t \in Tasks, Queue!Abort(t) PROVE DoneInv'
  BY <1>8 DEF Queue!Abort, DoneInv, Pending
<1>9. CASE UNCHANGED Queue!queueVars
  BY <1>9 DEF Queue!queueVars, DoneInv, Pending
<1> QED
  BY <1>1, <1>3, <1>4, <1>5, <1>6, <1>7, <1>8, <1>9 DEF Queue!Next

(* Steps that raise no error and log none.                                 *)
LEMMA ErrorStutters ==
  ASSUME ErrorInv, UNCHANGED <<failed, m_error_messages>>, Logging' = Logging,
         done \subseteq done'
  PROVE  ErrorInv'
BY DEF ErrorInv

LEMMA ErrorStep ==
  ASSUME Condition # "pthread", ~LateScheduling,
         ThreadInv, RestInv, DoneInv, ErrorInv, [Next]_vars
  PROVE  ErrorInv'
<1>0. /\ TypeOK /\ pc \in [Workers -> WorkerStates]
      /\ \A w \in Workers : WakeAllWorkers(pc)[w] = "logging" <=> pc[w] = "logging"
  BY DEF ThreadInv, TypeOK, WorkerTypeOK, WakeAllWorkers, WorkerStates
<1>1. ASSUME NEW t \in Tasks, PutTask(t) PROVE ErrorInv'
  <2>1. /\ UNCHANGED <<failed, m_error_messages, done>>
        /\ pc' = pc \/ pc' = WakeAllWorkers(pc)
    BY <1>1 DEF PutTask, WakeOnSchedule
  <2> QED
    BY <1>0, <2>1, ErrorStutters DEF Logging
<1>2. ASSUME NEW w \in Workers, WorkerWakes(w) \/ FetchOwn(w) \/ FetchTask(w) \/ GoIdle(w) \/ Rewait(w)
      PROVE  ErrorInv'
  <2>1. UNCHANGED <<failed, m_error_messages, done>>
    BY <1>2 DEF WorkerWakes, FetchOwn, FetchTask, GoIdle, Rewait, jobVars, historyVars
  <2>2. /\ pc[w] # "logging"
        /\ \E s \in WorkerStates \ {"logging"} : pc' = [pc EXCEPT ![w] = s]
    BY <1>2 DEF WorkerWakes, FetchOwn, FetchTask, GoIdle, Rewait, AtLock, WorkerStates
  <2>3. Logging' = Logging
    BY <1>0, <2>2 DEF Logging
  <2> QED
    BY <2>1, <2>3, ErrorStutters
<1>3. ASSUME NEW w \in Workers, TaskDone(w) \/ TaskAborted(w) PROVE ErrorInv'
  <2>1. UNCHANGED <<failed, m_error_messages>> /\ done \subseteq done'
    BY <1>3 DEF TaskDone, TaskAborted, jobVars
  <2>2. pc[w] = "perform" /\ pc' = [pc EXCEPT ![w] = "enter"]
    BY <1>3 DEF TaskDone, TaskAborted, Performing
  <2>3. Logging' = Logging
    BY <1>0, <2>2 DEF Logging
  <2> QED
    BY <2>1, <2>3, ErrorStutters
<1>4. ASSUME NEW w \in Workers, TaskThrows(w) PROVE ErrorInv'
  <2>1. /\ w \in Performing /\ pc' = [pc EXCEPT ![w] = "logging"]
        /\ done' = done \union {current[w]} /\ failed' = failed \union {current[w]}
        /\ m_error_messages' = m_error_messages
    BY <1>4 DEF TaskThrows, AfterError, jobVars
  <2>2. current[w] \notin failed
    BY <2>1 DEF DoneInv, ErrorInv, Pending, Active
  <2>3. w \notin Logging /\ Logging' = Logging \union {w}
    BY <1>0, <2>1 DEF Logging, Performing
  <2>4. IsFiniteSet(Logging) /\ Cardinality(Logging) \in Nat
    BY WorkersFinite DEF Logging
  <2>5. Cardinality(Logging') = Cardinality(Logging) + 1
    BY <2>3, <2>4, FS_AddElement
  <2>6. IsFiniteSet(failed') /\ Cardinality(failed') = Cardinality(failed) + 1
    BY <2>1, <2>2, FS_AddElement DEF ErrorInv
  <2>7. PICK n \in Nat : Cardinality(failed) = n + Cardinality(Logging) /\ m_error_messages = Listed(n)
    BY DEF ErrorInv
  <2>8. Cardinality(failed') = n + Cardinality(Logging')
    BY <2>4, <2>5, <2>6, <2>7
  <2> QED
    BY <2>1, <2>6, <2>7, <2>8 DEF ErrorInv
<1>5. ASSUME NEW w \in Workers, LogError(w) PROVE ErrorInv'
  <2>1. /\ pc[w] = "logging" /\ pc' = [pc EXCEPT ![w] = "enter"]
        /\ UNCHANGED <<done, failed>>
        /\ m_error_messages' = AddError(m_error_messages)
    BY <1>5 DEF LogError, historyVars
  <2>2. w \in Logging /\ Logging' = Logging \ {w}
    BY <1>0, <2>1 DEF Logging
  <2>3. IsFiniteSet(Logging) /\ Cardinality(Logging) \in Nat /\ Cardinality(Logging') \in Nat
    BY WorkersFinite DEF Logging
  <2>4. Cardinality(Logging') = Cardinality(Logging) - 1
    BY <2>2, <2>3, FS_RemoveElement
  <2>5. PICK n \in Nat : Cardinality(failed) = n + Cardinality(Logging) /\ m_error_messages = Listed(n)
    BY DEF ErrorInv
  <2>6. Cardinality(failed') = (n + 1) + Cardinality(Logging')
    BY <2>1, <2>3, <2>4, <2>5
  <2>7. m_error_messages' = Listed(n + 1)
    BY <2>1, <2>5, ListedNext
  <2> QED
    BY <2>1, <2>6, <2>7 DEF ErrorInv
<1>6. CASE Start
  <2>1. failed' = {} /\ m_error_messages' = <<>> /\ Logging = {} /\ pc' = EnsureWorkers(pc)
    BY <1>6 DEF Start, ResetErrors, RestInv
  <2>2. Logging' = {}
    BY <1>0, <2>1 DEF Logging, EnsureWorkers
  <2>3. Cardinality(failed') = 0 + Cardinality(Logging') /\ IsFiniteSet(failed')
    BY <2>1, <2>2, FS_EmptySet
  <2>4. m_error_messages' = Listed(0)
    BY <2>1, ListedNext
  <2> QED
    BY <2>1, <2>3, <2>4 DEF ErrorInv
<1>7. CASE TerminateFinish
  <2>1. pc' = [w \in Workers |-> "none"] /\ UNCHANGED <<failed, done, m_error_messages>>
    BY <1>7 DEF TerminateFinish
  <2>2. Logging = {}
    BY <1>7 DEF TerminateFinish, Joined, Live, Logging
  <2>3. Logging' = Logging
    BY <2>1, <2>2 DEF Logging
  <2> QED
    BY <2>1, <2>3, ErrorStutters
<1>8. CASE StopBusy \/ TerminateLock
  <2>1. pc' = WakeAllWorkers(pc) /\ UNCHANGED <<failed, done, m_error_messages>>
    BY <1>8 DEF StopBusy, TerminateLock, historyVars
  <2>2. Logging' = Logging
    BY <1>0, <2>1 DEF Logging
  <2> QED
    BY <2>1, <2>2, ErrorStutters
<1>9. CASE WaitCall \/ WaitTimeout \/ WaitReturn \/ StopCall \/ ControllerWakes \/ StopIdle \/ StopFinish
           \/ UNCHANGED vars
  <2>1. UNCHANGED <<failed, done, m_error_messages, pc>>
    BY <1>9 DEF WaitCall, WaitTimeout, WaitReturn, StopCall, ControllerWakes, StopIdle, StopFinish,
         vars, jobVars, workerVars, historyVars
  <2>2. Logging' = Logging
    BY <2>1 DEF Logging
  <2> QED
    BY <2>1, <2>2, ErrorStutters
<1> QED
  BY <1>1, <1>2, <1>3, <1>4, <1>5, <1>6, <1>7, <1>8, <1>9
  DEF Next, Schedule, TaskSchedules, WorkerStep, WorkerSeesFlag, ControllerCall, ControllerStep,
      ControllerSeesFlag, SpuriousWakeup, Destroyed

(* The error list a completed wait() leaves to the caller is that of all   *)
(* tasks that threw, whatever order the workers logged them in.            *)
THEOREM ErrorsReportedCorrect ==
  ASSUME Condition # "pthread", ~LateScheduling
  PROVE  Spec => []ErrorsReported
<1>1. Init => OnceInv /\ DoneInv /\ ErrorInv
  <2> SUFFICES ASSUME Init PROVE OnceInv /\ DoneInv /\ ErrorInv
    OBVIOUS
  <2>1. Performing = {} /\ Logging = {}
    BY DEF Init, Performing, Logging
  <2>2. /\ m_task_list = <<>> /\ done = {} /\ dropped = {} /\ failed = {} /\ m_error_messages = <<>>
    BY DEF Init
  <2>6. Active = {}
    BY <2>1 DEF Active
  <2>3. OnceInv /\ DoneInv
    BY <2>1, <2>2, <2>6 DEF OnceInv, Distinct, DoneInv
  <2>4. Cardinality(failed) = 0 + Cardinality(Logging) /\ IsFiniteSet(failed)
    BY <2>1, <2>2, FS_EmptySet
  <2>5. m_error_messages = Listed(0)
    BY <2>2, ListedNext
  <2> QED
    BY <2>2, <2>3, <2>4, <2>5 DEF ErrorInv
<1>2. ThreadInv /\ RestInv /\ OnceInv /\ DoneInv /\ ErrorInv /\ [Next]_vars => (OnceInv /\ DoneInv /\ ErrorInv)'
  BY QueueStep, DoneStep, ErrorStep
<1>3. ASSUME RestInv, ErrorInv, ret = "done" PROVE ErrorsReported
  <2>1. Logging = {}
    BY <1>3 DEF RestInv
  <2>2. PICK n \in Nat : Cardinality(failed) = n + Cardinality(Logging) /\ m_error_messages = Listed(n)
    BY <1>3 DEF ErrorInv
  <2>3. Cardinality(failed) = n
    BY <2>1, <2>2, FS_EmptySet
  <2>4. CASE n <= MaxErrors
    BY <2>2, <2>3, <2>4, ErrorsAssumption DEF Listed, ErrorsReported
  <2>5. CASE ~(n <= MaxErrors)
    <3>1. m_error_messages = [i \in 1..(MaxErrors + 1) |-> IF i <= MaxErrors THEN "error" ELSE "abbreviated"]
      BY <2>2, <2>5 DEF Listed
    <3>2. Len(m_error_messages) = MaxErrors + 1 /\ m_error_messages[MaxErrors + 1] = "abbreviated"
      BY <3>1, ErrorsAssumption
    <3> QED
      BY <2>3, <2>5, <3>2 DEF ErrorsReported
  <2> QED
    BY <2>4, <2>5
<1>4. RestInv /\ ErrorInv => ErrorsReported
  BY <1>3 DEF ErrorsReported
<1> QED
  BY <1>1, <1>2, <1>4, RestInvariant, PTL DEF Spec

-----------------------------------------------------------------------------
(* Jobs that are started once.  No worker runs when the job does not, so   *)
(* nobody is left to call finished() when stop() has called stopped().     *)

(* A start task is for a worker that enters its loop, an exit task for one *)
(* that waits while terminate() joins.                                     *)
OwnTasks(w) ==
  \/ mp_per_worker_task_lists[w] = <<>>
  \/ mp_per_worker_task_lists[w] = <<"start">> /\ pc[w] = "enter"
  \/ mp_per_worker_task_lists[w] = <<"exit">> /\ pc[w] \in {"waiting", "woken"} /\ mpc = "join"

OnceStarted ==
  /\ starts \in {0, 1}
  /\ starts = 0 => /\ Live = {} /\ ~m_running
                   /\ \A w \in Workers : mp_per_worker_task_lists[w] = <<>>
  /\ "stopped" \in Range(callbacks) => ~m_running
  /\ mpc \in {"terminate", "join"} => ~m_running
  /\ \A w \in Workers : /\ ~m_running => pc[w] # "enter"
                        /\ pc[w] = "exited" => mpc = "join"
                        /\ OwnTasks(w)

(* A worker's step.                                                        *)
LEMMA OnceWorker ==
  ASSUME ThreadInv, RestInv, OnceStarted, NEW w \in Workers, WorkerStep(w) \/ WorkerWakes(w)
  PROVE  OnceStarted'
<1>0. /\ pc \in [Workers -> WorkerStates]
      /\ mp_per_worker_task_lists \in [Workers -> Seq({"start", "exit"})]
  BY DEF ThreadInv, TypeOK, WorkerTypeOK, JobTypeOK
<1>1. starts' = starts /\ Live # {}
  BY DEF WorkerStep, WorkerSeesFlag, WorkerWakes, FetchOwn, FetchTask, GoIdle, Rewait, TaskDone, TaskAborted,
         TaskThrows, LogError, historyVars, Live, AtLock, Performing
<1>2. CASE GoIdle(w)
  <2>1. /\ pc[w] = "enter" /\ pc' = [pc EXCEPT ![w] = "waiting"]
        /\ mp_per_worker_task_lists[w] = <<>> /\ UNCHANGED mp_per_worker_task_lists
    BY <1>2 DEF GoIdle, TaskAvailable
  <2>2. m_running /\ "stopped" \notin Range(callbacks) /\ mpc \notin {"terminate", "join"}
    BY <2>1 DEF OnceStarted
  <2>3. mpc' \notin {"terminate", "join"}
    BY <1>2, <2>2 DEF GoIdle, WakeController
  <2>4. \A v \in Workers : pc'[v] # "exited"
    BY <1>0, <2>1, <2>2 DEF OnceStarted
  <2>5. CASE AllIdle(m_idle_workers + 1)
    <3>1. \A v \in Workers : pc'[v] \in {"none", "waiting", "woken"}
      BY <1>2, <2>5, AllIdleRests
    <3>2. \A v \in Workers : mp_per_worker_task_lists[v] = <<>>
      <4> SUFFICES ASSUME NEW v \in Workers \ {w} PROVE mp_per_worker_task_lists[v] = <<>>
        BY <2>1
      <4>1. pc[v] # "enter"
        BY <1>0, <2>1, <3>1
      <4> QED
        BY <2>2, <4>1 DEF OnceStarted, OwnTasks
    <3>3. ~m_running'
      BY <1>2, <2>5 DEF GoIdle
    <3> QED
      BY <1>1, <2>1, <2>3, <2>4, <3>1, <3>2, <3>3 DEF OnceStarted, OwnTasks
  <2>6. CASE ~AllIdle(m_idle_workers + 1)
    <3>1. UNCHANGED <<callbacks, m_running>>
      BY <1>2, <2>6 DEF GoIdle
    <3>2. \A v \in Workers : OwnTasks(v)'
      BY <1>0, <2>1, <2>2 DEF OnceStarted, OwnTasks
    <3> QED
      BY <1>1, <2>2, <2>3, <2>4, <3>1, <3>2 DEF OnceStarted
  <2> QED
    BY <2>5, <2>6
<1>3. CASE FetchOwn(w)
  <2>1. /\ AtLock(w) /\ mp_per_worker_task_lists[w] # <<>>
        /\ pc' = [pc EXCEPT ![w] = IF Head(mp_per_worker_task_lists[w]) = "exit" THEN "exited" ELSE "enter"]
        /\ mp_per_worker_task_lists' = [mp_per_worker_task_lists EXCEPT ![w] = Tail(@)]
        /\ UNCHANGED <<callbacks, m_running, mpc>>
    BY <1>3 DEF FetchOwn, mainVars, historyVars
  <2>2. \/ mp_per_worker_task_lists[w] = <<"start">> /\ pc[w] = "enter"
        \/ mp_per_worker_task_lists[w] = <<"exit">> /\ mpc = "join"
    BY <2>1 DEF OnceStarted, OwnTasks
  <2>3. mp_per_worker_task_lists'[w] = <<>>
    BY <1>0, <2>1, <2>2
  <2>4. pc'[w] = IF mp_per_worker_task_lists[w] = <<"exit">> THEN "exited" ELSE "enter"
    BY <1>0, <2>1, <2>2
  <2>5. \A v \in Workers \ {w} : /\ pc'[v] = pc[v]
                                 /\ mp_per_worker_task_lists'[v] = mp_per_worker_task_lists[v]
    BY <1>0, <2>1
  <2>6. \A v \in Workers : OwnTasks(v)'
    BY <2>1, <2>3, <2>5 DEF OnceStarted, OwnTasks
  <2>7. \A v \in Workers : (~m_running => pc'[v] # "enter") /\ (pc'[v] = "exited" => mpc = "join")
    BY <2>2, <2>4, <2>5 DEF OnceStarted
  <2> QED
    BY <1>1, <2>1, <2>6, <2>7 DEF OnceStarted
<1>4. CASE ~GoIdle(w) /\ ~FetchOwn(w)
  <2>1. UNCHANGED <<callbacks, m_running, mpc, mp_per_worker_task_lists>>
    BY <1>4 DEF WorkerStep, WorkerSeesFlag, WorkerWakes, FetchTask, Rewait, TaskDone, TaskAborted,
           TaskThrows, LogError, jobVars, mainVars, historyVars
  <2>2. /\ \E s \in {"enter", "waiting", "woken", "perform", "logging"} :
             /\ pc' = [pc EXCEPT ![w] = s]
             /\ s = "enter" => w \in Performing \union Logging
             /\ pc[w] \in {"waiting", "woken"} => (s \in {"waiting", "woken"} \/ mp_per_worker_task_lists[w] = <<>>)
             /\ pc[w] = "enter" => mp_per_worker_task_lists[w] = <<>>
    BY <1>4 DEF WorkerStep, WorkerSeesFlag, WorkerWakes, FetchTask, Rewait, TaskDone, TaskAborted,
           TaskThrows, LogError, AfterError, Performing, Logging
  <2>3. \A v \in Workers : OwnTasks(v)'
    BY <1>0, <2>1, <2>2 DEF OnceStarted, OwnTasks
  <2>4. \A v \in Workers : (~m_running => pc'[v] # "enter") /\ (pc'[v] = "exited" => mpc = "join")
    BY <1>0, <2>2 DEF OnceStarted, RestInv
  <2> QED
    BY <1>1, <2>1, <2>3, <2>4 DEF OnceStarted
<1> QED
  BY <1>2, <1>3, <1>4

(* start(): the workers enter their loops, each with its start task.       *)
LEMMA OnceStart ==
  ASSUME MaxStarts = 1, ThreadInv, OnceStarted, Start
  PROVE  OnceStarted'
<1>1. /\ mpc = "ready" /\ mpc' = "ready" /\ starts' = 1 /\ m_running' = TRUE /\ callbacks' = <<>>
      /\ pc' = [w \in Workers |-> IF w <= m_nworkers THEN "enter" ELSE "none"]
      /\ mp_per_worker_task_lists' = PutStartTasks(mp_per_worker_task_lists)
      /\ \A w \in Workers : mp_per_worker_task_lists[w] = <<>>
  BY DEF Start, OnceStarted, EnsureWorkers
<1>2. ASSUME NEW w \in Workers PROVE OwnTasks(w)'
  <2>1. /\ w <= m_nworkers => mp_per_worker_task_lists'[w] = <<"start">> \o mp_per_worker_task_lists[w]
        /\ ~(w <= m_nworkers) => mp_per_worker_task_lists'[w] = mp_per_worker_task_lists[w]
    BY <1>1 DEF PutStartTasks
  <2>2. \/ mp_per_worker_task_lists'[w] = <<"start">> /\ pc'[w] = "enter"
        \/ mp_per_worker_task_lists'[w] = <<>>
    BY <1>1, <2>1
  <2> QED
    BY <2>2 DEF OwnTasks
<1>3. "stopped" \notin Range(callbacks')
  BY <1>1 DEF Range
<1> QED
  BY <1>1, <1>2, <1>3 DEF OnceStarted

(* stop(): the workers that were busy have gone idle when it returns.      *)
LEMMA OnceStop ==
  ASSUME ThreadInv, RunInv, RestInv, OnceStarted, StopIdle \/ StopBusy \/ StopFinish
  PROVE  OnceStarted'
<1>0. /\ TypeOK /\ callbacks \in Seq({"finished", "stopped"})
      /\ \A w \in Workers : /\ WakeAllWorkers(pc)[w] \in {"waiting", "woken"} <=> pc[w] \in {"waiting", "woken"}
                            /\ \A s \in {"none", "enter", "exited"} : WakeAllWorkers(pc)[w] = s <=> pc[w] = s
  BY DEF ThreadInv, TypeOK, WorkerTypeOK, HistoryTypeOK, WakeAllWorkers, WorkerStates
<1>1. starts' = starts /\ UNCHANGED mp_per_worker_task_lists /\ mpc \in {"stoplock", "stopwoken"}
  BY DEF StopIdle, StopBusy, StopFinish
<1>2. CASE StopBusy
  <2>1. pc' = WakeAllWorkers(pc) /\ UNCHANGED <<m_running, callbacks>> /\ mpc' = "stopwait"
    BY <1>2 DEF StopBusy
  <2>2. \A w \in Workers : OwnTasks(w)'
    BY <1>0, <1>1, <2>1 DEF OnceStarted, OwnTasks
  <2>3. Live' = Live
    BY <1>0, <2>1 DEF Live
  <2> QED
    BY <1>0, <1>1, <2>1, <2>2, <2>3 DEF OnceStarted
<1>3. CASE StopIdle \/ StopFinish
  <2>1. m_running' = FALSE /\ UNCHANGED pc
    BY <1>3 DEF StopIdle, StopFinish, StopReturns, workerVars
  <2>2. \A w \in Workers : pc[w] # "enter"
    <3>1. CASE StopIdle
      <4>1. Live \subseteq Idle
        BY <3>1 DEF StopIdle, Busy, Live, ThreadInv, IdleFlag
      <4> QED
        BY <4>1 DEF Live, Idle
    <3>2. CASE StopFinish
      BY <3>2 DEF StopFinish, RunInv, WakeupOK, StopWoken, OnceStarted
    <3> QED
      BY <1>3, <3>1, <3>2
  <2>3. \A w \in Workers : mp_per_worker_task_lists[w] = <<>> /\ pc[w] # "exited"
    BY <1>1, <2>2 DEF OnceStarted, OwnTasks
  <2> QED
    BY <1>1, <2>1, <2>2, <2>3 DEF OnceStarted, OwnTasks, Live
<1> QED
  BY <1>2, <1>3

(* terminate(): all workers wait, get an exit task and take it.            *)
LEMMA OnceTerminate ==
  ASSUME ThreadInv, RestInv, OnceStarted, TerminateLock \/ TerminateFinish
  PROVE  OnceStarted'
<1>0. /\ pc \in [Workers -> WorkerStates]
      /\ \A w \in Workers : /\ WakeAllWorkers(pc)[w] \in {"waiting", "woken"} <=> pc[w] \in {"waiting", "woken"}
                            /\ \A s \in {"none", "enter", "exited"} : WakeAllWorkers(pc)[w] = s <=> pc[w] = s
  BY DEF ThreadInv, TypeOK, WorkerTypeOK, WakeAllWorkers, WorkerStates
<1>1. starts' = starts /\ UNCHANGED <<m_running, callbacks>> /\ ~m_running
  BY DEF TerminateLock, TerminateFinish, historyVars, OnceStarted
<1>2. CASE TerminateLock
  <2>1. /\ pc' = WakeAllWorkers(pc) /\ mpc = "terminate" /\ mpc' = "join"
        /\ mp_per_worker_task_lists' = PutExitTasks(mp_per_worker_task_lists)
    BY <1>2 DEF TerminateLock
  <2>2. \A w \in Workers : mp_per_worker_task_lists[w] = <<>> /\ pc[w] \notin {"enter", "exited"}
    BY <1>1, <2>1 DEF OnceStarted, OwnTasks
  <2>3. \A w \in Live : pc[w] \in {"waiting", "woken"}
    BY <1>0, <1>1, <2>2 DEF RestInv, Live, Performing, Logging, WorkerStates
  <2>4. ASSUME NEW w \in Workers PROVE OwnTasks(w)'
    <3>1. CASE w \in Live
      <4>1. mp_per_worker_task_lists'[w] = Append(mp_per_worker_task_lists[w], "exit")
        BY <2>1, <3>1 DEF PutExitTasks
      <4>2. mp_per_worker_task_lists'[w] = <<"exit">>
        <5>1. Append(<<>>, "exit") = <<"exit">>
          OBVIOUS
        <5> QED
          BY <2>2, <4>1, <5>1, Zenon
      <4>3. pc'[w] \in {"waiting", "woken"}
        BY <1>0, <2>1, <2>3, <3>1
      <4> QED
        BY <2>1, <4>2, <4>3 DEF OwnTasks
    <3>2. CASE w \notin Live
      BY <2>1, <2>2, <3>2 DEF OwnTasks, PutExitTasks
    <3> QED
      BY <3>1, <3>2
  <2>5. Live' = Live
    BY <1>0, <2>1 DEF Live
  <2>6. Live = {} => \A w \in Workers : mp_per_worker_task_lists'[w] = <<>>
    BY <2>1, <2>2 DEF PutExitTasks
  <2> QED
    BY <1>0, <1>1, <2>1, <2>2, <2>4, <2>5, <2>6 DEF OnceStarted
<1>3. CASE TerminateFinish
  <2>1. pc' = [w \in Workers |-> "none"] /\ mpc' \in {"ready", "dead"} /\ \A w \in Live : pc[w] = "exited"
    BY <1>3 DEF TerminateFinish, Resize, Destroy, Terminated, Joined
  <2>2. \A w \in Workers : mp_per_worker_task_lists[w] = <<>>
    BY <2>1 DEF OnceStarted, OwnTasks, Live
  <2>3. \A w \in Workers : mp_per_worker_task_lists'[w] = <<>>
    BY <1>3, <2>2 DEF TerminateFinish, Resize, Destroy, Terminated
  <2> QED
    BY <1>1, <2>1, <2>3 DEF OnceStarted, OwnTasks, Live
<1> QED
  BY <1>2, <1>3

LEMMA OnceStep ==
  ASSUME MaxStarts = 1, ThreadInv, RunInv, RestInv, OnceStarted, [Next]_vars
  PROVE  OnceStarted'
<1>0. /\ pc \in [Workers -> WorkerStates]
      /\ \A w \in Workers : /\ WakeAllWorkers(pc)[w] \in {"waiting", "woken"} <=> pc[w] \in {"waiting", "woken"}
                            /\ \A s \in {"none", "enter", "exited"} : WakeAllWorkers(pc)[w] = s <=> pc[w] = s
  BY DEF ThreadInv, TypeOK, WorkerTypeOK, WakeAllWorkers, WorkerStates
<1>1. ASSUME NEW t \in Tasks, PutTask(t) PROVE OnceStarted'
  <2>1. /\ UNCHANGED <<starts, callbacks, m_running, mpc, mp_per_worker_task_lists>>
        /\ pc' = pc \/ pc' = WakeAllWorkers(pc)
    BY <1>1 DEF PutTask, WakeOnSchedule
  <2>2. /\ Live' = Live
        /\ \A w \in Workers : /\ pc'[w] \in {"waiting", "woken"} <=> pc[w] \in {"waiting", "woken"}
                              /\ \A s \in {"none", "enter", "exited"} : pc'[w] = s <=> pc[w] = s
    BY <1>0, <2>1 DEF Live
  <2>3. \A w \in Workers : OwnTasks(w)'
    BY <2>1, <2>2 DEF OnceStarted, OwnTasks
  <2> QED
    BY <2>1, <2>2, <2>3 DEF OnceStarted
<1>2. CASE WaitCall \/ WaitTimeout \/ WaitReturn \/ StopCall \/ ControllerWakes \/ UNCHANGED vars
  <2>1. UNCHANGED <<starts, callbacks, m_running, mp_per_worker_task_lists, pc>>
    BY <1>2 DEF WaitCall, WaitTimeout, WaitReturn, StopCall, ControllerWakes, vars, jobVars, workerVars, historyVars
  <2>2. /\ mpc = "join" <=> mpc' = "join"
        /\ mpc' = "terminate" => ~m_running
    BY <1>2 DEF WaitCall, WaitTimeout, WaitReturn, StopCall, AfterStop, ControllerWakes, vars, mainVars, OnceStarted
  <2>3. \A w \in Workers : OwnTasks(w)'
    BY <2>1, <2>2 DEF OnceStarted, OwnTasks
  <2> QED
    BY <2>1, <2>2, <2>3 DEF OnceStarted, Live
<1>3. CASE Start
  BY <1>3, OnceStart
<1>4. CASE StopIdle \/ StopBusy \/ StopFinish
  BY <1>4, OnceStop
<1>5. CASE TerminateLock \/ TerminateFinish
  BY <1>5, OnceTerminate
<1>6. ASSUME NEW w \in Workers, WorkerStep(w) \/ WorkerWakes(w) PROVE OnceStarted'
  BY <1>6, OnceWorker
<1> QED
  BY <1>1, <1>2, <1>3, <1>4, <1>5, <1>6
  DEF Next, Schedule, TaskSchedules, ControllerCall, ControllerStep, ControllerSeesFlag, SpuriousWakeup, Destroyed

(* Who calls finished() is a worker that goes idle in a run nobody stopped. *)
LEMMA FinishStep ==
  ASSUME ThreadInv, RunInv, OnceStarted, [Next]_vars, callbacks' = Append(callbacks, "finished")
  PROVE  mpc # "stopwait" /\ "stopped" \notin Range(callbacks)
<1>0. callbacks \in Seq({"finished", "stopped"})
  BY DEF ThreadInv, TypeOK, HistoryTypeOK
<1>1. callbacks' # callbacks /\ callbacks' # <<>> /\ callbacks' # Append(callbacks, "stopped")
  <2>1. callbacks'[Len(callbacks) + 1] = "finished" /\ Len(callbacks') = Len(callbacks) + 1
    BY <1>0
  <2>2. Append(callbacks, "stopped")[Len(callbacks) + 1] = "stopped"
    BY <1>0
  <2> QED
    BY <1>0, <2>1, <2>2
<1>2. PICK w \in Workers : GoIdle(w)
  BY <1>1 DEF Next, vars, historyVars, Schedule, TaskSchedules, PutTask, ControllerCall, Start, WaitCall, WaitTimeout,
     StopCall, ControllerStep, ControllerSeesFlag, ControllerWakes, WaitReturn, StopIdle, StopBusy, StopFinish,
     StopReturns, TerminateLock, TerminateFinish, WorkerStep, WorkerSeesFlag, WorkerWakes, FetchOwn, FetchTask,
     Rewait, TaskDone, TaskAborted, TaskThrows, LogError, SpuriousWakeup, Destroyed
<1>3. pc[w] = "enter" /\ ~m_stopping
  BY <1>1, <1>2 DEF GoIdle, CallFinished
<1> QED
  BY <1>3 DEF RunInv, StoppingOK, OnceStarted

(* "finished() is not called when the job has been stopped", for jobs that *)
(* are started once, whatever the order of the workers and of stop().      *)
THEOREM NoFinishAfterStopCorrect ==
  ASSUME Condition # "pthread", ~LateScheduling, MaxStarts = 1
  PROVE  Spec => NoFinishAfterStop
<1>1. Init => OnceStarted
  <2> SUFFICES ASSUME Init PROVE OnceStarted
    OBVIOUS
  <2>1. Range(callbacks) = {}
    BY DEF Init, Range
  <2> QED
    BY <2>1 DEF Init, OnceStarted, OwnTasks, Live
<1>2. ThreadInv /\ RunInv /\ RestInv /\ OnceStarted /\ [Next]_vars => OnceStarted'
  BY OnceStep
<1>3. ThreadInv /\ RunInv /\ OnceStarted /\ [Next]_vars
      => [callbacks' = Append(callbacks, "finished")
            => mpc # "stopwait" /\ "stopped" \notin Range(callbacks)]_vars
  BY FinishStep
<1> QED
  BY <1>1, <1>2, <1>3, RestInvariant, PTL DEF Spec, NoFinishAfterStop
=============================================================================

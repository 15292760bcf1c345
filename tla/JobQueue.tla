------------------------------ MODULE JobQueue ------------------------------
(***************************************************************************)
(* What a tl::JobBase promises about its tasks, without workers, threads   *)
(* or locks: schedule() either accepts a task or refuses it, accepted      *)
(* tasks are begun in the order they were accepted, every task is begun at *)
(* most once, and no task is lost: it is queued, being performed, done, or *)
(* dropped (refused, flushed by stop() or aborted on a stop request).      *)
(***************************************************************************)
EXTENDS Sequences, Functions

CONSTANT Tasks    \* the task objects, each handed to schedule() at most once

VARIABLES
  queue,          \* accepted tasks nobody has begun, oldest first
  active,         \* tasks being performed
  done,           \* tasks whose perform_task() returned or threw an error
  dropped         \* tasks deleted before they were performed to the end

queueVars == <<queue, active, done, dropped>>

Fresh == Tasks \ (Range(queue) \union active \union done \union dropped)

Init == queue = <<>> /\ active = {} /\ done = {} /\ dropped = {}

Accept(t) == /\ t \in Fresh
             /\ queue' = Append(queue, t)
             /\ UNCHANGED <<active, done, dropped>>

Refuse(t) == /\ t \in Fresh
             /\ dropped' = dropped \union {t}
             /\ UNCHANGED <<queue, active, done>>

Begin == /\ queue # <<>>
         /\ queue' = Tail(queue)
         /\ active' = active \union {Head(queue)}
         /\ UNCHANGED <<done, dropped>>

End(t) == /\ t \in active
          /\ active' = active \ {t}
          /\ done' = done \union {t}
          /\ UNCHANGED <<queue, dropped>>

Abort(t) == /\ t \in active
            /\ active' = active \ {t}
            /\ dropped' = dropped \union {t}
            /\ UNCHANGED <<queue, done>>

Flush == /\ queue' = <<>>
         /\ dropped' = dropped \union Range(queue)
         /\ UNCHANGED <<active, done>>

Next == \/ Begin
        \/ Flush
        \/ \E t \in Tasks : Accept(t) \/ Refuse(t) \/ End(t) \/ Abort(t)

Spec == Init /\ [][Next]_queueVars
=============================================================================

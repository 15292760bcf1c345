------------------------- MODULE DeferredExecution -------------------------
(***************************************************************************)
(* tl::DeferredMethodScheduler and its Qt event source                     *)
(* (tl/tl/tlDeferredExecution.{h,cc}, tlDeferredExecutionQt.cc).  Any      *)
(* thread schedules; the main thread executes what is queued when an event *)
(* arrives or when it calls execute(), and a method that is executed may   *)
(* itself schedule, cancel, destroy, block, process events or throw.       *)
(***************************************************************************)
EXTENDS Integers, Sequences, FiniteSets, SequencesExt, Selections

CONSTANTS
  Methods,       \* the DeferredMethod objects
  Compressed,    \* those that combine several calls into one
  MaxCalls,      \* bound: calls of schedule()
  MaxDisabled,   \* bound: nested NoDeferredMethods regions
  MaxDepth,      \* bound: nested do_execute() calls, 1 for none
  Cancelling,    \* methods are cancelled
  Throwing       \* methods throw exceptions

ASSUME MethodsAssumption == Compressed \subseteq Methods
ASSUME BoundsAssumption == MaxCalls \in Nat /\ MaxDisabled \in Nat /\ MaxDepth \in Nat
ASSUME HazardsAssumption == Cancelling \in BOOLEAN /\ Throwing \in BOOLEAN

VARIABLES
  m_disabled, m_scheduled, m_methods, m_executing, m_unqueued,
  method_scheduled,  \* DeferredMethodBase::m_scheduled
  alive,             \* the method objects that exist
  events,            \* posted events nobody received yet
  timer,             \* m_timer is running
  frames,            \* the do_execute() calls of the main thread, innermost last
  calls,             \* history: calls that were neither executed nor cancelled
  made,              \* history: calls of schedule()
  disturbed          \* history: a batch was not executed straight to its end

schedulerVars == <<m_disabled, m_scheduled, m_methods, m_executing, m_unqueued>>
vars == <<schedulerVars, method_scheduled, alive, events, timer, frames, calls, made, disturbed>>

(* A frame is in the loop at m_executing[at], to look at the method there  *)
(* ("check"), about to execute it ("valid"), or executing it ("run").      *)
(* "caller" is "event", or "execute" for the loop of execute().            *)
Frame == [at : Nat, phase : {"check", "valid", "run"}, caller : {"event", "execute"}]

Idle == frames = <<>>
Top == Last(frames)
AtTop(f) == [frames EXCEPT ![Len(frames)] = f]
InMethod == ~Idle /\ Top.phase = "run"
MainFree == Idle \/ InMethod       \* the main thread runs client code

-----------------------------------------------------------------------------
(* Clients.                                                                *)

(* Slip: compressed or not, one call is queued at a time. *)
MustQueueOnce(m) == ~method_scheduled[m]

MustQueue(m) == ~method_scheduled[m] \/ m \notin Compressed

PostEvent == events' = events + (IF m_scheduled THEN 0 ELSE 1)

Schedule(m) ==
  /\ made < MaxCalls /\ m \in alive
  /\ made' = made + 1
  /\ calls' = [calls EXCEPT ![m] = IF m \in Compressed THEN 1 ELSE @ + 1]
  /\ IF MustQueue(m)
     THEN /\ m_methods' = Append(m_methods, m)
          /\ PostEvent
          /\ m_scheduled' = TRUE
          /\ method_scheduled' = [method_scheduled EXCEPT ![m] = TRUE]
     ELSE UNCHANGED <<m_methods, events, m_scheduled, method_scheduled>>
  /\ UNCHANGED <<m_disabled, m_executing, m_unqueued, alive, timer, frames, disturbed>>

(* Slip: what is being executed is not looked at. *)
UnqueueMethodsOnly(m) ==
  /\ m_methods' = Without(m_methods, m)
  /\ method_scheduled' = [method_scheduled EXCEPT
                            ![m] = IF m \in Range(m_methods) THEN FALSE ELSE @]
  /\ UNCHANGED m_unqueued

Unqueue(m) ==
  /\ m_methods' = Without(m_methods, m)
  /\ method_scheduled' = [method_scheduled EXCEPT
                            ![m] = IF m \in Range(m_methods) THEN FALSE ELSE @]
  /\ m_unqueued' = IF m \in Range(m_executing) THEN m_unqueued \union {m} ELSE m_unqueued

Forgotten(m) == calls' = [calls EXCEPT ![m] = 0]

Cancel(m) ==
  /\ Cancelling /\ MainFree /\ m \in alive
  /\ Unqueue(m) /\ Forgotten(m)
  /\ disturbed' = (disturbed \/ m \in Range(m_executing))
  /\ UNCHANGED <<m_disabled, m_scheduled, m_executing, alive, events, timer, frames, made>>

Destroy(m) ==
  /\ MainFree /\ m \in alive
  /\ Unqueue(m) /\ Forgotten(m)
  /\ alive' = alive \ {m}
  /\ UNCHANGED <<m_disabled, m_scheduled, m_executing, events, timer, frames, made, disturbed>>

(* The next object may well get the address of the one destroyed.          *)
Construct(m) ==
  /\ MainFree /\ m \notin alive
  /\ alive' = alive \union {m}
  /\ method_scheduled' = [method_scheduled EXCEPT ![m] = FALSE]
  /\ UNCHANGED <<schedulerVars, events, timer, frames, calls, made, disturbed>>

Disable ==
  /\ MainFree /\ m_disabled < MaxDisabled
  /\ m_disabled' = m_disabled + 1
  /\ UNCHANGED <<m_scheduled, m_methods, m_executing, m_unqueued, method_scheduled,
                 alive, events, timer, frames, calls, made, disturbed>>

Enable ==
  /\ MainFree /\ m_disabled > 0
  /\ m_disabled' = m_disabled - 1
  /\ UNCHANGED <<m_scheduled, m_methods, m_executing, m_unqueued, method_scheduled,
                 alive, events, timer, frames, calls, made, disturbed>>

-----------------------------------------------------------------------------
(* Slip: the flag that an event is on its way is not reset. *)
TakeMethodsScheduled ==
  /\ m_executing' = m_methods
  /\ m_methods' = <<>>
  /\ m_unqueued' = {}
  /\ UNCHANGED m_scheduled

(* do_execute().  It takes all that is queued; what an outer do_execute()  *)
(* still had to execute is dropped.                                        *)
TakeMethods ==
  /\ m_executing' = m_methods
  /\ m_methods' = <<>>
  /\ m_unqueued' = {}
  /\ m_scheduled' = FALSE

Enter(caller) ==
  /\ m_disabled = 0
  /\ TakeMethods
  /\ frames' = Append(frames, [at |-> 1, phase |-> "check", caller |-> caller])
  /\ disturbed' = (disturbed \/ ~Idle)
  /\ UNCHANGED <<m_disabled, method_scheduled, alive, calls, made>>

(* timer(), by the event or by m_timer, which nobody stops before it fires *)
(* once; while disabled it polls.                                          *)
Arrives == \/ events > 0 /\ events' = events - 1 /\ UNCHANGED timer
           \/ timer /\ timer' = FALSE /\ UNCHANGED events

(* Slip: an event that arrives while execution is disabled is forgotten. *)
PollNever ==
  /\ m_disabled > 0 /\ MainFree
  /\ events > 0 /\ events' = events - 1
  /\ UNCHANGED <<schedulerVars, method_scheduled, alive, timer, frames, calls, made, disturbed>>

Poll ==
  /\ m_disabled > 0 /\ MainFree
  /\ events > 0 /\ events' = events - 1
  /\ timer' = TRUE
  /\ UNCHANGED <<schedulerVars, method_scheduled, alive, frames, calls, made, disturbed>>

Event ==
  /\ MainFree /\ Len(frames) < MaxDepth
  /\ Arrives
  /\ Enter("event")

Execute ==
  /\ MainFree /\ Len(frames) < MaxDepth
  /\ Enter("execute")
  /\ UNCHANGED <<events, timer>>

StillValid(m) == m \notin m_unqueued

Check ==
  /\ ~Idle /\ Top.phase = "check" /\ Top.at <= Len(m_executing)
  /\ frames' = IF StillValid(m_executing[Top.at])
               THEN AtTop([Top EXCEPT !.phase = "valid"])
               ELSE AtTop([Top EXCEPT !.at = @ + 1])
  /\ UNCHANGED <<schedulerVars, method_scheduled, alive, events, timer, calls, made, disturbed>>

(* The flag is reset outside of the lock.                                  *)
Run ==
  /\ ~Idle /\ Top.phase = "valid"
  /\ LET m == m_executing[Top.at]
     IN /\ method_scheduled' = [method_scheduled EXCEPT ![m] = FALSE]
        /\ calls' = [calls EXCEPT ![m] = IF m \in Compressed \/ @ = 0 THEN 0 ELSE @ - 1]
  /\ frames' = AtTop([Top EXCEPT !.phase = "run"])
  /\ UNCHANGED <<schedulerVars, alive, events, timer, made, disturbed>>

Return ==
  /\ InMethod
  /\ frames' = AtTop([at |-> Top.at + 1, phase |-> "check", caller |-> Top.caller])
  /\ UNCHANGED <<schedulerVars, method_scheduled, alive, events, timer, calls, made, disturbed>>

(* Nothing left, or all gone in a do_execute() the method caused; execute()*)
(* goes on as long as there is something queued.                           *)
AnyPending == m_methods # <<>> /\ m_disabled = 0

Finish ==
  /\ ~Idle /\ Top.phase = "check" /\ Top.at > Len(m_executing)
  /\ IF Top.caller = "execute" /\ AnyPending
     THEN /\ TakeMethods
          /\ frames' = AtTop([Top EXCEPT !.at = 1])
     ELSE /\ m_executing' = <<>> /\ m_unqueued' = {}
          /\ frames' = Front(frames)
          /\ UNCHANGED <<m_methods, m_scheduled>>
  /\ UNCHANGED <<m_disabled, method_scheduled, alive, events, timer, calls, made, disturbed>>

(* An exception leaves all calls of do_execute(); it is not followed when  *)
(* an event handler catches it inside of another do_execute().             *)
Throw ==
  /\ Throwing /\ InMethod
  /\ \A i \in 2..Len(frames) : frames[i].caller = "execute"
  /\ frames' = <<>> /\ disturbed' = TRUE
  /\ UNCHANGED <<schedulerVars, method_scheduled, alive, events, timer, calls, made>>

-----------------------------------------------------------------------------
Init ==
  /\ m_disabled = 0 /\ m_scheduled = FALSE
  /\ m_methods = <<>> /\ m_executing = <<>> /\ m_unqueued = {}
  /\ method_scheduled = [m \in Methods |-> FALSE]
  /\ alive = Methods
  /\ events = 0 /\ timer = FALSE
  /\ frames = <<>>
  /\ calls = [m \in Methods |-> 0]
  /\ made = 0 /\ disturbed = FALSE

Loop == Check \/ Run \/ Return \/ Finish

Next ==
  \/ \E m \in Methods : Schedule(m) \/ Cancel(m) \/ Destroy(m) \/ Construct(m)
  \/ Disable \/ Enable \/ Poll \/ Event \/ Execute
  \/ Loop \/ Throw

Spec == Init /\ [][Next]_vars

(* Methods return, blocked regions end, and the main thread comes back to  *)
(* its event loop outside of them again and again.                         *)
FairSpec == Spec /\ WF_vars(Loop) /\ WF_vars(Enable) /\ WF_vars(Poll)
                 /\ SF_vars(Idle /\ Event)

-----------------------------------------------------------------------------
(* Properties.                                                             *)

TypeOK ==
  /\ m_disabled \in 0..MaxDisabled /\ m_scheduled \in BOOLEAN
  /\ m_methods \in Seq(Methods) /\ m_executing \in Seq(Methods)
  /\ m_unqueued \subseteq Methods
  /\ method_scheduled \in [Methods -> BOOLEAN] /\ alive \subseteq Methods
  /\ events \in Nat /\ timer \in BOOLEAN
  /\ frames \in Seq(Frame)
  /\ calls \in [Methods -> Nat] /\ made \in 0..MaxCalls
  /\ disturbed \in BOOLEAN

(* The calls of m that will still be executed: those queued and those the  *)
(* innermost do_execute() has not come to.                                 *)
Remaining(m) ==
  IF Idle THEN {}
  ELSE {i \in PositionsOf(m_executing, m) : i >= Top.at + IF Top.phase = "run" THEN 1 ELSE 0}

Outstanding(m) ==
  Cardinality(PositionsOf(m_methods, m))
    + IF m \in m_unqueued THEN 0 ELSE Cardinality(Remaining(m))

(* A call that was scheduled is still going to be executed, unless it was  *)
(* executed or cancelled already ("deferred call to m()").                 *)
NoCallLost == \A m \in Methods : calls[m] <= Outstanding(m)

(* It takes one of three things to lose a call: a method that cancels one  *)
(* of the batch being executed, that processes events or calls execute(),  *)
(* or that throws.                                                         *)
LostOnlyIfDisturbed == ~disturbed => NoCallLost

(* Nothing else is executed: not twice, not after cancel(), not for an     *)
(* object that no longer exists or for the one that took its place.        *)
NoSpuriousCall ==
  [][Run => LET m == m_executing[Top.at] IN m \in alive /\ calls[m] > 0]_vars

(* As long as something is queued, an event is on its way to execute it.   *)
EventPosted == m_methods # <<>> => events > 0 \/ timer

(* Unless such a thing happens, every call is executed, cancelled or gone  *)
(* with its object in the end.                                             *)
CallsServed ==
  \A m \in Methods : (calls[m] > 0 /\ ~disturbed) ~> (calls[m] = 0 \/ disturbed)
=============================================================================

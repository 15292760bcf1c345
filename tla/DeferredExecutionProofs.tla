----------------------- MODULE DeferredExecutionProofs -----------------------
(***************************************************************************)
(* Proofs about DeferredExecution for all sets of methods, any number of   *)
(* calls and any depth of nested do_execute() calls.  Three invariants     *)
(* build on each other: the shape of the state (State), the event that is  *)
(* under way (EventOnTheWay), and the balance between the calls that are   *)
(* asked for and those that are outstanding (Balance).                     *)
(***************************************************************************)
EXTENDS DeferredExecution, SelectionProofs, SequenceTheorems

-----------------------------------------------------------------------------
(* The shape of the state.                                                 *)

(* Outer calls of do_execute() are in a method, and what is about to be    *)
(* executed exists and was not unqueued.                                   *)
Nested ==
  /\ \A i \in DOMAIN frames : frames[i].at >= 1 /\ (i < Len(frames) => frames[i].phase = "run")
  /\ ~Idle /\ Top.phase = "valid" =>
       Top.at \in DOMAIN m_executing /\ m_executing[Top.at] \notin m_unqueued

State == TypeOK /\ Nested

(* The innermost call of do_execute().                                     *)
LEMMA TopFits ==
  ASSUME State, ~Idle
  PROVE /\ Top \in Frame /\ Top.at \in Nat \ {0} /\ Len(frames) \in Nat \ {0}
        /\ Top = frames[Len(frames)]
        /\ Top = [at |-> Top.at, phase |-> Top.phase, caller |-> Top.caller]
  <1>1. frames \in Seq(Frame) /\ frames # <<>>
    BY DEF State, TypeOK, Idle
  <1>2. Len(frames) \in Nat \ {0} /\ Len(frames) \in DOMAIN frames
    BY <1>1
  <1>3. Top = frames[Len(frames)] /\ Top \in Frame
    BY <1>1, <1>2 DEF Top, Last
  <1>4. Top.at >= 1
    BY <1>2, <1>3 DEF State, Nested
  <1> QED
    BY <1>2, <1>3, <1>4 DEF Frame

(* A call comes, goes on, or returns.                                      *)
LEMMA FramePushed ==
  ASSUME State, NEW f \in Frame, f.at >= 1, ~Idle => Top.phase = "run",
         frames' = Append(frames, f)
  PROVE /\ frames' \in Seq(Frame) /\ ~Idle' /\ Top' = f /\ Len(frames') = Len(frames) + 1
        /\ \A i \in DOMAIN frames' : frames'[i].at >= 1 /\ (i < Len(frames') => frames'[i].phase = "run")
  <1>1. frames \in Seq(Frame)
    BY DEF State, TypeOK
  <1>2. /\ frames' \in Seq(Frame) /\ Len(frames') = Len(frames) + 1 /\ Len(frames) \in Nat
        /\ \A i \in DOMAIN frames : frames'[i] = frames[i]
        /\ frames'[Len(frames')] = f /\ DOMAIN frames' = 1..Len(frames')
    BY <1>1
  <1>3. Top' = f /\ ~Idle'
    BY <1>2 DEF Top, Last, Idle
  <1>4. ASSUME NEW i \in DOMAIN frames' 
        PROVE frames'[i].at >= 1 /\ (i < Len(frames') => frames'[i].phase = "run")
    <2>1. CASE i = Len(frames')
      BY <2>1, <1>2
    <2>2. CASE i # Len(frames')
      <3>1. i \in DOMAIN frames /\ frames'[i] = frames[i] /\ ~Idle
        BY <2>2, <1>1, <1>2 DEF Idle
      <3>2. i = Len(frames) => frames[i].phase = "run"
        BY <3>1, TopFits
      <3> QED
        BY <3>1, <3>2, <1>1 DEF State, Nested
    <2> QED
      BY <2>1, <2>2
  <1> QED
    BY <1>2, <1>3, <1>4

LEMMA FrameReplaced ==
  ASSUME State, ~Idle, NEW f \in Frame, f.at >= 1, frames' = AtTop(f)
  PROVE /\ frames' \in Seq(Frame) /\ ~Idle' /\ Top' = f /\ Len(frames') = Len(frames)
        /\ \A i \in DOMAIN frames' : frames'[i].at >= 1 /\ (i < Len(frames') => frames'[i].phase = "run")
  <1>1. frames \in Seq(Frame) /\ Len(frames) \in Nat \ {0}
    BY TopFits DEF State, TypeOK
  <1>2. /\ frames' \in Seq(Frame) /\ Len(frames') = Len(frames) /\ DOMAIN frames' = DOMAIN frames
        /\ frames'[Len(frames)] = f
        /\ \A i \in DOMAIN frames : i # Len(frames) => frames'[i] = frames[i]
    BY <1>1 DEF AtTop
  <1>3. Top' = f /\ ~Idle'
    BY <1>1, <1>2 DEF Top, Last, Idle
  <1> QED
    BY <1>1, <1>2, <1>3 DEF State, Nested

LEMMA FramePopped ==
  ASSUME State, ~Idle, frames' = Front(frames)
  PROVE /\ frames' \in Seq(Frame) /\ Len(frames') = Len(frames) - 1
        /\ Idle' <=> Len(frames) = 1
        /\ ~Idle' => Top'.phase = "run"
        /\ \A i \in DOMAIN frames' : frames'[i].at >= 1 /\ (i < Len(frames') => frames'[i].phase = "run")
  <1>1. frames \in Seq(Frame) /\ Len(frames) \in Nat \ {0}
    BY TopFits DEF State, TypeOK
  <1>2. /\ frames' \in Seq(Frame) /\ Len(frames') = Len(frames) - 1 /\ DOMAIN frames' = 1..(Len(frames) - 1)
        /\ \A i \in DOMAIN frames' : frames'[i] = frames[i]
    <2>1. \A i \in 1..(Len(frames) - 1) : frames[i] \in Frame
      BY <1>1
    <2> DEFINE n == Len(frames) - 1
    <2>2. n \in Nat /\ \A i \in 1..n : frames[i] \in Frame
      BY <1>1, <2>1
    <2>3. frames' = SubSeq(frames, 1, n)
      BY DEF Front
    <2> HIDE DEF n
    <2>4. /\ SubSeq(frames, 1, n) \in Seq(Frame)
          /\ Len(SubSeq(frames, 1, n)) = IF 1 <= n THEN n - 1 + 1 ELSE 0
          /\ \A i \in 1..(n - 1 + 1) : SubSeq(frames, 1, n)[i] = frames[1 + i - 1]
      BY <2>2, SubSeqProperties, SMTT(30)
    <2>5. /\ SubSeq(frames, 1, n) \in Seq(Frame) /\ Len(SubSeq(frames, 1, n)) = n
          /\ \A i \in 1..n : SubSeq(frames, 1, n)[i] = frames[i]
      BY <2>2, <2>4
    <2>6. DOMAIN frames' = 1..n
      BY <2>3, <2>5
    <2> QED
      BY <2>3, <2>5, <2>6 DEF n
  <1>3. \A i \in DOMAIN frames' : frames'[i].at >= 1 /\ frames'[i].phase = "run"
    BY <1>1, <1>2 DEF State, Nested
  <1>4. Idle' <=> Len(frames) = 1
    BY <1>1, <1>2 DEF Idle
  <1>5. ~Idle' => Top' = frames'[Len(frames')] /\ Len(frames') \in DOMAIN frames'
    BY <1>1, <1>2, <1>4 DEF Top, Last
  <1> QED
    BY <1>2, <1>3, <1>4, <1>5

-----------------------------------------------------------------------------
LEMMA InitState == Init => State
  <1> SUFFICES ASSUME Init PROVE State
    OBVIOUS
  <1>1. 0 \in 0..MaxDisabled /\ 0 \in 0..MaxCalls
    BY BoundsAssumption
  <1>3. TypeOK
    <2>1. <<>> \in Seq(Methods) /\ <<>> \in Seq(Frame)
      OBVIOUS
    <2>2. /\ method_scheduled \in [Methods -> BOOLEAN] /\ calls \in [Methods -> Nat]
          /\ events \in Nat /\ timer \in BOOLEAN
      BY DEF Init
    <2> QED
      BY <1>1, <2>1, <2>2 DEF Init, TypeOK
  <1>2. Nested
    BY DEF Init, Nested, Idle
  <1> QED
    BY <1>2, <1>3 DEF State

(* Clients leave the calls of do_execute() alone; only the main thread     *)
(* unqueues methods, and not while it is about to execute one.             *)
LEMMA ClientsKeepState ==
  ASSUME State,
         \/ \E m \in Methods : Schedule(m) \/ Cancel(m) \/ Destroy(m) \/ Construct(m)
         \/ Disable \/ Enable \/ Poll
  PROVE State'
  <1>1. UNCHANGED <<frames, m_executing>>
    BY DEF Schedule, Cancel, Destroy, Construct, Disable, Enable, Poll, schedulerVars
  <1>2. m_unqueued' = m_unqueued \/ MainFree
    BY DEF Schedule, Cancel, Destroy, Construct, Disable, Enable, Poll, schedulerVars
  <1>3. Nested'
    BY <1>1, <1>2 DEF State, Nested, MainFree, InMethod, Idle, Top
  <1>4. TypeOK'
    <2> USE DEF State, TypeOK
    <2>1. ASSUME NEW m \in Methods, Schedule(m) PROVE TypeOK'
      <3>1. made' \in 0..MaxCalls
        BY <2>1, BoundsAssumption DEF Schedule
      <3>2. /\ m_methods' \in Seq(Methods) /\ events' \in Nat /\ m_scheduled' \in BOOLEAN
            /\ method_scheduled' \in [Methods -> BOOLEAN]
        <4>1. CASE MustQueue(m)
          <5>1. /\ m_methods' = Append(m_methods, m) /\ m_scheduled' = TRUE
                /\ events' \in Nat /\ method_scheduled' = [method_scheduled EXCEPT ![m] = TRUE]
            BY <2>1, <4>1 DEF Schedule, PostEvent
          <5> QED
            BY <5>1
        <4>2. CASE ~MustQueue(m)
          BY <2>1, <4>2 DEF Schedule
        <4> QED
          BY <4>1, <4>2
      <3>3. calls' \in [Methods -> Nat]
        BY <2>1 DEF Schedule
      <3> QED
        BY <2>1, <3>1, <3>2, <3>3 DEF Schedule
    <2>2. ASSUME NEW m \in Methods, Unqueue(m), Forgotten(m)
          PROVE /\ m_methods' \in Seq(Methods) /\ m_unqueued' \subseteq Methods
                /\ method_scheduled' \in [Methods -> BOOLEAN] /\ calls' \in [Methods -> Nat]
      <3>1. m_methods' \in Seq(Methods)
        BY <2>2, WithoutCounts DEF Unqueue
      <3> QED
        BY <2>2, <3>1 DEF Unqueue, Forgotten
    <2>3. ASSUME NEW m \in Methods, Cancel(m) PROVE TypeOK'
      <3>1. disturbed' \in BOOLEAN
        BY <2>3 DEF Cancel
      <3> QED
        BY <2>2, <2>3, <3>1 DEF Cancel
    <2>4. ASSUME NEW m \in Methods, Destroy(m) PROVE TypeOK'
      BY <2>2, <2>4 DEF Destroy
    <2>5. ASSUME NEW m \in Methods, Construct(m) PROVE TypeOK'
      BY <2>5 DEF Construct, schedulerVars
    <2>6. CASE Disable \/ Enable
      <3>1. m_disabled' \in 0..MaxDisabled
        BY <2>6, BoundsAssumption DEF Disable, Enable
      <3> QED
        BY <2>6, <3>1 DEF Disable, Enable
    <2>7. CASE Poll
      <3>1. events' \in Nat
        BY <2>7 DEF Poll
      <3> QED
        BY <2>7, <3>1 DEF Poll, schedulerVars
    <2> QED
      BY <2>1, <2>3, <2>4, <2>5, <2>6, <2>7
  <1> QED
    BY <1>3, <1>4 DEF State

LEMMA EntersKeepState ==
  ASSUME State, Event \/ Execute
  PROVE State'
  <1>1. PICK caller \in {"event", "execute"} : Enter(caller)
    BY DEF Event, Execute
  <1> DEFINE f == [at |-> 1, phase |-> "check", caller |-> caller]
  <1>2. f \in Frame /\ f.at >= 1 /\ f.phase = "check" /\ frames' = Append(frames, f)
    BY <1>1 DEF Enter, Frame
  <1>3. MainFree
    BY DEF Event, Execute
  <1>4. ~Idle => Top.phase = "run"
    BY <1>3 DEF MainFree, InMethod
  <1> HIDE DEF f
  <1>5. /\ frames' \in Seq(Frame) /\ Top' = f
        /\ \A i \in DOMAIN frames' : frames'[i].at >= 1 /\ (i < Len(frames') => frames'[i].phase = "run")
    BY <1>2, <1>4, FramePushed
  <1>6. Nested'
    BY <1>2, <1>5 DEF Nested
  <1>7. events' \in Nat /\ timer' \in BOOLEAN
    <2>1. events \in Nat /\ timer \in BOOLEAN
      BY DEF State, TypeOK
    <2>2. CASE Event
      <3>1. ((events' = events - 1 /\ events > 0) \/ UNCHANGED events) /\ timer' \in {timer, FALSE}
        BY <2>2 DEF Event, Arrives
      <3>2. events' \in Nat
        BY <2>1, <3>1
      <3>3. timer' \in BOOLEAN
        BY <2>1, <3>1
      <3> QED
        BY <3>2, <3>3
    <2>3. CASE Execute
      BY <2>1, <2>3 DEF Execute
    <2> QED
      BY <2>2, <2>3
  <1>8. disturbed' \in BOOLEAN
    BY <1>1 DEF Enter, State, TypeOK
  <1>9. TypeOK'
    <2>1. /\ m_executing' = m_methods /\ m_methods' = <<>> /\ m_unqueued' = {} /\ m_scheduled' = FALSE
          /\ UNCHANGED <<m_disabled, method_scheduled, alive, calls, made>>
      BY <1>1 DEF Enter, TakeMethods
    <2>2. <<>> \in Seq(Methods)
      OBVIOUS
    <2> QED
      BY <2>1, <2>2, <1>5, <1>7, <1>8 DEF State, TypeOK
  <1> QED
    BY <1>6, <1>9 DEF State

LEMMA CheckKeepsState ==
  ASSUME State, Check
  PROVE State'
  <1>1. ~Idle /\ Top.phase = "check" /\ Top.at <= Len(m_executing)
    BY DEF Check
  <1>2. Top \in Frame /\ Top.at \in Nat \ {0} /\ Top = [at |-> Top.at, phase |-> Top.phase, caller |-> Top.caller]
    BY <1>1, TopFits
  <1>3. UNCHANGED <<schedulerVars, method_scheduled, alive, events, timer, calls, made, disturbed>>
    BY DEF Check
  <1>4. CASE StillValid(m_executing[Top.at])
    <2> DEFINE f == [Top EXCEPT !.phase = "valid"]
    <2>1. f \in Frame /\ f.at = Top.at /\ frames' = AtTop(f)
      BY <1>2, <1>4 DEF Check, Frame
    <2> HIDE DEF f
    <2>2. /\ frames' \in Seq(Frame) /\ Top' = f
          /\ \A i \in DOMAIN frames' : frames'[i].at >= 1 /\ (i < Len(frames') => frames'[i].phase = "run")
      BY <2>1, <1>1, <1>2, FrameReplaced
    <2>3. Nested'
      BY <2>1, <2>2, <1>1, <1>2, <1>3, <1>4 DEF Nested, StillValid, schedulerVars, State, TypeOK
    <2> QED
      BY <2>2, <2>3, <1>3 DEF State, TypeOK, schedulerVars
  <1>5. CASE ~StillValid(m_executing[Top.at])
    <2> DEFINE f == [Top EXCEPT !.at = @ + 1]
    <2>1. f \in Frame /\ f.at >= 1 /\ f.phase = "check" /\ frames' = AtTop(f)
      BY <1>1, <1>2, <1>5 DEF Check, Frame
    <2> HIDE DEF f
    <2>2. /\ frames' \in Seq(Frame) /\ Top' = f
          /\ \A i \in DOMAIN frames' : frames'[i].at >= 1 /\ (i < Len(frames') => frames'[i].phase = "run")
      BY <2>1, <1>1, <1>2, FrameReplaced
    <2>3. Nested'
      BY <2>1, <2>2 DEF Nested
    <2> QED
      BY <2>2, <2>3, <1>3 DEF State, TypeOK, schedulerVars
  <1> QED
    BY <1>4, <1>5

LEMMA RunKeepsState ==
  ASSUME State, Run \/ Return
  PROVE State'
  <1>1. ~Idle /\ (Run => Top.phase = "valid")
    BY DEF Run, Return, InMethod
  <1>2. Top \in Frame /\ Top.at \in Nat \ {0} /\ Top = [at |-> Top.at, phase |-> Top.phase, caller |-> Top.caller]
    BY <1>1, TopFits
  <1>3. PICK f \in Frame : f.at >= 1 /\ f.phase # "valid" /\ frames' = AtTop(f)
    <2>1. CASE Run
      <3>1. [Top EXCEPT !.phase = "run"] \in Frame
        BY <1>2 DEF Frame
      <3> QED
        BY <1>2, <2>1, <3>1 DEF Run
    <2>2. CASE Return
      <3> DEFINE g == [at |-> Top.at + 1, phase |-> "check", caller |-> Top.caller]
      <3>1. g \in Frame /\ g.at >= 1 /\ g.phase = "check"
        BY <1>2 DEF Frame
      <3>2. frames' = AtTop(g)
        BY <2>2 DEF Return
      <3> HIDE DEF g
      <3> QED
        BY <3>1, <3>2
    <2> QED
      BY <2>1, <2>2
  <1>4. /\ frames' \in Seq(Frame) /\ Top' = f
        /\ \A i \in DOMAIN frames' : frames'[i].at >= 1 /\ (i < Len(frames') => frames'[i].phase = "run")
    BY <1>1, <1>3, FrameReplaced
  <1>5. Nested'
    BY <1>3, <1>4 DEF Nested
  <1>6. method_scheduled' \in [Methods -> BOOLEAN] /\ calls' \in [Methods -> Nat]
    <2>1. CASE Run
      BY <1>1, <2>1 DEF Run, State, Nested, TypeOK
    <2>2. CASE Return
      BY <2>2 DEF Return, State, TypeOK
    <2> QED
      BY <2>1, <2>2
  <1>7. UNCHANGED <<schedulerVars, alive, events, timer, made, disturbed>>
    BY DEF Run, Return
  <1> QED
    BY <1>4, <1>5, <1>6, <1>7 DEF State, TypeOK, schedulerVars

LEMMA FinishKeepsState ==
  ASSUME State, Finish
  PROVE State'
  <1>1. ~Idle
    BY DEF Finish
  <1>2. Top \in Frame /\ Top.at \in Nat \ {0} /\ Top = [at |-> Top.at, phase |-> Top.phase, caller |-> Top.caller]
    BY <1>1, TopFits
  <1>3. CASE Top.caller = "execute" /\ AnyPending
    <2> DEFINE f == [Top EXCEPT !.at = 1]
    <2>1. f \in Frame /\ f.at = 1 /\ f.phase = "check" /\ frames' = AtTop(f)
      BY <1>2, <1>3 DEF Finish, Frame
    <2> HIDE DEF f
    <2>2. /\ frames' \in Seq(Frame) /\ Top' = f
          /\ \A i \in DOMAIN frames' : frames'[i].at >= 1 /\ (i < Len(frames') => frames'[i].phase = "run")
      BY <2>1, <1>1, FrameReplaced
    <2>3. Nested'
      BY <2>1, <2>2 DEF Nested
    <2> QED
      <3>1. /\ m_executing' = m_methods /\ m_methods' = <<>> /\ m_unqueued' = {} /\ m_scheduled' = FALSE
            /\ UNCHANGED <<m_disabled, method_scheduled, alive, events, timer, calls, made, disturbed>>
        BY <1>3 DEF Finish, TakeMethods
      <3>2. <<>> \in Seq(Methods)
        OBVIOUS
      <3> QED
        BY <2>2, <2>3, <3>1, <3>2 DEF State, TypeOK
  <1>4. CASE ~(Top.caller = "execute" /\ AnyPending)
    <2>1. frames' = Front(frames)
      BY <1>4 DEF Finish
    <2>2. /\ frames' \in Seq(Frame) /\ (~Idle' => Top'.phase = "run")
          /\ \A i \in DOMAIN frames' : frames'[i].at >= 1 /\ (i < Len(frames') => frames'[i].phase = "run")
      BY <2>1, <1>1, FramePopped
    <2>3. Nested'
      BY <2>2 DEF Nested
    <2> QED
      <3>1. /\ m_executing' = <<>> /\ m_unqueued' = {}
            /\ UNCHANGED <<m_methods, m_scheduled, m_disabled, method_scheduled, alive, events, timer,
                            calls, made, disturbed>>
        BY <1>4 DEF Finish
      <3> QED
        BY <2>2, <2>3, <3>1 DEF State, TypeOK
  <1> QED
    BY <1>3, <1>4

LEMMA ThrowKeepsState ==
  ASSUME State, Throw
  PROVE State'
  <1>1. frames' = <<>> /\ frames' \in Seq(Frame)
    BY DEF Throw
  <1>2. Nested'
    BY <1>1 DEF Nested, Idle
  <1> QED
    BY <1>1, <1>2 DEF Throw, State, TypeOK, schedulerVars

LEMMA StateHolds == Spec => []State
  <1>1. State /\ [Next]_vars => State'
    <2> SUFFICES ASSUME State, [Next]_vars PROVE State'
      OBVIOUS
    <2>1. CASE UNCHANGED vars
      BY <2>1 DEF vars, schedulerVars, State, TypeOK, Nested, Idle, Top
    <2>3. CASE Next
      BY <2>3, ClientsKeepState, EntersKeepState, CheckKeepsState, RunKeepsState, FinishKeepsState, ThrowKeepsState
         DEF Next, Loop
    <2> QED
      BY <2>1, <2>3
  <1> QED
    BY InitState, <1>1, PTL DEF Spec

-----------------------------------------------------------------------------
(* Something queued has an event under way: m_scheduled says so.           *)

EventOnTheWay ==
  /\ m_methods # <<>> => m_scheduled
  /\ m_scheduled => events > 0 \/ timer

LEMMA EventStep ==
  ASSUME State, EventOnTheWay, [Next]_vars
  PROVE EventOnTheWay'
  <1> USE DEF EventOnTheWay
  <1>1. events \in Nat
    BY DEF State, TypeOK
  <1>2. ASSUME NEW m \in Methods, Schedule(m) PROVE EventOnTheWay'
    <2>1. CASE MustQueue(m)
      BY <1>1, <1>2, <2>1 DEF Schedule, PostEvent
    <2>2. CASE ~MustQueue(m)
      BY <1>2, <2>2 DEF Schedule
    <2> QED
      BY <2>1, <2>2
  <1>3. ASSUME NEW m \in Methods, Cancel(m) \/ Destroy(m) PROVE EventOnTheWay'
    <2>1. m_methods = <<>> => m_methods' = <<>>
      BY <1>3, WithoutCounts DEF Cancel, Destroy, Unqueue, State, TypeOK
    <2>2. UNCHANGED <<m_scheduled, events, timer>>
      BY <1>3 DEF Cancel, Destroy
    <2> QED
      BY <2>1, <2>2
  <1>4. ASSUME NEW m \in Methods, Construct(m) PROVE EventOnTheWay'
    BY <1>4 DEF Construct, schedulerVars
  <1>5. CASE Disable \/ Enable
    BY <1>5 DEF Disable, Enable
  <1>6. CASE Poll
    BY <1>6 DEF Poll, schedulerVars
  <1>7. CASE Event \/ Execute
    BY <1>7 DEF Event, Execute, Enter, TakeMethods
  <1>8. CASE Check \/ Run \/ Return \/ Throw
    BY <1>8 DEF Check, Run, Return, Throw, schedulerVars
  <1>9. CASE Finish
    BY <1>9 DEF Finish, TakeMethods
  <1>10. CASE UNCHANGED vars
    BY <1>10 DEF vars, schedulerVars
  <1> QED
    BY <1>2, <1>3, <1>4, <1>5, <1>6, <1>7, <1>8, <1>9, <1>10 DEF Next, Loop

(* What is queued is executed by an event (DeferredMethodScheduler::       *)
(* schedule, timer): the flag that one is under way never outlives it,     *)
(* whatever is cancelled, executed by hand or polled in between.           *)
THEOREM EventCorrect == Spec => []EventPosted
  <1>1. Init => EventOnTheWay
    BY DEF Init, EventOnTheWay
  <1>2. EventOnTheWay => EventPosted
    BY DEF EventOnTheWay, EventPosted
  <1> QED
    BY StateHolds, EventStep, <1>1, <1>2, PTL DEF Spec

-----------------------------------------------------------------------------
(* How a step changes the number of outstanding calls.                     *)

LEMMA OutstandingType ==
  ASSUME State, NEW x \in Methods
  PROVE /\ Cardinality(PositionsOf(m_methods, x)) \in Nat /\ Outstanding(x) \in Nat
        /\ IsFiniteSet(Remaining(x)) /\ Cardinality(Remaining(x)) \in Nat
        /\ Cardinality(PositionsOf(m_methods, x)) <= Outstanding(x)
  <1>1. m_methods \in Seq(Methods) /\ m_executing \in Seq(Methods)
    BY DEF State, TypeOK
  <1>2. PositionsOf(m_methods, x) \in SUBSET DOMAIN m_methods /\ Remaining(x) \in SUBSET DOMAIN m_executing
    BY DEF PositionsOf, Remaining
  <1>3. Cardinality(PositionsOf(m_methods, x)) \in Nat
    BY <1>1, <1>2, CountType
  <1>4. IsFiniteSet(Remaining(x)) /\ Cardinality(Remaining(x)) \in Nat
    BY <1>1, <1>2, CountType
  <1> QED
    BY <1>3, <1>4 DEF Outstanding

LEMMA ScheduleAdds ==
  ASSUME State, NEW m \in Methods, Schedule(m), NEW x \in Methods
  PROVE Outstanding(x)' = Outstanding(x) + IF x = m /\ MustQueue(m) THEN 1 ELSE 0
  <1>1. UNCHANGED <<m_executing, m_unqueued, frames>>
    BY DEF Schedule
  <1>2. Remaining(x)' = Remaining(x)
    BY <1>1 DEF Remaining, Idle, Top
  <1>3. Cardinality(PositionsOf(m_methods', x)) =
          Cardinality(PositionsOf(m_methods, x)) + IF x = m /\ MustQueue(m) THEN 1 ELSE 0
    <2>1. m_methods \in Seq(Methods)
      BY DEF State, TypeOK
    <2>2. CASE MustQueue(m)
      <3>1. m_methods' = Append(m_methods, m)
        BY <2>2 DEF Schedule
      <3> QED
        BY <2>1, <2>2, <3>1, CountAppend
    <2>3. CASE ~MustQueue(m)
      BY <2>3, OutstandingType DEF Schedule
    <2> QED
      BY <2>2, <2>3
  <1> QED
    BY <1>1, <1>2, <1>3, OutstandingType DEF Outstanding

LEMMA UnqueueTakesAll ==
  ASSUME State, NEW m \in Methods, Unqueue(m), UNCHANGED <<m_executing, frames>>, NEW x \in Methods
  PROVE Outstanding(x)' = IF x = m THEN 0 ELSE Outstanding(x)
  <1>1. Remaining(x)' = Remaining(x)
    BY DEF Remaining, Idle, Top
  <1>2. Cardinality(PositionsOf(m_methods', x)) = IF x = m THEN 0 ELSE Cardinality(PositionsOf(m_methods, x))
    BY WithoutCounts DEF Unqueue, State, TypeOK
  <1>3. CASE x # m
    <2>1. x \in m_unqueued' <=> x \in m_unqueued
      BY <1>3 DEF Unqueue
    <2> QED
      BY <1>1, <1>2, <1>3, <2>1 DEF Outstanding
  <1>4. CASE x = m
    <2>1. CASE m \in Range(m_executing)
      <3>1. m \in m_unqueued'
        BY <2>1 DEF Unqueue
      <3> QED
        BY <3>1, <1>2, <1>4 DEF Outstanding
    <2>2. CASE m \notin Range(m_executing)
      <3>1. Remaining(x) = {}
        BY <1>4, <2>2 DEF Remaining, PositionsOf, Range
      <3>2. Cardinality(Remaining(x)') = 0
        BY <1>1, <3>1, FS_EmptySet
      <3> QED
        BY <3>2, <1>2, <1>4 DEF Outstanding
    <2> QED
      BY <2>1, <2>2
  <1> QED
    BY <1>3, <1>4

(* All that is queued is taken, the rest of an outer call is dropped.      *)
LEMMA TakeKeepsQueued ==
  ASSUME State, TakeMethods, ~Idle', Top'.at = 1, Top'.phase = "check", NEW x \in Methods
  PROVE /\ Outstanding(x)' = Cardinality(PositionsOf(m_methods, x))
        /\ Remaining(x) = {} => Outstanding(x)' = Outstanding(x)
  <1>1. m_methods' = <<>> /\ m_unqueued' = {} /\ m_executing' = m_methods
    BY DEF TakeMethods
  <1>2. Remaining(x)' = PositionsOf(m_methods, x)
    <2>1. \A i \in PositionsOf(m_methods, x) : i >= 1
      BY DEF PositionsOf, State, TypeOK
    <2> QED
      BY <1>1, <2>1 DEF Remaining
  <1>3. Cardinality(PositionsOf(m_methods', x)) = 0
    BY <1>1, CountEmpty
  <1>4. Outstanding(x)' = Cardinality(PositionsOf(m_methods, x))
    BY <1>1, <1>2, <1>3, OutstandingType DEF Outstanding
  <1>5. ASSUME Remaining(x) = {} PROVE Outstanding(x) = Cardinality(PositionsOf(m_methods, x))
    BY <1>5, OutstandingType, FS_EmptySet DEF Outstanding
  <1> QED
    BY <1>4, <1>5

(* The loop looks at a method; only executing one changes the balance.     *)
LEMMA LoopTakesOne ==
  ASSUME State, Check \/ Run \/ Return, NEW x \in Methods
  PROVE Outstanding(x)' = Outstanding(x) - IF Run /\ x = m_executing[Top.at] THEN 1 ELSE 0
  <1>1. UNCHANGED schedulerVars /\ ~Idle
    BY DEF Check, Run, Return, InMethod
  <1>2. Top \in Frame /\ Top.at \in Nat \ {0}
    BY <1>1, TopFits
  <1>3. m_executing \in Seq(Methods)
    BY DEF State, TypeOK
  <1>4. \A i \in PositionsOf(m_executing, x) : i \in Nat
    BY <1>3 DEF PositionsOf
  <1>5. UNCHANGED Remaining(x) => Outstanding(x)' = Outstanding(x) - 0
    BY <1>1, OutstandingType DEF Outstanding, schedulerVars
  <1>6. CASE Check /\ StillValid(m_executing[Top.at])
    <2> DEFINE f == [Top EXCEPT !.phase = "valid"]
    <2>1. f \in Frame /\ f.at = Top.at /\ f.phase = "valid" /\ frames' = AtTop(f)
      BY <1>2, <1>6 DEF Check, Frame
    <2> HIDE DEF f
    <2>2. Top' = f /\ ~Idle'
      BY <2>1, <1>1, <1>2, FrameReplaced
    <2>3. UNCHANGED Remaining(x)
      BY <1>1, <1>6, <2>1, <2>2 DEF Remaining, Check, schedulerVars
    <2>4. ~Run
      BY <1>6 DEF Check, Run
    <2> QED
      BY <1>5, <2>3, <2>4
  <1>7. CASE Check /\ ~StillValid(m_executing[Top.at])
    <2> DEFINE f == [Top EXCEPT !.at = @ + 1]
    <2>1. f \in Frame /\ f.at = Top.at + 1 /\ f.phase = "check" /\ frames' = AtTop(f)
      BY <1>2, <1>7 DEF Check, Frame
    <2> HIDE DEF f
    <2>2. Top' = f /\ ~Idle'
      BY <2>1, <1>1, <1>2, FrameReplaced
    <2>3. ~Run /\ Top.phase = "check"
      BY <1>7 DEF Check, Run
    <2>4. CASE x = m_executing[Top.at]
      <3>1. x \in m_unqueued /\ x \in m_unqueued'
        BY <1>1, <1>7, <2>4 DEF StillValid, schedulerVars
      <3>2. m_methods' = m_methods
        BY <1>1 DEF schedulerVars
      <3> QED
        BY <3>1, <3>2, <2>3, OutstandingType DEF Outstanding
    <2>5. CASE x # m_executing[Top.at]
      <3>1. Top.at \notin PositionsOf(m_executing, x)
        BY <2>5 DEF PositionsOf
      <3>2. UNCHANGED Remaining(x)
        BY <1>1, <1>2, <1>4, <2>1, <2>2, <2>3, <3>1 DEF Remaining, schedulerVars
      <3> QED
        BY <1>5, <3>2, <2>3
    <2> QED
      BY <2>4, <2>5
  <1>8. CASE Return
    <2> DEFINE f == [at |-> Top.at + 1, phase |-> "check", caller |-> Top.caller]
    <2>1. f \in Frame /\ f.at = Top.at + 1 /\ f.phase = "check" /\ frames' = AtTop(f) /\ Top.phase = "run"
      BY <1>2, <1>8 DEF Return, InMethod, Frame
    <2> HIDE DEF f
    <2>2. Top' = f /\ ~Idle'
      BY <2>1, <1>1, <1>2, FrameReplaced
    <2>3. UNCHANGED Remaining(x)
      BY <1>1, <1>2, <2>1, <2>2 DEF Remaining, schedulerVars
    <2>4. ~Run
      BY <2>1 DEF Run
    <2> QED
      BY <1>5, <2>3, <2>4
  <1>9. CASE Run
    <2> DEFINE f == [Top EXCEPT !.phase = "run"]
    <2>1. f \in Frame /\ f.at = Top.at /\ f.phase = "run" /\ frames' = AtTop(f) /\ Top.phase = "valid"
      BY <1>2, <1>9 DEF Run, Frame
    <2> HIDE DEF f
    <2>2. Top' = f /\ ~Idle'
      BY <2>1, <1>1, <1>2, FrameReplaced
    <2>3. Top.at \in DOMAIN m_executing /\ m_executing[Top.at] \notin m_unqueued
      BY <1>1, <2>1 DEF State, Nested
    <2>4. Remaining(x)' = Remaining(x) \ {Top.at}
      BY <1>1, <1>2, <1>4, <2>1, <2>2 DEF Remaining, schedulerVars
    <2>5. Top.at \in Remaining(x) <=> x = m_executing[Top.at]
      BY <1>1, <1>2, <2>1, <2>3 DEF Remaining, PositionsOf
    <2>6. Cardinality(Remaining(x)') = Cardinality(Remaining(x)) - IF x = m_executing[Top.at] THEN 1 ELSE 0
      <3>1. IsFiniteSet(Remaining(x)) /\ Cardinality(Remaining(x)) \in Nat
        BY OutstandingType
      <3>2. Cardinality(Remaining(x) \ {Top.at}) =
              IF Top.at \in Remaining(x) THEN Cardinality(Remaining(x)) - 1 ELSE Cardinality(Remaining(x))
        BY <3>1, FS_RemoveElement
      <3> QED
        BY <2>4, <2>5, <3>1, <3>2
    <2> QED
      BY <1>1, <1>9, <2>3, <2>6, OutstandingType DEF Outstanding, schedulerVars
  <1> QED
    BY <1>6, <1>7, <1>8, <1>9

-----------------------------------------------------------------------------
(* The balance.  Nobody has more calls outstanding than were asked for, a  *)
(* compressed method at most one, and only if it knows; as long as no      *)
(* batch was disturbed nobody has less.                                    *)

NoneTooMany ==
  \A x \in Methods :
    /\ Outstanding(x) <= calls[x]
    /\ x \notin alive => calls[x] = 0
    /\ x \in Compressed => Outstanding(x) <= 1 /\ (~method_scheduled[x] => Outstanding(x) = 0)

NoneTooFew ==
  ~disturbed =>
    /\ Len(frames) <= 1
    /\ NoCallLost
    /\ \A x \in Compressed \cap alive : method_scheduled[x] => Outstanding(x) >= 1

Balance == NoneTooMany /\ NoneTooFew

LEMMA InitBalance == Init => Balance
  <1> SUFFICES ASSUME Init PROVE Balance
    OBVIOUS
  <1>1. ASSUME NEW x \in Methods PROVE Outstanding(x) = 0
    <2>1. Remaining(x) = {} /\ m_methods = <<>>
      BY DEF Init, Remaining, Idle
    <2> QED
      BY <2>1, CountEmpty, FS_EmptySet DEF Outstanding
  <1>2. Len(frames) = 0
    BY DEF Init
  <1> QED
    BY <1>1, <1>2, MethodsAssumption DEF Init, Balance, NoneTooMany, NoneTooFew, NoCallLost

(* What asks for no call and grants none may only lose some, and only when *)
(* it disturbs a batch.                                                    *)
LEMMA LossKeepsBalance ==
  ASSUME State, Balance, UNCHANGED <<calls, alive, method_scheduled>>,
         \A x \in Methods : Outstanding(x)' \in Nat /\ Outstanding(x)' <= Outstanding(x),
         ~disturbed' => /\ ~disturbed /\ Len(frames') <= 1
                        /\ \A x \in Methods : Outstanding(x)' = Outstanding(x)
  PROVE Balance'
  <1>1. \A x \in Methods : Outstanding(x) \in Nat /\ calls[x] \in Nat
    BY OutstandingType DEF State, TypeOK
  <1>2. NoneTooMany'
    BY <1>1 DEF Balance, NoneTooMany
  <1>3. NoneTooFew'
    BY <1>1, MethodsAssumption DEF Balance, NoneTooFew, NoCallLost
  <1> QED
    BY <1>2, <1>3 DEF Balance

LEMMA ScheduleBalance ==
  ASSUME State, Balance, NEW m \in Methods, Schedule(m)
  PROVE Balance'
  <1>1. \A x \in Methods : Outstanding(x) \in Nat /\ calls[x] \in Nat
    BY OutstandingType DEF State, TypeOK
  <1>2. \A x \in Methods : Outstanding(x)' = Outstanding(x) + IF x = m /\ MustQueue(m) THEN 1 ELSE 0
    BY ScheduleAdds
  <1>3. \A x \in Methods : calls'[x] = IF x # m THEN calls[x] ELSE IF m \in Compressed THEN 1 ELSE calls[m] + 1
    BY DEF Schedule, State, TypeOK
  <1>4. m \in alive /\ UNCHANGED <<alive, frames, disturbed>>
    BY DEF Schedule
  <1>5. \A x \in Methods : /\ x = m /\ MustQueue(m) => method_scheduled'[x]
                           /\ ~(x = m /\ MustQueue(m)) => (method_scheduled'[x] <=> method_scheduled[x])
    <2>1. CASE MustQueue(m)
      BY <2>1 DEF Schedule, State, TypeOK
    <2>2. CASE ~MustQueue(m)
      BY <2>2 DEF Schedule
    <2> QED
      BY <2>1, <2>2
  <1>6. MustQueue(m) <=> ~method_scheduled[m] \/ m \notin Compressed
    BY DEF MustQueue
  <1>7. NoneTooMany'
    <2> SUFFICES ASSUME NEW x \in Methods
                 PROVE /\ Outstanding(x)' <= calls'[x]
                       /\ x \notin alive' => calls'[x] = 0
                       /\ x \in Compressed => Outstanding(x)' <= 1 /\ (~method_scheduled'[x] => Outstanding(x)' = 0)
      BY DEF NoneTooMany
    <2>1. /\ Outstanding(x) <= calls[x]
          /\ x \notin alive => calls[x] = 0
          /\ x \in Compressed => Outstanding(x) <= 1 /\ (~method_scheduled[x] => Outstanding(x) = 0)
      BY DEF Balance, NoneTooMany
    <2>2. CASE x = m
      BY <1>1, <1>2, <1>3, <1>4, <1>5, <1>6, <2>1, <2>2
    <2>3. CASE x # m
      BY <1>1, <1>2, <1>3, <1>4, <1>5, <2>1, <2>3
    <2> QED
      BY <2>2, <2>3
  <1>8. NoneTooFew'
    <2> SUFFICES ASSUME ~disturbed' PROVE NoneTooFew'
      BY DEF NoneTooFew
    <2>1. /\ Len(frames) <= 1
          /\ \A x \in Methods : calls[x] <= Outstanding(x)
          /\ \A x \in Compressed \cap alive : method_scheduled[x] => Outstanding(x) >= 1
      BY <1>4 DEF Balance, NoneTooFew, NoCallLost
    <2>2. ASSUME NEW x \in Methods PROVE calls'[x] <= Outstanding(x)'
      <3>1. CASE x = m
        BY <1>1, <1>2, <1>3, <1>4, <1>6, <2>1, <3>1
      <3>2. CASE x # m
        BY <1>1, <1>2, <1>3, <2>1, <3>2
      <3> QED
        BY <3>1, <3>2
    <2>3. ASSUME NEW x \in Compressed \cap alive', method_scheduled'[x] PROVE Outstanding(x)' >= 1
      <3>1. x \in Methods
        BY MethodsAssumption
      <3>2. CASE x = m /\ MustQueue(m)
        BY <1>1, <1>2, <3>1, <3>2
      <3>3. CASE ~(x = m /\ MustQueue(m))
        BY <1>1, <1>2, <1>4, <1>5, <2>1, <2>3, <3>1, <3>3
      <3> QED
        BY <3>2, <3>3
    <2> QED
      BY <1>4, <2>1, <2>2, <2>3 DEF NoneTooFew, NoCallLost
  <1> QED
    BY <1>7, <1>8 DEF Balance

LEMMA CancelBalance ==
  ASSUME State, Balance, NEW m \in Methods, Cancel(m) \/ Destroy(m)
  PROVE Balance'
  <1>1. \A x \in Methods : Outstanding(x) \in Nat /\ calls[x] \in Nat
    BY OutstandingType DEF State, TypeOK
  <1>2. Unqueue(m) /\ UNCHANGED <<m_executing, frames>>
    BY DEF Cancel, Destroy
  <1>3. \A x \in Methods : Outstanding(x)' = IF x = m THEN 0 ELSE Outstanding(x)
    BY <1>2, UnqueueTakesAll
  <1>4. \A x \in Methods : calls'[x] = IF x = m THEN 0 ELSE calls[x]
    BY DEF Cancel, Destroy, Forgotten, State, TypeOK
  <1>5. \A x \in Methods : method_scheduled'[x] =
                             IF x = m /\ m \in Range(m_methods) THEN FALSE ELSE method_scheduled[x]
    BY <1>2 DEF Unqueue, State, TypeOK
  <1>7. alive' = alive \/ (alive' = alive \ {m} /\ Destroy(m))
    <2>1. CASE Cancel(m)
      BY <2>1 DEF Cancel
    <2>2. CASE Destroy(m)
      BY <2>2 DEF Destroy
    <2> QED
      BY <2>1, <2>2
  <1>8. NoneTooMany'
    <2> SUFFICES ASSUME NEW x \in Methods
                 PROVE /\ Outstanding(x)' <= calls'[x]
                       /\ x \notin alive' => calls'[x] = 0
                       /\ x \in Compressed => Outstanding(x)' <= 1 /\ (~method_scheduled'[x] => Outstanding(x)' = 0)
      BY DEF NoneTooMany
    <2>1. /\ Outstanding(x) <= calls[x]
          /\ x \notin alive => calls[x] = 0
          /\ x \in Compressed => Outstanding(x) <= 1 /\ (~method_scheduled[x] => Outstanding(x) = 0)
      BY DEF Balance, NoneTooMany
    <2>2. CASE x = m
      BY <1>1, <1>3, <1>4, <2>1, <2>2
    <2>3. CASE x # m
      BY <1>1, <1>3, <1>4, <1>5, <1>7, <2>1, <2>3
    <2> QED
      BY <2>2, <2>3
  <1>9. ASSUME ~disturbed', m \in Compressed \cap alive' PROVE ~method_scheduled'[m]
    <2>1. m \notin Range(m_executing) /\ m \in alive /\ ~disturbed
      BY <1>7, <1>9 DEF Cancel, Destroy
    <2>2. CASE m \in Range(m_methods)
      BY <1>5, <2>2
    <2>3. CASE m \notin Range(m_methods)
      <3>1. PositionsOf(m_methods, m) = {} /\ Remaining(m) = {}
        BY <2>1, <2>3 DEF PositionsOf, Range, Remaining
      <3>2. Outstanding(m) = 0
        BY <3>1, FS_EmptySet DEF Outstanding
      <3>3. ~method_scheduled[m]
        BY <3>2, <2>1, <1>9 DEF Balance, NoneTooFew
      <3> QED
        BY <3>3, <1>5
    <2> QED
      BY <2>2, <2>3
  <1>10. NoneTooFew'
    <2> SUFFICES ASSUME ~disturbed' PROVE NoneTooFew'
      BY DEF NoneTooFew
    <2>1. ~disturbed
      BY DEF Cancel, Destroy
    <2>2. \A x \in Compressed \cap alive' : x # m /\ method_scheduled'[x] => Outstanding(x)' >= 1
      BY <2>1, <1>3, <1>5, <1>7, MethodsAssumption DEF Balance, NoneTooFew
    <2>3. Len(frames') <= 1 /\ NoCallLost'
      BY <2>1, <1>1, <1>2, <1>3, <1>4 DEF Balance, NoneTooFew, NoCallLost
    <2> QED
      BY <2>2, <2>3, <1>9 DEF NoneTooFew
  <1> QED
    BY <1>8, <1>10 DEF Balance

LEMMA RunBalance ==
  ASSUME State, Balance, Run
  PROVE Balance'
  <1>1. \A x \in Methods : Outstanding(x) \in Nat /\ calls[x] \in Nat
    BY OutstandingType DEF State, TypeOK
  <1>2. ~Idle /\ Top.phase = "valid" /\ UNCHANGED <<alive, disturbed>>
    BY DEF Run
  <1>3. PICK m \in Methods : m = m_executing[Top.at]
    BY <1>2 DEF State, Nested, TypeOK
  <1>4. \A x \in Methods : Outstanding(x)' = Outstanding(x) - IF x = m THEN 1 ELSE 0
    BY <1>3, LoopTakesOne
  <1>5. /\ \A x \in Methods : calls'[x] = IF x # m THEN calls[x]
                                          ELSE IF m \in Compressed \/ calls[m] = 0 THEN 0 ELSE calls[m] - 1
        /\ ~method_scheduled'[m]
        /\ \A x \in Methods : x # m => (method_scheduled'[x] <=> method_scheduled[x])
    BY <1>3 DEF Run, State, TypeOK
  <1>6. Len(frames') = Len(frames)
    <2>1. [Top EXCEPT !.phase = "run"] \in Frame /\ [Top EXCEPT !.phase = "run"].at >= 1
      BY <1>2, TopFits DEF Frame
    <2> QED
      BY <2>1, <1>2, FrameReplaced DEF Run
  <1>7. m \notin m_unqueued /\ Top.at \in Remaining(m)
    <2>1. Top.at \in DOMAIN m_executing /\ m \notin m_unqueued
      BY <1>2, <1>3 DEF State, Nested
    <2>2. Top.at \in Nat
      BY <1>2, TopFits
    <2> QED
      BY <1>2, <1>3, <2>1, <2>2 DEF Remaining, PositionsOf
  <1>8. Outstanding(m) >= 1
    <2>1. Cardinality(Remaining(m)) # 0
      BY <1>3, <1>7, OutstandingType, FS_EmptySet
    <2> QED
      BY <1>3, <1>7, <2>1, OutstandingType DEF Outstanding
  <1>9. \A x \in Methods : /\ Outstanding(x) <= calls[x]
                           /\ x \notin alive => calls[x] = 0
                           /\ x \in Compressed => Outstanding(x) <= 1 /\ (~method_scheduled[x] => Outstanding(x) = 0)
    BY DEF Balance, NoneTooMany
  <1>10. NoneTooMany'
    <2> SUFFICES ASSUME NEW x \in Methods
                 PROVE /\ Outstanding(x)' <= calls'[x]
                       /\ x \notin alive' => calls'[x] = 0
                       /\ x \in Compressed => Outstanding(x)' <= 1 /\ (~method_scheduled'[x] => Outstanding(x)' = 0)
      BY DEF NoneTooMany
    <2>1. CASE x = m
      <3>1. m \in Compressed => method_scheduled[m] /\ Outstanding(m) = 1
        BY <1>1, <1>3, <1>8, <1>9
      <3>2. Outstanding(m)' = Outstanding(m) - 1 /\ calls[m] >= 1
        BY <1>1, <1>3, <1>4, <1>8, <1>9
      <3>3. ~method_scheduled'[m] /\ calls'[m] = IF m \in Compressed THEN 0 ELSE calls[m] - 1
        BY <1>1, <1>3, <1>5, <3>2
      <3>4. m \notin Compressed => Outstanding(m) - 1 <= calls[m] - 1
        BY <1>1, <1>3, <1>9
      <3> QED
        BY <2>1, <1>1, <1>2, <1>9, <3>1, <3>2, <3>3, <3>4
    <2>2. CASE x # m
      BY <1>1, <1>2, <1>4, <1>5, <1>9, <2>2
    <2> QED
      BY <2>1, <2>2
  <1>11. NoneTooFew'
    <2> SUFFICES ASSUME ~disturbed' PROVE NoneTooFew'
      BY DEF NoneTooFew
    <2>1. /\ Len(frames) <= 1
          /\ \A x \in Methods : calls[x] <= Outstanding(x)
          /\ \A x \in Compressed \cap alive : method_scheduled[x] => Outstanding(x) >= 1
      BY <1>2 DEF Balance, NoneTooFew, NoCallLost
    <2>2. ASSUME NEW x \in Methods PROVE calls'[x] <= Outstanding(x)'
      BY <1>1, <1>3, <1>4, <1>5, <1>8, <2>1
    <2>3. ASSUME NEW x \in Compressed \cap alive', method_scheduled'[x] PROVE Outstanding(x)' >= 1
      BY <1>1, <1>2, <1>4, <1>5, <2>1, <2>3, MethodsAssumption
    <2> QED
      BY <1>6, <2>1, <2>2, <2>3 DEF NoneTooFew, NoCallLost
  <1> QED
    BY <1>10, <1>11 DEF Balance

LEMMA BalanceStep ==
  ASSUME State, Balance, [Next]_vars
  PROVE Balance'
  <1> DEFINE Same == \A x \in Methods : Outstanding(x)' = Outstanding(x)
  <1>1. \A x \in Methods : Outstanding(x) \in Nat /\ Cardinality(PositionsOf(m_methods, x)) \in Nat
                           /\ Cardinality(PositionsOf(m_methods, x)) <= Outstanding(x)
    BY OutstandingType
  <1>2. ASSUME Same, UNCHANGED <<calls, alive, method_scheduled, disturbed>>, Len(frames') <= 1 \/ UNCHANGED frames
        PROVE Balance'
    BY <1>1, <1>2, LossKeepsBalance DEF Balance, NoneTooFew
  <1>3. ASSUME UNCHANGED <<m_methods, m_unqueued, m_executing, frames>> PROVE Same
    BY <1>3 DEF Outstanding, Remaining, Idle, Top
  <1>4. ASSUME NEW m \in Methods, Schedule(m) \/ Cancel(m) \/ Destroy(m) PROVE Balance'
    BY <1>4, ScheduleBalance, CancelBalance
  <1>5. ASSUME NEW m \in Methods, Construct(m) PROVE Balance'
    <2>1. UNCHANGED <<m_methods, m_unqueued, m_executing, frames, calls, disturbed>>
      BY <1>5 DEF Construct, schedulerVars
    <2>2. Same
      BY <1>3, <2>1
    <2>3. /\ m \notin alive /\ alive' = alive \cup {m}
          /\ \A x \in Methods : method_scheduled'[x] = IF x = m THEN FALSE ELSE method_scheduled[x]
      BY <1>5 DEF Construct, State, TypeOK
    <2>4. calls[m] = 0 /\ Outstanding(m) = 0
      <3>1. calls[m] = 0 /\ Outstanding(m) <= calls[m]
        BY <2>3 DEF Balance, NoneTooMany
      <3> QED
        BY <3>1, <1>1
    <2>5. NoneTooMany'
      BY <2>1, <2>2, <2>3, <2>4, <1>1 DEF Balance, NoneTooMany
    <2>6. NoneTooFew'
      BY <2>1, <2>2, <2>3, MethodsAssumption DEF Balance, NoneTooFew, NoCallLost
    <2> QED
      BY <2>5, <2>6 DEF Balance
  <1>6. CASE Disable \/ Enable \/ Poll \/ UNCHANGED vars
    <2>1. UNCHANGED <<m_methods, m_unqueued, m_executing, frames, calls, alive, method_scheduled, disturbed>>
      BY <1>6 DEF Disable, Enable, Poll, schedulerVars, vars
    <2> QED
      BY <1>2, <1>3, <2>1
  <1>7. CASE Event \/ Execute
    <2>1. PICK caller \in {"event", "execute"} : Enter(caller)
      BY <1>7 DEF Event, Execute
    <2> DEFINE f == [at |-> 1, phase |-> "check", caller |-> caller]
    <2>2. f \in Frame /\ f.at = 1 /\ f.phase = "check" /\ frames' = Append(frames, f)
      BY <2>1 DEF Enter, Frame
    <2>3. ~Idle => Top.phase = "run"
      BY <1>7 DEF Event, Execute, MainFree, InMethod
    <2> HIDE DEF f
    <2>4. ~Idle' /\ Top' = f /\ Len(frames') = Len(frames) + 1
      BY <2>2, <2>3, FramePushed
    <2>5. ASSUME NEW x \in Methods
          PROVE /\ Outstanding(x)' = Cardinality(PositionsOf(m_methods, x))
                /\ Idle => Outstanding(x)' = Outstanding(x)
      <3>1. Idle => Remaining(x) = {}
        BY DEF Remaining
      <3> QED
        BY <2>1, <2>2, <2>4, <3>1, TakeKeepsQueued DEF Enter
    <2>6. disturbed' = (disturbed \/ ~Idle) /\ UNCHANGED <<calls, alive, method_scheduled>>
      BY <2>1 DEF Enter
    <2>7. Idle => Len(frames') <= 1
      BY <2>4 DEF Idle
    <2> QED
      BY <1>1, <2>5, <2>6, <2>7, LossKeepsBalance
  <1>8. CASE Check \/ Return
    <2>1. ~Run
      BY <1>8 DEF Check, Return, InMethod, Run
    <2>2. Same
      BY <1>1, <1>8, <2>1, LoopTakesOne
    <2>3. ~Idle /\ UNCHANGED <<calls, alive, method_scheduled, disturbed>>
      BY <1>8 DEF Check, Return, InMethod
    <2>4. Top \in Frame /\ Top.at \in Nat \ {0}
      BY <2>3, TopFits
    <2>5. PICK f \in Frame : f.at >= 1 /\ frames' = AtTop(f)
      <3> DEFINE f1 == [Top EXCEPT !.phase = "valid"]
                 f2 == [Top EXCEPT !.at = @ + 1]
                 f3 == [at |-> Top.at + 1, phase |-> "check", caller |-> Top.caller]
      <3>1. f1 \in Frame /\ f1.at >= 1
        BY <2>4 DEF Frame
      <3>2. f2 \in Frame /\ f2.at >= 1
        BY <2>4 DEF Frame
      <3>3. f3 \in Frame /\ f3.at >= 1
        BY <2>4 DEF Frame
      <3>4. frames' = AtTop(f1) \/ frames' = AtTop(f2) \/ frames' = AtTop(f3)
        BY <1>8 DEF Check, Return
      <3> QED
        BY <3>1, <3>2, <3>3, <3>4
    <2>6. Len(frames') = Len(frames)
      BY <2>3, <2>5, FrameReplaced
    <2> QED
      BY <1>1, <2>2, <2>3, <2>6, LossKeepsBalance DEF Balance, NoneTooFew
  <1>9. CASE Run
    BY <1>9, RunBalance
  <1>10. CASE Finish
    <2>1. /\ ~Idle /\ Top.phase = "check" /\ Top.at > Len(m_executing)
          /\ UNCHANGED <<calls, alive, method_scheduled, disturbed>>
      BY <1>10 DEF Finish
    <2>2. Top \in Frame /\ Top.at \in Nat \ {0} /\ Len(frames) \in Nat
      BY <2>1, TopFits
    <2>3. \A x \in Methods : Remaining(x) = {}
      BY <2>1, <2>2 DEF Remaining, PositionsOf, State, TypeOK
    <2>4. CASE Top.caller = "execute" /\ AnyPending
      <3> DEFINE f == [Top EXCEPT !.at = 1]
      <3>1. f \in Frame /\ f.at = 1 /\ f.phase = "check" /\ frames' = AtTop(f) /\ TakeMethods
        BY <1>10, <2>1, <2>2, <2>4 DEF Finish, Frame
      <3> HIDE DEF f
      <3>2. Top' = f /\ ~Idle' /\ Len(frames') = Len(frames)
        BY <3>1, <2>1, FrameReplaced
      <3>3. Same
        BY <2>3, <3>1, <3>2, TakeKeepsQueued
      <3> QED
        BY <1>1, <2>1, <3>2, <3>3, LossKeepsBalance DEF Balance, NoneTooFew
    <2>5. CASE ~(Top.caller = "execute" /\ AnyPending)
      <3>1. /\ frames' = Front(frames) /\ m_executing' = <<>> /\ m_unqueued' = {} /\ UNCHANGED m_methods
        BY <1>10, <2>5 DEF Finish
      <3>2. Len(frames') = Len(frames) - 1
        BY <2>1, <3>1, FramePopped
      <3>3. \A x \in Methods : Remaining(x)' = {}
        BY <3>1, CountEmpty DEF Remaining
      <3>4. Same
        BY <2>3, <3>1, <3>3, FS_EmptySet DEF Outstanding
      <3> QED
        BY <1>1, <2>1, <2>2, <3>2, <3>4, LossKeepsBalance DEF Balance, NoneTooFew
    <2> QED
      BY <2>4, <2>5
  <1>11. CASE Throw
    <2>1. Idle' /\ disturbed' /\ UNCHANGED <<m_methods, m_unqueued, calls, alive, method_scheduled>>
      BY <1>11 DEF Throw, Idle, schedulerVars
    <2>2. \A x \in Methods : Remaining(x)' = {}
      BY <2>1 DEF Remaining
    <2>3. ASSUME NEW x \in Methods PROVE Outstanding(x)' = Cardinality(PositionsOf(m_methods, x))
      <3>1. Cardinality(Remaining(x)') = 0
        BY <2>2, FS_EmptySet
      <3> QED
        BY <2>1, <3>1, <1>1 DEF Outstanding
    <2> QED
      BY <1>1, <2>1, <2>3, LossKeepsBalance
  <1> QED
    BY <1>4, <1>5, <1>6, <1>7, <1>8, <1>9, <1>10, <1>11 DEF Next, Loop

LEMMA BalanceHolds == Spec => []Balance
  BY InitBalance, StateHolds, BalanceStep, PTL DEF Spec

(* A call that was scheduled stays outstanding until it is executed or     *)
(* cancelled, whatever threads schedule meanwhile, unless a method cancels *)
(* one of the batch it is part of, causes another do_execute(), or throws. *)
THEOREM NoLossCorrect == Spec => []LostOnlyIfDisturbed
  <1>1. Balance => LostOnlyIfDisturbed
    BY DEF Balance, NoneTooFew, LostOnlyIfDisturbed
  <1> QED
    BY BalanceHolds, <1>1, PTL

(* A method is executed only if it exists and a call of it is due, in a    *)
(* disturbed batch too: nothing cancelled or destroyed is executed, and    *)
(* nothing more often than it was asked for (~DeferredMethod, unqueue).    *)
THEOREM NoSpuriousCorrect == Spec => NoSpuriousCall
  <1>1. ASSUME State, Balance, Run
        PROVE m_executing[Top.at] \in alive /\ calls[m_executing[Top.at]] > 0
    <2>1. PICK m \in Methods : m = m_executing[Top.at] /\ m \notin m_unqueued /\ Top.at \in Remaining(m)
      <3>1. ~Idle /\ Top.phase = "valid"
        BY <1>1 DEF Run
      <3>2. Top.at \in DOMAIN m_executing /\ m_executing[Top.at] \notin m_unqueued
        BY <1>1, <3>1 DEF State, Nested
      <3>3. m_executing[Top.at] \in Methods
        BY <1>1, <3>2 DEF State, TypeOK
      <3>4. Top.at \in Nat
        BY <1>1, <3>1, TopFits
      <3> QED
        BY <3>1, <3>2, <3>3, <3>4 DEF Remaining, PositionsOf
    <2>2. Outstanding(m) \in Nat /\ Outstanding(m) # 0
      <3>1. Cardinality(Remaining(m)) # 0
        BY <1>1, <2>1, OutstandingType, FS_EmptySet
      <3> QED
        BY <1>1, <2>1, <3>1, OutstandingType DEF Outstanding
    <2>3. Outstanding(m) <= calls[m] /\ calls[m] \in Nat /\ (m \notin alive => calls[m] = 0)
      BY <1>1 DEF Balance, NoneTooMany, State, TypeOK
    <2> QED
      BY <2>1, <2>2, <2>3
  <1>2. State /\ Balance => [Run => LET m == m_executing[Top.at] IN m \in alive /\ calls[m] > 0]_vars
    BY <1>1
  <1> QED
    BY StateHolds, BalanceHolds, <1>2, PTL DEF NoSpuriousCall

(* Every variable keeps its type, the calls of do_execute() included.      *)
THEOREM TypeCorrect == Spec => []TypeOK
  BY StateHolds, PTL DEF State
=============================================================================

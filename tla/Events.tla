-------------------------------- MODULE Events --------------------------------
(***************************************************************************)
(* tl::event (tl/tl/tlEvents.h, tlEventsVar.h) with the weak pointers to   *)
(* its receivers (tl::Object, tl/tl/tlObject.cc).  A receiver that is      *)
(* called may do anything: register and remove receivers, destroy or       *)
(* detach any of them, fire the event again, destroy it, or throw.  All of *)
(* it happens in one thread, inside of the calls of event::operator().     *)
(***************************************************************************)
EXTENDS Naturals, Sequences, SequencesExt

CONSTANTS
  Objects,     \* the receiver objects; an address may be used again
  NoObject,    \* a weak pointer whose object is gone
  Functions,   \* the member functions (and client data) registered
  MaxAdds,     \* bound: registrations
  MaxFires,    \* bound: calls of operator()
  MaxDepth,    \* bound: nested calls of operator()
  Throwing     \* receivers throw exceptions

ASSUME ObjectsAssumption == NoObject \notin Objects
ASSUME BoundsAssumption ==
  MaxAdds \in Nat /\ MaxFires \in Nat /\ MaxDepth \in Nat /\ Throwing \in BOOLEAN

VARIABLES
  event_alive,
  m_receivers,            \* of [serial, obj, fn]; the vector is ordered by serial
  mp_destroyed_sentinel,  \* the firing whose was_destroyed it points to, or 0
  frames,                 \* the calls of operator(), innermost last
  alive,                  \* the objects that exist
  owners,                 \* history: the object of each registration, by serial
  fired,                  \* history: calls of operator()
  attached,               \* history: serials whose object lives and listens
  registered,             \* history: what was added and not removed since
  astray                  \* history: the event died in a way a firing may miss

eventVars == <<event_alive, m_receivers, mp_destroyed_sentinel>>
historyVars == <<owners, fired, attached, registered, astray>>
vars == <<eventVars, frames, alive, historyVars>>

(* A firing has come to the serial "at" in its copy of the receivers, and  *)
(* looks for the next one or is inside the call of that one.  "due" and    *)
(* "called" are history: the serials registered when it began, and those   *)
(* it has called.                                                          *)
Receiver == [serial : Nat, obj : Objects \union {NoObject}, fn : Functions]
Frame == [tmp_receivers : SUBSET Receiver, at : Nat, phase : {"look", "call"},
          was_destroyed : BOOLEAN, org_sentinel : Nat,
          due : SUBSET Nat, called : SUBSET Nat]

Top == Last(frames)
AtTop(f) == [frames EXCEPT ![Len(frames)] = f]
Looking == frames # <<>> /\ Top.phase = "look"
InCall == frames # <<>> /\ Top.phase = "call"
ClientRuns == frames = <<>> \/ InCall

Rest == IF frames = <<>> THEN {}
        ELSE {r \in Top.tmp_receivers : r.serial > Top.at}
IsNext(r) == r \in Rest /\ \A q \in Rest : r.serial <= q.serial

Serials(rs) == {r.serial : r \in rs}

-----------------------------------------------------------------------------
(* Registration.                                                           *)

Matches(r, o, f) == r.obj = o /\ r.fn = f

MayAdd(o, f) == \A r \in m_receivers : ~Matches(r, o, f)

AddReceiver(o, f) ==
  /\ ClientRuns /\ event_alive /\ o \in alive
  /\ Len(owners) < MaxAdds
  /\ MayAdd(o, f)
  /\ m_receivers' = m_receivers \union {[serial |-> Len(owners) + 1, obj |-> o, fn |-> f]}
  /\ owners' = Append(owners, o)
  /\ attached' = attached \union {Len(owners) + 1}
  /\ registered' = registered \union {<<o, f>>}
  /\ UNCHANGED <<event_alive, mp_destroyed_sentinel, frames, alive, fired, astray>>

(* A firing that is under way goes on with its copy.                       *)
RemoveReceiver(o, f) ==
  /\ ClientRuns /\ event_alive /\ o \in alive
  /\ \E r \in m_receivers : Matches(r, o, f) /\ m_receivers' = m_receivers \ {r}
  /\ registered' = registered \ {<<o, f>>}
  /\ UNCHANGED <<event_alive, mp_destroyed_sentinel, frames, alive, owners,
                 fired, attached, astray>>

ClearReceivers ==
  /\ ClientRuns /\ event_alive
  /\ m_receivers' = {} /\ registered' = {}
  /\ UNCHANGED <<event_alive, mp_destroyed_sentinel, frames, alive, owners,
                 fired, attached, astray>>

-----------------------------------------------------------------------------
(* An object that is destroyed, or that detaches from all events, resets   *)
(* the pointers to it, in the event and in the copies being worked on.     *)

Reset(rs, o) == {IF r.obj = o THEN [r EXCEPT !.obj = NoObject] ELSE r : r \in rs}

(* Slip: the copies hold plain pointers.                                   *)
ResetInFramesNot(o) == frames

ResetInFrames(o) ==
  [i \in DOMAIN frames |->
     [frames[i] EXCEPT !.tmp_receivers = Reset(frames[i].tmp_receivers, o)]]

DetachFromAllEvents(o) ==
  /\ m_receivers' = Reset(m_receivers, o)
  /\ frames' = ResetInFrames(o)
  /\ attached' = {n \in attached : owners[n] # o}
  /\ registered' = {p \in registered : p[1] # o}
  /\ UNCHANGED <<event_alive, mp_destroyed_sentinel, owners, fired, astray>>

Detach(o) ==
  /\ ClientRuns /\ o \in alive
  /\ DetachFromAllEvents(o)
  /\ UNCHANGED alive

DestroyObject(o) ==
  /\ ClientRuns /\ o \in alive
  /\ DetachFromAllEvents(o)
  /\ alive' = alive \ {o}

ConstructObject(o) ==
  /\ ClientRuns /\ o \notin alive
  /\ alive' = alive \union {o}
  /\ UNCHANGED <<eventVars, frames, historyVars>>

-----------------------------------------------------------------------------
(* The event.                                                              *)

(* Slip: a firing is not told that the event is gone.                      *)
TellFiringNot == frames

(* The destructor tells the innermost firing only.                         *)
TellFiring ==
  IF mp_destroyed_sentinel = 0 THEN frames
  ELSE [frames EXCEPT ![mp_destroyed_sentinel].was_destroyed = TRUE]

DestroyEvent ==
  /\ ClientRuns /\ event_alive
  /\ event_alive' = FALSE
  /\ frames' = TellFiring
  /\ mp_destroyed_sentinel' = 0
  /\ m_receivers' = {} /\ registered' = {}
  /\ astray' = (Len(frames) > 1)
  /\ UNCHANGED <<alive, owners, fired, attached>>

Fire ==
  /\ ClientRuns /\ event_alive
  /\ Len(frames) < MaxDepth /\ fired < MaxFires
  /\ fired' = fired + 1
  /\ mp_destroyed_sentinel' = Len(frames) + 1
  /\ frames' = Append(frames,
       [tmp_receivers |-> m_receivers, at |-> 0, phase |-> "look",
        was_destroyed |-> FALSE, org_sentinel |-> mp_destroyed_sentinel,
        due |-> Serials(m_receivers) \intersect attached, called |-> {}])
  /\ UNCHANGED <<event_alive, m_receivers, alive, owners, attached, registered, astray>>

Expired(r) == r.obj = NoObject

Skip ==
  /\ Looking
  /\ \E r \in Rest : /\ IsNext(r) /\ Expired(r)
                     /\ frames' = AtTop([Top EXCEPT !.at = r.serial])
  /\ UNCHANGED <<eventVars, alive, historyVars>>

CallReceiver(r) ==
  /\ Looking /\ IsNext(r) /\ ~Expired(r)
  /\ frames' = AtTop([Top EXCEPT !.phase = "call", !.at = r.serial,
                                 !.called = @ \union {r.serial}])
  /\ UNCHANGED <<eventVars, alive, historyVars>>

Call == \E r \in Rest : CallReceiver(r)

(* was_destroyed is looked at when the call returns, and ends the firing   *)
(* without the sentinel of an outer firing being restored or set.          *)
Return ==
  /\ InCall
  /\ frames' = IF Top.was_destroyed THEN Front(frames)
               ELSE AtTop([Top EXCEPT !.phase = "look"])
  /\ UNCHANGED <<eventVars, alive, historyVars>>

(* Slip: an exception ends the firing.                                     *)
AfterExceptionEnds == AtTop([Top EXCEPT !.phase = "look", !.tmp_receivers = {}])

AfterException == AtTop([Top EXCEPT !.phase = "look"])

(* A receiver that throws does not keep the others from being called.      *)
Throw ==
  /\ Throwing /\ InCall
  /\ frames' = AfterException
  /\ astray' = (astray \/ Top.was_destroyed)
  /\ UNCHANGED <<eventVars, alive, owners, fired, attached, registered>>

(* Slip: the clean-up keeps one of each object.                            *)
CleanedByObject(rs) ==
  {r \in rs : r.obj # NoObject /\ \A q \in rs : q.obj = r.obj => q.serial >= r.serial}

Cleaned(rs) == {r \in rs : r.obj # NoObject}

(* Slip: the sentinel of an outer firing is forgotten.                     *)
SentinelBeforeNot == 0

SentinelBefore == Top.org_sentinel

Finish ==
  /\ Looking /\ Rest = {}
  /\ mp_destroyed_sentinel' = SentinelBefore
  /\ m_receivers' = IF event_alive THEN Cleaned(m_receivers) ELSE {}
  /\ frames' = Front(frames)
  /\ UNCHANGED <<event_alive, alive, historyVars>>

-----------------------------------------------------------------------------
Init ==
  /\ event_alive = TRUE /\ m_receivers = {} /\ mp_destroyed_sentinel = 0
  /\ frames = <<>>
  /\ alive = Objects
  /\ owners = <<>> /\ fired = 0 /\ attached = {} /\ registered = {} /\ astray = FALSE

Next ==
  \/ \E o \in Objects, f \in Functions : AddReceiver(o, f) \/ RemoveReceiver(o, f)
  \/ \E o \in Objects : Detach(o) \/ DestroyObject(o) \/ ConstructObject(o)
  \/ ClearReceivers \/ DestroyEvent
  \/ Fire \/ Skip \/ Call \/ Return \/ Throw \/ Finish

Spec == Init /\ [][Next]_vars

-----------------------------------------------------------------------------
(* Properties.                                                             *)

(* While the event exists, its sentinel points to the innermost firing.    *)
TypeOK ==
  /\ event_alive \in BOOLEAN
  /\ m_receivers \subseteq Receiver
  /\ frames \in Seq(Frame)
  /\ mp_destroyed_sentinel \in 0..Len(frames)
  /\ event_alive => mp_destroyed_sentinel = Len(frames)
  /\ alive \subseteq Objects
  /\ owners \in Seq(Objects) /\ fired \in Nat
  /\ attached \subseteq DOMAIN owners
  /\ registered \subseteq alive \X Functions
  /\ astray \in BOOLEAN

(* "This way added events won't be called now" (operator()): a firing      *)
(* calls a receiver only if it was registered when the firing began and    *)
(* its object still exists and listens, and calls it once.  The object at  *)
(* the address of a destroyed one is another object.                       *)
CallsAreDue ==
  [][\A r \in Rest : CallReceiver(r) =>
       r.serial \in (Top.due \intersect attached) \ Top.called]_vars

(* A firing that runs to its end has called all of those, in spite of      *)
(* exceptions, of nested firings and of what the receivers removed.        *)
EveryoneCalled ==
  [][Finish => Top.due \intersect attached \subseteq Top.called]_vars

(* The event knows exactly the receivers that were added and neither       *)
(* removed, detached nor destroyed, and each once: the clean-up at the end *)
(* of a firing loses none, also when a nested firing has cleaned up before.*)
RegisteredOnce ==
  \A r, q \in m_receivers :
    r.obj # NoObject /\ r.obj = q.obj /\ r.fn = q.fn => r = q

NoneLost ==
  event_alive => {<<r.obj, r.fn>> : r \in {q \in m_receivers : q.obj # NoObject}} = registered

RegistrationsExact == RegisteredOnce /\ NoneLost

(* "during the call something deleted us. Stop immediately" (operator()):  *)
(* a firing whose event was destroyed calls nobody any more and does not   *)
(* touch the event.                                                        *)
NothingAfterDestruction == [][Call \/ Finish => event_alive]_vars

(* It holds if the event dies in a firing that is not nested in another    *)
(* one, and the receiver that destroyed it does not throw.                 *)
StopsAfterDestruction == [][Call \/ Finish => event_alive \/ astray]_vars
=============================================================================

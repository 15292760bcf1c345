----------------------------- MODULE EventsProofs -----------------------------
(***************************************************************************)
(* Proofs about Events for all objects, functions, depths of nesting and   *)
(* numbers of registrations and firings, with and without exceptions.  The *)
(* inductive invariant says of the event and of every copy a firing works  *)
(* on which entries there are, and which of them have expired.             *)
(***************************************************************************)
EXTENDS Events, TLAPS

-----------------------------------------------------------------------------
(* The inductive invariant.                                                *)

(* A list of receivers holds a serial once, and an entry has its object    *)
(* exactly as long as that object lives and listens.                       *)
EntriesExact(rs, ow, att) ==
  /\ \A r, q \in rs : r.serial = q.serial => r = q
  /\ \A r \in rs : r.serial \in 1..Len(ow)
  /\ \A r \in rs : r.serial \in att => r.obj = ow[r.serial]
  /\ \A r \in rs : r.serial \notin att => r.obj = NoObject

(* A firing still has all entries it began with, and of those that have    *)
(* not expired it has called the ones it has come past.                    *)
FrameExact(f, ow, att) ==
  /\ EntriesExact(f.tmp_receivers, ow, att)
  /\ f.due \subseteq Serials(f.tmp_receivers)
  /\ \A r \in f.tmp_receivers : r.serial \in att => r.serial \in f.due
  /\ \A n \in f.called : n <= f.at
  /\ \A r \in f.tmp_receivers :
       r.serial \in att /\ r.serial <= f.at => r.serial \in f.called

FramesExact(fs, ow, att) ==
  \A k \in 1..Len(fs) : FrameExact(fs[k], ow, att) /\ fs[k].org_sentinel = k - 1

Exact ==
  /\ EntriesExact(m_receivers, owners, attached)
  /\ FramesExact(frames, owners, attached)

(* The firing that was told that its event is gone is the innermost one.   *)
Told ==
  \A k \in 1..Len(frames) :
    frames[k].was_destroyed => /\ ~event_alive /\ mp_destroyed_sentinel = 0
                               /\ k = Len(frames)

(* A dead event that no firing may miss has none, or the one it was told.  *)
Left ==
  ~event_alive /\ ~astray =>
    \/ frames = <<>>
    \/ Len(frames) = 1 /\ frames[1].was_destroyed /\ frames[1].phase = "call"

EventInv == TypeOK /\ Exact /\ RegisteredOnce /\ NoneLost

-----------------------------------------------------------------------------
(* The helpers.                                                            *)

(* The innermost firing, and what replacing and removing it leaves.        *)
LEMMA TopTyped ==
  ASSUME frames \in Seq(Frame), frames # <<>>
  PROVE  /\ Len(frames) \in Nat \ {0}
         /\ Top = frames[Len(frames)] /\ Top \in Frame
         /\ Front(frames) \in Seq(Frame) /\ Len(Front(frames)) = Len(frames) - 1
         /\ \A k \in 1..(Len(frames) - 1) : Front(frames)[k] = frames[k]
         /\ \A f \in Frame :
              /\ AtTop(f) \in Seq(Frame) /\ Len(AtTop(f)) = Len(frames)
              /\ \A k \in 1..Len(frames) :
                   AtTop(f)[k] = IF k = Len(frames) THEN f ELSE frames[k]
<1>1. Len(frames) \in Nat \ {0}
  OBVIOUS
<1>2. Top = frames[Len(frames)] /\ Top \in Frame
  BY <1>1 DEF Top, Last
<1>3. Front(frames) \in Seq(Frame) /\ Len(Front(frames)) = Len(frames) - 1
  BY <1>1 DEF Front
<1>4. \A k \in 1..(Len(frames) - 1) : Front(frames)[k] = frames[k]
  BY <1>1 DEF Front
<1>5. ASSUME NEW f \in Frame
      PROVE  /\ AtTop(f) \in Seq(Frame) /\ Len(AtTop(f)) = Len(frames)
             /\ \A k \in 1..Len(frames) :
                  AtTop(f)[k] = IF k = Len(frames) THEN f ELSE frames[k]
  BY <1>1 DEF AtTop
<1> QED
  BY <1>1, <1>2, <1>3, <1>4, <1>5

(* Fewer entries are exact if the entries were.                            *)
LEMMA SubsetExact ==
  ASSUME NEW rs, NEW qs \in SUBSET rs, NEW ow, NEW att, EntriesExact(rs, ow, att)
  PROVE  EntriesExact(qs, ow, att)
BY DEF EntriesExact

(* A registration leaves the lists exact that do not have it.              *)
LEMMA AddExact ==
  ASSUME NEW rs \in SUBSET Receiver, NEW ow \in Seq(Objects), NEW att, NEW o \in Objects,
         EntriesExact(rs, ow, att)
  PROVE  EntriesExact(rs, Append(ow, o), att \union {Len(ow) + 1})
BY DEF EntriesExact, Receiver

(* The pointers to an object are reset where it was listening.             *)
LEMMA ResetExact ==
  ASSUME NEW rs \in SUBSET Receiver, NEW ow \in Seq(Objects), NEW att, NEW o \in Objects,
         EntriesExact(rs, ow, att)
  PROVE  /\ Reset(rs, o) \in SUBSET Receiver
         /\ Serials(Reset(rs, o)) = Serials(rs)
         /\ EntriesExact(Reset(rs, o), ow, {n \in att : ow[n] # o})
<1> DEFINE R(r) == IF r.obj = o THEN [r EXCEPT !.obj = NoObject] ELSE r
<1>1. ASSUME NEW r \in rs
      PROVE  R(r) \in Receiver /\ R(r).serial = r.serial
             /\ R(r).obj = IF r.obj = o THEN NoObject ELSE r.obj
  BY DEF Receiver
<1>2. Reset(rs, o) = {R(r) : r \in rs}
  BY DEF Reset
<1> HIDE DEF R
<1>3. Reset(rs, o) \in SUBSET Receiver
  BY <1>1, <1>2
<1>4. Serials(Reset(rs, o)) = Serials(rs)
  BY <1>1, <1>2 DEF Serials
<1>5. EntriesExact(Reset(rs, o), ow, {n \in att : ow[n] # o})
  <2>1. ASSUME NEW r \in rs, NEW q \in rs, R(r).serial = R(q).serial
        PROVE  R(r) = R(q)
    BY <1>1, <2>1 DEF EntriesExact
  <2>2. ASSUME NEW r \in rs
        PROVE  R(r).serial \in 1..Len(ow)
    BY <1>1 DEF EntriesExact
  <2>3. ASSUME NEW r \in rs, R(r).serial \in {n \in att : ow[n] # o}
        PROVE  R(r).obj = ow[R(r).serial]
    BY <1>1, <2>3 DEF EntriesExact
  <2>4. ASSUME NEW r \in rs, R(r).serial \notin {n \in att : ow[n] # o}
        PROVE  R(r).obj = NoObject
    BY <1>1, <2>4 DEF EntriesExact
  <2> QED
    BY <1>2, <2>1, <2>2, <2>3, <2>4 DEF EntriesExact
<1> QED
  BY <1>3, <1>4, <1>5

(* The next entry of a firing is the only one of its serial, and the ones  *)
(* up to it are the ones the firing has come past and it.                  *)
LEMMA NextIsNext ==
  ASSUME frames \in Seq(Frame), frames # <<>>, FramesExact(frames, owners, attached),
         NEW r, IsNext(r)
  PROVE  /\ r \in Top.tmp_receivers /\ r \in Receiver /\ r.serial > Top.at
         /\ \A q \in Top.tmp_receivers : q.serial <= r.serial => q.serial <= Top.at \/ q = r
<1>1. Top \in Frame /\ FrameExact(Top, owners, attached)
  BY TopTyped DEF FramesExact
<1>2. r \in Top.tmp_receivers /\ r.serial > Top.at
  BY DEF IsNext, Rest
<1>3. Top.tmp_receivers \subseteq Receiver /\ Top.at \in Nat
  BY <1>1 DEF Frame
<1>4. ASSUME NEW q \in Top.tmp_receivers, q.serial <= r.serial, ~(q.serial <= Top.at)
      PROVE  q = r
  <2>1. q.serial \in Nat /\ r.serial \in Nat
    BY <1>2, <1>3 DEF Receiver
  <2>2. q \in Rest
    BY <1>3, <1>4, <2>1 DEF Rest
  <2>3. q.serial = r.serial
    BY <1>4, <2>1, <2>2 DEF IsNext
  <2> QED
    BY <1>1, <1>2, <2>3 DEF FrameExact, EntriesExact
<1> QED
  BY <1>2, <1>3, <1>4

(* Replacing the innermost firing by one that is exact leaves all exact.   *)
LEMMA AtTopExact ==
  ASSUME frames \in Seq(Frame), frames # <<>>, FramesExact(frames, owners, attached),
         NEW f \in Frame, FrameExact(f, owners, attached), f.org_sentinel = Top.org_sentinel
  PROVE  FramesExact(AtTop(f), owners, attached)
BY TopTyped DEF FramesExact

(* Without the innermost firing the others are exact.                      *)
LEMMA FrontExact ==
  ASSUME frames \in Seq(Frame), frames # <<>>, FramesExact(frames, owners, attached)
  PROVE  FramesExact(Front(frames), owners, attached)
<1>1. /\ Len(Front(frames)) = Len(frames) - 1 /\ Len(frames) \in Nat
      /\ \A k \in 1..(Len(frames) - 1) : Front(frames)[k] = frames[k]
  BY TopTyped
<1>2. \A k \in 1..(Len(frames) - 1) : k \in 1..Len(frames)
  BY <1>1
<1> QED
  BY <1>1, <1>2 DEF FramesExact

-----------------------------------------------------------------------------
(* The invariant holds at first.                                           *)

LEMMA InitInv == Init => EventInv
<1> SUFFICES ASSUME Init PROVE EventInv
  OBVIOUS
<1>1. TypeOK
  <2>1. frames \in Seq(Frame) /\ owners \in Seq(Objects) /\ Len(frames) = 0
    BY DEF Init
  <2>2. /\ event_alive \in BOOLEAN /\ astray \in BOOLEAN
        /\ m_receivers = {} /\ mp_destroyed_sentinel = 0 /\ alive = Objects
        /\ fired \in Nat /\ attached = {} /\ registered = {}
    BY DEF Init
  <2> QED
    BY <2>1, <2>2 DEF TypeOK
<1>2. Exact
  BY DEF Init, Exact, EntriesExact, FramesExact
<1>3. RegisteredOnce /\ NoneLost
  BY DEF Init, RegisteredOnce, NoneLost
<1> QED
  BY <1>1, <1>2, <1>3 DEF EventInv

-----------------------------------------------------------------------------
(* Every operation keeps it.                                               *)

(* add() appends one entry with the serial that comes next.                *)
LEMMA AddInv ==
  ASSUME EventInv, NEW o \in Objects, NEW f \in Functions, AddReceiver(o, f)
  PROVE  EventInv'
<1> USE DEF EventInv
<1> DEFINE n == Len(owners) + 1
           new == [serial |-> n, obj |-> o, fn |-> f]
<1>1. new \in Receiver /\ n \in Nat
  BY DEF TypeOK, Receiver
<1>2. TypeOK'
  BY <1>1 DEF TypeOK, AddReceiver
<1>3. EntriesExact(m_receivers, owners', attached')
  BY AddExact DEF TypeOK, Exact, AddReceiver
<1>4. \A r \in m_receivers : r.serial # n
  BY DEF TypeOK, Exact, EntriesExact
<1>5. owners'[n] = o /\ n \in 1..Len(owners') /\ n \in attached'
  BY DEF TypeOK, AddReceiver
<1>6. EntriesExact(m_receivers', owners', attached')
  BY <1>3, <1>4, <1>5 DEF EntriesExact, AddReceiver
<1>7. FramesExact(frames', owners', attached')
  <2> SUFFICES ASSUME NEW k \in 1..Len(frames)
               PROVE  FrameExact(frames[k], owners', attached')
    BY DEF FramesExact, Exact, AddReceiver
  <2>1. FrameExact(frames[k], owners, attached) /\ frames[k] \in Frame
    BY DEF FramesExact, Exact, TypeOK
  <2>2. frames[k].tmp_receivers \subseteq Receiver
    BY <2>1 DEF Frame
  <2>3. EntriesExact(frames[k].tmp_receivers, owners', attached')
    BY <2>1, <2>2, AddExact DEF FrameExact, TypeOK, AddReceiver
  <2>4. \A r \in frames[k].tmp_receivers : r.serial # n
    BY <2>1 DEF FrameExact, EntriesExact, TypeOK
  <2> QED
    BY <2>1, <2>3, <2>4 DEF FrameExact, AddReceiver
<1>8. \A r \in m_receivers : ~(r.obj = o /\ r.fn = f)
  BY DEF AddReceiver, MayAdd, Matches
<1>9. RegisteredOnce'
  BY <1>8 DEF RegisteredOnce, AddReceiver
<1>10. NoneLost'
  <2>1. o # NoObject
    BY ObjectsAssumption
  <2>2. m_receivers' = m_receivers \union {new} /\ registered' = registered \union {<<o, f>>}
    BY DEF AddReceiver
  <2>3. new.obj = o /\ new.fn = f
    OBVIOUS
  <2> HIDE DEF new
  <2>4. registered = {<<r.obj, r.fn>> : r \in {q \in m_receivers : q.obj # NoObject}}
    BY DEF NoneLost, AddReceiver
  <2>5. {q \in m_receivers' : q.obj # NoObject}
          = {q \in m_receivers : q.obj # NoObject} \union {new}
    BY <2>1, <2>2, <2>3
  <2> QED
    BY <2>2, <2>3, <2>4, <2>5 DEF NoneLost
<1> QED
  BY <1>2, <1>6, <1>7, <1>9, <1>10 DEF Exact

(* remove() takes out the one entry of an object and a function.           *)
LEMMA RemoveInv ==
  ASSUME EventInv, NEW o \in Objects, NEW f \in Functions, RemoveReceiver(o, f)
  PROVE  EventInv'
<1> USE DEF EventInv
<1>1. PICK r \in m_receivers : r.obj = o /\ r.fn = f /\ m_receivers' = m_receivers \ {r}
  BY DEF RemoveReceiver, Matches
<1>2. TypeOK'
  BY <1>1 DEF TypeOK, RemoveReceiver
<1>3. EntriesExact(m_receivers', owners', attached')
  BY <1>1, SubsetExact DEF Exact, RemoveReceiver
<1>4. FramesExact(frames', owners', attached')
  BY DEF Exact, RemoveReceiver
<1>5. RegisteredOnce'
  BY <1>1 DEF RegisteredOnce
<1>6. \A q \in m_receivers : q.obj = o /\ q.fn = f => q = r
  BY <1>1, ObjectsAssumption DEF RegisteredOnce
<1>7. NoneLost'
  BY <1>1, <1>6 DEF NoneLost, RemoveReceiver
<1> QED
  BY <1>2, <1>3, <1>4, <1>5, <1>7 DEF Exact

(* An object that goes or detaches leaves expired entries.                 *)
LEMMA DetachExact ==
  ASSUME EventInv, NEW o \in Objects, DetachFromAllEvents(o)
  PROVE  /\ m_receivers' \subseteq Receiver /\ frames' \in Seq(Frame)
         /\ Len(frames') = Len(frames)
         /\ attached' \subseteq DOMAIN owners'
         /\ registered' \subseteq (alive \ {o}) \X Functions
         /\ Exact' /\ RegisteredOnce' /\ NoneLost'
<1> USE DEF EventInv
<1>1. /\ m_receivers' \subseteq Receiver
      /\ EntriesExact(m_receivers', owners', attached')
  <2>1. /\ m_receivers' = Reset(m_receivers, o)
        /\ owners' = owners /\ attached' = {n \in attached : owners[n] # o}
    BY DEF DetachFromAllEvents
  <2>2. /\ m_receivers \in SUBSET Receiver /\ owners \in Seq(Objects)
        /\ EntriesExact(m_receivers, owners, attached)
    BY DEF TypeOK, Exact
  <2> QED
    BY <2>1, <2>2, ResetExact
<1>2. Len(frames') = Len(frames) /\ frames' \in Seq(Frame)
  <2>1. \A k \in DOMAIN frames : frames[k] \in Frame
    BY DEF TypeOK
  <2>2. \A k \in DOMAIN frames : EntriesExact(frames[k].tmp_receivers, owners, attached)
    BY DEF Exact, FramesExact, FrameExact, TypeOK
  <2>3. \A k \in DOMAIN frames : Reset(frames[k].tmp_receivers, o) \in SUBSET Receiver
    BY <2>1, <2>2, ResetExact DEF Frame, TypeOK
  <2>4. \A k \in DOMAIN frames :
          [frames[k] EXCEPT !.tmp_receivers = Reset(frames[k].tmp_receivers, o)] \in Frame
    BY <2>1, <2>3 DEF Frame
  <2>5. frames' = ResetInFrames(o) /\ frames \in Seq(Frame)
    BY DEF TypeOK, DetachFromAllEvents
  <2> HIDE DEF EventInv
  <2> QED
    BY <2>4, <2>5 DEF ResetInFrames
<1>3. FramesExact(frames', owners', attached')
  <2> SUFFICES ASSUME NEW k \in 1..Len(frames)
               PROVE  /\ FrameExact(frames'[k], owners', attached')
                      /\ frames'[k].org_sentinel = k - 1
    BY <1>2 DEF FramesExact
  <2> DEFINE fr == frames[k]
  <2>1. FrameExact(fr, owners, attached) /\ fr \in Frame /\ fr.org_sentinel = k - 1
    BY DEF Exact, FramesExact, TypeOK
  <2>2. frames'[k] = [fr EXCEPT !.tmp_receivers = Reset(fr.tmp_receivers, o)]
    <3>1. frames' = ResetInFrames(o) /\ k \in DOMAIN frames
      BY DEF TypeOK, DetachFromAllEvents
    <3> QED
      BY <3>1 DEF ResetInFrames
  <2> HIDE DEF fr
  <2>3. fr.tmp_receivers \in SUBSET Receiver
    BY <2>1 DEF Frame
  <2>4. /\ frames'[k].tmp_receivers = Reset(fr.tmp_receivers, o)
        /\ frames'[k].due = fr.due /\ frames'[k].called = fr.called
        /\ frames'[k].at = fr.at /\ frames'[k].org_sentinel = fr.org_sentinel
    BY <2>1, <2>2 DEF Frame
  <2>5. /\ Serials(Reset(fr.tmp_receivers, o)) = Serials(fr.tmp_receivers)
        /\ EntriesExact(Reset(fr.tmp_receivers, o), owners', attached')
    BY <2>1, <2>3, ResetExact DEF FrameExact, TypeOK, DetachFromAllEvents
  <2>6. attached' \subseteq attached
    BY DEF DetachFromAllEvents
  <2>7. \A r \in Reset(fr.tmp_receivers, o) : \E q \in fr.tmp_receivers : q.serial = r.serial
    BY <2>5 DEF Serials
  <2> QED
    BY <2>1, <2>4, <2>5, <2>6, <2>7 DEF FrameExact
<1> DEFINE R(r) == IF r.obj = o THEN [r EXCEPT !.obj = NoObject] ELSE r
<1>4. m_receivers' = {R(r) : r \in m_receivers}
  BY DEF DetachFromAllEvents, Reset
<1>5. \A r \in m_receivers : R(r).obj # NoObject => R(r) = r /\ r.obj # o
  BY DEF TypeOK, Receiver
<1>6. \A r \in m_receivers : r.obj # o => R(r) = r
  OBVIOUS
<1> HIDE DEF R
<1>7. RegisteredOnce'
  BY <1>4, <1>5 DEF RegisteredOnce
<1>8. NoneLost'
  <2> SUFFICES ASSUME event_alive
               PROVE  {<<r.obj, r.fn>> : r \in {q \in m_receivers' : q.obj # NoObject}}
                        = registered'
    BY DEF NoneLost, DetachFromAllEvents
  <2>1. {q \in m_receivers' : q.obj # NoObject}
          = {q \in m_receivers : q.obj # NoObject /\ q.obj # o}
    BY <1>4, <1>5, <1>6
  <2>2. registered' = {p \in registered : p[1] # o}
    BY DEF DetachFromAllEvents
  <2>3. registered = {<<r.obj, r.fn>> : r \in {q \in m_receivers : q.obj # NoObject}}
    BY DEF NoneLost
  <2> QED
    BY <2>1, <2>2, <2>3
<1>9. attached' \subseteq DOMAIN owners' /\ registered' \subseteq (alive \ {o}) \X Functions
  BY DEF TypeOK, DetachFromAllEvents
<1> QED
  BY <1>1, <1>2, <1>3, <1>7, <1>8, <1>9 DEF Exact

(* Objects detach, go, and come again at the same address.                 *)
LEMMA ObjectInv ==
  ASSUME EventInv, NEW o \in Objects,
         Detach(o) \/ DestroyObject(o) \/ ConstructObject(o)
  PROVE  EventInv'
<1>1. CASE Detach(o)
  <2>1. DetachFromAllEvents(o) /\ alive' = alive
    BY <1>1 DEF Detach
  <2>2. TypeOK'
    BY <2>1, DetachExact DEF EventInv, TypeOK, DetachFromAllEvents
  <2> QED
    BY <2>1, <2>2, DetachExact DEF EventInv
<1>2. CASE DestroyObject(o)
  <2>1. DetachFromAllEvents(o) /\ alive' = alive \ {o}
    BY <1>2 DEF DestroyObject
  <2>2. TypeOK'
    BY <2>1, DetachExact DEF EventInv, TypeOK, DetachFromAllEvents
  <2> QED
    BY <2>1, <2>2, DetachExact DEF EventInv
<1>3. CASE ConstructObject(o)
  <2>1. TypeOK'
    BY <1>3 DEF EventInv, TypeOK, ConstructObject, eventVars, historyVars
  <2> QED
    BY <1>3, <2>1 DEF EventInv, Exact, RegisteredOnce, NoneLost,
                      ConstructObject, eventVars, historyVars
<1> QED
  BY <1>1, <1>2, <1>3

(* clear() forgets the receivers.                                          *)
LEMMA ClearInv ==
  ASSUME EventInv, ClearReceivers
  PROVE  EventInv'
<1>1. TypeOK'
  BY DEF EventInv, TypeOK, ClearReceivers
<1>2. Exact'
  BY DEF EventInv, Exact, EntriesExact, ClearReceivers
<1> QED
  BY <1>1, <1>2 DEF EventInv, RegisteredOnce, NoneLost, ClearReceivers

(* The destructor tells one firing and leaves its list as it is.           *)
LEMMA DestroyEventInv ==
  ASSUME EventInv, DestroyEvent
  PROVE  EventInv'
<1> USE DEF EventInv
<1>1. /\ frames' \in Seq(Frame) /\ Len(frames') = Len(frames)
      /\ \A k \in 1..Len(frames) :
           /\ frames'[k].tmp_receivers = frames[k].tmp_receivers
           /\ frames'[k].due = frames[k].due /\ frames'[k].called = frames[k].called
           /\ frames'[k].at = frames[k].at
           /\ frames'[k].org_sentinel = frames[k].org_sentinel
  <2>1. CASE mp_destroyed_sentinel = 0
    BY <2>1 DEF DestroyEvent, TellFiring, TypeOK
  <2>2. CASE mp_destroyed_sentinel # 0
    <3> DEFINE m == mp_destroyed_sentinel
               told == [frames[m] EXCEPT !.was_destroyed = TRUE]
    <3>1. m \in 1..Len(frames) /\ frames \in Seq(Frame) /\ frames[m] \in Frame
      BY <2>2 DEF TypeOK
    <3>2. frames' = [frames EXCEPT ![m] = told]
      BY <2>2 DEF DestroyEvent, TellFiring
    <3>3. /\ told \in Frame
          /\ told.tmp_receivers = frames[m].tmp_receivers
          /\ told.due = frames[m].due /\ told.called = frames[m].called
          /\ told.at = frames[m].at /\ told.org_sentinel = frames[m].org_sentinel
      BY <3>1 DEF Frame
    <3> HIDE DEF m, told
    <3> QED
      BY <3>1, <3>2, <3>3
  <2> QED
    BY <2>1, <2>2
<1>2. TypeOK'
  <2>1. /\ event_alive' = FALSE /\ mp_destroyed_sentinel' = 0
        /\ m_receivers' = {} /\ registered' = {}
        /\ alive' = alive /\ owners' = owners /\ fired' = fired /\ attached' = attached
        /\ astray' \in BOOLEAN
    BY DEF DestroyEvent
  <2>2. /\ alive \subseteq Objects /\ owners \in Seq(Objects) /\ fired \in Nat
        /\ attached \subseteq DOMAIN owners
    BY DEF TypeOK
  <2>3. frames' \in Seq(Frame) /\ 0 \in 0..Len(frames')
    BY <1>1
  <2> HIDE DEF EventInv
  <2> QED
    BY <2>1, <2>2, <2>3 DEF TypeOK
<1>3. EntriesExact(m_receivers', owners', attached')
  BY DEF EntriesExact, DestroyEvent
<1>4. FramesExact(frames', owners', attached')
  <2>1. FramesExact(frames, owners, attached) /\ owners' = owners /\ attached' = attached
    BY DEF Exact, DestroyEvent
  <2> QED
    BY <1>1, <2>1 DEF FramesExact, FrameExact
<1>5. RegisteredOnce' /\ NoneLost'
  BY DEF DestroyEvent, RegisteredOnce, NoneLost
<1> QED
  BY <1>2, <1>3, <1>4, <1>5 DEF Exact

(* A firing begins with a copy of the receivers.                           *)
LEMMA FireInv ==
  ASSUME EventInv, Fire
  PROVE  EventInv'
<1> USE DEF EventInv
<1> DEFINE new == [tmp_receivers |-> m_receivers, at |-> 0, phase |-> "look",
                   was_destroyed |-> FALSE, org_sentinel |-> mp_destroyed_sentinel,
                   due |-> Serials(m_receivers) \intersect attached, called |-> {}]
<1>1. m_receivers \subseteq Receiver /\ EntriesExact(m_receivers, owners, attached)
  BY DEF TypeOK, Exact
<1>2. Serials(m_receivers) \subseteq Nat
  BY <1>1 DEF Serials, Receiver
<1>3. /\ frames \in Seq(Frame) /\ mp_destroyed_sentinel = Len(frames)
      /\ frames' = Append(frames, new)
      /\ UNCHANGED <<event_alive, m_receivers, alive, owners, attached, registered, astray>>
      /\ fired' = fired + 1 /\ mp_destroyed_sentinel' = Len(frames) + 1
  BY DEF TypeOK, Fire
<1>4. new \in Frame
  BY <1>1, <1>2, <1>3 DEF Frame
<1>5. FrameExact(new, owners, attached)
  <2>1. \A r \in m_receivers : r.serial > 0
    BY <1>1 DEF EntriesExact, TypeOK
  <2>2. \A r \in m_receivers : r.serial \in Serials(m_receivers)
    BY DEF Serials
  <2> QED
    BY <1>1, <2>1, <2>2 DEF FrameExact, Receiver
<1>6. new.org_sentinel = Len(frames)
  BY <1>3
<1> HIDE DEF new
<1>7. TypeOK'
  BY <1>3, <1>4 DEF TypeOK
<1>8. FramesExact(frames', owners', attached')
  BY <1>3, <1>4, <1>5, <1>6 DEF Exact, FramesExact
<1>9. Exact' /\ RegisteredOnce' /\ NoneLost'
  BY <1>3, <1>8 DEF Exact, RegisteredOnce, NoneLost
<1> QED
  BY <1>7, <1>9

(* A step that only replaces the innermost firing.                         *)
LEMMA TopInv ==
  ASSUME EventInv, frames # <<>>, NEW f \in Frame, FrameExact(f, owners, attached),
         f.org_sentinel = Top.org_sentinel, frames' = AtTop(f),
         UNCHANGED <<eventVars, alive, owners, fired, attached, registered>>,
         astray' \in BOOLEAN
  PROVE  EventInv'
<1> USE DEF EventInv
<1>1. AtTop(f) \in Seq(Frame) /\ Len(AtTop(f)) = Len(frames)
  BY TopTyped DEF TypeOK
<1>2. TypeOK'
  BY <1>1 DEF TypeOK, eventVars
<1>3. FramesExact(frames', owners', attached')
  BY AtTopExact DEF TypeOK, Exact
<1> QED
  BY <1>2, <1>3 DEF Exact, RegisteredOnce, NoneLost, eventVars

(* Coming to the next entry, to skip it if it has expired and to call it   *)
(* otherwise.                                                              *)
LEMMA StepInv ==
  ASSUME EventInv, Skip \/ Call
  PROVE  EventInv'
<1> USE DEF EventInv
<1>1. /\ frames \in Seq(Frame) /\ frames # <<>>
      /\ FramesExact(frames, owners, attached)
      /\ UNCHANGED <<eventVars, alive, owners, fired, attached, registered>>
      /\ astray' \in BOOLEAN
  BY DEF TypeOK, Exact, Skip, Call, CallReceiver, Looking, historyVars
<1>2. Top \in Frame /\ FrameExact(Top, owners, attached)
  BY <1>1, TopTyped DEF FramesExact
<1>3. CASE Skip
  <2>1. PICK r \in Rest : /\ IsNext(r) /\ r.obj = NoObject
                          /\ frames' = AtTop([Top EXCEPT !.at = r.serial])
    BY <1>3 DEF Skip, Expired
  <2> DEFINE f == [Top EXCEPT !.at = r.serial]
  <2>2. r \in Top.tmp_receivers /\ r \in Receiver /\ r.serial > Top.at
        /\ \A q \in Top.tmp_receivers : q.serial <= r.serial => q.serial <= Top.at \/ q = r
    BY <1>1, <2>1, NextIsNext
  <2>3. /\ f \in Frame /\ f.tmp_receivers = Top.tmp_receivers /\ f.due = Top.due
        /\ f.called = Top.called /\ f.at = r.serial /\ f.org_sentinel = Top.org_sentinel
        /\ r.serial \in Nat /\ Top.at \in Nat /\ Top.called \subseteq Nat
    BY <1>2, <2>2 DEF Frame, Receiver
  <2> HIDE DEF f
  <2>4. r.serial \notin attached
    <3>1. r.serial \in 1..Len(owners) /\ (r.serial \in attached => r.obj = owners[r.serial])
      BY <1>2, <2>2 DEF FrameExact, EntriesExact
    <3> QED
      BY <2>1, <3>1, ObjectsAssumption DEF TypeOK
  <2>5. FrameExact(f, owners, attached)
    <3>1. \A n \in f.called : n <= f.at
      BY <1>2, <2>2, <2>3 DEF FrameExact
    <3> QED
      BY <1>2, <2>2, <2>3, <2>4, <3>1 DEF FrameExact
  <2> QED
    BY <1>1, <2>1, <2>3, <2>5, TopInv DEF f
<1>4. CASE Call
  <2>1. PICK r \in Rest : CallReceiver(r)
    BY <1>4 DEF Call
  <2> DEFINE f == [Top EXCEPT !.phase = "call", !.at = r.serial,
                              !.called = @ \union {r.serial}]
  <2>2. IsNext(r) /\ frames' = AtTop(f)
    BY <2>1 DEF CallReceiver
  <2>3. r \in Top.tmp_receivers /\ r \in Receiver /\ r.serial > Top.at
        /\ \A q \in Top.tmp_receivers : q.serial <= r.serial => q.serial <= Top.at \/ q = r
    BY <1>1, <2>2, NextIsNext
  <2>4. /\ f \in Frame /\ f.tmp_receivers = Top.tmp_receivers /\ f.due = Top.due
        /\ f.called = Top.called \union {r.serial} /\ f.at = r.serial
        /\ f.org_sentinel = Top.org_sentinel
        /\ r.serial \in Nat /\ Top.at \in Nat /\ Top.called \subseteq Nat
    BY <1>2, <2>3 DEF Frame, Receiver
  <2> HIDE DEF f
  <2>5. FrameExact(f, owners, attached)
    <3>1. \A n \in f.called : n <= f.at
      BY <1>2, <2>3, <2>4 DEF FrameExact
    <3> QED
      BY <1>2, <2>3, <2>4, <3>1 DEF FrameExact
  <2> QED
    BY <1>1, <2>2, <2>4, <2>5, TopInv
<1> QED
  BY <1>3, <1>4

(* A receiver returns or throws, and its firing goes on.                   *)
LEMMA ReturnInv ==
  ASSUME EventInv, (Return /\ ~Top.was_destroyed) \/ Throw
  PROVE  EventInv'
<1> DEFINE f == [Top EXCEPT !.phase = "look"]
<1>1. /\ frames \in Seq(Frame) /\ frames # <<>>
      /\ FramesExact(frames, owners, attached)
      /\ frames' = AtTop(f)
      /\ UNCHANGED <<eventVars, alive, owners, fired, attached, registered>>
      /\ astray' \in BOOLEAN
  BY DEF EventInv, TypeOK, Exact, Return, Throw, AfterException, InCall, historyVars
<1> HIDE DEF f
<1>2. Top \in Frame /\ FrameExact(Top, owners, attached)
  BY <1>1, TopTyped DEF FramesExact
<1> USE DEF f
<1>3. /\ f \in Frame /\ f.tmp_receivers = Top.tmp_receivers /\ f.due = Top.due
      /\ f.called = Top.called /\ f.at = Top.at /\ f.org_sentinel = Top.org_sentinel
  BY <1>2 DEF Frame
<1> HIDE DEF f
<1>4. FrameExact(f, owners, attached)
  BY <1>2, <1>3 DEF FrameExact
<1> QED
  BY <1>1, <1>3, <1>4, TopInv

(* A firing ends, the one that was told at once and the others at the end  *)
(* of their list: the outer firings are left as they are.                  *)
LEMMA EndInv ==
  ASSUME EventInv, Told, (Return /\ Top.was_destroyed) \/ Finish
  PROVE  EventInv'
<1> USE DEF EventInv
<1>1. /\ frames \in Seq(Frame) /\ frames # <<>>
      /\ FramesExact(frames, owners, attached)
      /\ EntriesExact(m_receivers, owners, attached)
      /\ frames' = Front(frames)
      /\ UNCHANGED <<event_alive, alive, owners, fired, attached, registered, astray>>
  BY DEF TypeOK, Exact, Return, Finish, Looking, InCall, eventVars, historyVars
<1>2. /\ Len(frames) \in Nat \ {0} /\ Top = frames[Len(frames)]
      /\ frames' \in Seq(Frame) /\ Len(frames') = Len(frames) - 1
  BY <1>1, TopTyped
<1>3. FramesExact(frames', owners', attached')
  BY <1>1, FrontExact
<1>4. CASE Return /\ Top.was_destroyed
  <2>1. ~event_alive /\ mp_destroyed_sentinel = 0
    BY <1>2, <1>4 DEF Told
  <2>2. UNCHANGED <<event_alive, m_receivers, mp_destroyed_sentinel>>
    BY <1>4 DEF Return, eventVars
  <2>3. TypeOK'
    BY <1>1, <1>2, <2>1, <2>2 DEF TypeOK
  <2> QED
    BY <1>1, <1>3, <2>2, <2>3 DEF Exact, RegisteredOnce, NoneLost
<1>5. CASE Finish
  <2>1. Top.org_sentinel = Len(frames) - 1
    BY <1>1, <1>2 DEF FramesExact
  <2>2. /\ mp_destroyed_sentinel' = Len(frames) - 1
        /\ m_receivers' = IF event_alive THEN Cleaned(m_receivers) ELSE {}
    BY <1>5, <2>1 DEF Finish, SentinelBefore
  <2>3. m_receivers' \subseteq m_receivers
    BY <2>2 DEF Cleaned
  <2>4. TypeOK'
    BY <1>1, <1>2, <2>2, <2>3 DEF TypeOK
  <2>5. EntriesExact(m_receivers', owners', attached')
    BY <1>1, <2>3, SubsetExact
  <2>6. RegisteredOnce'
    BY <2>3 DEF RegisteredOnce
  <2>7. NoneLost'
    <3>1. event_alive => {q \in m_receivers' : q.obj # NoObject}
                           = {q \in m_receivers : q.obj # NoObject}
      BY <2>2 DEF Cleaned
    <3> QED
      BY <1>1, <3>1 DEF NoneLost
  <2> QED
    BY <1>3, <2>4, <2>5, <2>6, <2>7 DEF Exact
<1> QED
  BY <1>4, <1>5

(* The sentinel leads to the innermost firing while the event exists, so   *)
(* that one is told, and a dead event is not fired again.                  *)
LEMMA ToldInv ==
  ASSUME EventInv, Told, [Next]_vars
  PROVE  Told'
<1> USE DEF EventInv
<1>1. frames \in Seq(Frame) /\ Len(frames) \in Nat
  BY DEF TypeOK
<1>2. ASSUME NEW o \in Objects, Detach(o) \/ DestroyObject(o)
      PROVE  Told'
  <2>1. /\ frames' = ResetInFrames(o)
        /\ UNCHANGED <<event_alive, mp_destroyed_sentinel>>
    BY <1>2 DEF Detach, DestroyObject, DetachFromAllEvents
  <2>2. Len(frames') = Len(frames)
    BY <1>1, <2>1 DEF ResetInFrames
  <2>3. \A k \in 1..Len(frames) : frames'[k].was_destroyed = frames[k].was_destroyed
    BY <1>1, <2>1 DEF ResetInFrames, Frame
  <2> QED
    BY <2>1, <2>2, <2>3 DEF Told
<1>3. ASSUME DestroyEvent
      PROVE  Told'
  <2>1. CASE frames = <<>>
    BY <1>1, <1>3, <2>1 DEF DestroyEvent, TellFiring, TypeOK, Told
  <2>2. CASE frames # <<>>
    <3>1. mp_destroyed_sentinel = Len(frames) /\ Len(frames) # 0
      BY <1>1, <1>3, <2>2 DEF DestroyEvent, TypeOK
    <3>2. /\ frames' = [frames EXCEPT ![Len(frames)].was_destroyed = TRUE]
          /\ event_alive' = FALSE /\ mp_destroyed_sentinel' = 0
      BY <1>3, <3>1 DEF DestroyEvent, TellFiring
    <3>3. /\ Len(frames') = Len(frames)
          /\ \A k \in 1..Len(frames) : k # Len(frames) => frames'[k] = frames[k]
      BY <1>1, <3>2
    <3> QED
      BY <1>1, <3>2, <3>3 DEF Told
  <2> QED
    BY <2>1, <2>2
<1>4. ASSUME Fire
      PROVE  Told'
  <2>1. /\ event_alive /\ Len(frames') = Len(frames) + 1
        /\ \A k \in 1..Len(frames) : frames'[k] = frames[k]
        /\ frames'[Len(frames) + 1].was_destroyed = FALSE
    BY <1>1, <1>4 DEF Fire
  <2> QED
    BY <1>1, <2>1 DEF Told
<1>5. ASSUME NEW f \in Frame, frames # <<>>, f.was_destroyed = Top.was_destroyed,
             frames' = AtTop(f), UNCHANGED eventVars
      PROVE  Told'
  BY <1>1, <1>5, TopTyped DEF Told, eventVars
<1>6. ASSUME frames # <<>>, frames' = Front(frames)
      PROVE  Told'
  <2>1. /\ Len(frames') = Len(frames) - 1
        /\ \A k \in 1..(Len(frames) - 1) : frames'[k] = frames[k]
    BY <1>1, <1>6, TopTyped
  <2> QED
    BY <1>1, <2>1 DEF Told
<1>7. ASSUME UNCHANGED <<event_alive, mp_destroyed_sentinel, frames>>
      PROVE  Told'
  BY <1>7 DEF Told
<1>8. ASSUME Skip \/ Call \/ Return \/ Throw
      PROVE  Told'
  <2>1. frames # <<>> /\ UNCHANGED eventVars
    BY <1>8 DEF Skip, Call, CallReceiver, Return, Throw, Looking, InCall
  <2>2. Top \in Frame
    BY <1>1, <2>1, TopTyped
  <2>3. CASE Skip
    <3>1. PICK r \in Rest : frames' = AtTop([Top EXCEPT !.at = r.serial])
      BY <2>3 DEF Skip
    <3>2. r.serial \in Nat
      BY <2>1, <2>2 , <3>1 DEF Rest, Frame, Receiver
    <3>3. [Top EXCEPT !.at = r.serial] \in Frame
          /\ [Top EXCEPT !.at = r.serial].was_destroyed = Top.was_destroyed
      BY <2>2, <3>2 DEF Frame
    <3> QED
      BY <1>5, <2>1, <3>1, <3>3
  <2>4. CASE Call
    <3>1. PICK r \in Rest : CallReceiver(r)
      BY <2>4 DEF Call
    <3> DEFINE f == [Top EXCEPT !.phase = "call", !.at = r.serial,
                                !.called = @ \union {r.serial}]
    <3>2. r.serial \in Nat
      BY <2>1, <2>2, <3>1 DEF Rest, Frame, Receiver
    <3>3. f \in Frame /\ f.was_destroyed = Top.was_destroyed
      BY <2>2, <3>2 DEF Frame
    <3>4. frames' = AtTop(f)
      BY <3>1 DEF CallReceiver
    <3> HIDE DEF f
    <3> QED
      BY <1>5, <2>1, <3>3, <3>4
  <2>5. CASE Return \/ Throw
    <3> DEFINE f == [Top EXCEPT !.phase = "look"]
    <3>1. f \in Frame /\ f.was_destroyed = Top.was_destroyed
      BY <2>2 DEF Frame
    <3>2. frames' = Front(frames) \/ frames' = AtTop(f)
      BY <2>5 DEF Return, Throw, AfterException
    <3> HIDE DEF f
    <3> QED
      BY <1>5, <1>6, <2>1, <3>1, <3>2
  <2> QED
    BY <1>8, <2>3, <2>4, <2>5
<1>9. ASSUME Finish
      PROVE  Told'
  BY <1>6, <1>9 DEF Finish, Looking
<1>10. ASSUME NEW o \in Objects, NEW f \in Functions, AddReceiver(o, f) \/ RemoveReceiver(o, f)
       PROVE  Told'
  BY <1>7, <1>10 DEF AddReceiver, RemoveReceiver
<1>11. ASSUME NEW o \in Objects, ConstructObject(o)
       PROVE  Told'
  BY <1>7, <1>11 DEF ConstructObject, eventVars
<1>12. ASSUME ClearReceivers \/ UNCHANGED vars
       PROVE  Told'
  BY <1>7, <1>12 DEF ClearReceivers, vars, eventVars
<1> QED
  BY <1>2, <1>3, <1>4, <1>8, <1>9, <1>10, <1>11, <1>12 DEF Next

(* The firing that was told only returns, or throws.                       *)
LEMMA LeftInv ==
  ASSUME EventInv, Told, Left, [Next]_vars
  PROVE  Left'
<1> USE DEF EventInv
<1>1. frames \in Seq(Frame) /\ Len(frames) \in Nat
  BY DEF TypeOK
<1>2. ASSUME DestroyEvent
      PROVE  Left'
  <2>1. event_alive /\ mp_destroyed_sentinel = Len(frames) /\ astray' = (Len(frames) > 1)
    BY <1>2 DEF DestroyEvent, TypeOK
  <2>2. CASE frames = <<>>
    BY <1>1, <1>2, <2>1, <2>2 DEF DestroyEvent, TellFiring, Left
  <2>3. CASE frames # <<>> /\ Len(frames) = 1
    <3>1. Top \in Frame /\ Top = frames[1] /\ Top.phase = "call"
      BY <1>1, <1>2, <2>3, TopTyped DEF DestroyEvent, ClientRuns, InCall
    <3>2. frames' = [frames EXCEPT ![1].was_destroyed = TRUE]
      BY <1>2, <2>1, <2>3 DEF DestroyEvent, TellFiring
    <3>3. frames'[1] = [frames[1] EXCEPT !.was_destroyed = TRUE] /\ Len(frames') = 1
      BY <1>1, <2>3, <3>2
    <3>4. frames'[1].was_destroyed /\ frames'[1].phase = "call"
      BY <3>1, <3>3 DEF Frame
    <3> QED
      BY <3>3, <3>4 DEF Left
  <2>4. CASE Len(frames) > 1
    BY <2>1, <2>4 DEF Left
  <2>5. frames = <<>> \/ Len(frames) = 1 \/ Len(frames) > 1
    <3>1. frames # <<>> => Len(frames) # 0
      BY <1>1
    <3>2. \A n \in Nat : n = 0 \/ n = 1 \/ n > 1
      OBVIOUS
    <3>3. Len(frames) = 0 \/ Len(frames) = 1 \/ Len(frames) > 1
      BY <1>1, <3>2
    <3> QED
      BY <3>1, <3>3, Zenon
  <2> QED
    BY <2>2, <2>3, <2>4, <2>5
<1>3. ASSUME NEW o \in Objects, Detach(o) \/ DestroyObject(o)
      PROVE  Left'
  <2>1. /\ frames' = ResetInFrames(o)
        /\ UNCHANGED <<event_alive, astray>>
    BY <1>3 DEF Detach, DestroyObject, DetachFromAllEvents
  <2>2. Len(frames') = Len(frames) /\ frames' \in Seq(Frame)
    BY <1>3, DetachExact DEF Detach, DestroyObject
  <2>3. \A k \in 1..Len(frames) : /\ frames'[k].was_destroyed = frames[k].was_destroyed
                                  /\ frames'[k].phase = frames[k].phase
    BY <1>1, <2>1 DEF ResetInFrames, Frame
  <2>4. frames = <<>> => frames' = <<>>
    BY <1>1, <2>2
  <2> QED
    BY <1>1, <2>1, <2>2, <2>3, <2>4 DEF Left
<1>4. ASSUME Return
      PROVE  Left'
  <2>1. UNCHANGED <<event_alive, astray>> /\ frames # <<>>
    BY <1>4 DEF Return, InCall, eventVars, historyVars
  <2>2. ASSUME ~event_alive, ~astray
        PROVE  frames' = <<>>
    <3>1. Len(frames) = 1 /\ Top.was_destroyed
      BY <2>1, <2>2 DEF Left, Top, Last
    <3>2. frames' = Front(frames)
      BY <1>4, <3>1 DEF Return
    <3> QED
      BY <1>1, <2>1, <3>1, <3>2, TopTyped
  <2> QED
    BY <2>1, <2>2 DEF Left
<1>5. ASSUME Throw
      PROVE  Left'
  <2>1. event_alive' = event_alive /\ astray' = (astray \/ Top.was_destroyed) /\ frames # <<>>
    BY <1>5 DEF Throw, InCall, eventVars
  <2>2. ~event_alive /\ ~astray => Top.was_destroyed
    BY <2>1 DEF Left, Top, Last
  <2> QED
    BY <2>1, <2>2 DEF Left
<1>6. ASSUME Skip \/ Call \/ Finish
      PROVE  Left'
  <2>1. UNCHANGED <<event_alive, astray>> /\ frames # <<>> /\ Top.phase = "look"
    BY <1>6 DEF Skip, Call, CallReceiver, Finish, Looking, eventVars, historyVars
  <2>2. ~(~event_alive /\ ~astray)
    BY <2>1 DEF Left, Top, Last
  <2> QED
    BY <2>1, <2>2 DEF Left
<1>7. ASSUME Fire
      PROVE  Left'
  BY <1>7 DEF Fire, Left
<1>8. ASSUME UNCHANGED <<event_alive, frames, astray>>
      PROVE  Left'
  BY <1>8 DEF Left
<1>9. ASSUME NEW o \in Objects, NEW f \in Functions, AddReceiver(o, f) \/ RemoveReceiver(o, f)
       PROVE  Left'
  BY <1>8, <1>9 DEF AddReceiver, RemoveReceiver
<1>10. ASSUME NEW o \in Objects, ConstructObject(o)
       PROVE  Left'
  BY <1>8, <1>10 DEF ConstructObject, eventVars, historyVars
<1>11. ASSUME ClearReceivers \/ UNCHANGED vars
       PROVE  Left'
  BY <1>8, <1>11 DEF ClearReceivers, vars, eventVars, historyVars
<1> QED
  BY <1>2, <1>3, <1>4, <1>5, <1>6, <1>7, <1>9, <1>10, <1>11 DEF Next

(* Every step of the specification keeps the invariant.                    *)
LEMMA NextInv ==
  ASSUME EventInv, Told, [Next]_vars
  PROVE  EventInv'
<1>1. CASE UNCHANGED vars
  BY <1>1 DEF EventInv, TypeOK, Exact, RegisteredOnce, NoneLost, vars,
              eventVars, historyVars
<1>2. CASE Next
  <2>1. CASE Return
    BY <2>1, ReturnInv, EndInv
  <2> QED
    BY <1>2, <2>1, AddInv, RemoveInv, ObjectInv, ClearInv, DestroyEventInv, FireInv,
       StepInv, ReturnInv, EndInv DEF Next
<1> QED
  BY <1>1, <1>2

(* The invariant holds in every reachable state.                           *)
LEMMA EventInvCorrect == Spec => [](EventInv /\ Told /\ Left)
<1>1. Init => EventInv /\ Told /\ Left
  BY InitInv DEF Init, Told, Left
<1>2. (EventInv /\ Told /\ Left) /\ [Next]_vars => (EventInv /\ Told /\ Left)'
  BY NextInv, ToldInv, LeftInv
<1> QED
  BY <1>1, <1>2, PTL DEF Spec

-----------------------------------------------------------------------------
(* The theorems.                                                           *)

(* The variables keep their types, and the sentinel of a living event is   *)
(* the innermost firing.                                                   *)
THEOREM TypeCorrect == Spec => []TypeOK
<1>1. EventInv => TypeOK
  BY DEF EventInv
<1> QED
  BY <1>1, EventInvCorrect, PTL

(* The event knows exactly what was added and not removed, detached or     *)
(* destroyed since, each once, however often objects come and go at one    *)
(* address and whichever firing has cleaned up (event::operator()).        *)
THEOREM RegistrationsCorrect == Spec => []RegistrationsExact
<1>1. EventInv => RegistrationsExact
  BY DEF EventInv, RegistrationsExact
<1> QED
  BY <1>1, EventInvCorrect, PTL

(* A firing only calls receivers that were registered when it began and    *)
(* whose object still listens, each once (event::operator()).              *)
THEOREM CallsCorrect == Spec => CallsAreDue
<1>1. ASSUME EventInv, NEW r \in Rest, CallReceiver(r)
      PROVE  r.serial \in (Top.due \intersect attached) \ Top.called
  <2>1. /\ frames \in Seq(Frame) /\ frames # <<>> /\ IsNext(r) /\ r.obj # NoObject
        /\ FramesExact(frames, owners, attached)
    BY <1>1 DEF EventInv, TypeOK, Exact, CallReceiver, Looking, Expired
  <2>2. Top \in Frame /\ FrameExact(Top, owners, attached)
    BY <2>1, TopTyped DEF FramesExact
  <2>3. r \in Top.tmp_receivers /\ r \in Receiver /\ r.serial > Top.at
    BY <2>1, NextIsNext
  <2>4. r.serial \in attached
    BY <2>1, <2>2, <2>3 DEF FrameExact, EntriesExact
  <2>5. r.serial \in Top.due /\ \A n \in Top.called : n <= Top.at
    BY <2>2, <2>3, <2>4 DEF FrameExact
  <2>6. r.serial \notin Top.called
    BY <2>2, <2>3, <2>5 DEF Frame, Receiver
  <2> QED
    BY <2>4, <2>5, <2>6
<1>2. EventInv /\ [Next]_vars
        => [\A r \in Rest : CallReceiver(r) =>
              r.serial \in (Top.due \intersect attached) \ Top.called]_vars
  BY <1>1
<1> QED
  BY <1>2, EventInvCorrect, PTL DEF Spec, CallsAreDue

(* A firing that runs to its end has called everyone who was registered    *)
(* when it began and still listens (event::operator()).                    *)
THEOREM EveryoneCorrect == Spec => EveryoneCalled
<1>1. ASSUME EventInv, Finish
      PROVE  Top.due \intersect attached \subseteq Top.called
  <2>1. /\ frames \in Seq(Frame) /\ frames # <<>> /\ Rest = {}
        /\ FramesExact(frames, owners, attached)
    BY <1>1 DEF EventInv, TypeOK, Exact, Finish, Looking
  <2>2. Top \in Frame /\ FrameExact(Top, owners, attached)
    BY <2>1, TopTyped DEF FramesExact
  <2>3. \A r \in Top.tmp_receivers : r.serial <= Top.at
    BY <2>1, <2>2 DEF Rest, Frame, Receiver
  <2> SUFFICES ASSUME NEW n \in Top.due, n \in attached
               PROVE  n \in Top.called
    OBVIOUS
  <2>4. PICK r \in Top.tmp_receivers : r.serial = n
    BY <2>2 DEF FrameExact, Serials
  <2> QED
    BY <2>2, <2>3, <2>4 DEF FrameExact
<1>2. EventInv /\ [Next]_vars => [Finish => Top.due \intersect attached \subseteq Top.called]_vars
  BY <1>1
<1> QED
  BY <1>2, EventInvCorrect, PTL DEF Spec, EveryoneCalled

(* A firing whose event was destroyed calls nobody any more and leaves the *)
(* event alone, unless it was nested or the receiver threw (operator()).   *)
THEOREM StopsCorrect == Spec => StopsAfterDestruction
<1>1. ASSUME EventInv, Left, Call \/ Finish
      PROVE  event_alive \/ astray
  <2>1. frames # <<>> /\ Top.phase = "look"
    BY <1>1 DEF Call, CallReceiver, Finish, Looking
  <2> QED
    BY <1>1, <2>1 DEF Left, Top, Last
<1>2. EventInv /\ Left /\ [Next]_vars => [Call \/ Finish => event_alive \/ astray]_vars
  BY <1>1
<1> QED
  BY <1>2, EventInvCorrect, PTL DEF Spec, StopsAfterDestruction

=============================================================================

---------------------------- MODULE LibraryProofs ----------------------------
(***************************************************************************)
(* Theorems about LibraryManager for all libraries, names, technologies,   *)
(* cells, files, views and bounds.                                         *)
(*                                                                         *)
(* "Consistent" is what a database is between two calls, and after each of *)
(* the operators a call is composed of: for each operator there is a lemma *)
(* "...Effect" that says so, and what it leaves alone (Frame).  Remap is   *)
(* the hard one: it makes variants, takes proxies off their libraries,     *)
(* which may delete variants there, and adds them to others.  It is        *)
(* consistent if no library loses proxies and gets others at once          *)
(* ("Directs"), and each caller has its own reason for that.  The lemmas   *)
(* "...Keeps" say that nothing repairs a database that was disturbed.      *)
(***************************************************************************)
EXTENDS LibraryManager, SequenceTheorems, FiniteSetTheorems, FunctionTheorems, WellFoundedInduction, TLAPS

(* A finite set as a sequence.                                             *)
LEMMA SetAsSequence ==
  ASSUME NEW S, IsFiniteSet(S)
  PROVE  /\ SetToSeq(S) \in Seq(S) /\ Len(SetToSeq(S)) = Cardinality(S)
         /\ \A x \in S : \E i \in 1..Cardinality(S) : SetToSeq(S)[i] = x
         /\ \A i \in 1..Cardinality(S) : SetToSeq(S)[i] \in S
         /\ \A i, j \in 1..Cardinality(S) : SetToSeq(S)[i] = SetToSeq(S)[j] => i = j
<1> DEFINE n == Cardinality(S)
<1>1. n \in Nat /\ ExistsBijection(1..n, S)
  BY FS_CardinalityType
<1>2. PICK g : g \in Bijection(1..n, S)
  BY <1>1 DEF ExistsBijection
<1>3. g \in [1..n -> S] /\ IsInjective(g)
  BY <1>2 DEF Bijection, Injection, IsInjective
<1> DEFINE f == SetToSeq(S)
<1>4. f \in [1..n -> S] /\ IsInjective(f)
  BY <1>3 DEF SetToSeq
<1> HIDE DEF f
<1>5. f \in Injection(1..n, S)
  BY <1>4 DEF Injection, IsInjective
<1>6. Cardinality(1..n) = n
  <2>1. 1 \in Int /\ n \in Int
    BY <1>1
  <2> QED
    BY <1>1, <2>1, FS_Interval
<1>7. f \in Surjection(1..n, S)
  BY <1>5, <1>6, FS_Injection
<1>8. f \in Seq(S)
  BY <1>1, <1>4
<1>9. Len(f) = n
  BY <1>1, <1>4, <1>8, LenProperties
<1>10. \A i, j \in 1..n : f[i] = f[j] => i = j
  BY <1>4 DEF IsInjective
<1> QED
  BY <1>4, <1>7, <1>8, <1>9, <1>10 DEF Surjection, f

-----------------------------------------------------------------------------
(* The invariant, for a database s.                                        *)

(* A library has at most one slot.                                         *)
Slots(s) ==
  \A i, j \in DOMAIN s.m_libs : s.m_libs[i] = s.m_libs[j] /\ s.m_libs[i] # NoLib => i = j

SameLen(s) == \A L \in Libs : Len(s.lib[L].m_refcount) = Len(s.lib[L].cells)

(* The proxies of E that lead to L, by the index and by the view.          *)
ToCell(s, L, E, i) == {c \in E : s.proxies[c].id # 0 /\ Owner(s, c) = L /\ s.proxies[c].index = i}
FromView(s, L, E, v) == {c \in E : s.proxies[c].id # 0 /\ Owner(s, c) = L /\ s.proxies[c].view = v}

(* The libraries have counted just the proxies of E.                       *)
Counts(s, E) ==
  \A L \in Libs :
    /\ \A v \in Views : s.lib[L].m_referrers[v] = Cardinality(FromView(s, L, E, v))
    /\ \A i \in 1..Len(s.lib[L].cells) : s.lib[L].m_refcount[i] = Cardinality(ToCell(s, L, E, i))

Resolves(s, E) ==
  \A c \in E : s.proxies[c].id # 0 =>
    /\ Owner(s, c) \in Libs
    /\ s.proxies[c].index \in 1..Len(s.lib[Owner(s, c)].cells)
    /\ s.lib[Owner(s, c)].cells[s.proxies[c].index] = s.proxies[c].cell_name

(* A variant is there for a proxy.                                         *)
Needed(s) ==
  \A L \in Libs : \A i \in 1..Len(s.lib[L].cells) :
    s.lib[L].cells[i] \in PCells => s.lib[L].m_refcount[i] > 0

Consistent(s) ==
  /\ s \in Database
  /\ Slots(s) /\ SameLen(s)
  /\ Counts(s, Alive(s)) /\ Resolves(s, Alive(s)) /\ Needed(s)

(* Every name leads to a registered library that has it, and every         *)
(* registered library has a name.                                          *)
NamesLead(s) ==
  /\ \A e \in s.m_lib_by_name : /\ LibOf(s, e.id) \in Libs
                                /\ s.lib[LibOf(s, e.id)].m_name = e.name
  /\ \A L \in Registered(s) : s.lib[L].m_name \in Names

-----------------------------------------------------------------------------
(* What is in a database.                                                  *)
LEMMA DatabaseTypes ==
  ASSUME NEW s \in Database
  PROVE  /\ s.m_libs \in Seq(Libs \union {NoLib})
         /\ Len(s.m_libs) \in Nat /\ DOMAIN s.m_libs = 1..Len(s.m_libs)
         /\ s.lib \in [Libs -> LibraryRecord]
         /\ s.proxies \in Seq(Proxy \union {Dead})
         /\ Len(s.proxies) \in Nat /\ DOMAIN s.proxies = 1..Len(s.proxies)
         /\ \A c \in 1..Len(s.proxies) : s.proxies[c] \in Proxy \union {Dead}
         /\ s.disturbed \in BOOLEAN
         /\ s.m_lib_by_name \in SUBSET [name : Names, id : Nat \ {0}]
<1>1. /\ s.m_libs \in Seq(Libs \union {NoLib}) /\ s.proxies \in Seq(Proxy \union {Dead})
      /\ s.lib \in [Libs -> LibraryRecord] /\ s.disturbed \in BOOLEAN
      /\ s.m_lib_by_name \in SUBSET [name : Names, id : Nat \ {0}]
  BY DEF Database
<1>2. \A c \in 1..Len(s.proxies) : s.proxies[c] \in Proxy \union {Dead}
  BY <1>1, ElementOfSeq
<1> QED
  BY <1>1, <1>2

LEMMA AliveTypes ==
  ASSUME NEW s \in Database
  PROVE  /\ Alive(s) \in SUBSET (1..Len(s.proxies)) /\ IsFiniteSet(Alive(s))
         /\ \A c \in Alive(s) : s.proxies[c] \in Proxy
         /\ \A c \in 1..Len(s.proxies) : c \notin Alive(s) => s.proxies[c] = Dead
<1>1. /\ Len(s.proxies) \in Nat /\ DOMAIN s.proxies = 1..Len(s.proxies)
      /\ \A c \in 1..Len(s.proxies) : s.proxies[c] \in Proxy \union {Dead}
  BY DatabaseTypes
<1>2. Alive(s) \in SUBSET (1..Len(s.proxies))
  BY <1>1 DEF Alive
<1>3. IsFiniteSet(1..Len(s.proxies))
  <2>1. 1 \in Int /\ Len(s.proxies) \in Int
    BY <1>1
  <2> QED
    BY <2>1, FS_Interval
<1>4. IsFiniteSet(Alive(s))
  BY <1>2, <1>3, FS_Subset
<1> QED
  BY <1>1, <1>2, <1>4 DEF Alive

LEMMA ProxyIsNotDead ==
  ASSUME NEW p \in Proxy
  PROVE  p # Dead
<1>1. p.place \in {"layout", "op"} /\ Dead.place = "nowhere"
  BY DEF Proxy, Dead
<1> QED
  BY <1>1

LEMMA LibraryTypes ==
  ASSUME NEW s \in Database, NEW L \in Libs
  PROVE  /\ s.lib[L] \in LibraryRecord
         /\ s.lib[L].m_name \in Names \union {NoName} /\ s.lib[L].tech \in Techs
         /\ s.lib[L].has \in SUBSET CellNames
         /\ s.lib[L].cells \in Seq(CellNames \union {Gone}) /\ Len(s.lib[L].cells) \in Nat
         /\ DOMAIN s.lib[L].cells = 1..Len(s.lib[L].cells)
         /\ s.lib[L].m_refcount \in Seq(Nat) /\ Len(s.lib[L].m_refcount) \in Nat
         /\ DOMAIN s.lib[L].m_refcount = 1..Len(s.lib[L].m_refcount)
         /\ s.lib[L].m_referrers \in [Views -> Nat]
         /\ \A i \in 1..Len(s.lib[L].cells) : s.lib[L].cells[i] \in CellNames \union {Gone}
         /\ \A i \in 1..Len(s.lib[L].m_refcount) : s.lib[L].m_refcount[i] \in Nat
<1>1. s.lib[L] \in LibraryRecord
  BY DatabaseTypes
<1>2. /\ s.lib[L].m_name \in Names \union {NoName} /\ s.lib[L].tech \in Techs
      /\ s.lib[L].has \in SUBSET CellNames
      /\ s.lib[L].cells \in Seq(CellNames \union {Gone})
      /\ s.lib[L].m_refcount \in Seq(Nat)
      /\ s.lib[L].m_referrers \in [Views -> Nat]
  BY <1>1 DEF LibraryRecord
<1>3. \A i \in 1..Len(s.lib[L].cells) : s.lib[L].cells[i] \in CellNames \union {Gone}
  BY <1>2, ElementOfSeq
<1>4. \A i \in 1..Len(s.lib[L].m_refcount) : s.lib[L].m_refcount[i] \in Nat
  BY <1>2, ElementOfSeq
<1> QED
  BY <1>1, <1>2, <1>3, <1>4

(* The owner of a proxy is a library or nobody.                            *)
LEMMA OwnerTypes ==
  ASSUME NEW s \in Database
  PROVE  /\ \A id : LibOf(s, id) \in Libs \union {NoLib}
         /\ \A c : Owner(s, c) \in Libs \union {NoLib}
         /\ \A c : Owner(s, c) # NoLib => Owner(s, c) \in Registered(s)
         /\ Registered(s) \in SUBSET Libs
         /\ NoLib \notin Libs
         /\ LibOf(s, 0) = NoLib
<1>1. /\ s.m_libs \in Seq(Libs \union {NoLib}) /\ Len(s.m_libs) \in Nat
      /\ DOMAIN s.m_libs = 1..Len(s.m_libs) /\ NoLib \notin Libs
  BY DatabaseTypes, LibrariesAssumption
<1>2. \A i \in 1..Len(s.m_libs) : s.m_libs[i] \in Libs \union {NoLib}
  BY <1>1, ElementOfSeq
<1>3. \A id : LibOf(s, id) \in Libs \union {NoLib}
  BY <1>1, <1>2 DEF LibOf
<1>4. \A id : LibOf(s, id) # NoLib => LibOf(s, id) \in Registered(s)
  BY <1>1 DEF LibOf, Registered, Range
<1>5. Registered(s) \in SUBSET Libs
  BY <1>1, <1>2 DEF Registered, Range
<1>6. LibOf(s, 0) = NoLib
  BY <1>1 DEF LibOf
<1> QED
  BY <1>1, <1>3, <1>4, <1>5, <1>6 DEF Owner

(* The slot of a registered library.                                       *)
LEMMA SlotOf ==
  ASSUME NEW s \in Database, Slots(s), NEW L \in Registered(s)
  PROVE  /\ IdOf(s, L) \in 1..Len(s.m_libs) /\ s.m_libs[IdOf(s, L)] = L
         /\ LibOf(s, IdOf(s, L)) = L /\ IdOf(s, L) # 0
         /\ \A id : LibOf(s, id) = L <=> id = IdOf(s, L)
<1>1. DOMAIN s.m_libs = 1..Len(s.m_libs) /\ Len(s.m_libs) \in Nat
  BY DatabaseTypes
<1>2. L # NoLib /\ \E id \in DOMAIN s.m_libs : s.m_libs[id] = L
  BY DEF Registered, Range
<1>3. IdOf(s, L) \in DOMAIN s.m_libs /\ s.m_libs[IdOf(s, L)] = L
  BY <1>2 DEF IdOf
<1>4. \A id : LibOf(s, id) = L => id = IdOf(s, L)
  BY <1>2, <1>3 DEF LibOf, Slots
<1> QED
  BY <1>1, <1>3, <1>4 DEF LibOf

-----------------------------------------------------------------------------
(* Counting.                                                               *)
LEMMA DisjointUnion ==
  ASSUME NEW X, NEW Y, IsFiniteSet(X), IsFiniteSet(Y), X \cap Y = {}
  PROVE  /\ IsFiniteSet(X \union Y)
         /\ Cardinality(X) \in Nat /\ Cardinality(Y) \in Nat /\ Cardinality(X \union Y) \in Nat
         /\ Cardinality(X \union Y) = Cardinality(X) + Cardinality(Y)
<1>1. /\ IsFiniteSet(X \union Y)
      /\ Cardinality(X \union Y) = Cardinality(X) + Cardinality(Y) - Cardinality(X \cap Y)
  BY FS_Union
<1>2. Cardinality(X \cap Y) = 0
  BY FS_EmptySet
<1>3. Cardinality(X) \in Nat /\ Cardinality(Y) \in Nat /\ Cardinality(X \union Y) \in Nat
  BY <1>1, FS_CardinalityType
<1> QED
  BY <1>1, <1>2, <1>3

LEMMA CellSplit ==
  ASSUME NEW s, NEW L, NEW E, IsFiniteSet(E), NEW C \in SUBSET E, NEW i
  PROVE  /\ IsFiniteSet(ToCell(s, L, E, i))
         /\ Cardinality(ToCell(s, L, E, i)) \in Nat
         /\ Cardinality(ToCell(s, L, C, i)) \in Nat
         /\ Cardinality(ToCell(s, L, E \ C, i)) \in Nat
         /\ Cardinality(ToCell(s, L, E, i))
              = Cardinality(ToCell(s, L, E \ C, i)) + Cardinality(ToCell(s, L, C, i))
<1>1. PICK X \in SUBSET (E \ C) : X = ToCell(s, L, E \ C, i)
  BY DEF ToCell
<1>2. PICK Y \in SUBSET C : Y = ToCell(s, L, C, i)
  BY DEF ToCell
<1>3. ToCell(s, L, E, i) = X \union Y
  BY <1>1, <1>2 DEF ToCell
<1>4. /\ IsFiniteSet(X \union Y)
      /\ Cardinality(X) \in Nat /\ Cardinality(Y) \in Nat /\ Cardinality(X \union Y) \in Nat
      /\ Cardinality(X \union Y) = Cardinality(X) + Cardinality(Y)
  <2>1. X \in SUBSET E /\ Y \in SUBSET E /\ X \cap Y = {}
    OBVIOUS
  <2>2. IsFiniteSet(X) /\ IsFiniteSet(Y)
    BY <2>1, FS_Subset
  <2> QED
    BY <2>1, <2>2, DisjointUnion
<1> QED
  BY <1>1, <1>2, <1>3, <1>4, Zenon

LEMMA ViewSplit ==
  ASSUME NEW s, NEW L, NEW E, IsFiniteSet(E), NEW C \in SUBSET E, NEW v
  PROVE  /\ IsFiniteSet(FromView(s, L, E, v))
         /\ Cardinality(FromView(s, L, E, v)) \in Nat
         /\ Cardinality(FromView(s, L, C, v)) \in Nat
         /\ Cardinality(FromView(s, L, E \ C, v)) \in Nat
         /\ Cardinality(FromView(s, L, E, v))
              = Cardinality(FromView(s, L, E \ C, v)) + Cardinality(FromView(s, L, C, v))
<1>1. PICK X \in SUBSET (E \ C) : X = FromView(s, L, E \ C, v)
  BY DEF FromView
<1>2. PICK Y \in SUBSET C : Y = FromView(s, L, C, v)
  BY DEF FromView
<1>3. FromView(s, L, E, v) = X \union Y
  BY <1>1, <1>2 DEF FromView
<1>4. /\ IsFiniteSet(X \union Y)
      /\ Cardinality(X) \in Nat /\ Cardinality(Y) \in Nat /\ Cardinality(X \union Y) \in Nat
      /\ Cardinality(X \union Y) = Cardinality(X) + Cardinality(Y)
  <2>1. X \in SUBSET E /\ Y \in SUBSET E /\ X \cap Y = {}
    OBVIOUS
  <2>2. IsFiniteSet(X) /\ IsFiniteSet(Y)
    BY <2>1, FS_Subset
  <2> QED
    BY <2>1, <2>2, DisjointUnion
<1> QED
  BY <1>1, <1>2, <1>3, <1>4, Zenon

(* A cell has a count that somebody leads to.                              *)
LEMMA CountPositive ==
  ASSUME NEW s, NEW L, NEW E, IsFiniteSet(E), NEW i, NEW c \in ToCell(s, L, E, i)
  PROVE  Cardinality(ToCell(s, L, E, i)) \in Nat /\ Cardinality(ToCell(s, L, E, i)) > 0
<1>1. IsFiniteSet(ToCell(s, L, E, i))
  <2>1. ToCell(s, L, E, i) \in SUBSET E
    BY DEF ToCell
  <2> QED
    BY <2>1, FS_Subset
<1>2. Cardinality(ToCell(s, L, E, i)) # 0
  BY <1>1, FS_EmptySet
<1> QED
  BY <1>1, <1>2, FS_CardinalityType

LEMMA FromViewPositive ==
  ASSUME NEW s, NEW L, NEW E, IsFiniteSet(E), NEW v, NEW c \in FromView(s, L, E, v)
  PROVE  Cardinality(FromView(s, L, E, v)) \in Nat /\ Cardinality(FromView(s, L, E, v)) > 0
<1>1. IsFiniteSet(FromView(s, L, E, v))
  <2>1. FromView(s, L, E, v) \in SUBSET E
    BY DEF FromView
  <2> QED
    BY <2>1, FS_Subset
<1>2. Cardinality(FromView(s, L, E, v)) # 0
  BY <1>1, FS_EmptySet
<1> QED
  BY <1>1, <1>2, FS_CardinalityType

(* What the model counts.                                                  *)
LEMMA CountedCells ==
  ASSUME NEW s, NEW L, NEW C
  PROVE  /\ \A i : AtIndex(s, Counted(s, L, C), i) = Cardinality(ToCell(s, L, C, i))
         /\ \A v : InView(s, Counted(s, L, C), v) = Cardinality(FromView(s, L, C, v))
<1>1. \A i : {c \in Counted(s, L, C) : s.proxies[c].index = i} = ToCell(s, L, C, i)
  BY DEF Counted, ToCell
<1>2. \A v : {c \in Counted(s, L, C) : s.proxies[c].view = v} = FromView(s, L, C, v)
  BY DEF Counted, FromView
<1> QED
  BY <1>1, <1>2 DEF AtIndex, InView

(* The counts depend on the proxies they are of, and on the slots.         *)
CountAlike(s, t, E) ==
  /\ \A c \in E : /\ t.proxies[c].id = s.proxies[c].id /\ t.proxies[c].index = s.proxies[c].index
                  /\ t.proxies[c].view = s.proxies[c].view
                  /\ s.proxies[c].id # 0 => Owner(t, c) = Owner(s, c)
  /\ \A L \in Libs : /\ t.lib[L].m_referrers = s.lib[L].m_referrers
                     /\ t.lib[L].m_refcount = s.lib[L].m_refcount
                     /\ Len(t.lib[L].cells) = Len(s.lib[L].cells)

LEMMA SameCounts ==
  ASSUME NEW s, NEW t, NEW E, Counts(s, E), CountAlike(s, t, E)
  PROVE  Counts(t, E)
<1>1. \A L \in Libs : /\ \A i : ToCell(t, L, E, i) = ToCell(s, L, E, i)
                      /\ \A v : FromView(t, L, E, v) = FromView(s, L, E, v)
  BY DEF ToCell, FromView, CountAlike
<1> QED
  BY <1>1 DEF Counts, CountAlike

-----------------------------------------------------------------------------
(* What the operators on the database leave alone.                         *)
Frame(s, t) ==
  /\ t.m_libs = s.m_libs /\ t.m_lib_by_name = s.m_lib_by_name /\ t.disturbed = s.disturbed
  /\ Len(t.proxies) = Len(s.proxies)
  /\ \A L \in Libs : /\ t.lib[L].m_name = s.lib[L].m_name /\ t.lib[L].tech = s.lib[L].tech
                     /\ t.lib[L].has = s.lib[L].has

LEMMA FrameTransitive ==
  ASSUME NEW s, NEW t, NEW u, Frame(s, t), Frame(t, u)
  PROVE  Frame(s, u)
BY DEF Frame

LEMMA FrameOwner ==
  ASSUME NEW s, NEW t, Frame(s, t)
  PROVE  /\ \A id : LibOf(t, id) = LibOf(s, id)
         /\ \A L : IdOf(t, L) = IdOf(s, L)
         /\ Registered(t) = Registered(s)
         /\ Slots(s) => Slots(t)
BY DEF Frame, LibOf, IdOf, Registered, Slots

(* What a library is left with that counts the proxies of R only.          *)
Released(s, t, L, R) ==
  /\ t.lib[L] \in LibraryRecord
  /\ t.lib[L].m_name = s.lib[L].m_name /\ t.lib[L].tech = s.lib[L].tech
  /\ t.lib[L].has = s.lib[L].has
  /\ Len(t.lib[L].cells) = Len(s.lib[L].cells)
  /\ Len(t.lib[L].m_refcount) = Len(s.lib[L].cells)
  /\ \A v \in Views : t.lib[L].m_referrers[v] = Cardinality(FromView(s, L, R, v))
  /\ \A i \in 1..Len(s.lib[L].cells) :
       /\ t.lib[L].m_refcount[i] = Cardinality(ToCell(s, L, R, i))
       /\ \/ t.lib[L].cells[i] = s.lib[L].cells[i]
          \/ /\ t.lib[L].cells[i] = Gone /\ t.lib[L].m_refcount[i] = 0
             /\ s.lib[L].m_refcount[i] > 0 /\ s.lib[L].cells[i] \in PCells
       /\ t.lib[L].cells[i] \in PCells /\ s.lib[L].m_refcount[i] > 0 => t.lib[L].m_refcount[i] > 0

(* unregister_proxy() for the proxies of C, one library at a time.         *)
LEMMA UnregisterLibrary ==
  ASSUME NEW s \in Database, SameLen(s), NEW E, NEW C \in SUBSET E, IsFiniteSet(E), Counts(s, E),
         NEW t, t = UnregisterProxies(s, C), NEW L \in Libs
  PROVE  Released(s, t, L, E \ C)
<1> DEFINE p == s.lib[L]
           q == t.lib[L]
           D == Counted(s, L, C)
           left == [i \in DOMAIN p.cells |-> Less(p.m_refcount[i], AtIndex(s, D, i))]
           cells == [i \in DOMAIN p.cells |->
                       IF left[i] = 0 /\ p.m_refcount[i] > 0 /\ p.cells[i] \in PCells THEN Gone ELSE p.cells[i]]
           refs == [v \in Views |-> Less(p.m_referrers[v], InView(s, D, v))]
<1>1. /\ p \in LibraryRecord /\ Len(p.cells) \in Nat /\ DOMAIN p.cells = 1..Len(p.cells)
      /\ Len(p.m_refcount) = Len(p.cells)
      /\ \A i \in 1..Len(p.cells) : p.cells[i] \in CellNames \union {Gone} /\ p.m_refcount[i] \in Nat
      /\ p.m_referrers \in [Views -> Nat]
  BY LibraryTypes DEF SameLen
<1>2. q = [p EXCEPT !.m_refcount = left, !.m_referrers = refs, !.cells = cells]
  <2>1. t.lib = [M \in Libs |->
           LET F == Counted(s, M, C)
               rest == [i \in DOMAIN s.lib[M].cells |-> Less(s.lib[M].m_refcount[i], AtIndex(s, F, i))]
               Unused(i) == rest[i] = 0 /\ s.lib[M].m_refcount[i] > 0 /\ s.lib[M].cells[i] \in PCells
           IN [s.lib[M] EXCEPT !.m_refcount = rest,
                               !.m_referrers = [v \in Views |-> Less(s.lib[M].m_referrers[v], InView(s, F, v))],
                               !.cells = [i \in DOMAIN s.lib[M].cells |-> IF Unused(i) THEN Gone ELSE s.lib[M].cells[i]]]]
    BY DEF UnregisterProxies, Database
  <2> QED
    BY <2>1
<1>3. ASSUME NEW i \in 1..Len(p.cells)
      PROVE  /\ left[i] = Cardinality(ToCell(s, L, E \ C, i)) /\ left[i] \in Nat
             /\ p.m_refcount[i] \in Nat
  <2>1. p.m_refcount[i] = Cardinality(ToCell(s, L, E, i))
    BY DEF Counts
  <2>2. AtIndex(s, D, i) = Cardinality(ToCell(s, L, C, i))
    BY CountedCells
  <2>3. /\ Cardinality(ToCell(s, L, E, i)) \in Nat
        /\ Cardinality(ToCell(s, L, C, i)) \in Nat
        /\ Cardinality(ToCell(s, L, E \ C, i)) \in Nat
        /\ Cardinality(ToCell(s, L, E, i)) = Cardinality(ToCell(s, L, E \ C, i)) + Cardinality(ToCell(s, L, C, i))
    <3> HIDE DEF left, D, p, q, cells, refs
    <3> QED
      BY CellSplit
  <2>4. left[i] = Less(p.m_refcount[i], AtIndex(s, D, i))
    BY <1>1
  <2> HIDE DEF left, D, p
  <2> QED
    BY <2>1, <2>2, <2>3, <2>4 DEF Less
<1>4. ASSUME NEW v \in Views
      PROVE  refs[v] = Cardinality(FromView(s, L, E \ C, v)) /\ refs[v] \in Nat
  <2>1. p.m_referrers[v] = Cardinality(FromView(s, L, E, v))
    BY DEF Counts
  <2>2. InView(s, D, v) = Cardinality(FromView(s, L, C, v))
    BY CountedCells
  <2>3. /\ Cardinality(FromView(s, L, E, v)) \in Nat
        /\ Cardinality(FromView(s, L, C, v)) \in Nat
        /\ Cardinality(FromView(s, L, E \ C, v)) \in Nat
        /\ Cardinality(FromView(s, L, E, v)) = Cardinality(FromView(s, L, E \ C, v)) + Cardinality(FromView(s, L, C, v))
    BY ViewSplit
  <2>4. refs[v] = Less(p.m_referrers[v], InView(s, D, v))
    OBVIOUS
  <2> HIDE DEF refs, D, p
  <2> QED
    BY <2>1, <2>2, <2>3, <2>4 DEF Less
<1>5. DOMAIN left = 1..Len(p.cells) /\ DOMAIN cells = 1..Len(p.cells)
  BY <1>1
<1>6. \A i \in 1..Len(p.cells) :
        cells[i] = IF left[i] = 0 /\ p.m_refcount[i] > 0 /\ p.cells[i] \in PCells THEN Gone ELSE p.cells[i]
  BY <1>1
<1>7. left = [i \in 1..Len(p.cells) |-> left[i]] /\ cells = [i \in 1..Len(p.cells) |-> cells[i]]
      /\ refs = [v \in Views |-> refs[v]]
  BY <1>1
<1> HIDE DEF left, cells, refs, D
<1>8. left \in Seq(Nat) /\ Len(left) = Len(p.cells)
  <2>1. left \in [1..Len(p.cells) -> Nat]
    BY <1>3, <1>7
  <2>2. left \in Seq(Nat)
    BY <1>1, <2>1
  <2> QED
    BY <1>1, <1>5, <2>2, LenProperties
<1>9. cells \in Seq(CellNames \union {Gone}) /\ Len(cells) = Len(p.cells)
  <2>1. cells \in [1..Len(p.cells) -> CellNames \union {Gone}]
    BY <1>1, <1>6, <1>7
  <2>2. cells \in Seq(CellNames \union {Gone})
    BY <1>1, <2>1
  <2> QED
    BY <1>1, <1>5, <2>2, LenProperties
<1>10. refs \in [Views -> Nat]
  BY <1>4, <1>7
<1>11. /\ q \in LibraryRecord
       /\ q.m_name = p.m_name /\ q.tech = p.tech /\ q.has = p.has
       /\ q.cells = cells /\ q.m_refcount = left /\ q.m_referrers = refs
  BY <1>1, <1>2, <1>8, <1>9, <1>10 DEF LibraryRecord
<1>12. \A v \in Views : q.m_referrers[v] = Cardinality(FromView(s, L, E \ C, v))
  BY <1>4, <1>11
<1>13. ASSUME NEW i \in 1..Len(p.cells)
       PROVE  /\ q.m_refcount[i] = Cardinality(ToCell(s, L, E \ C, i))
              /\ \/ q.cells[i] = p.cells[i]
                 \/ q.cells[i] = Gone /\ q.m_refcount[i] = 0 /\ p.m_refcount[i] > 0 /\ p.cells[i] \in PCells
              /\ q.cells[i] \in PCells /\ p.m_refcount[i] > 0 => q.m_refcount[i] > 0
  <2>1. Gone \notin PCells
    BY LibrariesAssumption
  <2>2. q.cells[i] = IF left[i] = 0 /\ p.m_refcount[i] > 0 /\ p.cells[i] \in PCells THEN Gone ELSE p.cells[i]
    BY <1>6, <1>11
  <2>3. left[i] \in Nat /\ left[i] = Cardinality(ToCell(s, L, E \ C, i)) /\ q.m_refcount[i] = left[i]
    BY <1>3, <1>11
  <2> HIDE DEF p, q
  <2> QED
    BY <2>1, <2>2, <2>3
<1> HIDE DEF p, q
<1>14. Len(q.cells) = Len(p.cells) /\ Len(q.m_refcount) = Len(p.cells)
  BY <1>8, <1>9, <1>11
<1> QED
  BY <1>11, <1>12, <1>13, <1>14 DEF p, q, Released

(* A cell that no proxy led to.                                            *)
LEMMA NobodyLeads ==
  ASSUME NEW s, NEW L, NEW E, NEW C \in SUBSET E, \A c \in C : s.proxies[c].id # 0 => Owner(s, c) # L
  PROVE  \A i : ToCell(s, L, E \ C, i) = ToCell(s, L, E, i)
BY DEF ToCell

(* The cells when the proxies of C are not counted any more: a variant     *)
(* that is left is needed by another one, and the cells that none of C led *)
(* to are the same.                                                        *)
CellsLeft(s, t, C) ==
  /\ \A L \in Libs : Len(t.lib[L].cells) = Len(s.lib[L].cells)
  /\ \A L \in Libs : \A i \in 1..Len(s.lib[L].cells) :
       t.lib[L].cells[i] \in PCells /\ (s.lib[L].m_refcount[i] > 0 \/ s.lib[L].cells[i] \notin PCells)
         => t.lib[L].m_refcount[i] > 0
  /\ \A L \in Libs : (\A c \in C : s.proxies[c].id # 0 => Owner(s, c) # L) =>
       t.lib[L].cells = s.lib[L].cells

(* unregister_proxy() for the proxies of C, all libraries.                 *)
LEMMA UnregisterEffect ==
  ASSUME NEW s \in Database, SameLen(s), NEW E, NEW C \in SUBSET E, IsFiniteSet(E), Counts(s, E),
         NEW t, t = UnregisterProxies(s, C)
  PROVE  /\ t \in Database /\ t.proxies = s.proxies /\ Frame(s, t) /\ SameLen(t)
         /\ Counts(t, E \ C)
         /\ Resolves(s, E) => Resolves(t, E \ C)
         /\ CellsLeft(s, t, C)
<1>1. /\ t.m_libs = s.m_libs /\ t.m_lib_by_name = s.m_lib_by_name /\ t.disturbed = s.disturbed
      /\ t.proxies = s.proxies
  BY DEF UnregisterProxies, Database
<1>2. ASSUME NEW L \in Libs
      PROVE  Released(s, t, L, E \ C)
  BY UnregisterLibrary
<1>3. \E f : t.lib = [L \in Libs |-> f[L]] /\ t = [s EXCEPT !.lib = t.lib]
  <2>1. t = [s EXCEPT !.lib = t.lib] /\ DOMAIN t.lib = Libs /\ t.lib = [L \in Libs |-> t.lib[L]]
    BY DEF UnregisterProxies, Database
  <2> QED
    BY <2>1
<1>4. t.lib \in [Libs -> LibraryRecord]
  BY <1>2, <1>3 DEF Released
<1>5. t \in Database
  BY <1>3, <1>4 DEF Database
<1>6. Frame(s, t)
  BY <1>1, <1>2 DEF Frame, Released
<1>7. SameLen(t)
  BY <1>2 DEF SameLen, Released
<1>8. \A L, i : ToCell(t, L, E \ C, i) = ToCell(s, L, E \ C, i)
  BY <1>1 DEF ToCell, Owner, LibOf
<1>9. \A L, v : FromView(t, L, E \ C, v) = FromView(s, L, E \ C, v)
  BY <1>1 DEF FromView, Owner, LibOf
<1>10. Counts(t, E \ C)
  <2> SUFFICES ASSUME NEW L \in Libs
               PROVE  /\ \A v \in Views : t.lib[L].m_referrers[v] = Cardinality(FromView(t, L, E \ C, v))
                      /\ \A i \in 1..Len(t.lib[L].cells) :
                           t.lib[L].m_refcount[i] = Cardinality(ToCell(t, L, E \ C, i))
    BY DEF Counts
  <2>1. ASSUME NEW v \in Views
        PROVE  t.lib[L].m_referrers[v] = Cardinality(FromView(t, L, E \ C, v))
    <3>1. t.lib[L].m_referrers[v] = Cardinality(FromView(s, L, E \ C, v))
      BY <1>2 DEF Released
    <3> QED
      BY <1>9, <3>1, Zenon
  <2>2. ASSUME NEW i \in 1..Len(t.lib[L].cells)
        PROVE  t.lib[L].m_refcount[i] = Cardinality(ToCell(t, L, E \ C, i))
    <3>1. t.lib[L].m_refcount[i] = Cardinality(ToCell(s, L, E \ C, i))
      BY <1>2 DEF Released
    <3> QED
      BY <1>8, <3>1, Zenon
  <2> QED
    BY <2>1, <2>2
<1>11. ASSUME Resolves(s, E)
       PROVE  Resolves(t, E \ C)
  <2> SUFFICES ASSUME NEW c \in E \ C, t.proxies[c].id # 0
               PROVE  /\ Owner(t, c) \in Libs
                      /\ t.proxies[c].index \in 1..Len(t.lib[Owner(t, c)].cells)
                      /\ t.lib[Owner(t, c)].cells[t.proxies[c].index] = t.proxies[c].cell_name
    BY DEF Resolves
  <2>1. PICK L, i : L = Owner(s, c) /\ i = s.proxies[c].index
    OBVIOUS
  <2>2. Owner(t, c) = L
    BY <1>1, <2>1 DEF Owner, LibOf
  <2>3. L \in Libs /\ i \in 1..Len(s.lib[L].cells) /\ s.lib[L].cells[i] = s.proxies[c].cell_name
    BY <1>1, <1>11, <2>1 DEF Resolves
  <2>4. c \in ToCell(s, L, E \ C, i)
    BY <1>1, <2>1 DEF ToCell
  <2>5. IsFiniteSet(E \ C)
    BY FS_Difference
  <2>6. Cardinality(ToCell(s, L, E \ C, i)) > 0 /\ Cardinality(ToCell(s, L, E \ C, i)) \in Nat
    BY <2>4, <2>5, CountPositive
  <2>7. t.lib[L].m_refcount[i] # 0
    <3>1. t.lib[L].m_refcount[i] = Cardinality(ToCell(s, L, E \ C, i))
      BY <1>2, <2>3 DEF Released
    <3> QED
      BY <2>6, <3>1
  <2>8. t.lib[L].cells[i] = s.lib[L].cells[i]
    BY <1>2, <2>3, <2>7 DEF Released
  <2> QED
    BY <1>1, <1>2, <2>1, <2>2, <2>3, <2>8 DEF Released
<1>12. ASSUME NEW L \in Libs, NEW i \in 1..Len(s.lib[L].cells), t.lib[L].cells[i] \in PCells,
              s.lib[L].m_refcount[i] > 0 \/ s.lib[L].cells[i] \notin PCells
       PROVE  t.lib[L].m_refcount[i] > 0
  <2>1. Gone \notin PCells
    BY LibrariesAssumption
  <2>2. s.lib[L].m_refcount[i] > 0
    BY <1>2, <1>12, <2>1 DEF Released
  <2> QED
    BY <1>2, <1>12, <2>2 DEF Released
<1>13. ASSUME NEW L \in Libs, \A c \in C : s.proxies[c].id # 0 => Owner(s, c) # L
       PROVE  t.lib[L].cells = s.lib[L].cells
  <2>1. \A i : ToCell(s, L, E \ C, i) = ToCell(s, L, E, i)
    BY <1>13, NobodyLeads
  <2>2. \A i \in 1..Len(s.lib[L].cells) : t.lib[L].cells[i] = s.lib[L].cells[i]
    <3> TAKE i \in 1..Len(s.lib[L].cells)
    <3>1. s.lib[L].m_refcount[i] = Cardinality(ToCell(s, L, E, i))
      BY DEF Counts
    <3>2. t.lib[L].m_refcount[i] = s.lib[L].m_refcount[i]
      BY <1>2, <2>1, <3>1 DEF Released
    <3>3. \/ t.lib[L].cells[i] = s.lib[L].cells[i]
          \/ t.lib[L].m_refcount[i] = 0 /\ s.lib[L].m_refcount[i] > 0
      BY <1>2 DEF Released
    <3> QED
      BY <3>2, <3>3
  <2>3. /\ s.lib[L].cells \in Seq(CellNames \union {Gone})
        /\ t.lib[L].cells \in Seq(CellNames \union {Gone})
    BY <1>5, LibraryTypes
  <2>4. Len(t.lib[L].cells) = Len(s.lib[L].cells)
    BY <1>2 DEF Released
  <2> QED
    BY <2>2, <2>3, <2>4, SeqEqual
<1>14. \A L \in Libs : Len(t.lib[L].cells) = Len(s.lib[L].cells)
  BY <1>2 DEF Released
<1> QED
  BY <1>1, <1>5, <1>6, <1>7, <1>10, <1>11, <1>12, <1>13, <1>14 DEF CellsLeft

(* The proxies are others, but for those of R, which are counted.          *)
LEMMA OtherProxies ==
  ASSUME NEW s \in Database, NEW R \in SUBSET DOMAIN s.proxies, Counts(s, R), Resolves(s, R), SameLen(s),
         NEW f \in [DOMAIN s.proxies -> Proxy \union {Dead}], \A c \in R : f[c] = s.proxies[c],
         NEW t, t = [s EXCEPT !.proxies = f]
  PROVE  /\ t \in Database /\ Frame(s, t) /\ SameLen(t) /\ t.lib = s.lib /\ t.proxies = f
         /\ Counts(t, R) /\ Resolves(t, R)
<1>1. /\ t.m_libs = s.m_libs /\ t.m_lib_by_name = s.m_lib_by_name /\ t.disturbed = s.disturbed
      /\ t.lib = s.lib /\ t.proxies = f
  BY DEF Database
<1>2. f \in Seq(Proxy \union {Dead}) /\ Len(f) = Len(s.proxies)
  <2>1. Len(s.proxies) \in Nat /\ DOMAIN s.proxies = 1..Len(s.proxies)
    BY DatabaseTypes
  <2>2. f \in [1..Len(s.proxies) -> Proxy \union {Dead}]
    BY <2>1
  <2>3. f \in Seq(Proxy \union {Dead})
    BY <2>1, <2>2
  <2> QED
    BY <2>1, <2>2, <2>3, LenProperties
<1>3. t \in Database
  BY <1>2 DEF Database
<1>4. Frame(s, t)
  BY <1>1, <1>2 DEF Frame
<1>5. SameLen(t)
  BY <1>1 DEF SameLen
<1>6. \A c \in R : t.proxies[c] = s.proxies[c]
  BY <1>1
<1>7. \A c \in R : Owner(t, c) = Owner(s, c)
  BY <1>1, <1>6 DEF Owner, LibOf
<1>8. Counts(t, R)
  <2>1. \A c \in R : /\ t.proxies[c].id = s.proxies[c].id /\ t.proxies[c].index = s.proxies[c].index
                     /\ t.proxies[c].view = s.proxies[c].view
                     /\ s.proxies[c].id # 0 => Owner(t, c) = Owner(s, c)
    BY <1>6, <1>7
  <2>2. \A L \in Libs : /\ t.lib[L].m_referrers = s.lib[L].m_referrers
                        /\ t.lib[L].m_refcount = s.lib[L].m_refcount
                        /\ Len(t.lib[L].cells) = Len(s.lib[L].cells)
    BY <1>1
  <2>3. CountAlike(s, t, R)
    BY <2>1, <2>2 DEF CountAlike
  <2> QED
    BY <2>3, SameCounts
<1>9. Resolves(t, R)
  BY <1>1, <1>6, <1>7 DEF Resolves
<1> QED
  BY <1>1, <1>3, <1>4, <1>5, <1>8, <1>9

(* Cold proxies are not counted.                                           *)
LEMMA ColdNotCounted ==
  ASSUME NEW s, NEW A, NEW R \in SUBSET A, Counts(s, R), Resolves(s, R),
         \A c \in A \ R : s.proxies[c].id = 0
  PROVE  Counts(s, A) /\ Resolves(s, A)
<1>1. \A L, i : ToCell(s, L, A, i) = ToCell(s, L, R, i)
  BY DEF ToCell
<1>2. \A L, v : FromView(s, L, A, v) = FromView(s, L, R, v)
  BY DEF FromView
<1>3. Counts(s, A)
  <2> SUFFICES ASSUME NEW L \in Libs
               PROVE  /\ \A v \in Views : s.lib[L].m_referrers[v] = Cardinality(FromView(s, L, A, v))
                      /\ \A i \in 1..Len(s.lib[L].cells) :
                           s.lib[L].m_refcount[i] = Cardinality(ToCell(s, L, A, i))
    BY DEF Counts
  <2>1. ASSUME NEW v \in Views
        PROVE  s.lib[L].m_referrers[v] = Cardinality(FromView(s, L, A, v))
    BY <1>2 DEF Counts
  <2>2. ASSUME NEW i \in 1..Len(s.lib[L].cells)
        PROVE  s.lib[L].m_refcount[i] = Cardinality(ToCell(s, L, A, i))
    BY <1>1 DEF Counts
  <2> QED
    BY <2>1, <2>2
<1>4. Resolves(s, A)
  BY DEF Resolves
<1> QED
  BY <1>3, <1>4

-----------------------------------------------------------------------------
(* What an operator does with the proxies that it does not destroy: they   *)
(* stay in their place and their view and stand for a cell of their name.  *)
SameProxies(s, t) ==
  \A c \in Alive(t) : /\ c \in Alive(s)
                      /\ t.proxies[c].place = s.proxies[c].place
                      /\ t.proxies[c].view = s.proxies[c].view
                      /\ t.proxies[c].cell_name = s.proxies[c].cell_name

(* Proxies are destroyed.                                                  *)
LEMMA DestroyEffect ==
  ASSUME NEW s, Consistent(s), NEW C \in SUBSET Alive(s), NEW t, t = Destroy(s, C)
  PROVE  /\ Consistent(t) /\ Frame(s, t) /\ SameProxies(s, t)
         /\ Alive(t) = Alive(s) \ C
         /\ \A c \in Alive(t) : t.proxies[c] = s.proxies[c]
<1> DEFINE A == Alive(s)
           u == UnregisterProxies(s, C)
           f == [c \in DOMAIN u.proxies |-> IF c \in C THEN Dead ELSE u.proxies[c]]
<1>1. /\ s \in Database /\ Slots(s) /\ SameLen(s) /\ Counts(s, A) /\ Resolves(s, A) /\ Needed(s)
  BY DEF Consistent
<1>2. /\ A \in SUBSET DOMAIN s.proxies /\ IsFiniteSet(A)
      /\ \A c \in DOMAIN s.proxies : s.proxies[c] \in Proxy \union {Dead}
  BY <1>1, AliveTypes, DatabaseTypes
<1>3. /\ u \in Database /\ u.proxies = s.proxies /\ Frame(s, u) /\ SameLen(u)
      /\ Counts(u, A \ C)
      /\ Resolves(s, A) => Resolves(u, A \ C)
      /\ CellsLeft(s, u, C)
  <2> HIDE DEF A, f
  <2> QED
    BY <1>1, <1>2, UnregisterEffect DEF A
<1>4. t = [u EXCEPT !.proxies = f]
  BY DEF Destroy
<1>5. f \in [DOMAIN u.proxies -> Proxy \union {Dead}] /\ \A c \in A \ C : f[c] = u.proxies[c]
  <2> HIDE DEF u
  <2> QED
    BY <1>2, <1>3
<1>6. \A c \in DOMAIN s.proxies : f[c] = IF c \in C THEN Dead ELSE s.proxies[c]
  <2> HIDE DEF u
  <2> QED
    BY <1>3
<1> HIDE DEF u, f
<1>7. /\ t \in Database /\ Frame(u, t) /\ SameLen(t) /\ t.lib = u.lib /\ t.proxies = f
      /\ Counts(t, A \ C) /\ Resolves(t, A \ C)
  <2>1. A \ C \in SUBSET DOMAIN u.proxies
    BY <1>2, <1>3
  <2>2. Resolves(u, A \ C)
    BY <1>1, <1>3
  <2> HIDE DEF A
  <2> QED
    BY <1>3, <1>4, <1>5, <2>1, <2>2, OtherProxies
<1>8. Frame(s, t)
  BY <1>3, <1>7, FrameTransitive
<1>9. Alive(t) = A \ C
  <2>1. DOMAIN f = DOMAIN s.proxies
    BY <1>3, <1>5
  <2> QED
    BY <1>6, <1>7, <2>1 DEF Alive
<1>10. \A c \in Alive(t) : t.proxies[c] = s.proxies[c] /\ c \in A
  BY <1>2, <1>6, <1>7, <1>9
<1>11. Needed(t)
  BY <1>1, <1>3, <1>7 DEF Needed, CellsLeft
<1>12. Slots(t)
  BY <1>1, <1>8, FrameOwner
<1>13. Consistent(t)
  BY <1>7, <1>9, <1>11, <1>12 DEF Consistent
<1> QED
  BY <1>8, <1>9, <1>10, <1>13 DEF SameProxies

(* Proxies are replaced by cold ones.                                      *)
LEMMA CreateColdEffect ==
  ASSUME NEW s, Consistent(s), NEW C \in SUBSET Alive(s), NEW t, t = CreateColdProxies(s, C)
  PROVE  /\ Consistent(t) /\ Frame(s, t) /\ SameProxies(s, t)
         /\ Alive(t) = Alive(s)
         /\ \A c \in Alive(s) : IF c \in C THEN t.proxies[c].id = 0 ELSE t.proxies[c] = s.proxies[c]
<1> DEFINE A == Alive(s)
           u == UnregisterProxies(s, C)
           NameOf(c) == IF Owner(s, c) = NoLib THEN NoName ELSE s.lib[Owner(s, c)].m_name
           Cold(p, c) == [p EXCEPT !.id = 0, !.index = 0, !.lib_name = NameOf(c)]
           f == [c \in DOMAIN u.proxies |-> IF c \in C THEN Cold(u.proxies[c], c) ELSE u.proxies[c]]
<1>1. /\ s \in Database /\ Slots(s) /\ SameLen(s) /\ Counts(s, A) /\ Resolves(s, A) /\ Needed(s)
  BY DEF Consistent
<1>2. /\ A \in SUBSET DOMAIN s.proxies /\ IsFiniteSet(A)
      /\ \A c \in DOMAIN s.proxies : s.proxies[c] \in Proxy \union {Dead}
      /\ \A c \in A : s.proxies[c] \in Proxy
      /\ \A c \in DOMAIN s.proxies : c \notin A => s.proxies[c] = Dead
  BY <1>1, AliveTypes, DatabaseTypes
<1>3. CASE C = {}
  BY <1>1, <1>2, <1>3 DEF CreateColdProxies, Consistent, Frame, SameProxies
<1>4. CASE C # {}
  <2>1. /\ u \in Database /\ u.proxies = s.proxies /\ Frame(s, u) /\ SameLen(u)
        /\ Counts(u, A \ C)
        /\ Resolves(s, A) => Resolves(u, A \ C)
        /\ CellsLeft(s, u, C)
    <3> HIDE DEF A, f
    <3> QED
      BY <1>1, <1>2, UnregisterEffect DEF A
  <2>2. t = [u EXCEPT !.proxies = f]
    BY <1>4 DEF CreateColdProxies
  <2>3. ASSUME NEW c \in C
        PROVE  LET p == s.proxies[c]  q == Cold(p, c)
               IN q \in Proxy /\ q.id = 0 /\ q.place = p.place /\ q.view = p.view /\ q.cell_name = p.cell_name
    <3>1. PICK name : name = NameOf(c)
      OBVIOUS
    <3>2. name \in Names \union {NoName}
      <4>1. Owner(s, c) \in Libs \union {NoLib}
        BY <1>1, OwnerTypes
      <4>2. \A L \in Libs : s.lib[L].m_name \in Names \union {NoName}
        BY <1>1, LibraryTypes
      <4> QED
        BY <3>1, <4>1, <4>2
    <3>3. PICK p \in Proxy : p = s.proxies[c]
      BY <1>2
    <3>4. Cold(s.proxies[c], c) = [p EXCEPT !.id = 0, !.index = 0, !.lib_name = name]
      BY <3>1, <3>3
    <3>5. 0 \in Nat
      OBVIOUS
    <3> HIDE DEF NameOf, Cold
    <3> QED
      BY <3>2, <3>3, <3>4, <3>5 DEF Proxy
  <2> HIDE DEF Cold
  <2>4. \A c \in DOMAIN s.proxies : f[c] = IF c \in C THEN Cold(s.proxies[c], c) ELSE s.proxies[c]
    <3> HIDE DEF u
    <3> QED
      BY <2>1
  <2>5. DOMAIN f = DOMAIN s.proxies /\ f = [c \in DOMAIN s.proxies |-> f[c]]
    BY <2>1
  <2> HIDE DEF u, f
  <2>6. f \in [DOMAIN u.proxies -> Proxy \union {Dead}] /\ \A c \in A \ C : f[c] = u.proxies[c]
    <3>1. \A c \in DOMAIN s.proxies : f[c] \in Proxy \union {Dead}
      BY <1>2, <2>3, <2>4
    <3> QED
      BY <1>2, <2>1, <2>4, <2>5, <3>1
  <2>7. /\ t \in Database /\ Frame(u, t) /\ SameLen(t) /\ t.lib = u.lib /\ t.proxies = f
        /\ Counts(t, A \ C) /\ Resolves(t, A \ C)
    <3>1. A \ C \in SUBSET DOMAIN u.proxies
      BY <1>2, <2>1
    <3>2. Resolves(u, A \ C)
      BY <1>1, <2>1
    <3> HIDE DEF A
    <3> QED
      BY <2>1, <2>2, <2>6, <3>1, <3>2, OtherProxies
  <2>8. Frame(s, t)
    BY <2>1, <2>7, FrameTransitive
  <2>9. Alive(t) = A
    <3>1. \A c \in C : f[c] # Dead
      BY <1>2, <2>3, <2>4, ProxyIsNotDead
    <3> QED
      BY <1>2, <2>4, <2>5, <2>7, <3>1, ProxyIsNotDead DEF Alive
  <2>10. \A c \in A : IF c \in C THEN t.proxies[c].id = 0 ELSE t.proxies[c] = s.proxies[c]
    BY <1>2, <2>3, <2>4, <2>7
  <2>11. SameProxies(s, t)
    <3> SUFFICES ASSUME NEW c \in A
                 PROVE  /\ t.proxies[c].place = s.proxies[c].place
                        /\ t.proxies[c].view = s.proxies[c].view
                        /\ t.proxies[c].cell_name = s.proxies[c].cell_name
      BY <2>9 DEF SameProxies
    <3> QED
      BY <1>2, <2>3, <2>4, <2>7
  <2>12. Counts(t, A) /\ Resolves(t, A)
    <3>1. A \ C \in SUBSET A
      OBVIOUS
    <3>2. \A c \in A \ (A \ C) : t.proxies[c].id = 0
      BY <2>10
    <3> HIDE DEF A
    <3> QED
      BY <2>7, <3>1, <3>2, ColdNotCounted
  <2>13. Needed(t)
    BY <1>1, <2>1, <2>7 DEF Needed, CellsLeft
  <2>14. Slots(t)
    BY <1>1, <2>8, FrameOwner
  <2>15. Consistent(t)
    BY <2>7, <2>9, <2>12, <2>13, <2>14 DEF Consistent
  <2> QED
    BY <2>8, <2>9, <2>10, <2>11, <2>15
<1> QED
  BY <1>3, <1>4

(* cleanup(): some of the proxies in layouts are destroyed.                *)
LEMMA CleanupEffect ==
  ASSUME NEW s, Consistent(s), NEW views, NEW t, t = Cleanup(s, views)
  PROVE  /\ Consistent(t) /\ Frame(s, t) /\ SameProxies(s, t)
         /\ \A c \in Alive(t) : t.proxies[c] = s.proxies[c]
<1>1. CASE Doubles(s, views) = {}
  BY <1>1 DEF Cleanup, Frame, SameProxies
<1>2. CASE Doubles(s, views) # {}
  <2>1. Doubles(s, views) \in SUBSET Alive(s)
    BY DEF Doubles, At
  <2>2. t = Destroy(s, Doubles(s, views))
    BY <1>2 DEF Cleanup
  <2> QED
    BY <2>1, <2>2, DestroyEffect
<1> QED
  BY <1>1, <1>2

(* register_proxy() for the proxies of C, one library at a time.           *)
Raised(s, t, L, E) ==
  /\ t.lib[L] \in LibraryRecord
  /\ t.lib[L].m_name = s.lib[L].m_name /\ t.lib[L].tech = s.lib[L].tech
  /\ t.lib[L].has = s.lib[L].has /\ t.lib[L].cells = s.lib[L].cells
  /\ Len(t.lib[L].m_refcount) = Len(s.lib[L].cells)
  /\ \A v \in Views : t.lib[L].m_referrers[v] = Cardinality(FromView(s, L, E, v))
  /\ \A i \in 1..Len(s.lib[L].cells) :
       /\ t.lib[L].m_refcount[i] = Cardinality(ToCell(s, L, E, i))
       /\ s.lib[L].m_refcount[i] > 0 => t.lib[L].m_refcount[i] > 0

LEMMA RegisterLibrary ==
  ASSUME NEW s \in Database, SameLen(s), NEW E, NEW C \in SUBSET E, IsFiniteSet(E), Counts(s, E \ C),
         NEW t, t = RegisterProxies(s, C), NEW L \in Libs
  PROVE  Raised(s, t, L, E)
<1>1. ASSUME NEW i
      PROVE  /\ Cardinality(ToCell(s, L, E, i)) \in Nat
             /\ Cardinality(ToCell(s, L, C, i)) \in Nat
             /\ Cardinality(ToCell(s, L, E \ C, i)) \in Nat
             /\ Cardinality(ToCell(s, L, E, i)) = Cardinality(ToCell(s, L, E \ C, i)) + Cardinality(ToCell(s, L, C, i))
  BY CellSplit
<1>2. ASSUME NEW v
      PROVE  /\ Cardinality(FromView(s, L, E, v)) \in Nat
             /\ Cardinality(FromView(s, L, C, v)) \in Nat
             /\ Cardinality(FromView(s, L, E \ C, v)) \in Nat
             /\ Cardinality(FromView(s, L, E, v)) = Cardinality(FromView(s, L, E \ C, v)) + Cardinality(FromView(s, L, C, v))
  BY ViewSplit
<1> DEFINE p == s.lib[L]
           q == t.lib[L]
           D == Counted(s, L, C)
           more == [i \in DOMAIN p.m_refcount |-> p.m_refcount[i] + AtIndex(s, D, i)]
           refs == [v \in Views |-> p.m_referrers[v] + InView(s, D, v)]
<1>3. /\ p \in LibraryRecord /\ Len(p.cells) \in Nat /\ DOMAIN p.m_refcount = 1..Len(p.cells)
      /\ Len(p.m_refcount) = Len(p.cells)
      /\ \A i \in 1..Len(p.cells) : p.m_refcount[i] \in Nat
      /\ p.m_referrers \in [Views -> Nat]
  BY LibraryTypes DEF SameLen
<1>4. q = [p EXCEPT !.m_refcount = more, !.m_referrers = refs]
  <2>1. t.lib = [M \in Libs |->
           LET F == Counted(s, M, C)
           IN [s.lib[M] EXCEPT
                 !.m_refcount = [i \in DOMAIN s.lib[M].m_refcount |-> s.lib[M].m_refcount[i] + AtIndex(s, F, i)],
                 !.m_referrers = [v \in Views |-> s.lib[M].m_referrers[v] + InView(s, F, v)]]]
    BY DEF RegisterProxies, Database
  <2> QED
    BY <2>1
<1>5. ASSUME NEW i \in 1..Len(p.cells)
      PROVE  /\ more[i] = Cardinality(ToCell(s, L, E, i)) /\ more[i] \in Nat
             /\ p.m_refcount[i] > 0 => more[i] > 0
  <2>1. p.m_refcount[i] = Cardinality(ToCell(s, L, E \ C, i))
    BY DEF Counts
  <2>2. AtIndex(s, D, i) = Cardinality(ToCell(s, L, C, i))
    BY CountedCells
  <2>3. /\ Cardinality(ToCell(s, L, E, i)) \in Nat
        /\ Cardinality(ToCell(s, L, C, i)) \in Nat
        /\ Cardinality(ToCell(s, L, E \ C, i)) \in Nat
        /\ Cardinality(ToCell(s, L, E, i)) = Cardinality(ToCell(s, L, E \ C, i)) + Cardinality(ToCell(s, L, C, i))
    BY <1>1
  <2>4. more[i] = p.m_refcount[i] + AtIndex(s, D, i)
    BY <1>3
  <2> HIDE DEF more, D, p
  <2> QED
    BY <2>1, <2>2, <2>3, <2>4
<1>6. ASSUME NEW v \in Views
      PROVE  refs[v] = Cardinality(FromView(s, L, E, v)) /\ refs[v] \in Nat
  <2>1. p.m_referrers[v] = Cardinality(FromView(s, L, E \ C, v))
    BY DEF Counts
  <2>2. InView(s, D, v) = Cardinality(FromView(s, L, C, v))
    BY CountedCells
  <2>3. /\ Cardinality(FromView(s, L, E, v)) \in Nat
        /\ Cardinality(FromView(s, L, C, v)) \in Nat
        /\ Cardinality(FromView(s, L, E \ C, v)) \in Nat
        /\ Cardinality(FromView(s, L, E, v)) = Cardinality(FromView(s, L, E \ C, v)) + Cardinality(FromView(s, L, C, v))
    BY <1>2
  <2>4. refs[v] = p.m_referrers[v] + InView(s, D, v)
    OBVIOUS
  <2> HIDE DEF refs, D, p
  <2> QED
    BY <2>1, <2>2, <2>3, <2>4
<1>7. DOMAIN more = 1..Len(p.cells)
  BY <1>3
<1>8. more = [i \in 1..Len(p.cells) |-> more[i]] /\ refs = [v \in Views |-> refs[v]]
  BY <1>3
<1> HIDE DEF more, refs, D
<1>9. more \in Seq(Nat) /\ Len(more) = Len(p.cells)
  <2>1. more \in [1..Len(p.cells) -> Nat]
    BY <1>5, <1>8
  <2>2. more \in Seq(Nat)
    BY <1>3, <2>1
  <2> QED
    BY <1>3, <1>7, <2>2, LenProperties
<1>10. refs \in [Views -> Nat]
  BY <1>6, <1>8
<1>11. /\ q \in LibraryRecord
      /\ q.m_name = p.m_name /\ q.tech = p.tech /\ q.has = p.has
      /\ q.cells = p.cells /\ q.m_refcount = more /\ q.m_referrers = refs
  BY <1>3, <1>4, <1>9, <1>10 DEF LibraryRecord
<1>12. \A v \in Views : q.m_referrers[v] = Cardinality(FromView(s, L, E, v))
  BY <1>6, <1>11
<1>13. \A i \in 1..Len(p.cells) : /\ q.m_refcount[i] = Cardinality(ToCell(s, L, E, i))
                                  /\ p.m_refcount[i] > 0 => q.m_refcount[i] > 0
  BY <1>5, <1>11
<1> HIDE DEF p, q
<1>14. Len(q.m_refcount) = Len(p.cells)
  BY <1>9, <1>11
<1> QED
  BY <1>11, <1>12, <1>13, <1>14 DEF p, q, Raised

LEMMA RegisterEffect ==
  ASSUME NEW s \in Database, SameLen(s), NEW E, NEW C \in SUBSET E, IsFiniteSet(E), Counts(s, E \ C),
         NEW t, t = RegisterProxies(s, C)
  PROVE  /\ t \in Database /\ t.proxies = s.proxies /\ Frame(s, t) /\ SameLen(t)
         /\ Counts(t, E)
         /\ \A L \in Libs : /\ t.lib[L].cells = s.lib[L].cells
                            /\ \A i \in 1..Len(s.lib[L].cells) :
                                 s.lib[L].m_refcount[i] > 0 => t.lib[L].m_refcount[i] > 0
<1>1. /\ t.m_libs = s.m_libs /\ t.m_lib_by_name = s.m_lib_by_name /\ t.disturbed = s.disturbed
      /\ t.proxies = s.proxies
  BY DEF RegisterProxies, Database
<1>2. ASSUME NEW L \in Libs
      PROVE  Raised(s, t, L, E)
  BY RegisterLibrary
<1>3. t = [s EXCEPT !.lib = t.lib] /\ DOMAIN t.lib = Libs /\ t.lib = [L \in Libs |-> t.lib[L]]
  BY DEF RegisterProxies, Database
<1>4. t.lib \in [Libs -> LibraryRecord]
  BY <1>2, <1>3 DEF Raised
<1>5. t \in Database
  BY <1>3, <1>4 DEF Database
<1>6. Frame(s, t)
  BY <1>1, <1>2 DEF Frame, Raised
<1>7. SameLen(t)
  BY <1>2 DEF SameLen, Raised
<1>8. \A L, i : ToCell(t, L, E, i) = ToCell(s, L, E, i)
  BY <1>1 DEF ToCell, Owner, LibOf
<1>9. \A L, v : FromView(t, L, E, v) = FromView(s, L, E, v)
  BY <1>1 DEF FromView, Owner, LibOf
<1>10. Counts(t, E)
  <2> SUFFICES ASSUME NEW L \in Libs
               PROVE  /\ \A v \in Views : t.lib[L].m_referrers[v] = Cardinality(FromView(t, L, E, v))
                      /\ \A i \in 1..Len(t.lib[L].cells) :
                           t.lib[L].m_refcount[i] = Cardinality(ToCell(t, L, E, i))
    BY DEF Counts
  <2>1. ASSUME NEW v \in Views
        PROVE  t.lib[L].m_referrers[v] = Cardinality(FromView(t, L, E, v))
    <3>1. t.lib[L].m_referrers[v] = Cardinality(FromView(s, L, E, v))
      BY <1>2 DEF Raised
    <3> QED
      BY <1>9, <3>1, Zenon
  <2>2. ASSUME NEW i \in 1..Len(t.lib[L].cells)
        PROVE  t.lib[L].m_refcount[i] = Cardinality(ToCell(t, L, E, i))
    <3>1. t.lib[L].m_refcount[i] = Cardinality(ToCell(s, L, E, i))
      BY <1>2 DEF Raised
    <3> QED
      BY <1>8, <3>1, Zenon
  <2> QED
    BY <2>1, <2>2
<1> QED
  BY <1>1, <1>2, <1>5, <1>6, <1>7, <1>10 DEF Raised

(* Cells of new names are added, that nobody leads to yet.                 *)
Extended(p, q, names) ==
  /\ q \in LibraryRecord
  /\ q.m_name = p.m_name /\ q.tech = p.tech /\ q.has = p.has /\ q.m_referrers = p.m_referrers
  /\ Len(q.m_refcount) = Len(q.cells) /\ Len(p.cells) <= Len(q.cells)
  /\ \A i \in 1..Len(p.cells) : q.cells[i] = p.cells[i] /\ q.m_refcount[i] = p.m_refcount[i]
  /\ \A i \in 1..Len(q.cells) : i > Len(p.cells) => q.cells[i] \in names /\ q.m_refcount[i] = 0
  /\ \A i, j \in 1..Len(q.cells) : i > Len(p.cells) /\ j > Len(p.cells) /\ q.cells[i] = q.cells[j] => i = j
  /\ \A n \in names : \E i \in 1..Len(q.cells) : q.cells[i] = n

LEMMA WithCellsEffect ==
  ASSUME NEW p \in LibraryRecord, Len(p.m_refcount) = Len(p.cells),
         NEW names \in SUBSET CellNames, IsFiniteSet(names)
  PROVE  Extended(p, WithCells(p, names), names)
<1> DEFINE n == Len(p.cells)
           k == Cardinality(names)
<1>1. /\ p.cells \in Seq(CellNames \union {Gone}) /\ p.m_refcount \in Seq(Nat)
      /\ p.m_referrers \in [Views -> Nat]
      /\ n \in Nat /\ Len(p.m_refcount) = n
  BY DEF LibraryRecord
<1>2. PICK q : q = WithCells(p, names)
  OBVIOUS
<1>3. PICK new : new = SetToSeq(names)
  OBVIOUS
<1>4. /\ k \in Nat /\ new \in Seq(names) /\ Len(new) = k
      /\ \A x \in names : \E i \in 1..k : new[i] = x
      /\ \A i \in 1..k : new[i] \in names
      /\ \A i, j \in 1..k : new[i] = new[j] => i = j
  BY <1>3, SetAsSequence, FS_CardinalityType
<1>5. PICK zeros : zeros = [i \in 1..k |-> 0]
  OBVIOUS
<1>6. zeros \in Seq(Nat) /\ Len(zeros) = k /\ \A i \in 1..k : zeros[i] = 0
  <2> HIDE DEF k
  <2>1. zeros \in [1..k -> Nat]
    BY <1>5
  <2>2. zeros \in Seq(Nat)
    BY <1>4, <2>1
  <2> QED
    BY <1>4, <1>5, <2>1, <2>2, LenProperties
<1>7. new \in Seq(CellNames \union {Gone})
  BY <1>4
<1>8. PICK cells : cells = p.cells \o new
  OBVIOUS
<1>9. PICK counts : counts = p.m_refcount \o zeros
  OBVIOUS
<1>10. q = [p EXCEPT !.cells = cells, !.m_refcount = counts]
  BY <1>2, <1>3, <1>5, <1>8, <1>9 DEF WithCells
<1> HIDE DEF k
<1>11. /\ cells \in Seq(CellNames \union {Gone}) /\ Len(cells) = n + k
       /\ \A i \in 1..n + k : cells[i] = IF i <= n THEN p.cells[i] ELSE new[i - n]
  <2>1. PICK x \in Seq(CellNames \union {Gone}) : x = p.cells
    BY <1>1
  <2>2. PICK y \in Seq(CellNames \union {Gone}) : y = new
    BY <1>4, <1>7, <1>8
  <2>3. /\ x \o y \in Seq(CellNames \union {Gone}) /\ Len(x \o y) = Len(x) + Len(y)
        /\ \A i \in 1..Len(x) + Len(y) : (x \o y)[i] = IF i <= Len(x) THEN x[i] ELSE y[i - Len(x)]
    BY ConcatProperties
  <2>4. cells = x \o y /\ Len(x) = n /\ Len(y) = k
    BY <1>1, <1>4, <1>7, <1>8, <2>1, <2>2
  <2> QED
    BY <2>1, <2>2, <2>3, <2>4
<1>12. /\ counts \in Seq(Nat) /\ Len(counts) = n + k
       /\ \A i \in 1..n + k : counts[i] = IF i <= n THEN p.m_refcount[i] ELSE zeros[i - n]
  <2>1. PICK x \in Seq(Nat) : x = p.m_refcount
    BY <1>1
  <2>2. PICK y \in Seq(Nat) : y = zeros
    BY <1>4, <1>6, <1>9
  <2>3. /\ x \o y \in Seq(Nat) /\ Len(x \o y) = Len(x) + Len(y)
        /\ \A i \in 1..Len(x) + Len(y) : (x \o y)[i] = IF i <= Len(x) THEN x[i] ELSE y[i - Len(x)]
    BY ConcatProperties
  <2>4. counts = x \o y /\ Len(x) = n /\ Len(y) = k
    BY <1>1, <1>4, <1>6, <1>9, <2>1, <2>2
  <2> QED
    BY <2>1, <2>2, <2>3, <2>4
<1>13. /\ q \in LibraryRecord /\ q.cells = cells /\ q.m_refcount = counts
       /\ q.m_name = p.m_name /\ q.tech = p.tech /\ q.has = p.has /\ q.m_referrers = p.m_referrers
  BY <1>10, <1>11, <1>12 DEF LibraryRecord
<1> HIDE DEF n
<1>14. \A i \in 1..n : q.cells[i] = p.cells[i] /\ q.m_refcount[i] = p.m_refcount[i]
  BY <1>1, <1>4, <1>11, <1>12, <1>13
<1>15. ASSUME NEW i \in 1..n + k, i > n
       PROVE  /\ i - n \in 1..k /\ q.cells[i] = new[i - n] /\ q.cells[i] \in names /\ q.m_refcount[i] = 0
  <2>1. i - n \in 1..k
    BY <1>1, <1>4, <1>15
  <2>2. cells[i] = new[i - n] /\ counts[i] = zeros[i - n]
    BY <1>1, <1>4, <1>11, <1>12, <1>15
  <2> QED
    BY <1>4, <1>6, <1>13, <2>1, <2>2
<1>16. ASSUME NEW i \in 1..n + k, NEW j \in 1..n + k, i > n, j > n, q.cells[i] = q.cells[j]
       PROVE  i = j
  <2>1. i - n \in 1..k /\ j - n \in 1..k /\ new[i - n] = new[j - n]
    BY <1>15, <1>16
  <2>2. i - n = j - n
    BY <1>4, <2>1
  <2> QED
    BY <1>1, <1>4, <2>2
<1>17. ASSUME NEW x \in names
       PROVE  \E i \in 1..n + k : q.cells[i] = x
  <2>1. PICK j \in 1..k : new[j] = x
    BY <1>4
  <2>2. n + j \in 1..n + k /\ n + j > n /\ (n + j) - n = j
    BY <1>1, <1>4
  <2>3. q.cells[n + j] = new[(n + j) - n]
    BY <1>15, <2>2
  <2> QED
    BY <2>1, <2>2, <2>3
<1>18. Len(q.cells) = n + k /\ Len(q.m_refcount) = n + k /\ n <= n + k
  BY <1>1, <1>4, <1>11, <1>12, <1>13
<1>19. Extended(p, q, names)
  BY <1>13, <1>14, <1>15, <1>16, <1>17, <1>18 DEF Extended, n
<1> QED
  BY <1>2, <1>19

(* The names of cells that the library L has to make.                      *)
NewNames(s, D, T, L) ==
  {s.proxies[c].cell_name : c \in {d \in D : T[d] = L}} \ Range(s.lib[L].cells)

LEMMA NewNamesFinite ==
  ASSUME NEW s \in Database, NEW D \in SUBSET Alive(s), NEW T, NEW L
  PROVE  NewNames(s, D, T, L) \in SUBSET CellNames /\ IsFiniteSet(NewNames(s, D, T, L))
<1> DEFINE X == {d \in D : T[d] = L}
           Y == {s.proxies[c].cell_name : c \in X}
           f == [c \in X |-> s.proxies[c].cell_name]
<1>1. X \in SUBSET Alive(s) /\ IsFiniteSet(Alive(s)) /\ \A c \in Alive(s) : s.proxies[c] \in Proxy
  BY AliveTypes
<1>2. IsFiniteSet(X)
  BY <1>1, FS_Subset
<1>3. f \in Surjection(X, Y)
  BY DEF Surjection
<1>4. IsFiniteSet(Y)
  <2> HIDE DEF X, Y, f
  <2> QED
    BY <1>2, <1>3, FS_Surjection
<1>5. Y \in SUBSET CellNames
  BY <1>1 DEF Proxy
<1>6. NewNames(s, D, T, L) \in SUBSET Y
  BY DEF NewNames
<1> HIDE DEF Y
<1> QED
  BY <1>4, <1>5, <1>6, FS_Subset

LEMMA WithVariantsEffect ==
  ASSUME NEW s, Consistent(s), NEW D \in SUBSET Alive(s), NEW T, NEW t, t = WithVariants(s, D, T)
  PROVE  /\ t \in Database /\ t.proxies = s.proxies /\ Frame(s, t) /\ SameLen(t)
         /\ Counts(t, Alive(s)) /\ Resolves(t, Alive(s))
         /\ \A L \in Libs : Extended(s.lib[L], t.lib[L], NewNames(s, D, T, L))
<1> DEFINE A == Alive(s)
<1>1. /\ s \in Database /\ Slots(s) /\ SameLen(s) /\ Counts(s, A) /\ Resolves(s, A) /\ Needed(s)
  BY DEF Consistent
<1>2. /\ t.m_libs = s.m_libs /\ t.m_lib_by_name = s.m_lib_by_name /\ t.disturbed = s.disturbed
      /\ t.proxies = s.proxies
  BY <1>1 DEF WithVariants, Database
<1>3. t = [s EXCEPT !.lib = t.lib] /\ t.lib = [L \in Libs |-> WithCells(s.lib[L], NewNames(s, D, T, L))]
  BY <1>1 DEF WithVariants, Database, NewNames
<1>4. ASSUME NEW L \in Libs
      PROVE  Extended(s.lib[L], t.lib[L], NewNames(s, D, T, L))
  <2>1. PICK names \in SUBSET CellNames : names = NewNames(s, D, T, L) /\ IsFiniteSet(names)
    BY <1>1, NewNamesFinite
  <2>2. PICK p \in LibraryRecord : p = s.lib[L] /\ Len(p.m_refcount) = Len(p.cells)
    BY <1>1, LibraryTypes DEF SameLen
  <2>3. Extended(p, WithCells(p, names), names)
    BY <2>1, <2>2, WithCellsEffect
  <2>4. t.lib[L] = WithCells(p, names)
    BY <1>3, <2>1, <2>2
  <2> QED
    BY <2>1, <2>2, <2>3, <2>4
<1>5. \A L \in Libs : t.lib[L] \in LibraryRecord
  BY <1>4 DEF Extended
<1>6. t.lib \in [Libs -> LibraryRecord]
  <2>1. DOMAIN t.lib = Libs /\ t.lib = [L \in Libs |-> t.lib[L]]
    BY <1>3
  <2> QED
    BY <1>5, <2>1
<1>7. t \in Database
  <2>1. PICK l \in [Libs -> LibraryRecord] : l = t.lib
    BY <1>6
  <2>2. t = [s EXCEPT !.lib = l]
    BY <1>3, <2>1
  <2> QED
    BY <1>1, <2>2 DEF Database
<1>8. Frame(s, t)
  BY <1>2, <1>4 DEF Frame, Extended
<1>9. SameLen(t)
  BY <1>4 DEF SameLen, Extended
<1>10. Resolves(t, A)
  <2> SUFFICES ASSUME NEW c \in A, t.proxies[c].id # 0
               PROVE  /\ Owner(t, c) \in Libs
                      /\ t.proxies[c].index \in 1..Len(t.lib[Owner(t, c)].cells)
                      /\ t.lib[Owner(t, c)].cells[t.proxies[c].index] = t.proxies[c].cell_name
    BY DEF Resolves
  <2>1. PICK L, i : L = Owner(s, c) /\ i = s.proxies[c].index
    OBVIOUS
  <2>2. Owner(t, c) = L
    BY <1>2, <2>1 DEF Owner, LibOf
  <2>3. L \in Libs /\ i \in 1..Len(s.lib[L].cells) /\ s.lib[L].cells[i] = s.proxies[c].cell_name
    BY <1>1, <1>2, <2>1 DEF Resolves
  <2>4. Len(s.lib[L].cells) <= Len(t.lib[L].cells) /\ t.lib[L].cells[i] = s.lib[L].cells[i]
    BY <1>4, <2>3 DEF Extended
  <2>5. Len(s.lib[L].cells) \in Nat /\ Len(t.lib[L].cells) \in Nat
    BY <1>1, <1>7, <2>3, LibraryTypes
  <2>6. i \in 1..Len(t.lib[L].cells)
    BY <2>3, <2>4, <2>5
  <2> QED
    BY <1>2, <2>1, <2>2, <2>3, <2>4, <2>6
<1>11. Counts(t, A)
  <2> SUFFICES ASSUME NEW L \in Libs
               PROVE  /\ \A v \in Views : t.lib[L].m_referrers[v] = Cardinality(FromView(t, L, A, v))
                      /\ \A i \in 1..Len(t.lib[L].cells) :
                           t.lib[L].m_refcount[i] = Cardinality(ToCell(t, L, A, i))
    BY DEF Counts
  <2>1. /\ \A i : ToCell(t, L, A, i) = ToCell(s, L, A, i)
        /\ \A v : FromView(t, L, A, v) = FromView(s, L, A, v)
    BY <1>2 DEF ToCell, FromView, Owner, LibOf
  <2>2. ASSUME NEW v \in Views
        PROVE  t.lib[L].m_referrers[v] = Cardinality(FromView(t, L, A, v))
    BY <1>1, <1>4, <2>1 DEF Counts, Extended
  <2>3. ASSUME NEW i \in 1..Len(t.lib[L].cells)
        PROVE  t.lib[L].m_refcount[i] = Cardinality(ToCell(t, L, A, i))
    <3>1. Len(s.lib[L].cells) \in Nat /\ Len(t.lib[L].cells) \in Nat
      BY <1>1, <1>7, LibraryTypes
    <3>2. CASE i \in 1..Len(s.lib[L].cells)
      <4>1. t.lib[L].m_refcount[i] = s.lib[L].m_refcount[i]
        BY <1>4, <3>2 DEF Extended
      <4>2. s.lib[L].m_refcount[i] = Cardinality(ToCell(s, L, A, i))
        BY <1>1, <3>2 DEF Counts
      <4> QED
        BY <2>1, <4>1, <4>2
    <3>3. CASE i \notin 1..Len(s.lib[L].cells)
      <4>1. i > Len(s.lib[L].cells)
        BY <3>1, <3>3
      <4>2. t.lib[L].m_refcount[i] = 0
        BY <1>4, <4>1 DEF Extended
      <4>3. ToCell(s, L, A, i) = {}
        BY <1>1, <3>3 DEF ToCell, Resolves
      <4> QED
        BY <2>1, <4>2, <4>3, FS_EmptySet
    <3> QED
      BY <3>2, <3>3
  <2> QED
    BY <2>2, <2>3
<1> QED
  BY <1>2, <1>4, <1>7, <1>8, <1>9, <1>10, <1>11

(* Proxies are directed to other libraries, none of which loses a proxy.   *)
Directs(s, T) ==
  /\ DOMAIN T \in SUBSET Alive(s)
  /\ \A c \in DOMAIN T : T[c] \in Registered(s)
  /\ \A c, d \in DOMAIN T : Owner(s, d) # T[d] => Owner(s, d) # T[c]

LEMMA RemapEffect ==
  ASSUME NEW s, Consistent(s), NEW T, Directs(s, T), NEW r, r = Remap(s, T)
  PROVE  /\ Consistent(r) /\ Frame(s, r) /\ SameProxies(s, r)
         /\ Alive(r) = Alive(s)
         /\ \A c \in Alive(s) : c \notin DOMAIN T \/ Owner(s, c) = T[c] => r.proxies[c] = s.proxies[c]
         /\ \A c \in DOMAIN T : Owner(r, c) = T[c] /\ r.proxies[c].id # 0
<1> DEFINE A == Alive(s)
           D == {c \in DOMAIN T : Owner(s, c) # T[c]}
           w == WithVariants(s, D, T)
           t == UnregisterProxies(w, D)
           To(p, L) == [p EXCEPT !.id = IdOf(t, L), !.index = IndexOf(t, L, p.cell_name), !.lib_name = NoName]
           f == [c \in DOMAIN t.proxies |-> IF c \in D THEN To(t.proxies[c], T[c]) ELSE t.proxies[c]]
           u == [t EXCEPT !.proxies = f]
<1>1. /\ s \in Database /\ Slots(s) /\ SameLen(s) /\ Counts(s, A) /\ Resolves(s, A) /\ Needed(s)
  BY DEF Consistent
<1>2. /\ A \in SUBSET DOMAIN s.proxies /\ IsFiniteSet(A)
      /\ \A c \in DOMAIN s.proxies : s.proxies[c] \in Proxy \union {Dead}
      /\ \A c \in A : s.proxies[c] \in Proxy
      /\ \A c \in DOMAIN s.proxies : c \notin A => s.proxies[c] = Dead
  BY <1>1, AliveTypes, DatabaseTypes
<1>3. /\ D \in SUBSET A /\ D \in SUBSET DOMAIN T
      /\ \A c \in DOMAIN T : T[c] \in Registered(s) /\ T[c] \in Libs /\ T[c] # NoLib
  BY <1>1, OwnerTypes DEF Directs
<1>4. \A c \in DOMAIN T : Owner(s, c) = T[c] => s.proxies[c].id # 0
  BY <1>1, <1>3, OwnerTypes DEF Owner
<1>5. CASE D = {}
  <2>1. r = s
    BY <1>5 DEF Remap
  <2>2. \A c \in DOMAIN T : Owner(s, c) = T[c]
    BY <1>5
  <2> HIDE DEF D
  <2> QED
    BY <1>4, <2>1, <2>2 DEF Frame, SameProxies
<1>6. CASE D # {}
  <2>1. /\ w \in Database /\ w.proxies = s.proxies /\ Frame(s, w) /\ SameLen(w)
        /\ Counts(w, A) /\ Resolves(w, A)
        /\ \A L \in Libs : Extended(s.lib[L], w.lib[L], NewNames(s, D, T, L))
    <3> HIDE DEF A, D, t, u, f
    <3> QED
      BY <1>3, WithVariantsEffect DEF A
  <2> HIDE DEF w
  <2>2. /\ t \in Database /\ t.proxies = w.proxies /\ Frame(w, t) /\ SameLen(t)
        /\ Counts(t, A \ D)
        /\ Resolves(w, A) => Resolves(t, A \ D)
        /\ CellsLeft(w, t, D)
    <3> HIDE DEF A, D, u, f
    <3> QED
      BY <1>2, <1>3, <2>1, UnregisterEffect
  <2>3. r = RegisterProxies(u, D)
    BY <1>6 DEF Remap, w
  <2> HIDE DEF t
  <2>4. Frame(s, t)
    BY <2>1, <2>2, FrameTransitive
  <2>5. /\ \A id : LibOf(t, id) = LibOf(s, id)
        /\ \A L : IdOf(t, L) = IdOf(s, L)
        /\ \A id : LibOf(w, id) = LibOf(s, id)
    BY <2>1, <2>4, FrameOwner
  <2>6. \A c \in D : t.lib[T[c]].cells = w.lib[T[c]].cells
    <3> SUFFICES ASSUME NEW c \in D
                 PROVE  \A d \in D : w.proxies[d].id # 0 => Owner(w, d) # T[c]
      BY <1>3, <2>2 DEF CellsLeft
    <3>1. \A d \in D : Owner(w, d) = Owner(s, d)
      BY <2>1, <2>5 DEF Owner
    <3> QED
      BY <3>1 DEF Directs
  (* The new place of a proxy. *)
  <2>7. ASSUME NEW c \in D
        PROVE  LET p == s.proxies[c]  L == T[c]  i == IndexOf(t, L, p.cell_name)
               IN i \in 1..Len(t.lib[L].cells) /\ t.lib[L].cells[i] = p.cell_name
    <3>1. PICK L \in Libs : L = T[c]
      BY <1>3
    <3>2. PICK n \in CellNames : n = s.proxies[c].cell_name
      BY <1>2, <1>3 DEF Proxy
    <3>3. t.lib[L].cells = w.lib[L].cells
      BY <2>6, <3>1
    <3>4. DOMAIN t.lib[L].cells = 1..Len(t.lib[L].cells) /\ Len(t.lib[L].cells) \in Nat
      BY <2>2, LibraryTypes
    <3>5. \E i \in DOMAIN t.lib[L].cells : t.lib[L].cells[i] = n
      <4>0. Extended(s.lib[L], w.lib[L], NewNames(s, D, T, L))
        BY <2>1
      <4>1. CASE n \in Range(s.lib[L].cells)
        <5>1. DOMAIN s.lib[L].cells = 1..Len(s.lib[L].cells) /\ Len(s.lib[L].cells) \in Nat
          BY <1>1, LibraryTypes
        <5>2. PICK i \in 1..Len(s.lib[L].cells) : s.lib[L].cells[i] = n
          BY <4>1, <5>1 DEF Range
        <5>3. w.lib[L].cells[i] = n /\ Len(s.lib[L].cells) <= Len(w.lib[L].cells)
          BY <4>0, <5>2 DEF Extended
        <5>4. i \in 1..Len(t.lib[L].cells)
          BY <3>3, <3>4, <5>1, <5>2, <5>3
        <5> QED
          BY <3>3, <3>4, <5>3, <5>4
      <4>2. CASE n \notin Range(s.lib[L].cells)
        <5>1. n \in NewNames(s, D, T, L)
          BY <3>1, <3>2, <4>2 DEF NewNames
        <5>2. \E i \in 1..Len(w.lib[L].cells) : w.lib[L].cells[i] = n
          BY <4>0, <5>1 DEF Extended
        <5> QED
          BY <3>3, <3>4, <5>2
      <4> QED
        BY <4>1, <4>2
    <3>6. LET i == IndexOf(t, L, n) IN i \in DOMAIN t.lib[L].cells /\ t.lib[L].cells[i] = n
      BY <3>5 DEF IndexOf
    <3> HIDE DEF D, f, u, To
    <3> QED
      BY <3>1, <3>2, <3>4, <3>6
  <2>8. ASSUME NEW c \in D
        PROVE  LET p == s.proxies[c]  q == To(p, T[c])
               IN /\ q \in Proxy /\ q.place = p.place /\ q.view = p.view /\ q.cell_name = p.cell_name
                  /\ q.id = IdOf(s, T[c]) /\ q.id # 0 /\ LibOf(s, q.id) = T[c]
                  /\ q.index = IndexOf(t, T[c], p.cell_name)
    <3>1. PICK p \in Proxy : p = s.proxies[c]
      BY <1>2, <1>3
    <3>2. T[c] \in Registered(s)
      BY <1>3
    <3>3. /\ IdOf(s, T[c]) \in 1..Len(s.m_libs)
          /\ LibOf(s, IdOf(s, T[c])) = T[c] /\ IdOf(s, T[c]) # 0
      BY <1>1, <3>2, SlotOf
    <3>4. PICK id \in Nat : id = IdOf(s, T[c])
      BY <1>1, <3>3, DatabaseTypes
    <3>5. PICK i \in Nat : i = IndexOf(t, T[c], p.cell_name)
      <4>1. Len(t.lib[T[c]].cells) \in Nat
        BY <1>3, <2>2, LibraryTypes
      <4> QED
        BY <2>7, <3>1, <4>1
    <3>6. PICK q : q = To(s.proxies[c], T[c])
      OBVIOUS
    <3>7. q = [p EXCEPT !.id = id, !.index = i, !.lib_name = NoName]
      BY <2>5, <3>1, <3>4, <3>5, <3>6
    <3>8. /\ q \in Proxy /\ q.place = p.place /\ q.view = p.view /\ q.cell_name = p.cell_name
          /\ q.id = id /\ q.index = i
      BY <3>7 DEF Proxy
    <3> HIDE DEF To, D
    <3> QED
      BY <3>1, <3>3, <3>4, <3>5, <3>6, <3>8
  <2>9. \A c \in DOMAIN s.proxies : f[c] = IF c \in D THEN To(s.proxies[c], T[c]) ELSE s.proxies[c]
    BY <2>1, <2>2
  <2>10. DOMAIN f = DOMAIN s.proxies /\ f = [c \in DOMAIN s.proxies |-> f[c]]
    BY <2>1, <2>2
  <2> HIDE DEF f, To
  <2>11. f \in [DOMAIN t.proxies -> Proxy \union {Dead}] /\ \A c \in A \ D : f[c] = t.proxies[c]
    <3>1. \A c \in DOMAIN s.proxies : f[c] \in Proxy \union {Dead}
      BY <1>2, <2>8, <2>9
    <3> HIDE DEF D
    <3> QED
      BY <1>2, <2>1, <2>2, <2>9, <2>10, <3>1
  <2>12. /\ u \in Database /\ Frame(t, u) /\ SameLen(u) /\ u.lib = t.lib /\ u.proxies = f
         /\ Counts(u, A \ D) /\ Resolves(u, A \ D)
    <3>1. A \ D \in SUBSET DOMAIN t.proxies
      BY <1>2, <2>1, <2>2
    <3>2. Resolves(t, A \ D)
      BY <2>1, <2>2
    <3> HIDE DEF A, D
    <3> QED
      BY <2>2, <2>11, <3>1, <3>2, OtherProxies
  <2> HIDE DEF u
  <2>13. /\ r \in Database /\ r.proxies = u.proxies /\ Frame(u, r) /\ SameLen(r)
         /\ Counts(r, A)
         /\ \A L \in Libs : /\ r.lib[L].cells = u.lib[L].cells
                            /\ \A i \in 1..Len(u.lib[L].cells) :
                                 u.lib[L].m_refcount[i] > 0 => r.lib[L].m_refcount[i] > 0
    <3> HIDE DEF A, D
    <3> QED
      BY <1>2, <1>3, <2>3, <2>12, RegisterEffect
  <2>14. Frame(s, r)
    BY <2>4, <2>12, <2>13, FrameTransitive
  <2>15. \A id : LibOf(r, id) = LibOf(s, id)
    BY <2>14, FrameOwner
  <2>16. Alive(r) = A
    <3>1. \A c \in D : f[c] # Dead
      BY <1>2, <1>3, <2>8, <2>9, ProxyIsNotDead
    <3>2. r.proxies = f
      BY <2>12, <2>13
    <3> HIDE DEF D
    <3> QED
      BY <1>2, <1>3, <2>9, <2>10, <3>1, <3>2, ProxyIsNotDead DEF Alive
  <2>17. \A c \in D : Owner(r, c) = T[c] /\ r.proxies[c].id # 0
    BY <1>2, <1>3, <2>8, <2>9, <2>12, <2>13, <2>15 DEF Owner
  <2>18. \A c \in A \ D : r.proxies[c] = s.proxies[c] /\ Owner(r, c) = Owner(s, c)
    BY <1>2, <2>9, <2>12, <2>13, <2>15 DEF Owner
  <2>19. Resolves(r, A)
    <3> SUFFICES ASSUME NEW c \in A, r.proxies[c].id # 0
                 PROVE  /\ Owner(r, c) \in Libs
                        /\ r.proxies[c].index \in 1..Len(r.lib[Owner(r, c)].cells)
                        /\ r.lib[Owner(r, c)].cells[r.proxies[c].index] = r.proxies[c].cell_name
      BY DEF Resolves
    <3>1. CASE c \in D
      <4>1. Owner(r, c) = T[c] /\ T[c] \in Libs /\ r.lib[T[c]].cells = t.lib[T[c]].cells
        BY <1>3, <2>12, <2>13, <2>17, <3>1
      <4>2. /\ r.proxies[c].index = IndexOf(t, T[c], s.proxies[c].cell_name)
            /\ r.proxies[c].cell_name = s.proxies[c].cell_name
        BY <1>2, <1>3, <2>8, <2>9, <2>12, <2>13, <3>1
      <4> HIDE DEF D, A
      <4> QED
        BY <2>7, <3>1, <4>1, <4>2
    <3>2. CASE c \notin D
      <4>1. c \in A \ D /\ u.proxies[c] = r.proxies[c] /\ Owner(u, c) = Owner(r, c)
        BY <2>13, <3>2 DEF Owner, LibOf, Frame
      <4>2. /\ Owner(u, c) \in Libs /\ u.proxies[c].index \in 1..Len(u.lib[Owner(u, c)].cells)
            /\ u.lib[Owner(u, c)].cells[u.proxies[c].index] = u.proxies[c].cell_name
        BY <2>12, <4>1 DEF Resolves
      <4>3. r.lib[Owner(u, c)].cells = u.lib[Owner(u, c)].cells
        BY <2>13, <4>2
      <4> QED
        BY <4>1, <4>2, <4>3
    <3> QED
      BY <3>1, <3>2
  <2>20. SameProxies(s, r)
    <3> SUFFICES ASSUME NEW c \in A
                 PROVE  /\ r.proxies[c].place = s.proxies[c].place
                        /\ r.proxies[c].view = s.proxies[c].view
                        /\ r.proxies[c].cell_name = s.proxies[c].cell_name
      BY <2>16 DEF SameProxies
    <3> QED
      BY <1>2, <2>8, <2>9, <2>12, <2>13
  <2>21. \A c \in A : c \notin DOMAIN T \/ Owner(s, c) = T[c] => r.proxies[c] = s.proxies[c]
    BY <2>18
  <2>22. \A c \in DOMAIN T : Owner(r, c) = T[c] /\ r.proxies[c].id # 0
    <3> SUFFICES ASSUME NEW c \in DOMAIN T, c \notin D
                 PROVE  Owner(r, c) = T[c] /\ r.proxies[c].id # 0
      BY <2>17
    <3> QED
      BY <1>3, <1>4, <2>18 DEF Directs
  <2>23. Needed(r)
    <3> SUFFICES ASSUME NEW L \in Libs, NEW i \in 1..Len(r.lib[L].cells), r.lib[L].cells[i] \in PCells
                 PROVE  r.lib[L].m_refcount[i] > 0
      BY DEF Needed
    <3>1. r.lib[L].cells = t.lib[L].cells /\ Len(t.lib[L].cells) = Len(w.lib[L].cells)
      BY <2>2, <2>12, <2>13 DEF CellsLeft
    <3>2. /\ Len(s.lib[L].cells) \in Nat /\ Len(w.lib[L].cells) \in Nat
          /\ DOMAIN s.lib[L].cells = 1..Len(s.lib[L].cells)
      BY <1>1, <2>1, LibraryTypes
    <3>3. Extended(s.lib[L], w.lib[L], NewNames(s, D, T, L))
      BY <2>1
    <3>4. i \in 1..Len(w.lib[L].cells) /\ t.lib[L].cells[i] \in PCells
      BY <3>1
    <3>5. CASE i \in 1..Len(s.lib[L].cells)
      <4>1. w.lib[L].cells[i] = s.lib[L].cells[i] /\ w.lib[L].m_refcount[i] = s.lib[L].m_refcount[i]
        BY <3>3, <3>5 DEF Extended
      <4>2. s.lib[L].cells[i] \in PCells => s.lib[L].m_refcount[i] > 0
        BY <1>1, <3>5 DEF Needed
      <4>3. t.lib[L].m_refcount[i] > 0
        BY <2>2, <3>4, <4>1, <4>2 DEF CellsLeft
      <4> QED
        BY <2>12, <2>13, <3>1, <4>3
    <3>6. CASE i \notin 1..Len(s.lib[L].cells)
      <4>1. i > Len(s.lib[L].cells)
        BY <3>2, <3>4, <3>6
      <4>2. w.lib[L].cells[i] \in NewNames(s, D, T, L)
        BY <3>3, <3>4, <4>1 DEF Extended
      <4>3. PICK c \in D : T[c] = L /\ w.lib[L].cells[i] = s.proxies[c].cell_name
                           /\ s.proxies[c].cell_name \notin Range(s.lib[L].cells)
        BY <4>2 DEF NewNames
      <4>4. t.lib[L].cells = w.lib[L].cells
        BY <2>6, <4>3
      <4>5. PICK j : j = IndexOf(t, L, s.proxies[c].cell_name)
        OBVIOUS
      <4>6. j \in 1..Len(w.lib[L].cells) /\ w.lib[L].cells[j] = s.proxies[c].cell_name
        <5> HIDE DEF D
        <5> QED
          BY <2>7, <4>3, <4>4, <4>5
      <4>7. j > Len(s.lib[L].cells)
        <5> SUFFICES ASSUME j \in 1..Len(s.lib[L].cells)
                     PROVE  FALSE
          BY <3>2, <4>6
        <5>1. s.lib[L].cells[j] = s.proxies[c].cell_name
          BY <3>3, <4>6 DEF Extended
        <5> QED
          BY <3>2, <4>3, <5>1 DEF Range
      <4>8. i = j
        BY <3>3, <3>4, <4>1, <4>3, <4>6, <4>7 DEF Extended
      <4>9. c \in A /\ r.proxies[c].id # 0 /\ Owner(r, c) = L /\ r.proxies[c].index = i
        <5>1. c \in A /\ r.proxies[c].id # 0 /\ Owner(r, c) = L
          BY <1>3, <2>17, <4>3
        <5>2. r.proxies[c] = To(s.proxies[c], T[c])
          BY <1>2, <1>3, <2>9, <2>12, <2>13
        <5>3. r.proxies[c].index = IndexOf(t, T[c], s.proxies[c].cell_name)
          BY <2>8, <5>2
        <5> QED
          BY <4>3, <4>5, <4>8, <5>1, <5>3
      <4>10. c \in ToCell(r, L, A, i)
        BY <4>9 DEF ToCell
      <4>11. Cardinality(ToCell(r, L, A, i)) > 0
        <5> HIDE DEF A
        <5> QED
          BY <1>2, <4>10, CountPositive
      <4> QED
        BY <2>13, <4>11 DEF Counts
    <3> QED
      BY <3>5, <3>6
  <2>24. Slots(r)
    BY <1>1, <2>14, FrameOwner
  <2>25. Consistent(r)
    BY <2>13, <2>16, <2>19, <2>23, <2>24 DEF Consistent
  <2> QED
    BY <2>14, <2>16, <2>20, <2>21, <2>22, <2>25
<1> QED
  BY <1>5, <1>6

(* remap_to(): afterwards no proxy in a layout leads to the library L.     *)
LEMMA RemapToEffect ==
  ASSUME NEW s, Consistent(s), NEW L \in Registered(s), NEW other \in Registered(s) \union {NoLib},
         NEW t, t = RemapTo(s, L, other)
  PROVE  /\ Consistent(t) /\ Frame(s, t) /\ SameProxies(s, t)
         /\ other # L => \A c \in At(t, "layout") : t.proxies[c].id # 0 => Owner(t, c) # L
<1> DEFINE C == Referred(s, L)
           kept == IF other = NoLib THEN {} ELSE {c \in C : s.proxies[c].cell_name \in s.lib[other].has}
           T == [c \in kept |-> other]
           r == Remap(s, T)
           v == CreateColdProxies(r, C \ kept)
           views == {s.proxies[c].view : c \in C}
<1>1. /\ s \in Database /\ Counts(s, Alive(s)) /\ Resolves(s, Alive(s)) /\ L \in Libs
  BY OwnerTypes DEF Consistent
<1>2. C \in SUBSET Alive(s) /\ kept \in SUBSET C /\ \A c \in C : Owner(s, c) = L
  BY DEF Referred, At
<1>3. DOMAIN T = kept /\ \A c \in kept : T[c] = other /\ other \in Registered(s)
  OBVIOUS
<1>4. t = Cleanup(v, views)
  BY DEF RemapTo
<1> HIDE DEF C, kept, T
<1>5. Directs(s, T)
  BY <1>2, <1>3 DEF Directs
<1>6. /\ Consistent(r) /\ Frame(s, r) /\ SameProxies(s, r)
      /\ Alive(r) = Alive(s)
      /\ \A c \in Alive(s) : c \notin DOMAIN T \/ Owner(s, c) = T[c] => r.proxies[c] = s.proxies[c]
      /\ \A c \in DOMAIN T : Owner(r, c) = T[c] /\ r.proxies[c].id # 0
  <2> HIDE DEF v
  <2> QED
    BY <1>5, RemapEffect
<1> HIDE DEF r
<1>7. /\ Consistent(v) /\ Frame(r, v) /\ SameProxies(r, v)
      /\ Alive(v) = Alive(r)
      /\ \A c \in Alive(r) : IF c \in C \ kept THEN v.proxies[c].id = 0 ELSE v.proxies[c] = r.proxies[c]
  <2>1. C \ kept \in SUBSET Alive(r)
    BY <1>2, <1>6
  <2> QED
    BY <1>6, <2>1, CreateColdEffect
<1> HIDE DEF v, views
<1>8. /\ Consistent(t) /\ Frame(v, t) /\ SameProxies(v, t)
      /\ \A c \in Alive(t) : t.proxies[c] = v.proxies[c]
  BY <1>4, <1>7, CleanupEffect
<1>9. Frame(s, t)
  BY <1>6, <1>7, <1>8, FrameTransitive
<1>10. SameProxies(s, t)
  BY <1>6, <1>7, <1>8 DEF SameProxies
<1>11. ASSUME other # L, NEW c \in At(t, "layout"), t.proxies[c].id # 0, Owner(t, c) = L
       PROVE  FALSE
  <2>1. c \in Alive(t) /\ c \in Alive(v) /\ c \in Alive(s) /\ t.proxies[c] = v.proxies[c]
        /\ t.proxies[c].place = "layout"
    BY <1>6, <1>7, <1>8 DEF At, SameProxies
  <2>2. c \notin C \ kept /\ v.proxies[c] = r.proxies[c]
    BY <1>6, <1>7, <1>11, <2>1
  <2>3. Owner(r, c) = L
    <3>1. Frame(r, t)
      BY <1>7, <1>8, FrameTransitive
    <3>2. \A id : LibOf(t, id) = LibOf(r, id)
      BY <3>1, FrameOwner
    <3> QED
      BY <1>11, <2>1, <2>2, <3>2 DEF Owner
  <2>4. c \notin kept
    BY <1>3, <1>6, <1>11, <2>3
  <2>5. c \notin C /\ r.proxies[c] = s.proxies[c]
    BY <1>3, <1>6, <2>1, <2>2, <2>4
  <2>6. Owner(s, c) = L /\ s.proxies[c].id # 0 /\ s.proxies[c].place = "layout"
    <3>1. \A id : LibOf(r, id) = LibOf(s, id)
      BY <1>6, FrameOwner
    <3> QED
      BY <1>11, <2>1, <2>2, <2>3, <2>5, <3>1 DEF Owner
  <2>7. s.proxies[c] \in Proxy /\ IsFiniteSet(Alive(s))
    BY <1>1, <2>1, AliveTypes
  <2>8. PICK w \in Views : w = s.proxies[c].view
    BY <2>7 DEF Proxy
  <2>9. c \in FromView(s, L, Alive(s), w)
    BY <2>1, <2>6, <2>8 DEF FromView
  <2>10. Cardinality(FromView(s, L, Alive(s), w)) > 0
    BY <2>7, <2>9, FromViewPositive
  <2>11. s.lib[L].m_referrers[w] > 0
    BY <1>1, <2>10 DEF Counts
  <2>12. IsValid(s, L, s.proxies[c].index)
    <3>1. /\ s.proxies[c].index \in 1..Len(s.lib[L].cells)
          /\ s.lib[L].cells[s.proxies[c].index] = s.proxies[c].cell_name
      BY <1>1, <2>1, <2>6 DEF Resolves
    <3>2. s.proxies[c].cell_name # Gone
      BY <2>7, LibrariesAssumption DEF Proxy
    <3>3. DOMAIN s.lib[L].cells = 1..Len(s.lib[L].cells)
      BY <1>1, LibraryTypes
    <3> QED
      BY <3>1, <3>2, <3>3 DEF IsValid
  <2>13. c \in Referred(s, L)
    BY <2>1, <2>6, <2>8, <2>11, <2>12 DEF Referred, At
  <2> QED
    BY <2>5, <2>13 DEF C
<1> QED
  BY <1>8, <1>9, <1>10, <1>11

-----------------------------------------------------------------------------
(* The slot of L is free, and all else is the same.                        *)
SlotFreed(s, t, L) ==
  /\ t.m_lib_by_name = s.m_lib_by_name /\ t.lib = s.lib /\ t.proxies = s.proxies
  /\ t.disturbed = s.disturbed
  /\ \A id : LibOf(t, id) = IF LibOf(s, id) = L THEN NoLib ELSE LibOf(s, id)
  /\ Registered(t) = Registered(s) \ {L}
  /\ \A c \in Alive(t) : t.proxies[c].id # 0 => Owner(s, c) # L

(* The slot and the flag are all that changes.                            *)
LEMMA FreeSlotShape ==
  ASSUME NEW s \in Database, Slots(s), NEW L \in Registered(s), NEW t, t = FreeSlot(s, L)
  PROVE  /\ t \in Database /\ Slots(t)
         /\ t.m_lib_by_name = s.m_lib_by_name /\ t.lib = s.lib /\ t.proxies = s.proxies
         /\ t.disturbed = (s.disturbed \/ \E c \in At(s, "op") : s.proxies[c].id = IdOf(s, L))
         /\ \A id : LibOf(t, id) = IF LibOf(s, id) = L THEN NoLib ELSE LibOf(s, id)
         /\ Registered(t) = Registered(s) \ {L}
<1> DEFINE k == IdOf(s, L)
<1>1. PICK b \in BOOLEAN : b = (s.disturbed \/ \E c \in At(s, "op") : s.proxies[c].id = k)
  OBVIOUS
<1>2. L \in Libs /\ L # NoLib
  BY OwnerTypes
<1>3. /\ k \in 1..Len(s.m_libs) /\ s.m_libs[k] = L /\ k # 0
      /\ \A id : LibOf(s, id) = L <=> id = k
  BY SlotOf
<1>4. /\ s.m_libs \in Seq(Libs \union {NoLib}) /\ DOMAIN s.m_libs = 1..Len(s.m_libs)
      /\ Len(s.m_libs) \in Nat
  BY DatabaseTypes
<1>5. t = [s EXCEPT !.m_libs = [s.m_libs EXCEPT ![k] = NoLib], !.disturbed = b]
  BY <1>1 DEF FreeSlot, Database
<1>6. /\ t.m_lib_by_name = s.m_lib_by_name /\ t.lib = s.lib /\ t.proxies = s.proxies
      /\ t.m_libs = [s.m_libs EXCEPT ![k] = NoLib] /\ t.disturbed = b
  BY <1>5 DEF Database
<1> HIDE DEF k
<1>7. t.m_libs \in Seq(Libs \union {NoLib}) /\ DOMAIN t.m_libs = DOMAIN s.m_libs
  BY <1>3, <1>4, <1>6, ExceptSeq
<1>8. t \in Database
  <2>1. PICK m \in Seq(Libs \union {NoLib}) : m = t.m_libs
    BY <1>7
  <2>2. t = [s EXCEPT !.m_libs = m, !.disturbed = b]
    BY <1>5, <1>6, <2>1
  <2> QED
    BY <2>2 DEF Database
<1>9. \A i \in DOMAIN t.m_libs : t.m_libs[i] = IF i = k THEN NoLib ELSE s.m_libs[i]
  BY <1>6, <1>7
<1>10. Slots(t)
  BY <1>7, <1>9 DEF Slots
<1>11. \A id : LibOf(t, id) = IF LibOf(s, id) = L THEN NoLib ELSE LibOf(s, id)
  <2> SUFFICES ASSUME NEW id
               PROVE  LibOf(t, id) = IF id = k THEN NoLib ELSE LibOf(s, id)
    BY <1>3
  <2> QED
    BY <1>3, <1>4, <1>7, <1>9 DEF LibOf
<1>12. Registered(t) = Registered(s) \ {L}
  <2>1. ASSUME NEW M \in Registered(t)
        PROVE  M \in Registered(s) \ {L}
    <3>1. PICK i \in DOMAIN t.m_libs : t.m_libs[i] = M
      BY DEF Registered, Range
    <3>2. M # NoLib
      BY DEF Registered
    <3>3. i # k /\ i \in DOMAIN s.m_libs /\ s.m_libs[i] = M
      BY <1>7, <1>9, <3>1, <3>2
    <3>4. M # L
      BY <1>3, <1>4, <3>3, <1>2 DEF Slots
    <3> QED
      BY <3>2, <3>3, <3>4 DEF Registered, Range
  <2>2. ASSUME NEW M \in Registered(s), M # L
        PROVE  M \in Registered(t)
    <3>1. PICK i \in DOMAIN s.m_libs : s.m_libs[i] = M
      BY DEF Registered, Range
    <3>2. M # NoLib
      BY DEF Registered
    <3>3. i # k
      BY <1>3, <2>2, <3>1
    <3>4. i \in DOMAIN t.m_libs /\ t.m_libs[i] = M
      BY <1>7, <1>9, <3>1, <3>3
    <3> QED
      BY <3>2, <3>4 DEF Registered, Range
  <2> QED
    BY <2>1, <2>2
<1> QED
  BY <1>1, <1>6, <1>8, <1>10, <1>11, <1>12 DEF k

(* Unless a proxy in the history led to it nothing is wrong then.          *)
LEMMA FreeSlotEffect ==
  ASSUME NEW s, Consistent(s), NEW L \in Registered(s),
         \A c \in At(s, "layout") : s.proxies[c].id # 0 => Owner(s, c) # L,
         NEW t, t = FreeSlot(s, L), ~t.disturbed
  PROVE  Consistent(t) /\ SlotFreed(s, t, L)
<1> DEFINE A == Alive(s)
<1>1. /\ s \in Database /\ Slots(s) /\ SameLen(s) /\ Counts(s, A) /\ Resolves(s, A) /\ Needed(s)
  BY DEF Consistent
<1>2. /\ t \in Database /\ Slots(t)
      /\ t.m_lib_by_name = s.m_lib_by_name /\ t.lib = s.lib /\ t.proxies = s.proxies
      /\ t.disturbed = (s.disturbed \/ \E c \in At(s, "op") : s.proxies[c].id = IdOf(s, L))
      /\ \A id : LibOf(t, id) = IF LibOf(s, id) = L THEN NoLib ELSE LibOf(s, id)
      /\ Registered(t) = Registered(s) \ {L}
  BY <1>1, FreeSlotShape
<1>3. s.disturbed = FALSE /\ t.disturbed = FALSE /\ \A c \in At(s, "op") : s.proxies[c].id # IdOf(s, L)
  <2>1. s.disturbed \in BOOLEAN
    BY <1>1, DatabaseTypes
  <2> QED
    BY <1>2, <2>1
<1>4. Alive(t) = A
  BY <1>2 DEF Alive
<1>5. \A c \in A : s.proxies[c].id # 0 => Owner(s, c) # L
  <2> SUFFICES ASSUME NEW c \in A, s.proxies[c].id # 0, Owner(s, c) = L
               PROVE  FALSE
    OBVIOUS
  <2>1. s.proxies[c].id = IdOf(s, L)
    BY <1>1, SlotOf DEF Owner
  <2>2. s.proxies[c] \in Proxy
    BY <1>1, AliveTypes
  <2>3. c \in At(s, "layout") \/ c \in At(s, "op")
    BY <2>2 DEF At, Proxy
  <2> QED
    BY <1>3, <2>1, <2>3
<1>6. \A c \in A : s.proxies[c].id # 0 => Owner(t, c) = Owner(s, c)
  BY <1>2, <1>5 DEF Owner
<1>7. Counts(t, A)
  <2>1. CountAlike(s, t, A)
    BY <1>2, <1>6 DEF CountAlike
  <2> QED
    BY <1>1, <2>1, SameCounts
<1>8. Resolves(t, A)
  BY <1>1, <1>2, <1>6 DEF Resolves
<1>9. Needed(t) /\ SameLen(t)
  BY <1>1, <1>2 DEF Needed, SameLen
<1>10. Consistent(t)
  BY <1>2, <1>4, <1>7, <1>8, <1>9 DEF Consistent
<1>11. SlotFreed(s, t, L)
  BY <1>2, <1>3, <1>4, <1>5 DEF SlotFreed
<1> QED
  BY <1>10, <1>11

-----------------------------------------------------------------------------
(* What the names and the technologies are does not matter for the counts. *)
SameCells(s, t) ==
  /\ t.m_libs = s.m_libs /\ t.proxies = s.proxies
  /\ \A L \in Libs : /\ t.lib[L].cells = s.lib[L].cells /\ t.lib[L].m_refcount = s.lib[L].m_refcount
                     /\ t.lib[L].m_referrers = s.lib[L].m_referrers

LEMMA SameCellsConsistent ==
  ASSUME NEW s, Consistent(s), NEW t \in Database, SameCells(s, t)
  PROVE  Consistent(t) /\ Alive(t) = Alive(s)
<1> DEFINE A == Alive(s)
<1>1. /\ s \in Database /\ Slots(s) /\ SameLen(s) /\ Counts(s, A) /\ Resolves(s, A) /\ Needed(s)
  BY DEF Consistent
<1>2. Alive(t) = A
  BY DEF SameCells, Alive
<1>3. \A c : Owner(t, c) = Owner(s, c)
  BY DEF SameCells, Owner, LibOf
<1>4. CountAlike(s, t, A)
  BY <1>3 DEF SameCells, CountAlike
<1>5. Counts(t, A)
  BY <1>1, <1>4, SameCounts
<1>6. Resolves(t, A)
  BY <1>1, <1>3 DEF SameCells, Resolves
<1>7. Needed(t) /\ SameLen(t) /\ Slots(t)
  BY <1>1 DEF Needed, SameLen, Slots, SameCells
<1> QED
  BY <1>2, <1>5, <1>6, <1>7 DEF Consistent

(* A library that nobody leads to, with no counts and no variants.         *)
Idle(X) ==
  /\ X \in LibraryRecord
  /\ Len(X.m_refcount) = Len(X.cells)
  /\ \A v \in Views : X.m_referrers[v] = 0
  /\ \A i \in 1..Len(X.cells) : X.m_refcount[i] = 0 /\ X.cells[i] \notin PCells

NobodyAt(s, L) == \A c \in Alive(s) : s.proxies[c].id # 0 => Owner(s, c) # L

(* Only the library L is another one.                                      *)
ResetTo(s, t, L, X) ==
  /\ t.m_libs = s.m_libs /\ t.m_lib_by_name = s.m_lib_by_name /\ t.proxies = s.proxies
  /\ t.disturbed = s.disturbed
  /\ \A M \in Libs : t.lib[M] = IF M = L THEN X ELSE s.lib[M]

LEMMA ResetLibrary ==
  ASSUME NEW s, Consistent(s), NEW L \in Libs, NobodyAt(s, L), NEW X, Idle(X),
         NEW t, t = [s EXCEPT !.lib[L] = X]
  PROVE  Consistent(t) /\ ResetTo(s, t, L, X) /\ NobodyAt(t, L) /\ Alive(t) = Alive(s)
<1> DEFINE A == Alive(s)
<1>1. /\ s \in Database /\ Slots(s) /\ SameLen(s) /\ Counts(s, A) /\ Resolves(s, A) /\ Needed(s)
  BY DEF Consistent
<1>2. s.lib \in [Libs -> LibraryRecord] /\ X \in LibraryRecord
  BY <1>1, DatabaseTypes DEF Idle
<1>3. PICK l : l = [s.lib EXCEPT ![L] = X]
  OBVIOUS
<1>4. l \in [Libs -> LibraryRecord] /\ \A M \in Libs : l[M] = IF M = L THEN X ELSE s.lib[M]
  BY <1>2, <1>3
<1>5. t = [s EXCEPT !.lib = l]
  BY <1>3
<1>6. /\ t \in Database /\ t.lib = l /\ t.m_libs = s.m_libs /\ t.m_lib_by_name = s.m_lib_by_name
      /\ t.proxies = s.proxies /\ t.disturbed = s.disturbed
  BY <1>1, <1>4, <1>5 DEF Database
<1>7. ResetTo(s, t, L, X)
  BY <1>4, <1>6 DEF ResetTo
<1>8. Alive(t) = A /\ \A c : Owner(t, c) = Owner(s, c)
  BY <1>6 DEF Alive, Owner, LibOf
<1>9. NobodyAt(t, L)
  BY <1>6, <1>8 DEF NobodyAt
<1>10. Counts(t, A)
  <2> SUFFICES ASSUME NEW M \in Libs
               PROVE  /\ \A v \in Views : t.lib[M].m_referrers[v] = Cardinality(FromView(t, M, A, v))
                      /\ \A i \in 1..Len(t.lib[M].cells) :
                           t.lib[M].m_refcount[i] = Cardinality(ToCell(t, M, A, i))
    BY DEF Counts
  <2>1. CASE M = L
    <3>1. \A v : FromView(t, M, A, v) = {}
      BY <1>8, <1>9, <2>1 DEF FromView, NobodyAt
    <3>2. \A i : ToCell(t, M, A, i) = {}
      BY <1>8, <1>9, <2>1 DEF ToCell, NobodyAt
    <3>3. Cardinality({}) = 0
      BY FS_EmptySet
    <3>4. t.lib[M] = X
      BY <1>4, <1>6, <2>1
    <3>5. /\ \A v \in Views : X.m_referrers[v] = 0
          /\ \A i \in 1..Len(X.cells) : X.m_refcount[i] = 0
      BY DEF Idle
    <3> QED
      BY <3>1, <3>2, <3>3, <3>4, <3>5
  <2>2. CASE M # L
    <3>1. /\ \A i : ToCell(t, M, A, i) = ToCell(s, M, A, i)
          /\ \A v : FromView(t, M, A, v) = FromView(s, M, A, v)
      BY <1>6, <1>8 DEF ToCell, FromView
    <3>2. t.lib[M] = s.lib[M]
      BY <1>4, <1>6, <2>2
    <3> QED
      BY <1>1, <3>1, <3>2 DEF Counts
  <2> QED
    BY <2>1, <2>2
<1>11. Resolves(t, A)
  <2> SUFFICES ASSUME NEW c \in A, t.proxies[c].id # 0
               PROVE  /\ Owner(t, c) \in Libs
                      /\ t.proxies[c].index \in 1..Len(t.lib[Owner(t, c)].cells)
                      /\ t.lib[Owner(t, c)].cells[t.proxies[c].index] = t.proxies[c].cell_name
    BY DEF Resolves
  <2>1. Owner(t, c) # L
    BY <1>8, <1>9 DEF NobodyAt
  <2>2. /\ Owner(s, c) \in Libs
        /\ s.proxies[c].index \in 1..Len(s.lib[Owner(s, c)].cells)
        /\ s.lib[Owner(s, c)].cells[s.proxies[c].index] = s.proxies[c].cell_name
    BY <1>1, <1>6 DEF Resolves
  <2>3. t.lib[Owner(s, c)] = s.lib[Owner(s, c)]
    BY <1>4, <1>6, <1>8, <2>1, <2>2
  <2> QED
    BY <1>6, <1>8, <2>2, <2>3
<1>12. Needed(t) /\ SameLen(t) /\ Slots(t)
  <2>1. Slots(t)
    BY <1>1, <1>6 DEF Slots
  <2>2. ASSUME NEW M \in Libs
        PROVE  /\ Len(t.lib[M].m_refcount) = Len(t.lib[M].cells)
               /\ \A i \in 1..Len(t.lib[M].cells) :
                    t.lib[M].cells[i] \in PCells => t.lib[M].m_refcount[i] > 0
    <3>1. CASE M = L
      <4>1. t.lib[M] = X
        BY <1>4, <1>6, <3>1
      <4> QED
        BY <4>1 DEF Idle
    <3>2. CASE M # L
      <4>1. t.lib[M] = s.lib[M]
        BY <1>4, <1>6, <3>2
      <4> QED
        BY <1>1, <4>1 DEF Needed, SameLen
    <3> QED
      BY <3>1, <3>2
  <2> QED
    BY <2>1, <2>2 DEF Needed, SameLen
<1>13. Consistent(t)
  BY <1>6, <1>8, <1>10, <1>11, <1>12 DEF Consistent
<1> QED
  BY <1>7, <1>8, <1>9, <1>13

LEMMA FreshIdle == Idle(Fresh)
<1>1. <<>> \in Seq(CellNames \union {Gone}) /\ <<>> \in Seq(Nat) /\ Len(<<>>) = 0
  BY EmptySeq
<1>2. [v \in Views |-> 0] \in [Views -> Nat]
  OBVIOUS
<1>3. Generic \in Techs
  BY LibrariesAssumption
<1>4. Fresh \in LibraryRecord
  BY <1>1, <1>2, <1>3 DEF Fresh, LibraryRecord
<1> QED
  BY <1>1, <1>4 DEF Idle, Fresh

(* Nobody leads to a library that is not registered.                       *)
LEMMA NobodyAtUnregistered ==
  ASSUME NEW s \in Database, NEW L \in Libs, L \notin Registered(s)
  PROVE  NobodyAt(s, L)
<1>1. NoLib \notin Libs /\ \A c : Owner(s, c) # NoLib => Owner(s, c) \in Registered(s)
  BY OwnerTypes
<1> QED
  BY <1>1 DEF NobodyAt

(* A library that nobody leads to is filled.                               *)
LEMMA LoadedEffect ==
  ASSUME NEW s, Consistent(s), NEW L \in Libs, NobodyAt(s, L), NEW has \in SUBSET CellNames,
         IsFiniteSet(has), NEW t, t = Loaded(s, L, has)
  PROVE  /\ Consistent(t) /\ NobodyAt(t, L) /\ Alive(t) = Alive(s)
         /\ \E X : /\ ResetTo(s, t, L, X) /\ X.m_name = s.lib[L].m_name /\ X.tech = s.lib[L].tech
                   /\ X.has = has
<1> DEFINE A == Alive(s)
<1>1. s \in Database /\ Counts(s, A)
  BY DEF Consistent
<1>2. has \in SUBSET CellNames /\ IsFiniteSet(has)
  OBVIOUS
<1>3. PICK names \in SUBSET CellNames : names = has \ PCells
  BY <1>2
<1>4. IsFiniteSet(names)
  BY <1>2, <1>3, FS_Subset
<1>5. PICK p \in LibraryRecord : p = s.lib[L]
  BY <1>1, LibraryTypes
<1>6. PICK e : e = <<>>
  OBVIOUS
<1>7. e \in Seq(CellNames \union {Gone}) /\ e \in Seq(Nat) /\ Len(e) = 0
  BY <1>6, EmptySeq
<1>8. PICK p0 : p0 = [p EXCEPT !.has = has, !.cells = e, !.m_refcount = e]
  OBVIOUS
<1>9. /\ p0 \in LibraryRecord /\ p0.cells = e /\ p0.m_refcount = e /\ p0.has = has
      /\ p0.m_name = p.m_name /\ p0.tech = p.tech /\ p0.m_referrers = p.m_referrers
  BY <1>2, <1>7, <1>8 DEF LibraryRecord
<1>10. PICK X : X = WithCells(p0, names)
  OBVIOUS
<1>11. Len(p0.m_refcount) = Len(p0.cells)
  BY <1>9
<1>12. Extended(p0, X, names)
  BY <1>4, <1>9, <1>10, <1>11, WithCellsEffect
<1>13. \A v \in Views : p.m_referrers[v] = 0
  <2>1. \A v : FromView(s, L, A, v) = {}
    BY DEF FromView, NobodyAt
  <2>2. \A v \in Views : p.m_referrers[v] = Cardinality(FromView(s, L, A, v))
    BY <1>1, <1>5 DEF Counts
  <2> QED
    BY <2>1, <2>2, FS_EmptySet
<1>14. Idle(X)
  <2>1. \A i \in 1..Len(X.cells) : i > Len(p0.cells)
    BY <1>7, <1>9
  <2>2. \A i \in 1..Len(X.cells) : X.m_refcount[i] = 0 /\ X.cells[i] \notin PCells
    BY <1>3, <1>12, <2>1 DEF Extended
  <2>3. /\ X \in LibraryRecord /\ Len(X.m_refcount) = Len(X.cells)
        /\ X.m_referrers = p.m_referrers
    BY <1>9, <1>12 DEF Extended
  <2> QED
    BY <1>13, <2>2, <2>3 DEF Idle
<1>15. t = [s EXCEPT !.lib[L] = X]
  <2>1. X = WithCells([s.lib[L] EXCEPT !.has = has, !.cells = <<>>, !.m_refcount = <<>>], has \ PCells)
    BY <1>3, <1>5, <1>6, <1>8, <1>10
  <2>2. s.lib \in [Libs -> LibraryRecord] /\ s = [s EXCEPT !.lib = s.lib]
    BY <1>1 DEF Database
  <2>3. t = [s EXCEPT !.lib = [s.lib EXCEPT ![L] =
               WithCells([s.lib[L] EXCEPT !.has = has, !.cells = <<>>, !.m_refcount = <<>>], has \ PCells)]]
    BY <1>1 DEF Loaded, Database
  <2> QED
    BY <2>1, <2>3
<1>16. Consistent(t) /\ ResetTo(s, t, L, X) /\ NobodyAt(t, L) /\ Alive(t) = Alive(s)
  BY <1>14, <1>15, ResetLibrary
<1>17. X.m_name = s.lib[L].m_name /\ X.tech = s.lib[L].tech /\ X.has = has
  BY <1>5, <1>9, <1>12 DEF Extended
<1> QED
  BY <1>16, <1>17

(* A library gets another name, or also other technologies.                *)
Renames(s, t, L, name) ==
  /\ t.m_libs = s.m_libs /\ t.proxies = s.proxies
  /\ t.disturbed = s.disturbed
  /\ \A M \in Libs : t.lib[M].m_name = IF M = L THEN name ELSE s.lib[M].m_name

NameGiven(s, t, L, name) ==
  \/ t = [s EXCEPT !.lib[L].m_name = name]
  \/ \E tech \in Techs : t = [s EXCEPT !.lib[L].m_name = name, !.lib[L].tech = tech]

LEMMA NameEffect ==
  ASSUME NEW s, Consistent(s), NEW L \in Libs, NEW name \in Names, NEW t, NameGiven(s, t, L, name)
  PROVE  Consistent(t) /\ Alive(t) = Alive(s) /\ Renames(s, t, L, name) /\ t.m_lib_by_name = s.m_lib_by_name
<1>1. s \in Database
  BY DEF Consistent
<1>2. PICK p \in LibraryRecord : p = s.lib[L]
  BY <1>1, LibraryTypes
<1>3. PICK tech \in Techs : \/ t = [s EXCEPT !.lib[L].m_name = name]
                            \/ t = [s EXCEPT !.lib[L].m_name = name, !.lib[L].tech = tech]
  BY LibrariesAssumption DEF NameGiven
<1>4. PICK q : q = IF t = [s EXCEPT !.lib[L].m_name = name] THEN [p EXCEPT !.m_name = name]
                   ELSE [p EXCEPT !.m_name = name, !.tech = tech]
  OBVIOUS
<1>5. /\ q \in LibraryRecord /\ q.m_name = name /\ q.cells = p.cells /\ q.m_refcount = p.m_refcount
      /\ q.m_referrers = p.m_referrers
  BY <1>4 DEF LibraryRecord
<1>6. s.lib \in [Libs -> LibraryRecord]
  BY <1>1, DatabaseTypes
<1>7. PICK l : l = [s.lib EXCEPT ![L] = q]
  OBVIOUS
<1>8. l \in [Libs -> LibraryRecord] /\ \A M \in Libs : l[M] = IF M = L THEN q ELSE s.lib[M]
  BY <1>5, <1>6, <1>7
<1>9. t = [s EXCEPT !.lib = l]
  <2>1. CASE t = [s EXCEPT !.lib[L].m_name = name]
    BY <1>1, <1>2, <1>4, <1>6, <1>7, <2>1 DEF Database
  <2>2. CASE t # [s EXCEPT !.lib[L].m_name = name]
    <3>1. t = [s EXCEPT !.lib[L].m_name = name, !.lib[L].tech = tech]
      BY <1>3, <2>2
    <3>2. q = [p EXCEPT !.m_name = name, !.tech = tech]
      BY <1>4, <2>2
    <3> QED
      BY <1>1, <1>2, <1>6, <1>7, <3>1, <3>2 DEF Database
  <2> QED
    BY <2>1, <2>2
<1>10. /\ t \in Database /\ t.lib = l /\ t.m_libs = s.m_libs /\ t.m_lib_by_name = s.m_lib_by_name
       /\ t.proxies = s.proxies /\ t.disturbed = s.disturbed
  BY <1>1, <1>8, <1>9 DEF Database
<1>11. SameCells(s, t)
  BY <1>2, <1>5, <1>8, <1>10 DEF SameCells
<1>12. Renames(s, t, L, name)
  BY <1>5, <1>8, <1>10 DEF Renames
<1> QED
  BY <1>10, <1>11, <1>12, SameCellsConsistent

-----------------------------------------------------------------------------
(* The library that is found by a name is registered under it.             *)
LEMMA NamedTypes ==
  ASSUME NEW s, NEW name, NEW tech
  PROVE  /\ Named(s, name, tech) \in SUBSET Registered(s)
         /\ \A L \in Named(s, name, tech) : [name |-> name, id |-> IdOf(s, L)] \in s.m_lib_by_name
         /\ LibByName(s, name, tech) \in Registered(s) \union {NoLib}
         /\ LibByName(s, name, tech) # NoLib =>
              [name |-> name, id |-> IdOf(s, LibByName(s, name, tech))] \in s.m_lib_by_name
<1>1. \A u : /\ Named(s, name, u) \in SUBSET Registered(s)
             /\ \A L \in Named(s, name, u) : [name |-> name, id |-> IdOf(s, L)] \in s.m_lib_by_name
  BY DEF Named
<1>2. PICK found : found = IF Named(s, name, tech) # {} THEN Named(s, name, tech) ELSE Named(s, name, Generic)
  OBVIOUS
<1>3. LibByName(s, name, tech) = IF found = {} THEN NoLib ELSE CHOOSE L \in found : TRUE
  BY <1>2 DEF LibByName
<1>4. /\ found \in SUBSET Registered(s)
      /\ \A L \in found : [name |-> name, id |-> IdOf(s, L)] \in s.m_lib_by_name
  BY <1>1, <1>2
<1>5. CASE found = {}
  BY <1>1, <1>3, <1>5
<1>6. CASE found # {}
  <2>1. LibByName(s, name, tech) \in found
    BY <1>3, <1>6
  <2> QED
    BY <1>1, <1>4, <2>1
<1> QED
  BY <1>5, <1>6

(* The name that leads to a library is the one it has.                     *)
LEMMA NameOfLibrary ==
  ASSUME NEW s \in Database, Slots(s), NamesLead(s), NEW name, NEW L \in Registered(s),
         [name |-> name, id |-> IdOf(s, L)] \in s.m_lib_by_name
  PROVE  s.lib[L].m_name = name
<1>1. LibOf(s, IdOf(s, L)) = L
  BY SlotOf
<1>2. PICK e \in s.m_lib_by_name : e = [name |-> name, id |-> IdOf(s, L)]
  OBVIOUS
<1>3. e.name = name /\ LibOf(s, e.id) = L
  BY <1>1, <1>2
<1> QED
  BY <1>3 DEF NamesLead

(* restore_proxies()                                                       *)
LEMMA RestoreEffect ==
  ASSUME NEW s, Consistent(s), NEW views, NEW techs, NEW t, t = RestoreProxies(s, views, techs)
  PROVE  Consistent(t) /\ Frame(s, t) /\ SameProxies(s, t)
<1> DEFINE Tech(c) == techs[s.proxies[c].view]
           cold == {c \in At(s, "layout") : /\ s.proxies[c].id = 0 /\ s.proxies[c].view \in views
                                            /\ Restorable(s, c, Tech(c)) # {}}
           T == [c \in cold |-> LibByName(s, s.proxies[c].lib_name, Tech(c))]
           r == Remap(s, T)
<1>1. s \in Database
  BY DEF Consistent
<1>2. cold \in SUBSET Alive(s) /\ \A c \in cold : s.proxies[c].id = 0 /\ Restorable(s, c, Tech(c)) # {}
  BY DEF At
<1>3. \A c \in cold : T[c] \in Registered(s) /\ T[c] # NoLib
  <2> SUFFICES ASSUME NEW c \in cold
               PROVE  T[c] \in Registered(s) /\ T[c] # NoLib
    OBVIOUS
  <2>1. T[c] = LibByName(s, s.proxies[c].lib_name, Tech(c))
    OBVIOUS
  <2>2. Restorable(s, c, Tech(c)) # {}
    OBVIOUS
  <2> HIDE DEF cold, T, Tech
  <2>3. LibByName(s, s.proxies[c].lib_name, Tech(c)) # NoLib
    BY <2>2 DEF Restorable
  <2> QED
    BY <2>1, <2>3, NamedTypes
<1>4. \A c \in cold : Owner(s, c) = NoLib
  BY <1>1, <1>2, OwnerTypes DEF Owner
<1>5. DOMAIN T = cold
  OBVIOUS
<1>6. \E views2 : t = Cleanup(r, views2)
  BY DEF RestoreProxies
<1> HIDE DEF cold, T
<1>7. Directs(s, T)
  BY <1>2, <1>3, <1>4, <1>5 DEF Directs
<1>8. Consistent(r) /\ Frame(s, r) /\ SameProxies(s, r)
  BY <1>7, RemapEffect
<1> HIDE DEF r
<1>9. Consistent(t) /\ Frame(r, t) /\ SameProxies(r, t)
  BY <1>6, <1>8, CleanupEffect
<1>10. SameProxies(s, t)
  BY <1>8, <1>9 DEF SameProxies
<1> QED
  BY <1>8, <1>9, <1>10, FrameTransitive

(* A library hands its proxies over and leaves its slot.                   *)
LEMMA HandOver ==
  ASSUME NEW s, Consistent(s), NEW L \in Registered(s), NEW other \in Registered(s) \union {NoLib}, other # L,
         NEW r, r = RemapTo(s, L, other), NEW t, t = FreeSlot(r, L), ~t.disturbed
  PROVE  /\ Consistent(t) /\ NobodyAt(t, L)
         /\ t.m_lib_by_name = s.m_lib_by_name /\ t.disturbed = s.disturbed
         /\ Registered(t) = Registered(s) \ {L}
         /\ \A id : LibOf(t, id) = IF LibOf(s, id) = L THEN NoLib ELSE LibOf(s, id)
         /\ \A M \in Libs : /\ t.lib[M].m_name = s.lib[M].m_name /\ t.lib[M].tech = s.lib[M].tech
                            /\ t.lib[M].has = s.lib[M].has
<1>1. /\ Consistent(r) /\ Frame(s, r) /\ SameProxies(s, r)
      /\ \A c \in At(r, "layout") : r.proxies[c].id # 0 => Owner(r, c) # L
  BY RemapToEffect
<1>2. /\ \A id : LibOf(r, id) = LibOf(s, id)
      /\ Registered(r) = Registered(s)
  BY <1>1, FrameOwner
<1>3. L \in Registered(r)
  BY <1>2
<1>4. Consistent(t) /\ SlotFreed(r, t, L)
  BY <1>1, <1>3, FreeSlotEffect
<1>5. L \in Libs /\ L # NoLib
  <2>1. s \in Database
    BY DEF Consistent
  <2> QED
    BY <2>1, OwnerTypes
<1>6. NobodyAt(t, L)
  BY <1>4, <1>5 DEF SlotFreed, NobodyAt, Owner
<1> QED
  BY <1>1, <1>2, <1>4, <1>6 DEF SlotFreed, Frame

-----------------------------------------------------------------------------
(* Once a step is disturbed it stays so, whatever is done to the database, *)
(* and a library is registered by register_lib() only.                     *)
StaysDisturbed(s, t) ==
  "disturbed" \in DOMAIN s => "disturbed" \in DOMAIN t /\ (s.disturbed => t.disturbed)

Registers(s, t, X) ==
  "m_libs" \in DOMAIN s => "m_libs" \in DOMAIN t /\ Registered(t) \subseteq Registered(s) \union X

Keeps(s, t) == StaysDisturbed(s, t) /\ Registers(s, t, {})
KeepsBut(s, t, L) == StaysDisturbed(s, t) /\ Registers(s, t, {L})

LEMMA KeepsItself ==
  ASSUME NEW s
  PROVE  Keeps(s, s)
BY DEF Keeps, StaysDisturbed, Registers

LEMMA KeepsTransitive ==
  ASSUME NEW s, NEW t, NEW u, Keeps(s, t), Keeps(t, u)
  PROVE  Keeps(s, u)
BY DEF Keeps, StaysDisturbed, Registers

LEMMA KeepsButTransitive ==
  ASSUME NEW s, NEW t, NEW u, NEW L,
         \/ Keeps(s, t) /\ KeepsBut(t, u, L)
         \/ KeepsBut(s, t, L) /\ Keeps(t, u)
  PROVE  KeepsBut(s, u, L)
BY DEF Keeps, KeepsBut, StaysDisturbed, Registers

LEMMA FieldsKeep ==
  ASSUME NEW s, NEW t, NEW x,
         \/ t = [s EXCEPT !.lib = x] \/ t = [s EXCEPT !.proxies = x] \/ t = [s EXCEPT !.m_lib_by_name = x]
  PROVE  Keeps(s, t)
BY DEF Keeps, StaysDisturbed, Registers, Registered

LEMMA CountingKeeps ==
  ASSUME NEW s, NEW C
  PROVE  Keeps(s, RegisterProxies(s, C)) /\ Keeps(s, UnregisterProxies(s, C))
<1>1. PICK x : RegisterProxies(s, C) = [s EXCEPT !.lib = x]
  BY DEF RegisterProxies
<1>2. PICK y : UnregisterProxies(s, C) = [s EXCEPT !.lib = y]
  BY DEF UnregisterProxies
<1>3. Keeps(s, RegisterProxies(s, C))
  BY <1>1, FieldsKeep
<1>4. Keeps(s, UnregisterProxies(s, C))
  BY <1>2, FieldsKeep
<1> QED
  BY <1>3, <1>4

LEMMA CleanupKeeps ==
  ASSUME NEW s, NEW views
  PROVE  Keeps(s, Cleanup(s, views))
<1>1. CASE Cleanup(s, views) = s
  BY <1>1, KeepsItself
<1>2. CASE Cleanup(s, views) # s
  <2>1. PICK u : u = UnregisterProxies(s, Doubles(s, views))
    OBVIOUS
  <2>2. PICK x : Cleanup(s, views) = [u EXCEPT !.proxies = x]
    BY <1>2, <2>1 DEF Cleanup, Destroy
  <2>3. Keeps(s, u)
    BY <2>1, CountingKeeps
  <2>4. Keeps(u, Cleanup(s, views))
    BY <2>2, FieldsKeep
  <2> QED
    BY <2>3, <2>4, KeepsTransitive
<1> QED
  BY <1>1, <1>2

LEMMA ColdKeeps ==
  ASSUME NEW s, NEW C
  PROVE  Keeps(s, CreateColdProxies(s, C))
<1>1. CASE C = {}
  BY <1>1, KeepsItself DEF CreateColdProxies
<1>2. CASE C # {}
  <2>1. PICK u : u = UnregisterProxies(s, C)
    OBVIOUS
  <2>2. PICK x : CreateColdProxies(s, C) = [u EXCEPT !.proxies = x]
    BY <1>2, <2>1 DEF CreateColdProxies
  <2>3. Keeps(s, u)
    BY <2>1, CountingKeeps
  <2>4. Keeps(u, CreateColdProxies(s, C))
    BY <2>2, FieldsKeep
  <2> QED
    BY <2>3, <2>4, KeepsTransitive
<1> QED
  BY <1>1, <1>2

LEMMA RemapKeeps ==
  ASSUME NEW s, NEW T
  PROVE  Keeps(s, Remap(s, T))
<1>1. PICK D : D = {c \in DOMAIN T : Owner(s, c) # T[c]}
  OBVIOUS
<1>2. CASE D = {}
  BY <1>1, <1>2, KeepsItself DEF Remap
<1>3. CASE D # {}
  <2>1. PICK w : w = WithVariants(s, D, T)
    OBVIOUS
  <2>2. PICK y : w = [s EXCEPT !.lib = y]
    BY <2>1 DEF WithVariants
  <2>3. PICK t : t = UnregisterProxies(w, D)
    OBVIOUS
  <2>4. \E x : Remap(s, T) = RegisterProxies([t EXCEPT !.proxies = x], D)
    BY <1>1, <1>3, <2>1, <2>3 DEF Remap
  <2>5. PICK x : Remap(s, T) = RegisterProxies([t EXCEPT !.proxies = x], D)
    BY <2>4
  <2>6. PICK u : u = [t EXCEPT !.proxies = x]
    OBVIOUS
  <2>7. Keeps(s, w)
    BY <2>2, FieldsKeep
  <2>8. Keeps(w, t)
    BY <2>3, CountingKeeps
  <2>9. Keeps(t, u)
    BY <2>6, FieldsKeep
  <2>10. Keeps(u, Remap(s, T))
    BY <2>5, <2>6, CountingKeeps
  <2> QED
    BY <2>7, <2>8, <2>9, <2>10, KeepsTransitive
<1> QED
  BY <1>2, <1>3

LEMMA RemapToKeeps ==
  ASSUME NEW s, NEW L, NEW other
  PROVE  Keeps(s, RemapTo(s, L, other))
<1>1. PICK T, C, views : RemapTo(s, L, other) = Cleanup(CreateColdProxies(Remap(s, T), C), views)
  BY DEF RemapTo
<1>2. PICK r : r = Remap(s, T)
  OBVIOUS
<1>3. PICK v : v = CreateColdProxies(r, C)
  OBVIOUS
<1>4. Keeps(s, r) /\ Keeps(r, v) /\ Keeps(v, RemapTo(s, L, other))
  BY <1>1, <1>2, <1>3, RemapKeeps, ColdKeeps, CleanupKeeps
<1> QED
  BY <1>4, KeepsTransitive

LEMMA RestoreKeeps ==
  ASSUME NEW s, NEW views, NEW techs
  PROVE  Keeps(s, RestoreProxies(s, views, techs))
<1>1. PICK T, views2 : RestoreProxies(s, views, techs) = Cleanup(Remap(s, T), views2)
  BY DEF RestoreProxies
<1>2. PICK r : r = Remap(s, T)
  OBVIOUS
<1>3. Keeps(s, r) /\ Keeps(r, RestoreProxies(s, views, techs))
  BY <1>1, <1>2, RemapKeeps, CleanupKeeps
<1> QED
  BY <1>3, KeepsTransitive

LEMMA FreeSlotKeeps ==
  ASSUME NEW s, NEW L
  PROVE  Keeps(s, FreeSlot(s, L))
<1>1. PICK m, b : b = (\E c \in At(s, "op") : s.proxies[c].id = IdOf(s, L))
                  /\ m = [s.m_libs EXCEPT ![IdOf(s, L)] = NoLib]
  OBVIOUS
<1>2. DOMAIN FreeSlot(s, L) = DOMAIN s
  BY DEF FreeSlot
<1>3. "disturbed" \in DOMAIN s => FreeSlot(s, L).disturbed = (s.disturbed \/ b)
  BY <1>1 DEF FreeSlot
<1>4. "m_libs" \in DOMAIN s => FreeSlot(s, L).m_libs = m
  BY <1>1 DEF FreeSlot
<1>5. Range(m) \ {NoLib} \subseteq Range(s.m_libs)
  BY <1>1 DEF Range
<1> QED
  BY <1>2, <1>3, <1>4, <1>5 DEF Keeps, StaysDisturbed, Registers, Registered

LEMMA UnregisterLibKeeps ==
  ASSUME NEW s, NEW L
  PROVE  Keeps(s, UnregisterLib(s, L)) /\ Keeps(s, DeleteLib(s, L))
<1>1. PICK r : r = RemapTo(s, L, NoLib)
  OBVIOUS
<1>2. PICK u : u = FreeSlot(r, L)
  OBVIOUS
<1>3. PICK x : UnregisterLib(s, L) = [u EXCEPT !.m_lib_by_name = x]
  BY <1>1, <1>2 DEF UnregisterLib
<1>4. PICK t : t = UnregisterLib(s, L)
  OBVIOUS
<1>5. PICK y : DeleteLib(s, L) = [t EXCEPT !.lib = y]
  BY <1>4 DEF DeleteLib
<1>6. Keeps(s, r) /\ Keeps(r, u)
  BY <1>1, <1>2, RemapToKeeps, FreeSlotKeeps
<1>7. Keeps(u, t)
  BY <1>3, <1>4, FieldsKeep
<1>8. Keeps(t, DeleteLib(s, L))
  BY <1>5, FieldsKeep
<1> QED
  BY <1>4, <1>6, <1>7, <1>8, KeepsTransitive

LEMMA ReplacedKeeps ==
  ASSUME NEW s, NEW old, NEW L
  PROVE  Keeps(s, Replaced(s, old, L))
<1>1. PICK r : r = RemapTo(s, old, L)
  OBVIOUS
<1>2. PICK u : u = FreeSlot(r, old)
  OBVIOUS
<1>3. PICK y : Replaced(s, old, L) = [u EXCEPT !.lib = y]
  BY <1>1, <1>2 DEF Replaced
<1>4. Keeps(s, r) /\ Keeps(r, u)
  BY <1>1, <1>2, RemapToKeeps, FreeSlotKeeps
<1>5. Keeps(u, Replaced(s, old, L))
  BY <1>3, FieldsKeep
<1> QED
  BY <1>4, <1>5, KeepsTransitive

-----------------------------------------------------------------------------
(* The library L is not registered any more, and nobody leads to it.       *)
Withdrawn(s, t, L) ==
  /\ Consistent(t) /\ NobodyAt(t, L)
  /\ Registered(t) = Registered(s) \ {L}
  /\ \A id : LibOf(t, id) = IF LibOf(s, id) = L THEN NoLib ELSE LibOf(s, id)
  /\ t.disturbed = s.disturbed
  /\ \A M \in Libs : M # L => /\ t.lib[M].m_name = s.lib[M].m_name /\ t.lib[M].tech = s.lib[M].tech
                              /\ t.lib[M].has = s.lib[M].has

(* unregister_lib(), when it does not disturb a history.                   *)
LEMMA UnregisterLibEffect ==
  ASSUME NEW s, Consistent(s), NamesLead(s), NEW L \in Registered(s),
         NEW t, t = UnregisterLib(s, L), ~t.disturbed
  PROVE  Withdrawn(s, t, L) /\ NamesLead(t) /\ t.lib[L].m_name = s.lib[L].m_name
<1>1. s \in Database /\ Slots(s)
  BY DEF Consistent
<1>2. /\ Registered(s) \in SUBSET Libs /\ NoLib \notin Libs
      /\ \A id : LibOf(s, id) \in Libs \union {NoLib}
      /\ \A id : LibOf(s, id) = L <=> id = IdOf(s, L)
  BY <1>1, OwnerTypes, SlotOf
<1>3. PICK r : r = RemapTo(s, L, NoLib)
  OBVIOUS
<1>4. PICK u : u = FreeSlot(r, L)
  OBVIOUS
<1>5. PICK x : t = [u EXCEPT !.m_lib_by_name = x]
               /\ x = {e \in u.m_lib_by_name : e.name # s.lib[L].m_name}
  BY <1>3, <1>4 DEF UnregisterLib
<1>6. "disturbed" \in DOMAIN s
  BY <1>1 DEF Database
<1>7. Keeps(s, r) /\ Keeps(r, u) /\ Keeps(u, t)
  <2>1. Keeps(u, t)
    BY <1>5, FieldsKeep
  <2> QED
    BY <1>3, <1>4, <2>1, RemapToKeeps, FreeSlotKeeps
<1>8. ~u.disturbed
  BY <1>6, <1>7 DEF Keeps, StaysDisturbed
<1>9. /\ Consistent(u) /\ NobodyAt(u, L)
      /\ u.m_lib_by_name = s.m_lib_by_name /\ u.disturbed = s.disturbed
      /\ Registered(u) = Registered(s) \ {L}
      /\ \A id : LibOf(u, id) = IF LibOf(s, id) = L THEN NoLib ELSE LibOf(s, id)
      /\ \A M \in Libs : /\ u.lib[M].m_name = s.lib[M].m_name /\ u.lib[M].tech = s.lib[M].tech
                         /\ u.lib[M].has = s.lib[M].has
  <2>1. NoLib # L /\ NoLib \in Registered(s) \union {NoLib}
    BY <1>2
  <2> QED
    BY <1>3, <1>4, <1>8, <2>1, HandOver
<1>10. u \in Database
  BY <1>9 DEF Consistent
<1>11. x \in SUBSET [name : Names, id : Nat \ {0}]
  BY <1>5, <1>10, DatabaseTypes
<1>12. /\ t \in Database /\ t.m_libs = u.m_libs /\ t.proxies = u.proxies /\ t.lib = u.lib
       /\ t.disturbed = u.disturbed /\ t.m_lib_by_name = x
  BY <1>5, <1>10, <1>11 DEF Database
<1>13. Consistent(t) /\ Alive(t) = Alive(u)
  <2>1. SameCells(u, t)
    BY <1>12 DEF SameCells
  <2> QED
    BY <1>9, <1>12, <2>1, SameCellsConsistent
<1>14. (\A id : LibOf(t, id) = LibOf(u, id)) /\ Registered(t) = Registered(u)
  BY <1>12 DEF LibOf, Registered
<1>15. NobodyAt(t, L)
  BY <1>9, <1>12, <1>13, <1>14 DEF NobodyAt, Owner
<1>16. Withdrawn(s, t, L)
  BY <1>9, <1>12, <1>13, <1>14, <1>15 DEF Withdrawn
<1>17. NamesLead(t)
  <2>1. ASSUME NEW e \in t.m_lib_by_name
        PROVE  LibOf(t, e.id) \in Libs /\ t.lib[LibOf(t, e.id)].m_name = e.name
    <3>1. e \in s.m_lib_by_name /\ e.name # s.lib[L].m_name
      BY <1>5, <1>9, <1>12
    <3>2. LibOf(s, e.id) \in Libs /\ s.lib[LibOf(s, e.id)].m_name = e.name
      BY <3>1 DEF NamesLead
    <3>3. LibOf(s, e.id) # L
      BY <3>1, <3>2
    <3>4. LibOf(t, e.id) = LibOf(s, e.id)
      BY <1>9, <1>14, <3>3
    <3> QED
      BY <1>9, <1>12, <3>2, <3>4
  <2>2. ASSUME NEW M \in Registered(t)
        PROVE  t.lib[M].m_name \in Names
    <3>1. M \in Registered(s) /\ M \in Libs
      BY <1>2, <1>9, <1>14
    <3> QED
      BY <1>9, <1>12, <3>1 DEF NamesLead
  <2> QED
    BY <2>1, <2>2 DEF NamesLead
<1> QED
  BY <1>2, <1>9, <1>12, <1>16, <1>17

(* The library is deleted, too.                                            *)
LEMMA DeleteLibEffect ==
  ASSUME NEW s, Consistent(s), NamesLead(s), NEW L \in Registered(s),
         NEW t, t = DeleteLib(s, L), ~t.disturbed
  PROVE  Withdrawn(s, t, L) /\ NamesLead(t)
<1>1. s \in Database /\ L \in Libs /\ "disturbed" \in DOMAIN s
  <2>1. s \in Database
    BY DEF Consistent
  <2>2. L \in Libs
    BY <2>1, OwnerTypes
  <2> QED
    BY <2>1, <2>2 DEF Database
<1>2. PICK u : u = UnregisterLib(s, L)
  OBVIOUS
<1>3. t = [u EXCEPT !.lib[L] = Fresh]
  BY <1>2 DEF DeleteLib
<1>4. ~u.disturbed
  <2>1. PICK y : t = [u EXCEPT !.lib = y]
    BY <1>3
  <2>2. Keeps(s, u) /\ Keeps(u, t)
    BY <1>2, <2>1, UnregisterLibKeeps, FieldsKeep
  <2> QED
    BY <1>1, <2>2 DEF Keeps, StaysDisturbed
<1>5. Withdrawn(s, u, L) /\ NamesLead(u)
  BY <1>2, <1>4, UnregisterLibEffect
<1>6. Consistent(t) /\ ResetTo(u, t, L, Fresh) /\ NobodyAt(t, L) /\ Alive(t) = Alive(u)
  BY <1>1, <1>3, <1>5, FreshIdle, ResetLibrary DEF Withdrawn
<1>7. (\A id : LibOf(t, id) = LibOf(u, id)) /\ Registered(t) = Registered(u)
  BY <1>6 DEF ResetTo, LibOf, Registered
<1>8. Withdrawn(s, t, L)
  <2>1. t.disturbed = s.disturbed /\ Registered(t) = Registered(s) \ {L}
    BY <1>5, <1>6, <1>7 DEF ResetTo, Withdrawn
  <2>2. \A M \in Libs : M # L => t.lib[M] = u.lib[M]
    BY <1>6 DEF ResetTo
  <2> QED
    BY <1>5, <1>6, <1>7, <2>1, <2>2 DEF Withdrawn
<1>9. NamesLead(t)
  <2>1. ASSUME NEW e \in t.m_lib_by_name
        PROVE  LibOf(t, e.id) \in Libs /\ t.lib[LibOf(t, e.id)].m_name = e.name
    <3>1. LibOf(u, e.id) \in Libs /\ u.lib[LibOf(u, e.id)].m_name = e.name
      BY <1>5, <1>6 DEF NamesLead, ResetTo
    <3>2. LibOf(u, e.id) # L
      <4>1. NoLib \notin Libs
        BY LibrariesAssumption
      <4> QED
        BY <1>1, <1>5, <3>1, <4>1 DEF Withdrawn
    <3> QED
      BY <1>6, <1>7, <3>1, <3>2 DEF ResetTo
  <2>2. ASSUME NEW M \in Registered(t)
        PROVE  t.lib[M].m_name \in Names
    <3>1. M \in Registered(u) /\ M # L /\ M \in Libs
      <4>1. t \in Database
        BY <1>6 DEF Consistent
      <4> QED
        BY <1>5, <1>7, <4>1, OwnerTypes DEF Withdrawn
    <3> QED
      BY <1>5, <1>6, <3>1 DEF NamesLead, ResetTo
  <2> QED
    BY <2>1, <2>2 DEF NamesLead
<1> QED
  BY <1>8, <1>9

-----------------------------------------------------------------------------
(* The first free slot.                                                    *)
LEMMA FirstFreeSlot ==
  ASSUME NEW s \in Database
  PROVE  /\ FirstFree(s.m_libs) \in 1..Len(s.m_libs) + 1
         /\ LibOf(s, FirstFree(s.m_libs)) = NoLib
<1> DEFINE libs == s.m_libs
           n == Len(libs)
           Free == {i \in 1..n : libs[i] = NoLib}
<1>1. n \in Nat /\ DOMAIN libs = 1..n
  BY DatabaseTypes
<1>2. CASE NoLib \in Range(libs)
  <2>1. Free # {} /\ Free \in SUBSET Nat
    BY <1>1, <1>2 DEF Range
  <2>2. PICK i \in Free : \A j \in Free : ~(<<j, i>> \in OpToRel(<, Nat))
    BY <2>1, NatLessThanWellFounded, WFMin
  <2>3. \A j \in 1..(i - 1) : libs[j] # NoLib
    <3> SUFFICES ASSUME NEW j \in 1..(i - 1), libs[j] = NoLib
                 PROVE  FALSE
      OBVIOUS
    <3>1. j \in Nat /\ i \in Nat /\ j < i /\ j \in 1..n
      BY <1>1, <2>1
    <3>2. j \in Free
      BY <3>1
    <3> QED
      BY <2>2, <3>1, <3>2 DEF OpToRel
  <2>4. FirstFree(libs) \in DOMAIN libs /\ libs[FirstFree(libs)] = NoLib
    BY <1>1, <1>2, <2>3 DEF FirstFree
  <2> QED
    BY <1>1, <2>4 DEF LibOf
<1>3. CASE NoLib \notin Range(libs)
  <2>1. FirstFree(libs) = n + 1
    BY <1>3 DEF FirstFree
  <2>2. n + 1 \notin 1..n /\ n + 1 \in 1..n + 1
    BY <1>1
  <2> QED
    BY <1>1, <2>1, <2>2 DEF LibOf
<1> QED
  BY <1>2, <1>3

(* A library is put into a free slot, and the names are others.            *)
Installed(s, L, id, names) ==
  [s EXCEPT !.m_libs = [i \in DOMAIN @ \union {id} |-> IF i = id THEN L ELSE @[i]],
            !.m_lib_by_name = names]

LEMMA InstallEffect ==
  ASSUME NEW s, Consistent(s), NEW L \in Libs, L \notin Registered(s),
         NEW names \in SUBSET [name : Names, id : Nat \ {0}],
         NEW id, id = FirstFree(s.m_libs), NEW t, t = Installed(s, L, id, names)
  PROVE  /\ Consistent(t) /\ t.lib = s.lib /\ t.m_lib_by_name = names /\ t.disturbed = s.disturbed
         /\ Registered(t) = Registered(s) \union {L}
         /\ id \in Nat \ {0} /\ LibOf(s, id) = NoLib
         /\ \A i : LibOf(t, i) = IF i = id THEN L ELSE LibOf(s, i)
<1> DEFINE A == Alive(s)
           n == Len(s.m_libs)
<1>1. /\ s \in Database /\ Slots(s) /\ SameLen(s) /\ Counts(s, A) /\ Resolves(s, A) /\ Needed(s)
  BY DEF Consistent
<1>2. /\ n \in Nat /\ DOMAIN s.m_libs = 1..n /\ NoLib \notin Libs
      /\ s.m_libs \in Seq(Libs \union {NoLib})
      /\ \A i \in 1..n : s.m_libs[i] \in Libs \union {NoLib}
  <2>1. n \in Nat /\ DOMAIN s.m_libs = 1..n /\ s.m_libs \in Seq(Libs \union {NoLib})
    BY <1>1, DatabaseTypes
  <2> QED
    BY <2>1, LibrariesAssumption, ElementOfSeq
<1>3. id \in 1..n + 1 /\ LibOf(s, id) = NoLib
  BY <1>1, FirstFreeSlot
<1>4. PICK m : m = [i \in 1..n \union {id} |-> IF i = id THEN L ELSE s.m_libs[i]]
  OBVIOUS
<1> HIDE DEF n
<1>5. PICK k \in Nat : 1..n \union {id} = 1..k
  <2>1. CASE id \in 1..n
    <3>1. 1..n \union {id} = 1..n
      BY <2>1
    <3> QED
      BY <1>2, <3>1
  <2>2. CASE id \notin 1..n
    <3>1. id = n + 1 /\ n + 1 \in Nat
      BY <1>2, <1>3, <2>2
    <3>2. 1..n \union {n + 1} = 1..n + 1
      BY <1>2
    <3> QED
      BY <3>1, <3>2
  <2> QED
    BY <2>1, <2>2
<1>6. /\ DOMAIN m = 1..k /\ m \in Seq(Libs \union {NoLib})
      /\ \A i \in 1..k : m[i] = IF i = id THEN L ELSE s.m_libs[i]
      /\ \A i \in 1..k : i # id => i \in 1..n
  <2>1. DOMAIN m = 1..k /\ \A i \in 1..k : m[i] = IF i = id THEN L ELSE s.m_libs[i]
    BY <1>4, <1>5
  <2>2. \A i \in 1..k : i # id => i \in 1..n
    BY <1>5
  <2>3. m \in [1..k -> Libs \union {NoLib}]
    BY <1>2, <1>4, <1>5, <2>1, <2>2
  <2>4. m \in Seq(Libs \union {NoLib})
    BY <2>3
  <2> QED
    BY <2>1, <2>2, <2>4
<1>7. t = [s EXCEPT !.m_libs = m, !.m_lib_by_name = names]
  BY <1>1, <1>2, <1>4 DEF Database, Installed
<1>8. /\ t \in Database /\ t.m_libs = m /\ t.m_lib_by_name = names /\ t.lib = s.lib
      /\ t.proxies = s.proxies /\ t.disturbed = s.disturbed
  BY <1>1, <1>6, <1>7 DEF Database
<1>9. \A i : LibOf(t, i) = IF i = id THEN L ELSE LibOf(s, i)
  <2> SUFFICES ASSUME NEW i
               PROVE  LibOf(t, i) = IF i = id THEN L ELSE LibOf(s, i)
    OBVIOUS
  <2>1. id \in 1..k
    BY <1>5
  <2>2. i \in 1..k <=> (i \in 1..n \/ i = id)
    BY <1>5
  <2> QED
    BY <1>2, <1>6, <1>8, <2>1, <2>2 DEF LibOf
<1>10. id # 0 /\ id \in Nat
  BY <1>2, <1>3
<1>11. Registered(t) = Registered(s) \union {L}
  <2>1. \A M \in Registered(t) : M \in Registered(s) \union {L}
    <3> SUFFICES ASSUME NEW i \in 1..k, m[i] # NoLib
                 PROVE  m[i] \in Registered(s) \union {L}
      BY <1>6, <1>8 DEF Registered, Range
    <3> QED
      BY <1>2, <1>6 DEF Registered, Range
  <2>2. ASSUME NEW M \in Registered(s)
        PROVE  M \in Registered(t)
    <3>1. PICK i \in 1..n : s.m_libs[i] = M /\ M # NoLib
      BY <1>2 DEF Registered, Range
    <3>2. i # id
      BY <1>2, <1>3, <3>1 DEF LibOf
    <3>3. i \in 1..k /\ m[i] = M
      <4>1. i \in 1..k
        BY <1>5
      <4> QED
        BY <1>6, <3>1, <3>2, <4>1
    <3> QED
      BY <1>6, <1>8, <3>1, <3>3 DEF Registered, Range
  <2>3. L \in Registered(t)
    <3>1. id \in 1..k
      BY <1>5
    <3>2. m[id] = L
      BY <1>6, <3>1
    <3> QED
      BY <1>2, <1>6, <1>8, <3>1, <3>2 DEF Registered, Range
  <2> QED
    BY <2>1, <2>2, <2>3
<1>12. Alive(t) = A
  BY <1>8 DEF Alive
<1>13. \A c \in A : s.proxies[c].id # 0 => Owner(t, c) = Owner(s, c)
  <2> SUFFICES ASSUME NEW c \in A, s.proxies[c].id # 0
               PROVE  s.proxies[c].id # id
    BY <1>8, <1>9 DEF Owner
  <2>1. LibOf(s, s.proxies[c].id) \in Libs
    BY <1>1 DEF Resolves, Owner
  <2> QED
    BY <1>2, <1>3, <2>1
<1>14. Counts(t, A)
  <2>1. CountAlike(s, t, A)
    BY <1>8, <1>13 DEF CountAlike
  <2> QED
    BY <1>1, <2>1, SameCounts
<1>15. Resolves(t, A)
  BY <1>1, <1>8, <1>13 DEF Resolves
<1>16. Needed(t) /\ SameLen(t)
  BY <1>1, <1>8 DEF Needed, SameLen
<1>17. Slots(t)
  <2> SUFFICES ASSUME NEW i \in 1..k, NEW j \in 1..k, m[i] = m[j], m[i] # NoLib
               PROVE  i = j
    <3>1. Slots(t) = \A i, j \in 1..k : m[i] = m[j] /\ m[i] # NoLib => i = j
      BY <1>6, <1>8, Zenon DEF Slots
    <3> QED
      BY <3>1, Zenon
  <2>1. \A l \in 1..n : s.m_libs[l] # L
    BY <1>2 DEF Registered, Range
  <2>2. CASE i = id
    BY <1>6, <2>1, <2>2
  <2>3. CASE i # id
    <3>1. i \in 1..n /\ m[i] = s.m_libs[i]
      BY <1>6, <2>3
    <3>2. j # id
      BY <1>6, <2>1, <3>1
    <3>3. j \in 1..n /\ m[j] = s.m_libs[j]
      BY <1>6, <3>2
    <3> QED
      BY <1>1, <1>2, <3>1, <3>3 DEF Slots
  <2> QED
    BY <2>2, <2>3
<1>18. Consistent(t)
  BY <1>8, <1>12, <1>14, <1>15, <1>16, <1>17 DEF Consistent
<1> QED
  BY <1>3, <1>8, <1>9, <1>10, <1>11, <1>18

(* The library old is replaced by L, when that does not disturb a history. *)
LEMMA ReplacedEffect ==
  ASSUME NEW s, Consistent(s), NamesLead(s), NEW old \in Registered(s), NEW L \in Registered(s), old # L,
         \A e \in s.m_lib_by_name : LibOf(s, e.id) # old,
         NEW t, t = Replaced(s, old, L), ~t.disturbed
  PROVE  Withdrawn(s, t, old) /\ NamesLead(t)
<1>1. s \in Database /\ old \in Libs /\ "disturbed" \in DOMAIN s
  <2>1. s \in Database
    BY DEF Consistent
  <2>2. old \in Libs
    BY <2>1, OwnerTypes
  <2> QED
    BY <2>1, <2>2 DEF Database
<1>2. PICK r : r = RemapTo(s, old, L)
  OBVIOUS
<1>3. PICK u : u = FreeSlot(r, old)
  OBVIOUS
<1>4. t = [u EXCEPT !.lib[old] = Fresh]
  BY <1>2, <1>3 DEF Replaced
<1>5. ~u.disturbed
  <2>1. PICK y : t = [u EXCEPT !.lib = y]
    BY <1>4
  <2>2. Keeps(s, r) /\ Keeps(r, u)
    BY <1>2, <1>3, RemapToKeeps, FreeSlotKeeps
  <2>3. Keeps(u, t)
    BY <2>1, FieldsKeep
  <2> QED
    BY <1>1, <2>2, <2>3 DEF Keeps, StaysDisturbed
<1>6. /\ Consistent(u) /\ NobodyAt(u, old)
      /\ u.m_lib_by_name = s.m_lib_by_name /\ u.disturbed = s.disturbed
      /\ Registered(u) = Registered(s) \ {old}
      /\ \A id : LibOf(u, id) = IF LibOf(s, id) = old THEN NoLib ELSE LibOf(s, id)
      /\ \A M \in Libs : /\ u.lib[M].m_name = s.lib[M].m_name /\ u.lib[M].tech = s.lib[M].tech
                         /\ u.lib[M].has = s.lib[M].has
  <2>1. L # old /\ L \in Registered(s) \union {NoLib}
    OBVIOUS
  <2> QED
    BY <1>2, <1>3, <1>5, <2>1, HandOver
<1>7. Consistent(t) /\ ResetTo(u, t, old, Fresh) /\ NobodyAt(t, old) /\ Alive(t) = Alive(u)
  BY <1>1, <1>4, <1>6, FreshIdle, ResetLibrary
<1>8. (\A id : LibOf(t, id) = LibOf(u, id)) /\ Registered(t) = Registered(u)
  BY <1>7 DEF ResetTo, LibOf, Registered
<1>9. \A M \in Libs : M # old => t.lib[M] = u.lib[M]
  BY <1>7 DEF ResetTo
<1>10. Withdrawn(s, t, old)
  <2>1. t.disturbed = s.disturbed /\ Registered(t) = Registered(s) \ {old}
    BY <1>6, <1>7, <1>8 DEF ResetTo
  <2> QED
    BY <1>6, <1>7, <1>8, <1>9, <2>1 DEF Withdrawn
<1>11. NamesLead(t)
  <2>1. ASSUME NEW e \in t.m_lib_by_name
        PROVE  LibOf(t, e.id) \in Libs /\ t.lib[LibOf(t, e.id)].m_name = e.name
    <3>1. e \in s.m_lib_by_name
      BY <1>6, <1>7 DEF ResetTo
    <3>2. LibOf(s, e.id) \in Libs /\ s.lib[LibOf(s, e.id)].m_name = e.name /\ LibOf(s, e.id) # old
      BY <3>1 DEF NamesLead
    <3> QED
      BY <1>6, <1>8, <1>9, <3>2
  <2>2. ASSUME NEW M \in Registered(t)
        PROVE  t.lib[M].m_name \in Names
    <3>1. M \in Registered(s) /\ M # old /\ M \in Libs
      BY <1>1, <1>6, <1>8, OwnerTypes
    <3> QED
      BY <1>6, <1>9, <3>1 DEF NamesLead
  <2> QED
    BY <2>1, <2>2 DEF NamesLead
<1> QED
  BY <1>10, <1>11

LEMMA RegisterLibKeeps ==
  ASSUME NEW s, NEW L, NEW techs
  PROVE  KeepsBut(s, RegisterLib(s, L, techs), L)
<1>1. PICK id, names, t : t = Installed(s, L, id, names)
                    /\ \E old, views : RegisterLib(s, L, techs)
                         = RestoreProxies(IF old = NoLib THEN t ELSE Replaced(t, old, L), views, techs)
  BY DEF RegisterLib, Installed
<1>2. PICK old, views : RegisterLib(s, L, techs)
                         = RestoreProxies(IF old = NoLib THEN t ELSE Replaced(t, old, L), views, techs)
  BY <1>1
<1>3. PICK r : r = IF old = NoLib THEN t ELSE Replaced(t, old, L)
  OBVIOUS
<1>4. KeepsBut(s, t, L)
  <2>1. PICK m : m = [i \in DOMAIN s.m_libs \union {id} |-> IF i = id THEN L ELSE s.m_libs[i]]
    OBVIOUS
  <2>2. t = [s EXCEPT !.m_libs = m, !.m_lib_by_name = names] \/ "m_libs" \notin DOMAIN s
    BY <1>1, <2>1 DEF Installed
  <2>3. StaysDisturbed(s, t)
    BY <1>1 DEF StaysDisturbed, Installed
  <2>4. Range(m) \subseteq Range(s.m_libs) \union {L}
    BY <2>1 DEF Range
  <2>5. Registers(s, t, {L})
    BY <2>2, <2>4 DEF Registers, Registered
  <2> QED
    BY <2>3, <2>5 DEF KeepsBut
<1>5. Keeps(t, r)
  BY <1>3, KeepsItself, ReplacedKeeps
<1>6. Keeps(r, RegisterLib(s, L, techs))
  BY <1>2, <1>3, RestoreKeeps
<1> QED
  BY <1>4, <1>5, <1>6, KeepsButTransitive

(* The names lead to the same libraries when only proxies have moved.      *)
LEMMA FrameNames ==
  ASSUME NEW s \in Database, NamesLead(s), NEW t, Frame(s, t)
  PROVE  NamesLead(t)
<1>1. (\A i : LibOf(t, i) = LibOf(s, i)) /\ Registered(t) = Registered(s)
  BY FrameOwner
<1>2. Registered(s) \in SUBSET Libs
  BY OwnerTypes
<1> QED
  BY <1>1, <1>2 DEF NamesLead, Frame

(* What register_lib() does before it looks at the cold proxies: L has got *)
(* its slot and name (u), and what it replaces is gone (r).                *)
Prepared(s, L, u, old, r) ==
  /\ Consistent(u) /\ NamesLead(u) /\ u.lib = s.lib /\ u.disturbed = s.disturbed
  /\ L \in Registered(u) /\ Registered(u) = Registered(s) \union {L}
  /\ old # L /\ (old # NoLib => old \in Registered(u))
  /\ \A e \in u.m_lib_by_name : LibOf(u, e.id) # old
  /\ r = IF old = NoLib THEN u ELSE Replaced(u, old, L)

Waiting(r, name) ==
  {r.proxies[c].view : c \in {d \in Alive(r) : r.proxies[d].id = 0 /\ r.proxies[d].lib_name = name}}

LEMMA RegisterParts ==
  ASSUME NEW s, Consistent(s), NamesLead(s), NEW L \in Libs, L \notin Registered(s),
         s.lib[L].m_name \in Names, NEW techs, NEW t, t = RegisterLib(s, L, techs)
  PROVE  \E u, old, r : /\ Prepared(s, L, u, old, r)
                        /\ t = RestoreProxies(r, Waiting(r, s.lib[L].m_name), techs)
<1>1. s \in Database /\ Slots(s)
  BY DEF Consistent
<1> DEFINE name == s.lib[L].m_name
           id == FirstFree(s.m_libs)
           same == Named(s, name, s.lib[L].tech)
           old == IF same = {} THEN NoLib ELSE CHOOSE M \in same : TRUE
           names == {e \in s.m_lib_by_name : LibOf(s, e.id) # old} \union {[name |-> name, id |-> id]}
           u == Installed(s, L, id, names)
           r == IF old = NoLib THEN u ELSE Replaced(u, old, L)
<1>2. t = RestoreProxies(r, Waiting(r, name), techs)
  BY DEF RegisterLib, Installed, Waiting
<1>3. name \in Names
  OBVIOUS
<1>4. same \in SUBSET Registered(s) /\ (same # {} => old \in same) /\ (same = {} => old = NoLib)
  BY NamedTypes
<1>5. \A e \in names : \/ e = [name |-> name, id |-> id]
                       \/ e \in s.m_lib_by_name /\ LibOf(s, e.id) # old
  OBVIOUS
<1>6. r = IF old = NoLib THEN u ELSE Replaced(u, old, L)
  OBVIOUS
<1> HIDE DEF r, same, old
<1>7. /\ id \in Nat \ {0} /\ LibOf(s, id) = NoLib
  <2>1. FirstFree(s.m_libs) \in 1..Len(s.m_libs) + 1 /\ LibOf(s, FirstFree(s.m_libs)) = NoLib
    BY <1>1, FirstFreeSlot
  <2>2. Len(s.m_libs) \in Nat
    BY <1>1, DatabaseTypes
  <2> QED
    BY <2>1, <2>2
<1>8. names \in SUBSET [name : Names, id : Nat \ {0}]
  BY <1>1, <1>3, <1>7, DatabaseTypes
<1> HIDE DEF names
<1>9. /\ Consistent(u) /\ u.lib = s.lib /\ u.m_lib_by_name = names /\ u.disturbed = s.disturbed
      /\ Registered(u) = Registered(s) \union {L}
      /\ \A i : LibOf(u, i) = IF i = id THEN L ELSE LibOf(s, i)
  BY <1>8, InstallEffect
<1> HIDE DEF u, id
<1>10. old # L /\ (old # NoLib => old \in Registered(s)) /\ NoLib \notin Libs
  BY <1>4, LibrariesAssumption
<1>11. \A e \in names : /\ LibOf(u, e.id) \in Libs /\ u.lib[LibOf(u, e.id)].m_name = e.name
                        /\ LibOf(u, e.id) # old
  <2> SUFFICES ASSUME NEW e \in names
               PROVE  /\ LibOf(u, e.id) \in Libs /\ u.lib[LibOf(u, e.id)].m_name = e.name
                      /\ LibOf(u, e.id) # old
    OBVIOUS
  <2>1. CASE e = [name |-> name, id |-> id]
    <3>1. e.name = name /\ e.id = id
      BY <2>1
    <3> QED
      BY <1>3, <1>9, <1>10, <3>1
  <2>2. CASE e \in s.m_lib_by_name /\ LibOf(s, e.id) # old
    <3>1. LibOf(s, e.id) \in Libs /\ s.lib[LibOf(s, e.id)].m_name = e.name
      BY <2>2 DEF NamesLead
    <3>2. e.id # id
      BY <1>7, <1>10, <3>1
    <3> QED
      BY <1>9, <2>2, <3>1, <3>2
  <2> QED
    BY <1>5, <2>1, <2>2
<1>12. NamesLead(u)
  <2>1. \A M \in Registered(u) : u.lib[M].m_name \in Names
    BY <1>3, <1>9 DEF NamesLead
  <2> QED
    BY <1>9, <1>11, <2>1 DEF NamesLead
<1>13. Prepared(s, L, u, old, r)
  BY <1>6, <1>9, <1>10, <1>11, <1>12 DEF Prepared
<1> QED
  BY <1>2, <1>13

(* register_lib(), when it does not disturb a history.                     *)
LEMMA RegisterLibEffect ==
  ASSUME NEW s, Consistent(s), NamesLead(s), NEW L \in Libs, L \notin Registered(s),
         s.lib[L].m_name \in Names, NEW techs, NEW t, t = RegisterLib(s, L, techs), ~t.disturbed
  PROVE  Consistent(t) /\ NamesLead(t) /\ L \in Registered(t)
<1>1. PICK u, old, r : /\ Prepared(s, L, u, old, r)
                       /\ t = RestoreProxies(r, Waiting(r, s.lib[L].m_name), techs)
  BY RegisterParts
<1>2. Keeps(r, t) /\ "disturbed" \in DOMAIN u
  <2>1. u \in Database
    BY <1>1 DEF Prepared, Consistent
  <2> QED
    BY <1>1, <2>1, RestoreKeeps DEF Database
<1>3. Consistent(r) /\ NamesLead(r) /\ L \in Registered(r)
  <2>1. CASE old = NoLib
    BY <1>1, <2>1 DEF Prepared
  <2>2. CASE old # NoLib
    <3>1. /\ r = Replaced(u, old, L) /\ old \in Registered(u) /\ L \in Registered(u) /\ old # L
          /\ \A e \in u.m_lib_by_name : LibOf(u, e.id) # old
          /\ Consistent(u) /\ NamesLead(u)
      BY <1>1, <2>2 DEF Prepared
    <3>2. ~r.disturbed
      <4>1. Keeps(u, r)
        BY <3>1, ReplacedKeeps
      <4> QED
        BY <1>2, <4>1 DEF Keeps, StaysDisturbed
    <3>3. Withdrawn(u, r, old) /\ NamesLead(r)
      BY <3>1, <3>2, ReplacedEffect
    <3> QED
      BY <3>1, <3>3 DEF Withdrawn
  <2> QED
    BY <2>1, <2>2
<1>4. Consistent(t) /\ Frame(r, t)
  BY <1>1, <1>3, RestoreEffect
<1>5. r \in Database
  BY <1>3 DEF Consistent
<1>6. NamesLead(t) /\ Registered(t) = Registered(r)
  BY <1>3, <1>4, <1>5, FrameNames, FrameOwner
<1> QED
  BY <1>3, <1>4, <1>6

-----------------------------------------------------------------------------
(* The calls.                                                              *)

LibInv == ~db.disturbed => Consistent(db) /\ NamesLead(db)

(* What is filled and named is not registered yet.                         *)
NamedElsewhere(s, t, L) ==
  /\ t.m_libs = s.m_libs /\ t.m_lib_by_name = s.m_lib_by_name
  /\ \A M \in Libs : M # L => t.lib[M].m_name = s.lib[M].m_name

LEMMA NamesLeadElsewhere ==
  ASSUME NEW s \in Database, NamesLead(s), NEW L \in Libs, L \notin Registered(s), NEW t,
         NamedElsewhere(s, t, L)
  PROVE  NamesLead(t) /\ Registered(t) = Registered(s)
<1>1. /\ Registered(s) \in SUBSET Libs /\ NoLib \notin Libs
      /\ \A id : LibOf(s, id) # NoLib => LibOf(s, id) \in Registered(s)
  <2>1. \A id : LibOf(s, id) # NoLib => LibOf(s, id) \in Registered(s)
    BY DEF LibOf, Registered, Range
  <2> QED
    BY <2>1, OwnerTypes
<1>2. (\A id : LibOf(t, id) = LibOf(s, id)) /\ Registered(t) = Registered(s)
  BY DEF LibOf, Registered, NamedElsewhere
<1> QED
  BY <1>1, <1>2 DEF NamesLead, NamedElsewhere

(* A library is filled and gets its name.                                  *)
LEMMA FilledEffect ==
  ASSUME NEW s, Consistent(s), NamesLead(s), NEW L \in Libs, L \notin Registered(s), NEW has \in SUBSET CellNames,
         IsFiniteSet(has), NEW name \in Names, NEW t, NameGiven(Loaded(s, L, has), t, L, name)
  PROVE  /\ Consistent(t) /\ NamesLead(t) /\ L \notin Registered(t) /\ t.lib[L].m_name = name
         /\ t.disturbed = s.disturbed /\ Registered(t) = Registered(s)
<1>1. s \in Database
  BY DEF Consistent
<1>2. NobodyAt(s, L)
  BY <1>1, NobodyAtUnregistered
<1>3. PICK u : u = Loaded(s, L, has)
  OBVIOUS
<1>4. Consistent(u) /\ \E X : ResetTo(s, u, L, X)
  BY <1>2, <1>3, LoadedEffect
<1>5. /\ u.m_libs = s.m_libs /\ u.m_lib_by_name = s.m_lib_by_name /\ u.disturbed = s.disturbed
      /\ \A M \in Libs : M # L => u.lib[M].m_name = s.lib[M].m_name
  BY <1>4 DEF ResetTo
<1>6. Consistent(t) /\ Renames(u, t, L, name) /\ t.m_lib_by_name = u.m_lib_by_name
  <2>1. NameGiven(u, t, L, name)
    BY <1>3
  <2> QED
    BY <1>4, <2>1, NameEffect
<1>7. /\ t.m_libs = s.m_libs /\ t.m_lib_by_name = s.m_lib_by_name /\ t.disturbed = s.disturbed
      /\ \A M \in Libs : M # L => t.lib[M].m_name = s.lib[M].m_name
      /\ t.lib[L].m_name = name
  BY <1>5, <1>6 DEF Renames
<1>8. NamesLead(t) /\ Registered(t) = Registered(s)
  <2>1. NamedElsewhere(s, t, L)
    BY <1>7 DEF NamedElsewhere
  <2> QED
    BY <1>1, <2>1, NamesLeadElsewhere
<1> QED
  BY <1>6, <1>7, <1>8

LEMMA RegisterFills ==
  ASSUME Consistent(db), NamesLead(db), NEW name \in Names, NEW t \in Techs, NEW has \in Files,
         Register(name, t, has)
  PROVE  \E L, s : /\ L \in Libs /\ Consistent(s) /\ NamesLead(s) /\ L \notin Registered(s)
                   /\ s.lib[L].m_name \in Names /\ Registered(s) = Registered(db)
                   /\ db' = RegisterLib(s, L, m_tech_name)
<1>1. PICK L : L = CHOOSE M \in Libs : M \notin Registered(db)
  OBVIOUS
<1>2. db \in Database /\ Registered(db) \in SUBSET Libs
  <2>1. db \in Database
    BY DEF Consistent
  <2> QED
    BY <2>1, OwnerTypes
<1>3. L \in Libs /\ L \notin Registered(db)
  <2>1. Libs # Registered(db)
    BY DEF Register
  <2> QED
    BY <1>1, <1>2, <2>1
<1>4. PICK s : s = [Loaded(db, L, has) EXCEPT !.lib[L].m_name = name, !.lib[L].tech = t]
  OBVIOUS
<1>5. db' = RegisterLib(s, L, m_tech_name)
  BY <1>1, <1>4 DEF Register
<1>6. has \in SUBSET CellNames /\ IsFiniteSet(has)
  BY LibrariesAssumption
<1>7. /\ Consistent(s) /\ NamesLead(s) /\ L \notin Registered(s) /\ s.lib[L].m_name = name
      /\ Registered(s) = Registered(db)
  <2>1. NameGiven(Loaded(db, L, has), s, L, name)
    BY <1>4 DEF NameGiven
  <2> QED
    BY <1>3, <1>6, <2>1, FilledEffect
<1> QED
  BY <1>3, <1>5, <1>7

LEMMA RegisterStep ==
  ASSUME Consistent(db), NamesLead(db), NEW name \in Names, NEW t \in Techs, NEW has \in Files,
         Register(name, t, has), ~db'.disturbed
  PROVE  Consistent(db') /\ NamesLead(db')
BY RegisterFills, RegisterLibEffect

LEMMA DeleteStep ==
  ASSUME Consistent(db), NamesLead(db), NEW L \in Libs, Delete(L), ~db'.disturbed
  PROVE  Consistent(db') /\ NamesLead(db')
<1>1. L \in Registered(db) /\ db' = DeleteLib(db, L)
  BY DEF Delete
<1>2. Withdrawn(db, db', L) /\ NamesLead(db')
  BY <1>1, DeleteLibEffect
<1> QED
  BY <1>2 DEF Withdrawn

LEMMA ReloadedKeeps ==
  ASSUME NEW s, NEW L, NEW name, NEW has, NEW u, u = UnregisterLib(s, L)
  PROVE  Keeps(s, u) /\ KeepsBut(u, Reloaded(s, L, name, has), L)
<1>1. PICK w : w = Loaded(u, L, has)
  OBVIOUS
<1>2. PICK t : t = [w EXCEPT !.lib[L].m_name = name]
  OBVIOUS
<1>3. Reloaded(s, L, name, has) = RegisterLib(t, L, m_tech_name)
  BY <1>1, <1>2 DEF Reloaded
<1>4. Keeps(u, w)
  <2>1. PICK x : w = [u EXCEPT !.lib = x]
    BY <1>1 DEF Loaded
  <2> QED
    BY <2>1, FieldsKeep
<1>5. Keeps(w, t)
  <2>1. PICK x : t = [w EXCEPT !.lib = x]
    BY <1>2
  <2> QED
    BY <2>1, FieldsKeep
<1>6. KeepsBut(t, Reloaded(s, L, name, has), L)
  BY <1>3, RegisterLibKeeps
<1>7. KeepsBut(u, Reloaded(s, L, name, has), L)
  BY <1>4, <1>5, <1>6, KeepsButTransitive
<1> QED
  BY <1>7, UnregisterLibKeeps

(* refresh(): the library is taken out, filled and registered again.       *)
LEMMA ReloadedEffect ==
  ASSUME Consistent(db), NamesLead(db), NEW L \in Registered(db), NEW name \in Names,
         NEW has \in SUBSET CellNames, IsFiniteSet(has),
         NEW t, t = Reloaded(db, L, name, has), ~t.disturbed
  PROVE  Consistent(t) /\ NamesLead(t) /\ L \in Registered(t)
<1>1. PICK u : u = UnregisterLib(db, L)
  OBVIOUS
<1>2. PICK w : w = Loaded(u, L, has)
  OBVIOUS
<1>3. PICK s : s = [w EXCEPT !.lib[L].m_name = name]
  OBVIOUS
<1>4. t = RegisterLib(s, L, m_tech_name)
  BY <1>1, <1>2, <1>3 DEF Reloaded
<1>5. db \in Database /\ L \in Libs /\ "disturbed" \in DOMAIN db
  <2>1. db \in Database
    BY DEF Consistent
  <2> QED
    BY <2>1, OwnerTypes DEF Database
<1>6. ~u.disturbed
  <2>1. Keeps(db, u) /\ KeepsBut(u, t, L)
    BY <1>1, ReloadedKeeps
  <2> QED
    BY <1>5, <2>1 DEF Keeps, KeepsBut, StaysDisturbed
<1>7. Withdrawn(db, u, L) /\ NamesLead(u)
  BY <1>1, <1>6, UnregisterLibEffect
<1>8. Consistent(u) /\ L \notin Registered(u)
  BY <1>7 DEF Withdrawn
<1>9. Consistent(s) /\ NamesLead(s) /\ L \notin Registered(s) /\ s.lib[L].m_name = name
  <2>1. NameGiven(Loaded(u, L, has), s, L, name)
    BY <1>2, <1>3 DEF NameGiven
  <2> QED
    BY <1>5, <1>7, <1>8, <2>1, FilledEffect
<1> QED
  BY <1>4, <1>5, <1>9, RegisterLibEffect

LEMMA RefreshStep ==
  ASSUME Consistent(db), NamesLead(db), NEW L \in Libs, NEW name \in Names, NEW has \in Files,
         Refresh(L, name, has), ~db'.disturbed
  PROVE  Consistent(db') /\ NamesLead(db')
<1>1. L \in Registered(db) /\ db.lib[L].m_name \in Names
  BY DEF Refresh, NamesLead
<1>2. db \in Database /\ "disturbed" \in DOMAIN db
  BY DEF Consistent, Database
<1>3. CASE db' = Reloaded(db, L, db.lib[L].m_name, {})
  <2>1. IsFiniteSet({}) /\ {} \in SUBSET CellNames
    BY FS_EmptySet
  <2> QED
    BY <1>1, <1>3, <2>1, ReloadedEffect
<1>4. CASE db' = RemapTo(Reloaded(db, L, name, has), L, L)
  <2>1. PICK t : t = Reloaded(db, L, name, has)
    OBVIOUS
  <2>2. has \in SUBSET CellNames /\ IsFiniteSet(has)
    BY LibrariesAssumption
  <2>3. "disturbed" \in DOMAIN t
    <3>1. PICK u : u = UnregisterLib(db, L)
      OBVIOUS
    <3>2. Keeps(db, u) /\ KeepsBut(u, t, L)
      BY <2>1, <3>1, ReloadedKeeps
    <3> QED
      BY <1>2, <3>2 DEF Keeps, KeepsBut, StaysDisturbed
  <2>4. Keeps(t, db')
    BY <1>4, <2>1, RemapToKeeps
  <2>5. ~t.disturbed
    BY <2>3, <2>4 DEF Keeps, StaysDisturbed
  <2>6. Consistent(t) /\ NamesLead(t) /\ L \in Registered(t)
    BY <1>1, <2>1, <2>2, <2>5, ReloadedEffect
  <2>7. Consistent(db') /\ Frame(t, db')
    BY <1>4, <2>1, <2>6, RemapToEffect
  <2>8. t \in Database
    BY <2>6 DEF Consistent
  <2> QED
    BY <2>6, <2>7, <2>8, FrameNames
<1> QED
  BY <1>3, <1>4 DEF Refresh

LEMMA RenameKeeps ==
  ASSUME NEW L, NEW name, Rename(L, name), NEW old, old = LibByName(db, name, db.lib[L].tech),
         NEW s, s = IF old \in {NoLib, L} THEN db ELSE DeleteLib(db, old)
  PROVE  Keeps(db, s) /\ Keeps(s, db')
<1>1. Keeps(db, s)
  BY KeepsItself, UnregisterLibKeeps
<1>2. PICK u : u = [s EXCEPT !.lib[L].m_name = name]
  OBVIOUS
<1>3. PICK t : \E names : t = [u EXCEPT !.m_lib_by_name = names] /\ db' = RemapTo(t, L, L)
  BY <1>2 DEF Rename
<1>4. Keeps(s, u)
  <2>1. PICK x : u = [s EXCEPT !.lib = x]
    BY <1>2
  <2> QED
    BY <2>1, FieldsKeep
<1>5. Keeps(u, t)
  BY <1>3, FieldsKeep
<1>6. Keeps(t, db')
  BY <1>3, RemapToKeeps
<1> QED
  BY <1>1, <1>4, <1>5, <1>6, KeepsTransitive

(* rename(): when another library has the name already it is deleted first.*)
LEMMA RenameStep ==
  ASSUME Consistent(db), NamesLead(db), NEW L \in Libs, NEW name \in Names,
         Rename(L, name), ~db'.disturbed
  PROVE  Consistent(db') /\ NamesLead(db')
<1>1. PICK old : old = LibByName(db, name, db.lib[L].tech)
  OBVIOUS
<1>2. PICK s : s = IF old \in {NoLib, L} THEN db ELSE DeleteLib(db, old)
  OBVIOUS
<1>3. PICK id : id = IdOf(s, L)
  OBVIOUS
<1>4. PICK u : u = [s EXCEPT !.lib[L].m_name = name]
  OBVIOUS
<1>5. PICK names : names = (s.m_lib_by_name \ {[name |-> db.lib[L].m_name, id |-> id]})
                           \union {[name |-> name, id |-> id]}
  OBVIOUS
<1>6. PICK t : t = [u EXCEPT !.m_lib_by_name = names]
  OBVIOUS
<1>7. L \in Registered(db) /\ name # db.lib[L].m_name
  BY DEF Rename
<1>8. db \in Database /\ "disturbed" \in DOMAIN db
  BY DEF Consistent, Database
<1>9. Keeps(db, s) /\ Keeps(s, db')
  BY <1>1, <1>2, RenameKeeps
<1>10. db' = RemapTo([s EXCEPT !.lib[L].m_name = name, !.m_lib_by_name = names], L, L)
  <2>1. db' = RemapTo([s EXCEPT !.lib[L].m_name = name,
                                !.m_lib_by_name = (@ \ {[name |-> db.lib[L].m_name, id |-> id]})
                                                  \union {[name |-> name, id |-> id]}], L, L)
    BY <1>1, <1>2, <1>3 DEF Rename
  <2> QED
    BY <1>5, <2>1
<1>11. [s EXCEPT !.lib[L].m_name = name, !.m_lib_by_name = names] = t
  BY <1>4, <1>6
<1>12. ~s.disturbed
  BY <1>8, <1>9 DEF Keeps, StaysDisturbed
<1>13. L \in Libs /\ NoLib \notin Libs
  BY LibrariesAssumption
<1>14. /\ Consistent(s) /\ NamesLead(s) /\ L \in Registered(s)
       /\ s.lib[L].m_name = db.lib[L].m_name
  <2>1. CASE old \in {NoLib, L}
    BY <1>2, <1>7, <2>1
  <2>2. CASE old \notin {NoLib, L}
    <3>1. old \in Registered(db)
      BY <1>1, <2>2, NamedTypes
    <3>2. s = DeleteLib(db, old)
      BY <1>2, <2>2
    <3>3. Withdrawn(db, s, old) /\ NamesLead(s)
      BY <1>12, <3>1, <3>2, DeleteLibEffect
    <3> QED
      BY <1>7, <2>2, <3>3 DEF Withdrawn
  <2> QED
    BY <2>1, <2>2
<1>15. s \in Database /\ Slots(s)
  BY <1>14 DEF Consistent
<1>16. LibOf(s, id) = L /\ id \in Nat \ {0} /\ \A i : LibOf(s, i) = L <=> i = id
  <2>1. /\ IdOf(s, L) \in 1..Len(s.m_libs)
        /\ \A i : LibOf(s, i) = L <=> i = IdOf(s, L)
    BY <1>14, <1>15, SlotOf
  <2>2. Len(s.m_libs) \in Nat
    BY <1>15, DatabaseTypes
  <2> QED
    BY <1>3, <2>1, <2>2
<1>17. Consistent(u) /\ Renames(s, u, L, name) /\ u.m_lib_by_name = s.m_lib_by_name
  <2>1. NameGiven(s, u, L, name)
    BY <1>4 DEF NameGiven
  <2> QED
    BY <1>14, <2>1, NameEffect
<1>18. u \in Database
  BY <1>17 DEF Consistent
<1>19. names \in SUBSET [name : Names, id : Nat \ {0}]
  <2>1. s.m_lib_by_name \in SUBSET [name : Names, id : Nat \ {0}]
    BY <1>15, DatabaseTypes
  <2> QED
    BY <1>5, <1>16, <2>1
<1>20. /\ t \in Database /\ t.m_lib_by_name = names /\ t.m_libs = u.m_libs /\ t.lib = u.lib
       /\ t.proxies = u.proxies
  BY <1>6, <1>18, <1>19 DEF Database
<1>21. Consistent(t)
  <2>1. SameCells(u, t)
    BY <1>20 DEF SameCells
  <2> QED
    BY <1>17, <1>20, <2>1, SameCellsConsistent
<1>22. (\A i : LibOf(t, i) = LibOf(s, i)) /\ Registered(t) = Registered(s)
  BY <1>17, <1>20 DEF Renames, LibOf, Registered
<1>23. \A M \in Libs : t.lib[M].m_name = IF M = L THEN name ELSE s.lib[M].m_name
  BY <1>17, <1>20 DEF Renames
<1>24. NamesLead(t)
  <2>1. ASSUME NEW e \in names
        PROVE  LibOf(t, e.id) \in Libs /\ t.lib[LibOf(t, e.id)].m_name = e.name
    <3>1. CASE e = [name |-> name, id |-> id]
      <4>1. e.name = name /\ e.id = id
        BY <3>1
      <4> QED
        BY <1>16, <1>22, <1>23, <4>1
    <3>2. CASE e \in s.m_lib_by_name /\ e # [name |-> db.lib[L].m_name, id |-> id]
      <4>1. LibOf(s, e.id) \in Libs /\ s.lib[LibOf(s, e.id)].m_name = e.name
        BY <1>14, <3>2 DEF NamesLead
      <4>2. LibOf(s, e.id) # L
        <5> SUFFICES ASSUME LibOf(s, e.id) = L
                     PROVE  FALSE
          OBVIOUS
        <5>1. e.id = id /\ e.name = db.lib[L].m_name
          BY <1>14, <1>16, <4>1
        <5>2. e \in [name : Names, id : Nat \ {0}]
          BY <1>15, <3>2, DatabaseTypes
        <5>3. e = [name |-> db.lib[L].m_name, id |-> id]
          BY <5>1, <5>2
        <5> QED
          BY <3>2, <5>3
      <4> QED
        BY <1>22, <1>23, <4>1, <4>2
    <3> QED
      BY <1>5, <3>1, <3>2
  <2>2. ASSUME NEW M \in Registered(t)
        PROVE  t.lib[M].m_name \in Names
    <3>1. M \in Registered(s) /\ M \in Libs
      BY <1>15, <1>22, OwnerTypes
    <3> QED
      BY <1>14, <1>23, <3>1 DEF NamesLead
  <2> QED
    BY <1>20, <2>1, <2>2 DEF NamesLead
<1>25. L \in Registered(t)
  BY <1>14, <1>22
<1>26. Consistent(db') /\ Frame(t, db')
  BY <1>10, <1>11, <1>21, <1>25, RemapToEffect
<1> QED
  BY <1>20, <1>24, <1>26, FrameNames

(* A proxy goes to another place.                                          *)
LEMMA PlaceEffect ==
  ASSUME NEW s, Consistent(s), NEW c \in Alive(s), NEW place \in {"layout", "op"},
         NEW t, t = [s EXCEPT !.proxies[c].place = place]
  PROVE  Consistent(t) /\ Frame(s, t)
<1> DEFINE A == Alive(s)
<1>1. /\ s \in Database /\ Slots(s) /\ SameLen(s) /\ Counts(s, A) /\ Resolves(s, A) /\ Needed(s)
  BY DEF Consistent
<1>2. /\ A \in SUBSET DOMAIN s.proxies
      /\ \A d \in DOMAIN s.proxies : s.proxies[d] \in Proxy \union {Dead}
      /\ s.proxies \in Seq(Proxy \union {Dead}) /\ Len(s.proxies) \in Nat
      /\ DOMAIN s.proxies = 1..Len(s.proxies)
  BY <1>1, AliveTypes, DatabaseTypes
<1>3. PICK p \in Proxy : p = s.proxies[c]
  BY <1>1, AliveTypes
<1>4. PICK q : q = [p EXCEPT !.place = place]
  OBVIOUS
<1>5. /\ q \in Proxy /\ q.id = p.id /\ q.index = p.index /\ q.view = p.view /\ q.cell_name = p.cell_name
  BY <1>4 DEF Proxy
<1>6. PICK f : f = [s.proxies EXCEPT ![c] = q]
  OBVIOUS
<1>7. /\ f \in Seq(Proxy \union {Dead}) /\ Len(f) = Len(s.proxies) /\ DOMAIN f = DOMAIN s.proxies
      /\ \A d \in DOMAIN s.proxies : f[d] = IF d = c THEN q ELSE s.proxies[d]
  <2>1. c \in 1..Len(s.proxies) /\ q \in Proxy \union {Dead}
    BY <1>2, <1>5
  <2> QED
    BY <1>2, <1>6, <2>1, ExceptSeq
<1>8. t = [s EXCEPT !.proxies = f]
  BY <1>1, <1>2, <1>3, <1>4, <1>6 DEF Database
<1>9. /\ t \in Database /\ t.m_libs = s.m_libs /\ t.m_lib_by_name = s.m_lib_by_name
      /\ t.lib = s.lib /\ t.proxies = f /\ t.disturbed = s.disturbed
  BY <1>1, <1>7, <1>8 DEF Database
<1>10. Alive(t) = A
  <2>1. q # Dead /\ p # Dead
    BY <1>5, ProxyIsNotDead
  <2> QED
    BY <1>3, <1>7, <1>9, <2>1 DEF Alive
<1>11. \A d \in A : /\ t.proxies[d].id = s.proxies[d].id /\ t.proxies[d].index = s.proxies[d].index
                    /\ t.proxies[d].view = s.proxies[d].view
                    /\ t.proxies[d].cell_name = s.proxies[d].cell_name
  BY <1>2, <1>3, <1>5, <1>7, <1>9
<1>12. \A d \in A : Owner(t, d) = Owner(s, d)
  BY <1>9, <1>11 DEF Owner, LibOf
<1>13. Counts(t, A)
  <2>1. CountAlike(s, t, A)
    BY <1>9, <1>11, <1>12 DEF CountAlike
  <2> QED
    BY <1>1, <2>1, SameCounts
<1>14. Resolves(t, A)
  BY <1>1, <1>9, <1>11, <1>12 DEF Resolves
<1>15. Needed(t) /\ SameLen(t) /\ Slots(t)
  BY <1>1, <1>9 DEF Needed, SameLen, Slots
<1>16. Frame(s, t)
  BY <1>7, <1>9 DEF Frame
<1> QED
  BY <1>9, <1>10, <1>13, <1>14, <1>15, <1>16 DEF Consistent

LEMMA DeleteCellStep ==
  ASSUME Consistent(db), NamesLead(db), NEW c, DeleteCell(c)
  PROVE  Consistent(db') /\ NamesLead(db')
<1>1. db \in Database
  BY DEF Consistent
<1>2. c \in Alive(db)
  BY DEF DeleteCell, At
<1>3. CASE db' = TakeCell(db, c)
  <2>1. db' = [db EXCEPT !.proxies[c].place = "op"]
    BY <1>3 DEF TakeCell
  <2>2. Consistent(db') /\ Frame(db, db')
    BY <1>2, <2>1, PlaceEffect
  <2> QED
    BY <1>1, <2>2, FrameNames
<1>4. CASE db' = Destroy(db, {c})
  <2>1. {c} \in SUBSET Alive(db)
    BY <1>2
  <2>2. Consistent(db') /\ Frame(db, db')
    BY <1>4, <2>1, DestroyEffect
  <2> QED
    BY <1>1, <2>2, FrameNames
<1> QED
  BY <1>3, <1>4 DEF DeleteCell

LEMMA InsertCellStep ==
  ASSUME Consistent(db), NamesLead(db), NEW c, InsertCell(c)
  PROVE  Consistent(db') /\ NamesLead(db')
<1>1. db \in Database
  BY DEF Consistent
<1>2. c \in Alive(db) /\ db' = [db EXCEPT !.proxies[c].place = "layout"]
  BY DEF InsertCell, At
<1>3. Consistent(db') /\ Frame(db, db')
  BY <1>2, PlaceEffect
<1> QED
  BY <1>1, <1>3, FrameNames

LEMMA ClearHistoryStep ==
  ASSUME Consistent(db), NamesLead(db), NEW v, ClearHistory(v)
  PROVE  Consistent(db') /\ NamesLead(db')
<1>1. db \in Database
  BY DEF Consistent
<1>2. PICK held \in SUBSET Alive(db) : db' = Destroy(db, held)
  BY DEF ClearHistory, At
<1>3. Consistent(db') /\ Frame(db, db')
  BY <1>2, DestroyEffect
<1> QED
  BY <1>1, <1>3, FrameNames

(* A new proxy is cold, and counted by nobody.                             *)
LEMMA AppendEffect ==
  ASSUME NEW s, Consistent(s), NEW p \in Proxy, p.id = 0,
         NEW t, t = [s EXCEPT !.proxies = Append(s.proxies, p)]
  PROVE  /\ Consistent(t) /\ Alive(t) = Alive(s) \union {Len(s.proxies) + 1}
         /\ t.proxies[Len(s.proxies) + 1] = p
         /\ t.m_libs = s.m_libs /\ t.m_lib_by_name = s.m_lib_by_name /\ t.lib = s.lib
<1> DEFINE A == Alive(s)
           n == Len(s.proxies)
<1>1. /\ s \in Database /\ Slots(s) /\ SameLen(s) /\ Counts(s, A) /\ Resolves(s, A) /\ Needed(s)
  BY DEF Consistent
<1>2. /\ A \in SUBSET (1..n) /\ n \in Nat /\ DOMAIN s.proxies = 1..n
      /\ s.proxies \in Seq(Proxy \union {Dead})
  BY <1>1, AliveTypes, DatabaseTypes
<1>3. PICK f : f = Append(s.proxies, p)
  OBVIOUS
<1>4. /\ f \in Seq(Proxy \union {Dead}) /\ Len(f) = n + 1
      /\ \A c \in 1..n : f[c] = s.proxies[c]
      /\ f[n + 1] = p
  <2>1. p \in Proxy \union {Dead}
    OBVIOUS
  <2> QED
    BY <1>2, <1>3, <2>1, AppendProperties
<1>5. t = [s EXCEPT !.proxies = f]
  BY <1>3
<1>6. /\ t \in Database /\ t.m_libs = s.m_libs /\ t.m_lib_by_name = s.m_lib_by_name
      /\ t.lib = s.lib /\ t.proxies = f
  BY <1>1, <1>4, <1>5 DEF Database
<1> HIDE DEF n
<1>7. Alive(t) = A \union {n + 1}
  <2>1. DOMAIN f = 1..n + 1
    BY <1>2, <1>4
  <2>2. \A c : c \in 1..n + 1 <=> (c \in 1..n \/ c = n + 1)
    BY <1>2
  <2> QED
    BY <1>2, <1>4, <1>6, <2>1, <2>2, ProxyIsNotDead DEF Alive
<1>8. \A c \in A : t.proxies[c] = s.proxies[c] /\ Owner(t, c) = Owner(s, c)
  BY <1>2, <1>4, <1>6 DEF Owner, LibOf
<1>9. Counts(t, A)
  <2>1. CountAlike(s, t, A)
    BY <1>6, <1>8 DEF CountAlike
  <2> QED
    BY <1>1, <2>1, SameCounts
<1>10. Resolves(t, A)
  BY <1>1, <1>6, <1>8 DEF Resolves
<1>11. Counts(t, Alive(t)) /\ Resolves(t, Alive(t))
  <2>1. A \in SUBSET Alive(t) /\ \A c \in Alive(t) \ A : t.proxies[c].id = 0
    BY <1>4, <1>6, <1>7
  <2> HIDE DEF A
  <2> QED
    BY <1>9, <1>10, <2>1, ColdNotCounted
<1>12. Needed(t) /\ SameLen(t) /\ Slots(t)
  BY <1>1, <1>6 DEF Needed, SameLen, Slots
<1> QED
  BY <1>4, <1>6, <1>7, <1>11, <1>12 DEF Consistent, n

LEMMA CreateProxyStep ==
  ASSUME Consistent(db), NamesLead(db), NEW v \in Views, NEW name \in Names, NEW cell_name \in CellNames,
         CreateProxy(v, name, cell_name)
  PROVE  Consistent(db') /\ NamesLead(db')
<1>1. db \in Database
  BY DEF Consistent
<1>2. PICK p : p = [place |-> "layout", view |-> v, id |-> 0, index |-> 0,
                    cell_name |-> cell_name, lib_name |-> name]
  OBVIOUS
<1>3. p \in Proxy /\ p.id = 0
  BY <1>2 DEF Proxy
<1>4. PICK L : L = LibByName(db, name, m_tech_name[v])
  OBVIOUS
<1>5. L \in Registered(db)
  BY <1>4, NamedTypes DEF CreateProxy
<1>6. PICK s : s = [db EXCEPT !.proxies = Append(db.proxies, p)]
  OBVIOUS
<1>7. PICK n : n = Len(db.proxies) + 1
  OBVIOUS
<1>8. PICK T : T = [c \in {n} |-> L]
  OBVIOUS
<1>9. db' = Remap(s, T)
  <2>1. db' = Remap([db EXCEPT !.proxies = Append(db.proxies, p)], [c \in {Len(db.proxies) + 1} |-> L])
    BY <1>1, <1>2, <1>4 DEF CreateProxy, Database
  <2> QED
    BY <1>6, <1>7, <1>8, <2>1
<1>10. /\ Consistent(s) /\ Alive(s) = Alive(db) \union {n} /\ s.proxies[n] = p
       /\ s.m_libs = db.m_libs /\ s.m_lib_by_name = db.m_lib_by_name /\ s.lib = db.lib
  BY <1>3, <1>6, <1>7, AppendEffect
<1>11. Registered(s) = Registered(db)
  BY <1>10 DEF Registered
<1>12. Directs(s, T)
  <2>1. L # NoLib
    BY <1>5 DEF Registered
  <2>2. Owner(s, n) = NoLib
    <3>1. s \in Database
      BY <1>10 DEF Consistent
    <3> QED
      BY <1>3, <1>10, <3>1, OwnerTypes DEF Owner
  <2> QED
    BY <1>5, <1>8, <1>10, <1>11, <2>1, <2>2 DEF Directs
<1>13. Consistent(db') /\ Frame(s, db')
  BY <1>9, <1>10, <1>12, RemapEffect
<1>14. NamesLead(s)
  BY <1>10, <1>11 DEF NamesLead, LibOf
<1>15. s \in Database
  BY <1>10 DEF Consistent
<1> QED
  BY <1>13, <1>14, <1>15, FrameNames

(* Whom the new technology gives another library does not lose it again:   *)
(* that library would have been found under its name.                      *)
Exchanged(s, T, C, t) ==
  /\ DOMAIN T = C
  /\ \A c \in C : T[c] = LibByName(s, s.lib[Owner(s, c)].m_name, t) /\ T[c] # NoLib

LEMMA ExchangeDirects ==
  ASSUME NEW s, Consistent(s), NamesLead(s), NEW t, NEW C \in SUBSET Alive(s), NEW T,
         Exchanged(s, T, C, t)
  PROVE  Directs(s, T)
<1> USE DEF Exchanged
<1>1. s \in Database /\ Slots(s)
  BY DEF Consistent
<1>2. \A c \in C : T[c] \in Registered(s)
  BY NamedTypes
<1>3. \A c \in C : s.lib[T[c]].m_name = s.lib[Owner(s, c)].m_name
  <2> SUFFICES ASSUME NEW c \in C
               PROVE  s.lib[T[c]].m_name = s.lib[Owner(s, c)].m_name
    OBVIOUS
  <2>1. PICK L \in Registered(s) : L = T[c]
    BY <1>2
  <2>2. PICK name : name = s.lib[Owner(s, c)].m_name
    OBVIOUS
  <2>3. [name |-> name, id |-> IdOf(s, L)] \in s.m_lib_by_name
    BY <2>1, <2>2, NamedTypes
  <2> QED
    BY <1>1, <2>1, <2>2, <2>3, NameOfLibrary
<1>4. ASSUME NEW c \in C, NEW d \in C, Owner(s, d) = T[c]
      PROVE  T[d] = Owner(s, d)
  BY <1>3, <1>4
<1> QED
  BY <1>2, <1>4 DEF Directs

LEMMA TechnologyParts ==
  ASSUME Consistent(db), NamesLead(db), NEW v \in Views, NEW t \in Techs, SetTechnologyName(v, t)
  PROVE  \E s : Consistent(s) /\ Frame(db, s) /\ db' = RestoreProxies(s, {v}, m_tech_name')
<1> DEFINE hot == {c \in At(db, "layout") : db.proxies[c].view = v /\ Owner(db, c) # NoLib}
           New(c) == LibByName(db, db.lib[Owner(db, c)].m_name, t)
           Offers(c) == New(c) # NoLib /\ db.proxies[c].cell_name \in db.lib[New(c)].has
           moved == {c \in hot : New(c) # Owner(db, c)}
           C == {d \in moved : Offers(d)}
           T == [c \in C |-> New(c)]
           mapped == Remap(db, T)
           cold == {c \in moved : ~Offers(c)}
                     \union {c \in At(db, "layout") : db.proxies[c].view = v
                               /\ db.proxies[c].id # 0 /\ Owner(db, c) = NoLib}
           cooled == CreateColdProxies(mapped, cold)
           cleaned == Cleanup(cooled, {v})
<1>1. db' = RestoreIn(cleaned, v, t)
  BY DEF SetTechnologyName
<1>2. db' = RestoreProxies(cleaned, {v}, m_tech_name')
  BY <1>1 DEF RestoreIn, SetTechnologyName
<1>3. C \in SUBSET Alive(db) /\ cold \in SUBSET Alive(db)
  BY DEF At
<1>4. \A c \in C : T[c] = LibByName(db, db.lib[Owner(db, c)].m_name, t) /\ T[c] # NoLib
  OBVIOUS
<1>5. DOMAIN T = C
  OBVIOUS
<1> HIDE DEF C, T, cold
<1>6. Directs(db, T)
  <2>1. Exchanged(db, T, C, t)
    BY <1>4, <1>5 DEF Exchanged
  <2> QED
    BY <1>3, <2>1, ExchangeDirects
<1>7. Consistent(mapped) /\ Frame(db, mapped) /\ Alive(mapped) = Alive(db)
  BY <1>6, RemapEffect
<1>8. cold \in SUBSET Alive(mapped)
  BY <1>3, <1>7
<1> HIDE DEF mapped
<1>9. Consistent(cooled) /\ Frame(mapped, cooled)
  BY <1>7, <1>8, CreateColdEffect
<1> HIDE DEF cooled
<1>10. Consistent(cleaned) /\ Frame(cooled, cleaned)
  BY <1>9, CleanupEffect
<1> HIDE DEF cleaned
<1>11. Frame(db, cleaned)
  BY <1>7, <1>9, <1>10, FrameTransitive
<1> QED
  BY <1>2, <1>10, <1>11

LEMMA SetTechnologyNameStep ==
  ASSUME Consistent(db), NamesLead(db), NEW v \in Views, NEW t \in Techs, SetTechnologyName(v, t)
  PROVE  Consistent(db') /\ NamesLead(db')
<1>1. PICK s : Consistent(s) /\ Frame(db, s) /\ db' = RestoreProxies(s, {v}, m_tech_name')
  BY TechnologyParts
<1>2. Consistent(db') /\ Frame(s, db')
  BY <1>1, RestoreEffect
<1>3. Frame(db, db')
  BY <1>1, <1>2, FrameTransitive
<1>4. db \in Database
  BY DEF Consistent
<1> QED
  BY <1>2, <1>3, <1>4, FrameNames

-----------------------------------------------------------------------------
(* What stays cold.  A library that is registered may cut off proxies in   *)
(* the history, and then nothing is known of the counts; what proxies are  *)
(* looked at and what is found for them does not depend on these.          *)
Shaped(s) ==
  /\ DOMAIN s = {"m_libs", "m_lib_by_name", "lib", "proxies", "disturbed"}
  /\ DOMAIN s.lib = Libs
  /\ \A L \in Libs : {"m_name", "tech", "has"} \subseteq DOMAIN s.lib[L]

SameNames(s, t) ==
  /\ t.m_libs = s.m_libs /\ t.m_lib_by_name = s.m_lib_by_name
  /\ \A L \in Libs : /\ t.lib[L].m_name = s.lib[L].m_name /\ t.lib[L].tech = s.lib[L].tech
                     /\ t.lib[L].has = s.lib[L].has

Reshaped(s, t) == Shaped(t) /\ SameNames(s, t)

LEMMA ReshapedTransitive ==
  ASSUME NEW s, NEW t, NEW u, Reshaped(s, t), Reshaped(t, u)
  PROVE  Reshaped(s, u)
BY DEF Reshaped, SameNames

LEMMA DatabaseShaped ==
  ASSUME NEW s \in Database
  PROVE  Reshaped(s, s)
<1>1. DOMAIN s = {"m_libs", "m_lib_by_name", "lib", "proxies", "disturbed"}
  BY DEF Database
<1>2. s.lib \in [Libs -> LibraryRecord]
  BY DatabaseTypes
<1>3. \A p \in LibraryRecord : {"m_name", "tech", "has"} \subseteq DOMAIN p
  BY DEF LibraryRecord
<1> QED
  BY <1>1, <1>2, <1>3 DEF Reshaped, Shaped, SameNames

SameOffers(s, l) ==
  /\ DOMAIN l = Libs
  /\ \A L \in Libs : /\ {"m_name", "tech", "has"} \subseteq DOMAIN l[L]
                     /\ l[L].m_name = s.lib[L].m_name /\ l[L].tech = s.lib[L].tech
                     /\ l[L].has = s.lib[L].has

LEMMA LibReshaped ==
  ASSUME NEW s, Shaped(s), NEW l, SameOffers(s, l), NEW t, t = [s EXCEPT !.lib = l]
  PROVE  Reshaped(s, t) /\ t.proxies = s.proxies
BY DEF Shaped, Reshaped, SameNames, SameOffers

LEMMA ProxiesReshaped ==
  ASSUME NEW s, Shaped(s), NEW f, NEW t, t = [s EXCEPT !.proxies = f]
  PROVE  Reshaped(s, t) /\ t.proxies = f
BY DEF Shaped, Reshaped, SameNames

LEMMA CountingReshaped ==
  ASSUME NEW s, Shaped(s), NEW C, NEW t, t = RegisterProxies(s, C) \/ t = UnregisterProxies(s, C)
  PROVE  Reshaped(s, t) /\ t.proxies = s.proxies
<1> DEFINE D(L) == Counted(s, L, C)
<1>1. \A L \in Libs : {"m_name", "tech", "has"} \subseteq DOMAIN s.lib[L]
  BY DEF Shaped
<1>2. CASE t = RegisterProxies(s, C)
  <2> DEFINE X(L) == [s.lib[L] EXCEPT !.m_refcount = [i \in DOMAIN @ |-> @[i] + AtIndex(s, D(L), i)],
                                      !.m_referrers = [v \in Views |-> @[v] + InView(s, D(L), v)]]
             l == [L \in Libs |-> X(L)]
  <2>1. t = [s EXCEPT !.lib = l]
    BY <1>2 DEF RegisterProxies
  <2>2. \A L \in Libs : /\ DOMAIN X(L) = DOMAIN s.lib[L]
                        /\ {"m_name", "tech", "has"} \subseteq DOMAIN X(L)
                        /\ X(L).m_name = s.lib[L].m_name /\ X(L).tech = s.lib[L].tech
                        /\ X(L).has = s.lib[L].has
    BY <1>1
  <2> HIDE DEF X
  <2>3. SameOffers(s, l)
    BY <2>2 DEF SameOffers
  <2> HIDE DEF l
  <2> QED
    BY <2>1, <2>3, LibReshaped
<1>3. CASE t = UnregisterProxies(s, C)
  <2> DEFINE left(L) == [i \in DOMAIN s.lib[L].cells |-> Less(s.lib[L].m_refcount[i], AtIndex(s, D(L), i))]
             Unused(L, i) == left(L)[i] = 0 /\ s.lib[L].m_refcount[i] > 0 /\ s.lib[L].cells[i] \in PCells
             X(L) == [s.lib[L] EXCEPT !.m_refcount = left(L),
                                      !.m_referrers = [v \in Views |-> Less(@[v], InView(s, D(L), v))],
                                      !.cells = [i \in DOMAIN @ |-> IF Unused(L, i) THEN Gone ELSE @[i]]]
             l == [L \in Libs |-> X(L)]
  <2>1. t = [s EXCEPT !.lib = l]
    BY <1>3 DEF UnregisterProxies
  <2> HIDE DEF left, Unused, D
  <2>2. \A L \in Libs : /\ DOMAIN X(L) = DOMAIN s.lib[L]
                        /\ {"m_name", "tech", "has"} \subseteq DOMAIN X(L)
                        /\ X(L).m_name = s.lib[L].m_name /\ X(L).tech = s.lib[L].tech
                        /\ X(L).has = s.lib[L].has
    BY <1>1
  <2> HIDE DEF X
  <2>3. SameOffers(s, l)
    BY <2>2 DEF SameOffers
  <2> HIDE DEF l
  <2> QED
    BY <2>1, <2>3, LibReshaped
<1> QED
  BY <1>2, <1>3

LEMMA CleanupReshaped ==
  ASSUME NEW s, Shaped(s), NEW views, NEW t, t = Cleanup(s, views)
  PROVE  Reshaped(s, t) /\ \A c \in Alive(t) : c \in Alive(s) /\ t.proxies[c] = s.proxies[c]
<1>1. CASE Doubles(s, views) = {}
  <2>1. t = s
    BY <1>1 DEF Cleanup
  <2> QED
    BY <2>1 DEF Reshaped, SameNames
<1>2. CASE Doubles(s, views) # {}
  <2>1. PICK C : C = Doubles(s, views)
    OBVIOUS
  <2>2. PICK u : u = UnregisterProxies(s, C)
    OBVIOUS
  <2>3. Reshaped(s, u) /\ u.proxies = s.proxies
    BY <2>2, CountingReshaped
  <2>4. PICK f : f = [c \in DOMAIN u.proxies |-> IF c \in C THEN Dead ELSE u.proxies[c]]
    OBVIOUS
  <2>5. t = [u EXCEPT !.proxies = f]
    <3>1. t = [u EXCEPT !.proxies = [c \in DOMAIN @ |-> IF c \in C THEN Dead ELSE @[c]]]
      BY <1>2, <2>1, <2>2 DEF Cleanup, Destroy
    <3>2. DOMAIN u = {"m_libs", "m_lib_by_name", "lib", "proxies", "disturbed"}
      BY <2>3 DEF Reshaped, Shaped
    <3> QED
      BY <2>4, <3>1, <3>2
  <2>6. Reshaped(u, t) /\ t.proxies = f
    BY <2>3, <2>5, ProxiesReshaped DEF Reshaped
  <2>7. \A c \in Alive(t) : c \in Alive(s) /\ t.proxies[c] = s.proxies[c]
    BY <2>3, <2>4, <2>6 DEF Alive
  <2> QED
    BY <2>3, <2>6, <2>7, ReshapedTransitive
<1> QED
  BY <1>1, <1>2

(* remap(): who is directed to a library has an id then.                   *)
LEMMA RemapReshaped ==
  ASSUME NEW s \in Database, Slots(s), NEW T, DOMAIN T \in SUBSET Alive(s),
         \A c \in DOMAIN T : T[c] \in Registered(s) /\ Owner(s, c) # T[c],
         NEW r, r = Remap(s, T)
  PROVE  /\ Reshaped(s, r) /\ Alive(r) = Alive(s)
         /\ \A c \in Alive(s) : c \notin DOMAIN T => r.proxies[c] = s.proxies[c]
         /\ \A c \in DOMAIN T : r.proxies[c].id # 0
<1>1. Shaped(s) /\ Reshaped(s, s)
  BY DatabaseShaped DEF Reshaped
<1>2. PICK D : D = {c \in DOMAIN T : Owner(s, c) # T[c]}
  OBVIOUS
<1>3. D = DOMAIN T
  BY <1>2
<1>4. CASE D = {}
  <2>1. r = s
    BY <1>2, <1>4 DEF Remap
  <2> QED
    BY <1>1, <1>3, <1>4, <2>1
<1>5. CASE D # {}
  <2>1. PICK w : w = WithVariants(s, D, T)
    OBVIOUS
  <2>2. PICK t : t = UnregisterProxies(w, D)
    OBVIOUS
  <2> DEFINE To(p, L) == [p EXCEPT !.id = IdOf(t, L), !.index = IndexOf(t, L, p.cell_name), !.lib_name = NoName]
  <2>3. PICK f : f = [c \in DOMAIN t.proxies |-> IF c \in D THEN To(t.proxies[c], T[c]) ELSE t.proxies[c]]
    OBVIOUS
  <2>4. PICK u : u = [t EXCEPT !.proxies = f]
    OBVIOUS
  <2>5. Reshaped(s, w) /\ w.proxies = s.proxies
    <3> DEFINE New(L) == {s.proxies[c].cell_name : c \in {d \in D : T[d] = L}} \ Range(s.lib[L].cells)
               X(L) == WithCells(s.lib[L], New(L))
               l == [L \in Libs |-> X(L)]
    <3>1. w = [s EXCEPT !.lib = l]
      BY <2>1 DEF WithVariants
    <3>2. \A L \in Libs : {"m_name", "tech", "has"} \subseteq DOMAIN s.lib[L]
      BY <1>1 DEF Shaped
    <3> HIDE DEF New
    <3>3. \A L \in Libs : /\ {"m_name", "tech", "has"} \subseteq DOMAIN X(L)
                          /\ X(L).m_name = s.lib[L].m_name /\ X(L).tech = s.lib[L].tech
                          /\ X(L).has = s.lib[L].has
      BY <3>2 DEF WithCells
    <3> HIDE DEF X
    <3>4. SameOffers(s, l)
      BY <3>3 DEF SameOffers
    <3> HIDE DEF l
    <3> QED
      BY <1>1, <3>1, <3>4, LibReshaped
  <2>6. Reshaped(w, t) /\ t.proxies = s.proxies
    BY <2>2, <2>5, CountingReshaped DEF Reshaped
  <2>7. Reshaped(t, u) /\ u.proxies = f
    BY <2>4, <2>6, ProxiesReshaped DEF Reshaped
  <2>8. r = RegisterProxies(u, D)
    <3>1. r = RegisterProxies([t EXCEPT !.proxies =
                [c \in DOMAIN @ |-> IF c \in D THEN To(@[c], T[c]) ELSE @[c]]], D)
      BY <1>2, <1>5, <2>1, <2>2 DEF Remap
    <3>2. DOMAIN t = {"m_libs", "m_lib_by_name", "lib", "proxies", "disturbed"}
      BY <2>6 DEF Reshaped, Shaped
    <3>3. [t EXCEPT !.proxies = [c \in DOMAIN @ |-> IF c \in D THEN To(@[c], T[c]) ELSE @[c]]] = u
      BY <2>3, <2>4, <3>2
    <3> QED
      BY <3>1, <3>3
  <2>9. Reshaped(u, r) /\ r.proxies = f
    BY <2>7, <2>8, CountingReshaped DEF Reshaped
  <2>10. Reshaped(s, r)
    BY <2>5, <2>6, <2>7, <2>9, ReshapedTransitive
  <2>11. \A L \in Registered(s) : IdOf(t, L) # 0
    <3>1. t.m_libs = s.m_libs
      BY <2>5, <2>6 DEF Reshaped, SameNames
    <3>2. \A L \in Registered(s) : IdOf(t, L) = IdOf(s, L)
      BY <3>1 DEF IdOf
    <3> QED
      BY <3>2, SlotOf
  <2>12. /\ \A c \in Alive(s) : s.proxies[c] \in Proxy /\ c \in DOMAIN s.proxies
         /\ Alive(s) \in SUBSET DOMAIN s.proxies
    BY AliveTypes DEF Alive
  <2>13. \A c \in D : f[c] = To(s.proxies[c], T[c])
    BY <1>3, <2>3, <2>6, <2>12
  <2>14. ASSUME NEW p \in Proxy, NEW L
         PROVE  To(p, L).id = IdOf(t, L) /\ To(p, L).place = p.place
    BY DEF Proxy
  <2>15. \A p \in Proxy : p.place # "nowhere"
    BY DEF Proxy
  <2>16. \A c \in D : f[c].id # 0 /\ f[c] # Dead
    <3> SUFFICES ASSUME NEW c \in D
                 PROVE  f[c].id # 0 /\ f[c] # Dead
      OBVIOUS
    <3>1. PICK p \in Proxy : p = s.proxies[c]
      BY <1>3, <2>12
    <3>2. T[c] \in Registered(s)
      BY <1>3
    <3>3. f[c].id = IdOf(t, T[c]) /\ f[c].place = p.place
      <4>1. f[c] = To(p, T[c])
        BY <2>13, <3>1
      <4> QED
        BY <2>14, <4>1
    <3>4. Dead.place = "nowhere"
      BY DEF Dead
    <3> QED
      BY <2>11, <2>15, <3>1, <3>2, <3>3, <3>4
  <2>17. \A c \in DOMAIN s.proxies : c \notin D => f[c] = s.proxies[c]
    BY <2>3, <2>6
  <2>18. Alive(r) = Alive(s)
    <3>1. DOMAIN f = DOMAIN s.proxies
      BY <2>3, <2>6
    <3> QED
      BY <1>3, <2>9, <2>12, <2>16, <2>17, <3>1 DEF Alive
  <2> QED
    BY <1>3, <2>9, <2>10, <2>12, <2>16, <2>17, <2>18
<1> QED
  BY <1>4, <1>5

(* The same is found when the names, technologies and files are the same.  *)
LEMMA SameFound ==
  ASSUME NEW s \in Database, NEW t, SameNames(s, t)
  PROVE  /\ \A id : LibOf(t, id) = LibOf(s, id)
         /\ \A L : IdOf(t, L) = IdOf(s, L)
         /\ Registered(t) = Registered(s) /\ (Slots(s) => Slots(t))
         /\ \A name, tech : LibByName(t, name, tech) = LibByName(s, name, tech)
         /\ \A c, tech : t.proxies[c] = s.proxies[c] => Restorable(t, c, tech) = Restorable(s, c, tech)
<1>1. /\ \A id : LibOf(t, id) = LibOf(s, id)
      /\ \A L : IdOf(t, L) = IdOf(s, L)
      /\ Registered(t) = Registered(s) /\ (Slots(s) => Slots(t))
  BY DEF SameNames, LibOf, IdOf, Registered, Slots
<1>2. Registered(s) \in SUBSET Libs
  BY OwnerTypes
<1>3. \A name, tech : Named(t, name, tech) = Named(s, name, tech)
  BY <1>1, <1>2 DEF Named, SameNames
<1>4. ASSUME NEW name, NEW tech
      PROVE  LibByName(t, name, tech) = LibByName(s, name, tech)
  <2>1. PICK A : A = Named(s, name, tech) /\ A = Named(t, name, tech)
    BY <1>3
  <2>2. PICK B : B = Named(s, name, Generic) /\ B = Named(t, name, Generic)
    BY <1>3
  <2>3. PICK found : found = IF A # {} THEN A ELSE B
    OBVIOUS
  <2>4. LibByName(t, name, tech) = IF found = {} THEN NoLib ELSE CHOOSE L \in found : TRUE
    BY <2>1, <2>2, <2>3 DEF LibByName
  <2>5. LibByName(s, name, tech) = IF found = {} THEN NoLib ELSE CHOOSE L \in found : TRUE
    BY <2>1, <2>2, <2>3 DEF LibByName
  <2> QED
    BY <2>4, <2>5
<1>5. \A name, tech : LibByName(s, name, tech) \in Registered(s) \union {NoLib}
  BY NamedTypes
<1>6. \A c, tech : t.proxies[c] = s.proxies[c] => Restorable(t, c, tech) = Restorable(s, c, tech)
  <2> SUFFICES ASSUME NEW c, NEW tech, t.proxies[c] = s.proxies[c]
               PROVE  Restorable(t, c, tech) = Restorable(s, c, tech)
    OBVIOUS
  <2>1. PICK L : L = LibByName(s, s.proxies[c].lib_name, tech)
    OBVIOUS
  <2>2. L = LibByName(t, t.proxies[c].lib_name, tech)
    BY <1>4, <2>1
  <2>3. L # NoLib => t.lib[L].has = s.lib[L].has
    BY <1>2, <1>5, <2>1 DEF SameNames
  <2> QED
    BY <2>1, <2>2, <2>3 DEF Restorable
<1> QED
  BY <1>1, <1>4, <1>6

(* restore_proxies() leaves nothing cold that it was asked to look at and  *)
(* that could be found.                                                    *)
LeftCold(s, t, views, techs) ==
  \A c \in At(t, "layout") : t.proxies[c].id = 0 =>
    /\ c \in At(s, "layout") /\ t.proxies[c] = s.proxies[c]
    /\ t.proxies[c].view \in views => Restorable(t, c, techs[t.proxies[c].view]) = {}

LEMMA RestoreLeaves ==
  ASSUME NEW s \in Database, Slots(s), NEW views, NEW techs, NEW t, t = RestoreProxies(s, views, techs)
  PROVE  SameNames(s, t) /\ LeftCold(s, t, views, techs)
<1> DEFINE Tech(c) == techs[s.proxies[c].view]
           cold == {c \in At(s, "layout") : /\ s.proxies[c].id = 0 /\ s.proxies[c].view \in views
                                            /\ Restorable(s, c, Tech(c)) # {}}
           T == [c \in cold |-> LibByName(s, s.proxies[c].lib_name, Tech(c))]
<1>1. PICK r : r = Remap(s, T)
  OBVIOUS
<1>2. PICK views2 : t = Cleanup(r, views2)
  BY <1>1 DEF RestoreProxies
<1>3. cold \in SUBSET Alive(s) /\ DOMAIN T = cold
  BY DEF At
<1>4. \A c \in cold : T[c] \in Registered(s) /\ Owner(s, c) # T[c]
  <2> SUFFICES ASSUME NEW c \in cold
               PROVE  T[c] \in Registered(s) /\ Owner(s, c) # T[c]
    OBVIOUS
  <2>1. T[c] = LibByName(s, s.proxies[c].lib_name, Tech(c)) /\ s.proxies[c].id = 0
    OBVIOUS
  <2>2. Restorable(s, c, Tech(c)) # {}
    OBVIOUS
  <2> HIDE DEF cold, T, Tech
  <2>3. T[c] # NoLib
    BY <2>1, <2>2 DEF Restorable
  <2>4. Owner(s, c) = NoLib
    BY <2>1, OwnerTypes DEF Owner
  <2> QED
    BY <2>1, <2>3, <2>4, NamedTypes
<1>5. \A c \in At(s, "layout") : s.proxies[c].id = 0 /\ s.proxies[c].view \in views /\ c \notin cold
                                   => Restorable(s, c, techs[s.proxies[c].view]) = {}
  OBVIOUS
<1> HIDE DEF cold, T
<1>6. /\ Reshaped(s, r) /\ Alive(r) = Alive(s)
      /\ \A c \in Alive(s) : c \notin cold => r.proxies[c] = s.proxies[c]
      /\ \A c \in cold : r.proxies[c].id # 0
  BY <1>1, <1>3, <1>4, RemapReshaped
<1>7. Reshaped(r, t) /\ \A c \in Alive(t) : c \in Alive(r) /\ t.proxies[c] = r.proxies[c]
  BY <1>2, <1>6, CleanupReshaped DEF Reshaped
<1>8. SameNames(s, t)
  BY <1>6, <1>7, ReshapedTransitive DEF Reshaped
<1>9. ASSUME NEW c \in At(t, "layout"), t.proxies[c].id = 0
      PROVE  /\ c \in At(s, "layout") /\ t.proxies[c] = s.proxies[c]
             /\ t.proxies[c].view \in views => Restorable(t, c, techs[t.proxies[c].view]) = {}
  <2>1. c \in Alive(t) /\ t.proxies[c].place = "layout"
    BY DEF At
  <2>2. c \in Alive(s) /\ c \notin cold /\ t.proxies[c] = s.proxies[c]
    BY <1>6, <1>7, <1>9, <2>1
  <2>3. c \in At(s, "layout")
    BY <2>1, <2>2 DEF At
  <2>4. \A tech : Restorable(t, c, tech) = Restorable(s, c, tech)
    BY <1>8, <2>2, SameFound
  <2> QED
    BY <1>5, <1>9, <2>2, <2>3, <2>4
<1> QED
  BY <1>8, <1>9 DEF LeftCold

(* The slots and the names after a library was replaced, whatever becomes  *)
(* of the proxies in the history.                                          *)
LEMMA ReplacedShape ==
  ASSUME NEW s, Consistent(s), NEW old \in Registered(s), NEW L \in Registered(s),
         NEW t, t = Replaced(s, old, L)
  PROVE  /\ t \in Database /\ Slots(t) /\ t.m_lib_by_name = s.m_lib_by_name
         /\ Registered(t) = Registered(s) \ {old}
         /\ \A id : LibOf(t, id) = IF LibOf(s, id) = old THEN NoLib ELSE LibOf(s, id)
<1>1. PICK r : r = RemapTo(s, old, L)
  OBVIOUS
<1>2. PICK u : u = FreeSlot(r, old)
  OBVIOUS
<1>3. Consistent(r) /\ Frame(s, r)
  BY <1>1, RemapToEffect
<1>4. (\A id : LibOf(r, id) = LibOf(s, id)) /\ Registered(r) = Registered(s)
  BY <1>3, FrameOwner
<1>5. r \in Database /\ Slots(r) /\ old \in Registered(r)
  BY <1>3, <1>4 DEF Consistent
<1>6. /\ u \in Database /\ Slots(u) /\ u.m_lib_by_name = r.m_lib_by_name
      /\ Registered(u) = Registered(r) \ {old}
      /\ \A id : LibOf(u, id) = IF LibOf(r, id) = old THEN NoLib ELSE LibOf(r, id)
  BY <1>2, <1>5, FreeSlotShape
<1>7. t = [u EXCEPT !.lib[old] = Fresh]
  BY <1>1, <1>2 DEF Replaced
<1>8. Fresh \in LibraryRecord
  BY FreshIdle DEF Idle
<1>9. PICK l \in [Libs -> LibraryRecord] : t = [u EXCEPT !.lib = l]
  BY <1>6, <1>7, <1>8, DatabaseTypes
<1>10. t \in Database /\ t.m_libs = u.m_libs /\ t.m_lib_by_name = u.m_lib_by_name
  BY <1>6, <1>9 DEF Database
<1>11. Slots(t) /\ Registered(t) = Registered(u) /\ \A id : LibOf(t, id) = LibOf(u, id)
  BY <1>6, <1>10 DEF Slots, Registered, LibOf
<1> QED
  BY <1>3, <1>4, <1>6, <1>10, <1>11 DEF Frame

(* register_lib() leaves no proxy cold that the library could restore.     *)
LEMMA RegisterLeaves ==
  ASSUME NEW s, Consistent(s), NamesLead(s), NEW L \in Libs, L \notin Registered(s),
         s.lib[L].m_name \in Names, NEW techs, NEW t, t = RegisterLib(s, L, techs),
         NEW c \in At(t, "layout"), t.proxies[c].id = 0
  PROVE  L \notin Restorable(t, c, techs[t.proxies[c].view])
<1>1. PICK u, old, r : /\ Prepared(s, L, u, old, r)
                       /\ t = RestoreProxies(r, Waiting(r, s.lib[L].m_name), techs)
  BY RegisterParts
<1>2. /\ Consistent(u) /\ NamesLead(u) /\ u.lib = s.lib /\ L \in Registered(u)
      /\ old # L /\ (old # NoLib => old \in Registered(u))
      /\ r = IF old = NoLib THEN u ELSE Replaced(u, old, L)
  BY <1>1 DEF Prepared
<1>3. /\ r \in Database /\ Slots(r) /\ r.m_lib_by_name = u.m_lib_by_name
      /\ L \in Registered(r)
      /\ \A id : LibOf(r, id) \in {NoLib, LibOf(u, id)}
  <2>1. CASE old = NoLib
    BY <1>2, <2>1 DEF Consistent
  <2>2. CASE old # NoLib
    <3>1. r = Replaced(u, old, L) /\ old \in Registered(u)
      BY <1>2, <2>2
    <3>2. /\ r \in Database /\ Slots(r) /\ r.m_lib_by_name = u.m_lib_by_name
          /\ Registered(r) = Registered(u) \ {old}
          /\ \A id : LibOf(r, id) = IF LibOf(u, id) = old THEN NoLib ELSE LibOf(u, id)
      BY <1>2, <3>1, ReplacedShape
    <3> QED
      BY <1>2, <3>2
  <2> QED
    BY <2>1, <2>2
<1>4. /\ SameNames(r, t)
      /\ c \in At(r, "layout") /\ t.proxies[c] = r.proxies[c]
      /\ t.proxies[c].view \in Waiting(r, s.lib[L].m_name) => Restorable(t, c, techs[t.proxies[c].view]) = {}
  <2>1. SameNames(r, t) /\ LeftCold(r, t, Waiting(r, s.lib[L].m_name), techs)
    BY <1>1, <1>3, RestoreLeaves
  <2> QED
    BY <2>1 DEF LeftCold
<1>5. SUFFICES ASSUME L \in Restorable(t, c, techs[t.proxies[c].view])
               PROVE  FALSE
  OBVIOUS
<1>6. PICK name : name = t.proxies[c].lib_name
  OBVIOUS
<1>7. L = LibByName(t, name, techs[t.proxies[c].view]) /\ L # NoLib
  BY <1>5, <1>6 DEF Restorable
<1>8. [name |-> name, id |-> IdOf(t, L)] \in t.m_lib_by_name
  BY <1>7, NamedTypes
<1>9. IdOf(t, L) = IdOf(r, L) /\ LibOf(r, IdOf(r, L)) = L
  BY <1>3, <1>4, SameFound, SlotOf
<1>10. LibOf(u, IdOf(r, L)) = L
  <2>1. LibOf(r, IdOf(r, L)) \in {NoLib, LibOf(u, IdOf(r, L))}
    BY <1>3
  <2> QED
    BY <1>7, <1>9, <2>1
<1>11. [name |-> name, id |-> IdOf(r, L)] \in u.m_lib_by_name
  BY <1>3, <1>4, <1>8, <1>9 DEF SameNames
<1>12. s.lib[L].m_name = name
  <2>1. PICK e \in u.m_lib_by_name : e.name = name /\ e.id = IdOf(r, L)
    BY <1>11
  <2> QED
    BY <1>2, <1>10, <2>1 DEF NamesLead
<1>13. t.proxies[c].view \in Waiting(r, s.lib[L].m_name)
  BY <1>4, <1>6, <1>12 DEF Waiting, At
<1> QED
  BY <1>4, <1>5, <1>13

(* What a call leaves cold.                                                *)
LeavesNone ==
  \A L \in Libs, v \in Views :
    L \in Registered(db)' \ Registered(db) \/ m_tech_name'[v] # m_tech_name[v] =>
      \A c \in At(db', "layout") : db'.proxies[c].view = v /\ db'.proxies[c].id = 0 =>
        L \notin Restorable(db', c, m_tech_name'[v])

LEMMA KeepsLeaves ==
  ASSUME Keeps(db, db') \/ \E L \in Registered(db) : KeepsBut(db, db', L),
         db \in Database, UNCHANGED m_tech_name
  PROVE  LeavesNone
<1>1. "m_libs" \in DOMAIN db
  BY DEF Database
<1>2. Registered(db') \subseteq Registered(db)
  BY <1>1 DEF Keeps, KeepsBut, Registers
<1> QED
  BY <1>2 DEF LeavesNone

LEMMA RegisterLeavesNone ==
  ASSUME Consistent(db), NamesLead(db), NEW name \in Names, NEW t \in Techs, NEW has \in Files,
         Register(name, t, has)
  PROVE  LeavesNone
<1>1. PICK L, s : /\ L \in Libs /\ Consistent(s) /\ NamesLead(s) /\ L \notin Registered(s)
                  /\ s.lib[L].m_name \in Names /\ Registered(s) = Registered(db)
                  /\ db' = RegisterLib(s, L, m_tech_name)
  BY RegisterFills
<1>2. Registered(db') \subseteq Registered(db) \union {L}
  <2>1. "m_libs" \in DOMAIN s
    BY <1>1 DEF Consistent, Database
  <2>2. KeepsBut(s, db', L)
    BY <1>1, RegisterLibKeeps
  <2> QED
    BY <1>1, <2>1, <2>2 DEF KeepsBut, Registers
<1>3. m_tech_name' = m_tech_name
  BY DEF Register
<1>4. \A c \in At(db', "layout") : db'.proxies[c].id = 0 =>
        L \notin Restorable(db', c, m_tech_name[db'.proxies[c].view])
  BY <1>1, RegisterLeaves
<1> QED
  BY <1>2, <1>3, <1>4 DEF LeavesNone

LEMMA TechnologyLeavesNone ==
  ASSUME Consistent(db), NamesLead(db), m_tech_name \in [Views -> Techs],
         NEW v \in Views, NEW t \in Techs, SetTechnologyName(v, t)
  PROVE  LeavesNone
<1>1. PICK s : Consistent(s) /\ Frame(db, s) /\ db' = RestoreProxies(s, {v}, m_tech_name')
  BY TechnologyParts
<1>2. s \in Database /\ Slots(s)
  BY <1>1 DEF Consistent
<1>3. /\ SameNames(s, db')
      /\ \A c \in At(db', "layout") : db'.proxies[c].id = 0 =>
           (db'.proxies[c].view \in {v} => Restorable(db', c, m_tech_name'[db'.proxies[c].view]) = {})
  <2>1. SameNames(s, db') /\ LeftCold(s, db', {v}, m_tech_name')
    BY <1>1, <1>2, RestoreLeaves
  <2> QED
    BY <2>1 DEF LeftCold
<1>4. Registered(db') = Registered(db)
  BY <1>1, <1>3 DEF SameNames, Frame, Registered
<1>5. \A w \in Views : m_tech_name'[w] # m_tech_name[w] => w = v
  BY DEF SetTechnologyName
<1> QED
  BY <1>3, <1>4, <1>5 DEF LeavesNone

LEMMA RefreshLeavesNone ==
  ASSUME db \in Database, NEW L \in Libs, NEW name, NEW has, Refresh(L, name, has)
  PROVE  LeavesNone
<1>1. L \in Registered(db) /\ m_tech_name' = m_tech_name
  BY DEF Refresh
<1>2. PICK u : u = UnregisterLib(db, L)
  OBVIOUS
<1>3. \A n, h : KeepsBut(db, Reloaded(db, L, n, h), L)
  BY <1>2, ReloadedKeeps, KeepsButTransitive
<1>4. KeepsBut(db, db', L)
  <2>1. CASE db' = Reloaded(db, L, db.lib[L].m_name, {})
    BY <1>3, <2>1
  <2>2. CASE db' = RemapTo(Reloaded(db, L, name, has), L, L)
    <3>1. PICK t : t = Reloaded(db, L, name, has)
      OBVIOUS
    <3>2. Keeps(t, db')
      BY <2>2, <3>1, RemapToKeeps
    <3> QED
      BY <1>3, <3>1, <3>2, KeepsButTransitive
  <2> QED
    BY <2>1, <2>2 DEF Refresh
<1> QED
  BY <1>1, <1>4, KeepsLeaves

LEMMA DestroyKeeps ==
  ASSUME NEW s, NEW C
  PROVE  Keeps(s, Destroy(s, C))
<1>1. PICK u : u = UnregisterProxies(s, C)
  OBVIOUS
<1>2. PICK x : Destroy(s, C) = [u EXCEPT !.proxies = x]
  BY <1>1 DEF Destroy
<1>3. Keeps(s, u)
  BY <1>1, CountingKeeps
<1>4. Keeps(u, Destroy(s, C))
  BY <1>2, FieldsKeep
<1> QED
  BY <1>3, <1>4, KeepsTransitive

LEMMA PlaceKeeps ==
  ASSUME NEW s, NEW c, NEW place, NEW t, t = [s EXCEPT !.proxies[c].place = place]
  PROVE  Keeps(s, t)
<1>1. PICK x : t = [s EXCEPT !.proxies = x]
  OBVIOUS
<1> QED
  BY <1>1, FieldsKeep

LEMMA CreateProxyKeeps ==
  ASSUME NEW v, NEW name, NEW cell_name, CreateProxy(v, name, cell_name)
  PROVE  Keeps(db, db')
<1>1. PICK s : \E x, T : s = [db EXCEPT !.proxies = x] /\ db' = Remap(s, T)
  BY DEF CreateProxy
<1>2. Keeps(db, s)
  BY <1>1, FieldsKeep
<1>3. Keeps(s, db')
  BY <1>1, RemapKeeps
<1> QED
  BY <1>2, <1>3, KeepsTransitive

-----------------------------------------------------------------------------
(* The invariant, and what it says.                                        *)
LEMMA LibInit ==
  ASSUME Init
  PROVE  LibInv
<1>1. /\ db = [m_libs |-> <<>>, m_lib_by_name |-> {}, lib |-> [L \in Libs |-> Fresh],
               proxies |-> <<>>, disturbed |-> FALSE]
  BY DEF Init
<1>2. /\ db.m_libs = <<>> /\ db.m_lib_by_name = {} /\ db.lib = [L \in Libs |-> Fresh]
      /\ db.proxies = <<>> /\ db.disturbed = FALSE
  BY <1>1
<1>3. Fresh \in LibraryRecord
  <2>1. [v \in Views |-> 0] \in [Views -> Nat]
    OBVIOUS
  <2>2. <<>> \in Seq(CellNames \union {Gone}) /\ <<>> \in Seq(Nat)
    OBVIOUS
  <2> QED
    BY <2>1, <2>2, LibrariesAssumption DEF Fresh, LibraryRecord
<1>4. db \in Database
  <2>1. db.m_libs \in Seq(Libs \union {NoLib}) /\ db.proxies \in Seq(Proxy \union {Dead})
    BY <1>2
  <2>2. db.lib \in [Libs -> LibraryRecord]
    BY <1>2, <1>3
  <2> QED
    BY <1>1, <1>2, <2>1, <2>2 DEF Database
<1>5. Alive(db) = {} /\ Registered(db) = {}
  BY <1>2 DEF Alive, Registered, Range
<1>6. \A L \in Libs : /\ Len(db.lib[L].cells) = 0 /\ Len(db.lib[L].m_refcount) = 0
                      /\ \A v \in Views : db.lib[L].m_referrers[v] = 0
  BY <1>2 DEF Fresh
<1>7. Slots(db) /\ SameLen(db) /\ Needed(db)
  BY <1>2, <1>6 DEF Slots, SameLen, Needed
<1>8. Counts(db, {})
  <2>1. \A L : \A v : FromView(db, L, {}, v) = {}
    BY DEF FromView
  <2>2. Cardinality({}) = 0
    BY FS_EmptySet
  <2>3. \A L \in Libs : \A v \in Views : db.lib[L].m_referrers[v] = Cardinality(FromView(db, L, {}, v))
    BY <1>6, <2>1, <2>2
  <2>4. \A L \in Libs : 1..Len(db.lib[L].cells) = {}
    BY <1>6
  <2> QED
    BY <2>3, <2>4 DEF Counts
<1>9. Resolves(db, {})
  BY DEF Resolves
<1>10. NamesLead(db)
  BY <1>2, <1>5 DEF NamesLead
<1> QED
  BY <1>4, <1>5, <1>7, <1>8, <1>9, <1>10 DEF LibInv, Consistent

LEMMA LibNext ==
  ASSUME LibInv, [Next]_vars
  PROVE  LibInv'
<1> SUFFICES ASSUME ~db'.disturbed
             PROVE  Consistent(db') /\ NamesLead(db')
  BY DEF LibInv
<1>1. CASE UNCHANGED vars
  <2>1. db' = db
    BY <1>1 DEF vars
  <2> QED
    BY <2>1 DEF LibInv
<1>2. CASE Next
  <2>1. Consistent(db) /\ NamesLead(db)
    BY <1>2 DEF Next, LibInv
  <2>2. Call
    BY <1>2 DEF Next
  <2>3. CASE \E n \in Names, has \in Files, t \in Techs : Register(n, t, has)
    BY <2>1, <2>3, RegisterStep
  <2>4. CASE \E n \in Names, has \in Files, L \in Libs : Refresh(L, n, has)
    BY <2>1, <2>4, RefreshStep
  <2>5. CASE \E L \in Libs : Delete(L)
    BY <2>1, <2>5, DeleteStep
  <2>6. CASE \E L \in Libs, n \in Names : Rename(L, n)
    BY <2>1, <2>6, RenameStep
  <2>7. CASE \E v \in Views, n \in Names, cn \in CellNames : CreateProxy(v, n, cn)
    BY <2>1, <2>7, CreateProxyStep
  <2>8. CASE \E c \in Alive(db) : DeleteCell(c)
    BY <2>1, <2>8, DeleteCellStep
  <2>9. CASE \E c \in Alive(db) : InsertCell(c)
    BY <2>1, <2>9, InsertCellStep
  <2>10. CASE \E v \in Views : ClearHistory(v)
    BY <2>1, <2>10, ClearHistoryStep
  <2>11. CASE \E v \in Views, t \in Techs : SetTechnologyName(v, t)
    BY <2>1, <2>11, SetTechnologyNameStep
  <2> QED
    BY <2>2, <2>3, <2>4, <2>5, <2>6, <2>7, <2>8, <2>9, <2>10, <2>11 DEF Call
<1> QED
  BY <1>1, <1>2

LEMMA LibInvAlways ==
  Spec => []LibInv
<1>1. Init => LibInv
  BY LibInit
<1>2. LibInv /\ [Next]_vars => LibInv'
  BY LibNext
<1> QED
  BY <1>1, <1>2, PTL DEF Spec

LEMMA LibResolves ==
  ASSUME LibInv
  PROVE  ProxiesResolve
<1> SUFFICES ASSUME NEW c \in At(db, "layout"), ~db.disturbed, db.proxies[c].id # 0
             PROVE  /\ Owner(db, c) # NoLib
                    /\ db.proxies[c].index \in DOMAIN db.lib[Owner(db, c)].cells
                    /\ db.lib[Owner(db, c)].cells[db.proxies[c].index] = db.proxies[c].cell_name
  BY DEF ProxiesResolve
<1>1. db \in Database /\ Resolves(db, Alive(db))
  BY DEF LibInv, Consistent
<1>2. c \in Alive(db)
  BY DEF At
<1>3. /\ Owner(db, c) \in Libs
      /\ db.proxies[c].index \in 1..Len(db.lib[Owner(db, c)].cells)
      /\ db.lib[Owner(db, c)].cells[db.proxies[c].index] = db.proxies[c].cell_name
  BY <1>1, <1>2 DEF Resolves
<1>4. DOMAIN db.lib[Owner(db, c)].cells = 1..Len(db.lib[Owner(db, c)].cells)
  BY <1>1, <1>3, LibraryTypes
<1> QED
  BY <1>3, <1>4, LibrariesAssumption

LEMMA LibCounts ==
  ASSUME LibInv
  PROVE  CountsExact
<1> SUFFICES ASSUME NEW L \in Registered(db), ~db.disturbed
             PROVE  LET D == Counted(db, L, Alive(db))
                    IN /\ \A v \in Views : db.lib[L].m_referrers[v] = InView(db, D, v)
                       /\ \A i \in DOMAIN db.lib[L].cells :
                            /\ db.lib[L].m_refcount[i] = AtIndex(db, D, i)
                            /\ db.lib[L].cells[i] \in PCells => db.lib[L].m_refcount[i] > 0
  BY DEF CountsExact
<1>1. db \in Database /\ Counts(db, Alive(db)) /\ Needed(db)
  BY DEF LibInv, Consistent
<1>2. L \in Libs
  BY <1>1, OwnerTypes
<1>3. DOMAIN db.lib[L].cells = 1..Len(db.lib[L].cells)
  BY <1>1, <1>2, LibraryTypes
<1>4. \A v \in Views : db.lib[L].m_referrers[v] = InView(db, Counted(db, L, Alive(db)), v)
  BY <1>1, <1>2, CountedCells DEF Counts
<1>5. \A i \in 1..Len(db.lib[L].cells) :
        /\ db.lib[L].m_refcount[i] = AtIndex(db, Counted(db, L, Alive(db)), i)
        /\ db.lib[L].cells[i] \in PCells => db.lib[L].m_refcount[i] > 0
  BY <1>1, <1>2, CountedCells DEF Counts, Needed
<1> QED
  BY <1>3, <1>4, <1>5

(* While no held proxy was cut off, each one in a layout leads to the cell *)
(* of its name in a registered library, through any sequence of loading,   *)
(* replacing, renaming, refreshing and deleting libraries and exchanging   *)
(* them with the technology.                                               *)
THEOREM ProxiesResolveCorrect == Spec => []ProxiesResolve
<1>1. LibInv => ProxiesResolve
  BY LibResolves
<1> QED
  BY <1>1, LibInvAlways, PTL

(* A library counts just the proxies that lead to it, those in an undo     *)
(* history included, and holds just the variants that they need.           *)
THEOREM CountsExactCorrect == Spec => []CountsExact
<1>1. LibInv => CountsExact
  BY LibCounts
<1> QED
  BY <1>1, LibInvAlways, PTL

(* Of the technologies nothing more is needed than that they are some.     *)
TechTypes == m_tech_name \in [Views -> Techs]

LEMMA TechTypesAlways ==
  Spec => []TechTypes
<1>1. Init => TechTypes
  BY LibrariesAssumption DEF Init, TechTypes
<1>2. TechTypes /\ [Next]_vars => TechTypes'
  <2> SUFFICES ASSUME TechTypes, [Next]_vars
               PROVE  TechTypes'
    OBVIOUS
  <2>1. CASE m_tech_name' = m_tech_name
    BY <2>1 DEF TechTypes
  <2>2. CASE \E v \in Views, t \in Techs : SetTechnologyName(v, t)
    BY <2>2 DEF TechTypes, SetTechnologyName
  <2> QED
    BY <2>1, <2>2 DEF Next, Call, vars, Register, Refresh, Delete, Rename, CreateProxy, DeleteCell,
                      InsertCell, ClearHistory
<1> QED
  BY <1>1, <1>2, PTL DEF Spec

LEMMA StepLeavesNone ==
  ASSUME LibInv, TechTypes, Next
  PROVE  LeavesNone
<1>1. Consistent(db) /\ NamesLead(db) /\ Call
  BY DEF LibInv, Next
<1>2. db \in Database
  BY <1>1 DEF Consistent
<1>3. CASE \E n \in Names, has \in Files, t \in Techs : Register(n, t, has)
  BY <1>1, <1>3, RegisterLeavesNone
<1>4. CASE \E n \in Names, has \in Files, L \in Libs : Refresh(L, n, has)
  BY <1>2, <1>4, RefreshLeavesNone
<1>5. CASE \E L \in Libs : Delete(L)
  <2>1. Keeps(db, db') /\ UNCHANGED m_tech_name
    BY <1>5, UnregisterLibKeeps DEF Delete
  <2> QED
    BY <1>2, <2>1, KeepsLeaves
<1>6. CASE \E L \in Libs, n \in Names : Rename(L, n)
  <2>1. PICK L, n, old, s : /\ Rename(L, n) /\ old = LibByName(db, n, db.lib[L].tech)
                            /\ s = IF old \in {NoLib, L} THEN db ELSE DeleteLib(db, old)
    BY <1>6
  <2>2. Keeps(db, s) /\ Keeps(s, db')
    BY <2>1, RenameKeeps
  <2>3. Keeps(db, db') /\ UNCHANGED m_tech_name
    BY <2>1, <2>2, KeepsTransitive DEF Rename
  <2> QED
    BY <1>2, <2>3, KeepsLeaves
<1>7. CASE \E v \in Views, n \in Names, cn \in CellNames : CreateProxy(v, n, cn)
  <2>1. PICK v, n, cn : CreateProxy(v, n, cn)
    BY <1>7
  <2>2. Keeps(db, db')
    BY <2>1, CreateProxyKeeps
  <2>3. m_tech_name' = m_tech_name
    BY <2>1 DEF CreateProxy
  <2> QED
    BY <1>2, <2>2, <2>3, KeepsLeaves
<1>8. CASE \E c \in Alive(db) : DeleteCell(c) \/ InsertCell(c)
  <2>1. PICK c : DeleteCell(c) \/ InsertCell(c)
    BY <1>8
  <2>2. PICK place : db' = [db EXCEPT !.proxies[c].place = place] \/ db' = Destroy(db, {c})
    BY <2>1 DEF DeleteCell, InsertCell, TakeCell
  <2>3. Keeps(db, db')
    <3>1. CASE db' = [db EXCEPT !.proxies[c].place = place]
      BY <3>1, PlaceKeeps
    <3>2. CASE db' = Destroy(db, {c})
      BY <3>2, DestroyKeeps
    <3> QED
      BY <2>2, <3>1, <3>2
  <2>4. m_tech_name' = m_tech_name
    BY <2>1 DEF DeleteCell, InsertCell
  <2> QED
    BY <1>2, <2>3, <2>4, KeepsLeaves
<1>9. CASE \E v \in Views : ClearHistory(v)
  <2>1. PICK held : db' = Destroy(db, held) /\ m_tech_name' = m_tech_name
    BY <1>9 DEF ClearHistory
  <2>2. Keeps(db, db')
    BY <2>1, DestroyKeeps
  <2> QED
    BY <1>2, <2>1, <2>2, KeepsLeaves
<1>10. CASE \E v \in Views, t \in Techs : SetTechnologyName(v, t)
  BY <1>1, <1>10, TechnologyLeavesNone DEF TechTypes
<1> QED
  BY <1>1, <1>3, <1>4, <1>5, <1>6, <1>7, <1>8, <1>9, <1>10 DEF Call

(* When a library has come or the technology of a layout has changed, no   *)
(* cold proxy in a layout is left that the library could restore, even if  *)
(* the library it replaced was one that the history refers to.             *)
THEOREM NoneLeftColdCorrect == Spec => NoneLeftCold
<1>1. LibInv /\ TechTypes /\ [Next]_vars =>
        [\A L \in Libs, v \in Views :
           L \in Registered(db)' \ Registered(db) \/ m_tech_name'[v] # m_tech_name[v] =>
             \A c \in At(db', "layout") : db'.proxies[c].view = v /\ db'.proxies[c].id = 0 =>
               L \notin Restorable(db', c, m_tech_name'[v])]_vars
  BY StepLeavesNone DEF LeavesNone
<1> QED
  BY <1>1, LibInvAlways, TechTypesAlways, PTL DEF Spec, NoneLeftCold

(* As long as no library went that the history refers to, the database has *)
(* its types, and each name leads to a registered library that has it.     *)
THEOREM TypesCorrect == Spec => [](~db.disturbed => TypeOK)
<1>1. LibInv /\ TechTypes => (~db.disturbed => TypeOK)
  BY LibrariesAssumption DEF LibInv, TechTypes, TypeOK, Consistent, NamesLead
<1> QED
  BY <1>1, LibInvAlways, TechTypesAlways, PTL
=============================================================================

-------------------------- MODULE LayoutFilesProofs --------------------------
(***************************************************************************)
(* Proofs about LayoutFiles and the FileSystemWatcher in it, for all       *)
(* numbers of files, views, writes and calls and every size of a batch.    *)
(***************************************************************************)
EXTENDS LayoutFiles, SelectionProofs

-----------------------------------------------------------------------------
(* The members of the watcher, with n writes so far.                       *)

Members(w, n) ==
  /\ DOMAIN w = {"m_files", "m_files_removed", "m_iter"}
  /\ DOMAIN w.m_files \subseteq Files
  /\ w.m_files \in [DOMAIN w.m_files -> [refcount : Nat \ {0}, stamp : 1..n]]
  /\ w.m_files_removed \subseteq Files
  /\ w.m_iter \in DOMAIN w.m_files \union {End}

LEMMA MinFits ==
  ASSUME NEW T \in SUBSET Nat, T # {}
  PROVE Min(T) \in T
  <1>1. \E x \in T : \A y \in T : x <= y
    BY NatMin
  <1> QED
    BY <1>1 DEF Min

LEMMA IterFits ==
  ASSUME NEW files, DOMAIN files \subseteq Files
  PROVE /\ First(files) \in DOMAIN files \union {End}
        /\ \A f : After(files, f) \in DOMAIN files \union {End}
  <1>1. End \in Nat /\ Files \in SUBSET Nat
    BY WatcherAssumption DEF End, Files
  <1>2. First(files) \in DOMAIN files \union {End}
    BY <1>1, MinFits DEF First
  <1>3. ASSUME NEW f PROVE After(files, f) \in DOMAIN files \union {End}
    <2> DEFINE T == {g \in DOMAIN files : g > f} \union {End}
    <2>1. T \in SUBSET Nat /\ T # {}
      BY <1>1
    <2>2. Min(T) \in T
      BY <2>1, MinFits
    <2> QED
      BY <2>2 DEF After
  <1> QED
    BY <1>2, <1>3

LEMMA UsersType ==
  ASSUME NEW w, NEW n, Members(w, n), NEW f
  PROVE Users(w, f) \in Nat
  BY DEF Members, Users

(* Entries are replaced and the iterator starts over.                      *)
LEMMA RewoundFits ==
  ASSUME NEW w, NEW n, Members(w, n), NEW f, NEW files, DOMAIN files \subseteq Files,
         files \in [DOMAIN files -> [refcount : Nat \ {0}, stamp : 1..n]]
  PROVE /\ Members(Rewound(Forgotten(w, f), files), n)
        /\ Rewound(Forgotten(w, f), files).m_files = files
        /\ Members(Forgotten(w, f), n) /\ Forgotten(w, f).m_files = w.m_files
  <1> DEFINE v == Forgotten(w, f)
             u == Rewound(v, files)
  <1>1. /\ DOMAIN v = DOMAIN w /\ v.m_files = w.m_files /\ v.m_iter = w.m_iter
        /\ v.m_files_removed = w.m_files_removed \ {f}
    BY DEF Members, Forgotten
  <1>2. /\ DOMAIN u = DOMAIN v /\ u.m_files = files /\ u.m_iter = First(files)
        /\ u.m_files_removed = v.m_files_removed
    <2> HIDE DEF v
    <2>1. DOMAIN v = {"m_files", "m_files_removed", "m_iter"}
      BY <1>1 DEF Members
    <2> QED
      BY <2>1 DEF Rewound
  <1> HIDE DEF v, u
  <1>3. Members(v, n)
    BY <1>1 DEF Members
  <1>4. Members(u, n)
    BY <1>1, <1>2, IterFits DEF Members
  <1> QED
    BY <1>1, <1>2, <1>3, <1>4 DEF v, u

LEMMA AddFits ==
  ASSUME NEW w, NEW n \in Nat, Members(w, n), NEW f \in Files, disk[f] \in 0..n
  PROVE /\ Members(AddFile(w, f), n)
        /\ \A g \in Files : Users(AddFile(w, f), g) = Users(w, g) + IF g = f /\ disk[f] # Missing THEN 1 ELSE 0
  <1>1. CASE disk[f] = Missing
    <2>1. AddFile(w, f) = Forgotten(w, f)
      BY <1>1 DEF AddFile
    <2>2. DOMAIN w.m_files \subseteq Files /\ w.m_files \in [DOMAIN w.m_files -> [refcount : Nat \ {0}, stamp : 1..n]]
      BY DEF Members
    <2>3. Members(Forgotten(w, f), n) /\ Forgotten(w, f).m_files = w.m_files
      BY <2>2, RewoundFits
    <2> QED
      BY <1>1, <2>1, <2>3, UsersType DEF Users
  <1>2. CASE disk[f] # Missing
    <2> DEFINE entry == [refcount |-> Users(w, f) + 1, stamp |-> disk[f]]
               files == [g \in DOMAIN w.m_files \union {f} |-> IF g = f THEN entry ELSE w.m_files[g]]
    <2>1. AddFile(w, f) = Rewound(Forgotten(w, f), files)
      BY <1>2 DEF AddFile
    <2>2. entry \in [refcount : Nat \ {0}, stamp : 1..n]
      BY <1>2, UsersType DEF Missing
    <2>3. DOMAIN files = DOMAIN w.m_files \union {f} /\ DOMAIN files \subseteq Files
      BY DEF Members
    <2>4. files \in [DOMAIN files -> [refcount : Nat \ {0}, stamp : 1..n]]
      <3> HIDE DEF entry
      <3> QED
        BY <2>2, <2>3 DEF Members
    <2>5. \A g \in DOMAIN files : files[g] = IF g = f THEN entry ELSE w.m_files[g]
      OBVIOUS
    <2> HIDE DEF files
    <2>6. Members(AddFile(w, f), n) /\ AddFile(w, f).m_files = files
      BY <2>1, <2>3, <2>4, RewoundFits
    <2>7. ASSUME NEW g \in Files PROVE Users(AddFile(w, f), g) = Users(w, g) + IF g = f THEN 1 ELSE 0
      <3>1. Users(AddFile(w, f), g) = IF g \in DOMAIN files THEN files[g].refcount ELSE 0
        BY <2>6 DEF Users
      <3>2. CASE g = f
        BY <3>1, <3>2, <2>3, <2>5
      <3>3. CASE g # f
        <4>1. Users(AddFile(w, f), g) = IF g \in DOMAIN w.m_files THEN w.m_files[g].refcount ELSE 0
          BY <3>1, <3>3, <2>3, <2>5
        <4> QED
          BY <4>1, <3>3, UsersType DEF Users
      <3> QED
        BY <3>2, <3>3
    <2> QED
      BY <1>2, <2>6, <2>7
  <1> QED
    BY <1>1, <1>2

LEMMA RemoveFits ==
  ASSUME NEW w, NEW n \in Nat, Members(w, n), NEW f \in Files
  PROVE /\ Members(RemoveFile(w, f), n)
        /\ \A g \in Files : Users(RemoveFile(w, f), g) = Users(w, g) - IF g = f /\ Users(w, f) > 0 THEN 1 ELSE 0
  <1>1. DOMAIN w.m_files \subseteq Files /\ w.m_files \in [DOMAIN w.m_files -> [refcount : Nat \ {0}, stamp : 1..n]]
    BY DEF Members
  <1>2. Members(Forgotten(w, f), n) /\ Forgotten(w, f).m_files = w.m_files
    BY <1>1, RewoundFits
  <1>3. CASE f \notin DOMAIN w.m_files
    <2>1. RemoveFile(w, f) = Forgotten(w, f) /\ Users(w, f) = 0
      BY <1>3 DEF RemoveFile, Users
    <2> QED
      BY <2>1, <1>2, UsersType DEF Users
  <1>4. CASE f \in DOMAIN w.m_files /\ w.m_files[f].refcount > 1
    <2> DEFINE v == Forgotten(w, f)
               files == [w.m_files EXCEPT ![f].refcount = @ - 1]
    <2>1. RemoveFile(w, f) = [v EXCEPT !.m_files[f].refcount = @ - 1]
      BY <1>4 DEF RemoveFile
    <2>2. DOMAIN v = {"m_files", "m_files_removed", "m_iter"} /\ v.m_files = w.m_files
      BY <1>2 DEF Members
    <2> HIDE DEF v
    <2>3. LET u == [v EXCEPT !.m_files[f].refcount = @ - 1]
          IN /\ DOMAIN u = DOMAIN v /\ u.m_files = files
             /\ u.m_files_removed = v.m_files_removed /\ u.m_iter = v.m_iter
      BY <2>2
    <2>0. /\ DOMAIN RemoveFile(w, f) = DOMAIN v /\ RemoveFile(w, f).m_files = files
          /\ RemoveFile(w, f).m_files_removed = v.m_files_removed /\ RemoveFile(w, f).m_iter = v.m_iter
      <3> HIDE DEF files
      <3> QED
        BY <2>1, <2>3
    <2>4. DOMAIN files = DOMAIN w.m_files /\ files \in [DOMAIN files -> [refcount : Nat \ {0}, stamp : 1..n]]
      BY <1>1, <1>4
    <2>5. \A g \in DOMAIN files : files[g].refcount = w.m_files[g].refcount - IF g = f THEN 1 ELSE 0
      BY <1>1, <1>4
    <2> HIDE DEF files
    <2>6. Members(RemoveFile(w, f), n)
      BY <1>2, <2>0, <2>4 DEF Members, v
    <2>7. ASSUME NEW g \in Files PROVE Users(RemoveFile(w, f), g) = Users(w, g) - IF g = f THEN 1 ELSE 0
      BY <2>0, <2>4, <2>5, <1>4, UsersType DEF Users
    <2>8. Users(w, f) > 0
      BY <1>1, <1>4 DEF Users
    <2> QED
      BY <2>6, <2>7, <2>8
  <1>5. CASE f \in DOMAIN w.m_files /\ ~(w.m_files[f].refcount > 1)
    <2> DEFINE files == Restrict(w.m_files, DOMAIN w.m_files \ {f})
    <2>1. RemoveFile(w, f) = Rewound(Forgotten(w, f), files)
      BY <1>5 DEF RemoveFile
    <2>2. DOMAIN files = DOMAIN w.m_files \ {f} /\ \A g \in DOMAIN files : files[g] = w.m_files[g]
      BY DEF Restrict
    <2>3. DOMAIN files \subseteq Files /\ files \in [DOMAIN files -> [refcount : Nat \ {0}, stamp : 1..n]]
      BY <1>1 DEF Restrict
    <2> HIDE DEF files
    <2>4. Members(RemoveFile(w, f), n) /\ RemoveFile(w, f).m_files = files
      BY <2>1, <2>3, RewoundFits
    <2>5. Users(w, f) = 1
      BY <1>1, <1>5 DEF Users
    <2>6. ASSUME NEW g \in Files PROVE Users(RemoveFile(w, f), g) = Users(w, g) - IF g = f THEN 1 ELSE 0
      <3>1. CASE g = f
        BY <3>1, <2>2, <2>4, <2>5 DEF Users
      <3>2. CASE g # f
        BY <3>2, <2>2, <2>4, UsersType DEF Users
      <3> QED
        BY <3>1, <3>2
    <2> QED
      BY <2>4, <2>5, <2>6
  <1> QED
    BY <1>3, <1>4, <1>5

-----------------------------------------------------------------------------
(* Views and the handles they have.                                        *)

Phases ==
  \A v \in Views :
    /\ view[v].file = NoFile <=> In(v, {"closed"})
    /\ view[v].handles = IF In(v, {"closed"}) THEN 0 ELSE IF In(v, {"reloading"}) THEN 3 ELSE 1

(* What a save keeps as a backup was written once.                         *)
Backups == \A v \in Views : view[v].backup \in 0..writes

Types == TypeOK /\ Members(watch, writes) /\ Phases /\ Backups

Holds(c, f) == IF c.file = f /\ c.phase \notin {"saving", "saved"} THEN c.handles ELSE 0

(* The count is right, as far as it is known to be, and of a finite set.   *)
Counted ==
  \A f \in Files : /\ IsFiniteSet(HandlesOn(f)) /\ Users(watch, f) <= Cardinality(HandlesOn(f))
                   /\ f \notin vanished => Users(watch, f) = Cardinality(HandlesOn(f))

(* The handles the views vw have on f, and those of all views but v.       *)
HandlesIn(vw, f) == {h \in Views \X (1..3) : h[2] <= Holds(vw[h[1]], f)}
OtherHandles(vw, v, f) == {h \in HandlesIn(vw, f) : h[1] # v}

LEMMA HandlesSame ==
  ASSUME NEW f, view \in [Views -> View]
  PROVE HandlesOn(f) = HandlesIn(view, f)
  BY DEF HandlesOn, HandlesIn, Holds, In, View

LEMMA HandlesSamePrimed ==
  ASSUME NEW f, view' \in [Views -> View]
  PROVE HandlesOn(f)' = HandlesIn(view', f)
  BY DEF HandlesOn, HandlesIn, Holds, In, View

LEMMA HoldsType ==
  ASSUME NEW c \in View, NEW f
  PROVE Holds(c, f) \in 0..3
  BY DEF Holds, View

LEMMA TakesOne ==
  ASSUME NEW S, NEW x, IsFiniteSet(S), x \notin S
  PROVE IsFiniteSet(S \cup {x}) /\ Cardinality(S \cup {x}) = Cardinality(S) + 1
  BY FS_AddElement

(* The handles of one view come on top of those of the others.             *)
LEMMA HandlesOfOne ==
  ASSUME NEW vw \in [Views -> View], NEW v \in Views, NEW f, IsFiniteSet(OtherHandles(vw, v, f))
  PROVE /\ IsFiniteSet(HandlesIn(vw, f))
        /\ Cardinality(HandlesIn(vw, f)) = Cardinality(OtherHandles(vw, v, f)) + Holds(vw[v], f)
  <1> DEFINE O == OtherHandles(vw, v, f)
             H == HandlesIn(vw, f)
             n == Holds(vw[v], f)
             S(k) == O \cup {<<v, i>> : i \in 1..k}
  <1>1. n \in 0..3
    BY HoldsType
  <1>2. \A h \in Views \X (1..3) : \E u \in Views, i \in 1..3 : h = <<u, i>>
    OBVIOUS
  <1>3. \A h \in O : h[1] # v
    BY DEF OtherHandles
  <1>4. H = S(n)
    <2>1. ASSUME NEW u \in Views, NEW i \in 1..3 PROVE <<u, i>> \in H <=> <<u, i>> \in S(n)
      <3>1. <<u, i>> \in H <=> i <= Holds(vw[u], f)
        BY DEF HandlesIn
      <3>2. <<u, i>> \in O <=> <<u, i>> \in H /\ u # v
        BY DEF OtherHandles
      <3>3. <<u, i>> \in {<<v, j>> : j \in 1..n} <=> u = v /\ i <= n
        BY <1>1
      <3> HIDE DEF n, O, H
      <3> QED
        BY <3>1, <3>2, <3>3 DEF n
    <2>2. H \subseteq Views \X (1..3)
      BY DEF HandlesIn
    <2>3. S(n) \subseteq Views \X (1..3)
      BY <1>1, <2>2 DEF OtherHandles
    <2> HIDE DEF H, S, n
    <2>4. ASSUME NEW h \in Views \X (1..3) PROVE h \in H <=> h \in S(n)
      <3>1. PICK u \in Views, i \in 1..3 : h = <<u, i>>
        BY <1>2
      <3> QED
        BY <2>1, <3>1
    <2> QED
      BY <2>2, <2>3, <2>4
  <1>5. S(0) = O
    OBVIOUS
  <1>6. \A k \in 0..2 : S(k + 1) = S(k) \cup {<<v, k + 1>>}
    <2> SUFFICES ASSUME NEW k \in 0..2 PROVE S(k + 1) = S(k) \cup {<<v, k + 1>>}
      OBVIOUS
    <2>1. 1..(k + 1) = (1..k) \cup {k + 1}
      OBVIOUS
    <2> QED
      BY <2>1
  <1>7. \A k \in 0..2 : <<v, k + 1>> \notin S(k)
    BY <1>3
  <1> HIDE DEF S, H, n, O
  <1>8. IsFiniteSet(S(0)) /\ Cardinality(S(0)) = Cardinality(O) + 0 /\ Cardinality(O) \in Nat
    BY <1>5, FS_CardinalityType DEF O
  <1>9. IsFiniteSet(S(1)) /\ Cardinality(S(1)) = Cardinality(O) + 1
    <2>1. S(1) = S(0) \cup {<<v, 1>>} /\ <<v, 1>> \notin S(0)
      BY <1>6, <1>7
    <2>2. IsFiniteSet(S(1)) /\ Cardinality(S(1)) = Cardinality(S(0)) + 1
      BY <1>8, <2>1, TakesOne
    <2> QED
      BY <1>8, <2>2
  <1>10. IsFiniteSet(S(2)) /\ Cardinality(S(2)) = Cardinality(O) + 2
    <2>1. S(2) = S(1) \cup {<<v, 2>>} /\ <<v, 2>> \notin S(1)
      BY <1>6, <1>7
    <2>2. IsFiniteSet(S(2)) /\ Cardinality(S(2)) = Cardinality(S(1)) + 1
      BY <1>9, <2>1, TakesOne
    <2> QED
      BY <1>8, <1>9, <2>2
  <1>11. IsFiniteSet(S(3)) /\ Cardinality(S(3)) = Cardinality(O) + 3
    <2>1. S(3) = S(2) \cup {<<v, 3>>} /\ <<v, 3>> \notin S(2)
      BY <1>6, <1>7
    <2>2. IsFiniteSet(S(3)) /\ Cardinality(S(3)) = Cardinality(S(2)) + 1
      BY <1>10, <2>1, TakesOne
    <2> QED
      BY <1>8, <1>10, <2>2
  <1>12. n = 0 \/ n = 1 \/ n = 2 \/ n = 3
    BY <1>1
  <1>13. IsFiniteSet(H) /\ Cardinality(H) = Cardinality(O) + n
    BY <1>4, <1>8, <1>9, <1>10, <1>11, <1>12
  <1> QED
    BY <1>13 DEF O, H, n

LEMMA HandlesOfOthers ==
  ASSUME NEW vw \in [Views -> View], NEW v \in Views, NEW f, IsFiniteSet(HandlesIn(vw, f))
  PROVE /\ IsFiniteSet(OtherHandles(vw, v, f))
        /\ Cardinality(OtherHandles(vw, v, f)) \in Nat
        /\ Cardinality(HandlesIn(vw, f)) = Cardinality(OtherHandles(vw, v, f)) + Holds(vw[v], f)
  <1>1. OtherHandles(vw, v, f) \in SUBSET HandlesIn(vw, f)
    BY DEF OtherHandles
  <1>2. IsFiniteSet(OtherHandles(vw, v, f))
    BY <1>1, FS_Subset
  <1> QED
    BY <1>2, HandlesOfOne, FS_CardinalityType

LEMMA HoldsSome ==
  ASSUME view \in [Views -> View], NEW v \in Views, NEW f, IsFiniteSet(HandlesOn(f))
  PROVE Cardinality(HandlesOn(f)) \in Nat /\ Holds(view[v], f) <= Cardinality(HandlesOn(f))
  <1>1. HandlesOn(f) = HandlesIn(view, f)
    BY HandlesSame
  <1>2. /\ Cardinality(OtherHandles(view, v, f)) \in Nat
        /\ Cardinality(HandlesIn(view, f)) = Cardinality(OtherHandles(view, v, f)) + Holds(view[v], f)
    BY <1>1, HandlesOfOthers
  <1>3. Holds(view[v], f) \in 0..3
    BY HoldsType
  <1> QED
    BY <1>1, <1>2, <1>3

(* One view opens or drops handles on the file.                            *)
LEMMA HandlesChange ==
  ASSUME view \in [Views -> View], view' \in [Views -> View], NEW v \in Views, NEW f,
         IsFiniteSet(HandlesOn(f)),
         \A u \in Views \ {v} : Holds(view'[u], f) = Holds(view[u], f)
  PROVE /\ IsFiniteSet(HandlesOn(f)')
        /\ Cardinality(HandlesOn(f)') = Cardinality(HandlesOn(f)) + Holds(view'[v], f) - Holds(view[v], f)
  <1>1. HandlesOn(f) = HandlesIn(view, f) /\ HandlesOn(f)' = HandlesIn(view', f)
    BY HandlesSame, HandlesSamePrimed
  <1>2. OtherHandles(view', v, f) = OtherHandles(view, v, f)
    BY DEF OtherHandles, HandlesIn
  <1>3. /\ IsFiniteSet(OtherHandles(view, v, f)) /\ Cardinality(OtherHandles(view, v, f)) \in Nat
        /\ Cardinality(HandlesIn(view, f)) = Cardinality(OtherHandles(view, v, f)) + Holds(view[v], f)
    BY <1>1, HandlesOfOthers
  <1>4. /\ IsFiniteSet(HandlesIn(view', f))
        /\ Cardinality(HandlesIn(view', f)) = Cardinality(OtherHandles(view', v, f)) + Holds(view'[v], f)
    <2> DEFINE vw == view'
    <2>1. vw \in [Views -> View] /\ IsFiniteSet(OtherHandles(vw, v, f))
      BY <1>2, <1>3
    <2> HIDE DEF vw
    <2>2. /\ IsFiniteSet(HandlesIn(vw, f))
          /\ Cardinality(HandlesIn(vw, f)) = Cardinality(OtherHandles(vw, v, f)) + Holds(vw[v], f)
      BY <2>1, HandlesOfOne
    <2> QED
      BY <2>2 DEF vw
  <1>5. Holds(view[v], f) \in 0..3 /\ Holds(view'[v], f) \in 0..3
    BY HoldsType
  <1> QED
    BY <1>1, <1>2, <1>3, <1>4, <1>5

(* What has to be shown of a step that changes view v and the count of f.  *)
LEMMA Recounted ==
  ASSUME Types, Counted, view' \in [Views -> View], NEW v \in Views, NEW f \in Files,
         \A u \in Views \ {v} : view'[u] = view[u],
         \A g \in Files \ {f} : Holds(view'[v], g) = Holds(view[v], g) /\ Users(watch', g) = Users(watch, g),
         \A g \in vanished : g \in vanished' \/ \A u \in Views : view'[u].file # g,
         Holds(view'[v], f) - Holds(view[v], f) \in Int,
         NEW c, c = Cardinality(HandlesOn(f)) + Holds(view'[v], f) - Holds(view[v], f),
         Users(watch', f) \in Nat, Users(watch', f) <= c,
         f \notin vanished /\ f \notin vanished' => Users(watch', f) = c
  PROVE Counted'
  <1> SUFFICES ASSUME NEW g \in Files
               PROVE /\ IsFiniteSet(HandlesOn(g)') /\ Users(watch', g) <= Cardinality(HandlesOn(g)')
                     /\ g \notin vanished' => Users(watch', g) = Cardinality(HandlesOn(g)')
    BY DEF Counted
  <1>1. view \in [Views -> View]
    BY DEF Types, TypeOK
  <1>2. /\ IsFiniteSet(HandlesOn(g)) /\ Users(watch, g) <= Cardinality(HandlesOn(g))
        /\ g \notin vanished => Users(watch, g) = Cardinality(HandlesOn(g))
    BY DEF Counted
  <1>3. Holds(view'[v], g) \in Int /\ Holds(view[v], g) \in Int
    BY <1>1, HoldsType
  <1>5. /\ IsFiniteSet(HandlesOn(g)')
        /\ Cardinality(HandlesOn(g)') = Cardinality(HandlesOn(g)) + Holds(view'[v], g) - Holds(view[v], g)
    BY <1>1, <1>2, HandlesChange
  <1>6. Cardinality(HandlesOn(g)) \in Nat /\ Cardinality(HandlesOn(g)') \in Nat /\ Users(watch, g) \in Nat
    <2>1. Cardinality(HandlesOn(g)) \in Nat
      BY <1>2, FS_CardinalityType
    <2>2. Cardinality(HandlesOn(g)') \in Nat
      BY <1>5, FS_CardinalityType
    <2> QED
      BY <2>1, <2>2, UsersType DEF Types
  <1>7. Users(watch', g) \in Nat /\ Users(watch', g) <= Cardinality(HandlesOn(g)')
    <2>1. CASE g = f
      BY <1>5, <2>1
    <2>2. CASE g # f
      BY <1>2, <1>3, <1>5, <1>6, <2>2
    <2> QED
      BY <2>1, <2>2
  <1>8. ASSUME g \notin vanished' PROVE Users(watch', g) = Cardinality(HandlesOn(g)')
    <2>1. CASE g \in vanished
      <3>1. \A u \in Views : view'[u].file # g
        BY <1>8, <2>1
      <3>2. HandlesOn(g)' = {}
        BY <3>1 DEF HandlesOn
      <3>3. Cardinality(HandlesOn(g)') = 0
        BY <3>2, FS_EmptySet
      <3> QED
        BY <3>3, <1>7
    <2>2. CASE g \notin vanished /\ g = f
      BY <1>5, <1>8, <2>2
    <2>3. CASE g \notin vanished /\ g # f
      BY <1>2, <1>3, <1>5, <1>6, <2>3
    <2> QED
      BY <2>1, <2>2, <2>3
  <1> QED
    BY <1>5, <1>7, <1>8

-----------------------------------------------------------------------------
(* The steps of a view.                                                    *)

(* A view may have the file and the handles its phase asks for.            *)
Fits(c) == /\ c \in View
           /\ c.file = NoFile <=> c.phase = "closed"
           /\ c.handles = IF c.phase = "closed" THEN 0 ELSE IF c.phase = "reloading" THEN 3 ELSE 1

LEMMA ViewFits ==
  ASSUME Types, NEW v \in Views
  PROVE Fits(view[v]) /\ view[v].backup \in 0..writes /\ (~In(v, {"closed"}) => view[v].file \in Files)
  <1>1. view[v] \in View
    BY DEF Types, TypeOK
  <1> QED
    BY <1>1 DEF Types, Phases, Backups, Fits, In, View

LEMMA ViewChanges ==
  ASSUME Types, NEW v \in Views, NEW c, Fits(c), view' = [view EXCEPT ![v] = c]
  PROVE /\ view' \in [Views -> View] /\ view'[v] = c /\ \A u \in Views \ {v} : view'[u] = view[u]
        /\ Phases'
  <1>1. view \in [Views -> View] /\ c \in View
    BY DEF Types, TypeOK, Fits
  <1>2. view' \in [Views -> View] /\ view'[v] = c /\ \A u \in Views \ {v} : view'[u] = view[u]
    BY <1>1
  <1>3. ASSUME NEW u \in Views
        PROVE /\ view'[u].file = NoFile <=> view'[u].phase \in {"closed"}
              /\ view'[u].handles = IF view'[u].phase \in {"closed"} THEN 0
                                    ELSE IF view'[u].phase \in {"reloading"} THEN 3 ELSE 1
    <2>1. CASE u = v
      BY <1>2, <2>1 DEF Fits
    <2>2. CASE u # v
      BY <1>2, <2>2 DEF Types, Phases, In
    <2> QED
      BY <2>1, <2>2
  <1>4. Phases'
    BY <1>3 DEF Phases, In
  <1> QED
    BY <1>2, <1>4

(* What is known of the history after add_file or the end of a use.        *)
LEMMA HistoryFits ==
  ASSUME Types, NEW v \in Views, NEW f \in Files, AddedAt(f) \/ Released(v)
  PROVE /\ overtaken' \subseteq Views /\ vanished' \subseteq Files
        /\ AddedAt(f) /\ disk[f] = Missing => f \in vanished'
        /\ \A g \in vanished : g \in vanished' \/ \A u \in Views : view'[u].file # g
  <1>1. overtaken \subseteq Views /\ vanished \subseteq Files
    BY DEF Types, TypeOK
  <1>2. CASE AddedAt(f)
    BY <1>1, <1>2 DEF AddedAt
  <1>3. CASE Released(v)
    BY <1>1, <1>3 DEF Released, AddedAt
  <1> QED
    BY <1>2, <1>3

LEMMA OneMoreCall == ASSUME Types, UserMay, calls' = calls + 1 PROVE calls' \in 0..MaxCalls
  BY ViewsAssumption DEF Types, TypeOK, UserMay

(* A step of view v that opens d handles on the file f, -1 to drop one, is *)
(* right if it changes the count alike, or leaves it too small and f is    *)
(* known to be vanished.                                                   *)
LEMMA ViewStep ==
  ASSUME Types, Counted, NEW v \in Views, NEW c, Fits(c), view' = [view EXCEPT ![v] = c],
         UNCHANGED <<tick, timer, s_global_enable, windowVars>>, calls' \in 0..MaxCalls,
         writes' \in Nat, disk' \in [Files -> 0..writes'], Members(watch', writes'),
         writes <= writes', c.backup \in 0..writes',
         overtaken' \subseteq Views, vanished' \subseteq Files,
         \A g \in vanished : g \in vanished' \/ \A u \in Views : view'[u].file # g,
         NEW f \in Files, NEW d \in {-2, -1, 0, 1, 2}, Holds(c, f) = Holds(view[v], f) + d,
         \A g \in Files \ {f} : Holds(c, g) = Holds(view[v], g) /\ Users(watch', g) = Users(watch, g),
         \A n \in Nat : Users(watch, f) <= n /\ Holds(view[v], f) <= n => Users(watch', f) <= n + d,
         f \notin vanished' /\ Holds(view[v], f) <= Users(watch, f) => Users(watch', f) = Users(watch, f) + d
  PROVE Types' /\ Counted'
  <1> DEFINE C == Cardinality(HandlesOn(f))
  <1>1. /\ view' \in [Views -> View] /\ view'[v] = c /\ \A u \in Views \ {v} : view'[u] = view[u]
        /\ Phases' /\ view \in [Views -> View]
    BY ViewChanges DEF Types, TypeOK
  <1>2. Types'
    <2>1. WatcherTypeOK'
      BY DEF Types, TypeOK, WatcherTypeOK, Members
    <2>2. Backups'
      <3>1. writes \in Nat /\ \A u \in Views : view[u].backup \in 0..writes
        BY DEF Types, TypeOK, WatcherTypeOK, Backups
      <3>2. ASSUME NEW u \in Views PROVE view'[u].backup \in 0..writes'
        BY <1>1, <3>1
      <3> QED
        BY <3>2 DEF Backups
    <2>3. Members(watch, writes)'
      BY DEF Members
    <2> QED
      BY <1>1, <2>1, <2>2, <2>3 DEF Types, TypeOK, windowVars
  <1>3. /\ Users(watch, f) \in Nat /\ Users(watch, f) <= C /\ (f \notin vanished => Users(watch, f) = C)
        /\ Users(watch', f) \in Nat
    BY UsersType DEF Types, Counted
  <1>4. C \in Nat /\ Holds(view[v], f) <= C
    BY <1>1, HoldsSome DEF Counted
  <1>5. Holds(view[v], f) \in Nat
    BY <1>1, HoldsType
  <1>6. Holds(view'[v], f) - Holds(view[v], f) \in Int /\ C + d = C + Holds(view'[v], f) - Holds(view[v], f)
    BY <1>1, <1>4, <1>5
  <1>7. Users(watch', f) <= C + d
    BY <1>3, <1>4
  <1>8. f \notin vanished /\ f \notin vanished' => Users(watch', f) = C + d
    BY <1>3, <1>4
  <1>9. \A g \in Files \ {f} : Holds(view'[v], g) = Holds(view[v], g) /\ Users(watch', g) = Users(watch, g)
    BY <1>1
  <1> HIDE DEF C
  <1>10. Counted'
    BY <1>1, <1>3, <1>6, <1>7, <1>8, <1>9, Recounted DEF C
  <1> QED
    BY <1>2, <1>10

(* The calls of the watcher a step of a view makes.                        *)
LEMMA WatchFits ==
  ASSUME Types
  PROVE writes \in Nat /\ disk \in [Files -> 0..writes] /\ Members(watch, writes)
  BY DEF Types, TypeOK, WatcherTypeOK

LEMMA AddCounts ==
  ASSUME Types, NEW w, Members(w, writes), NEW f \in Files
  PROVE /\ Members(AddFile(w, f), writes)
        /\ \A g \in Files : Users(w, g) \in Nat /\ Users(AddFile(w, f), g) \in Nat
        /\ \A g \in Files \ {f} : Users(AddFile(w, f), g) = Users(w, g)
        /\ disk[f] # Missing => Users(AddFile(w, f), f) = Users(w, f) + 1
        /\ disk[f] = Missing => Users(AddFile(w, f), f) = Users(w, f)
  <1>1. writes \in Nat /\ disk[f] \in 0..writes
    BY WatchFits
  <1>2. /\ Members(AddFile(w, f), writes)
        /\ \A g \in Files : Users(AddFile(w, f), g) = Users(w, g) + IF g = f /\ disk[f] # Missing THEN 1 ELSE 0
    BY <1>1, AddFits
  <1>3. \A g \in Files : Users(w, g) \in Nat /\ Users(AddFile(w, f), g) \in Nat
    BY <1>2, UsersType
  <1> QED
    BY <1>2, <1>3

LEMMA RemoveCounts ==
  ASSUME Types, NEW w, Members(w, writes), NEW f \in Files
  PROVE /\ Members(RemoveFile(w, f), writes)
        /\ \A g \in Files : Users(w, g) \in Nat /\ Users(RemoveFile(w, f), g) \in Nat
        /\ \A g \in Files \ {f} : Users(RemoveFile(w, f), g) = Users(w, g)
        /\ Users(w, f) > 0 => Users(RemoveFile(w, f), f) = Users(w, f) - 1
        /\ Users(w, f) = 0 => Users(RemoveFile(w, f), f) = 0
  <1>1. writes \in Nat
    BY WatchFits
  <1>2. /\ Members(RemoveFile(w, f), writes)
        /\ \A g \in Files : Users(RemoveFile(w, f), g) = Users(w, g) - IF g = f /\ Users(w, f) > 0 THEN 1 ELSE 0
    BY <1>1, RemoveFits
  <1>3. \A g \in Files : Users(w, g) \in Nat /\ Users(RemoveFile(w, f), g) \in Nat
    BY <1>2, UsersType
  <1> QED
    BY <1>2, <1>3

LEMMA LoadFits ==
  ASSUME Types, Counted, NEW v \in Views, NEW f \in Files, Load(v, f)
  PROVE Types' /\ Counted'
  <1> DEFINE c == [Closed EXCEPT !.phase = "loading", !.file = f, !.handles = 1]
  <1>1. /\ UserMay /\ In(v, {"closed"}) /\ calls' = calls + 1
        /\ view' = [view EXCEPT ![v] = c] /\ watch' = AddFile(watch, f) /\ AddedAt(f)
        /\ UNCHANGED <<disk, writes, tick, timer, s_global_enable, windowVars>>
    BY DEF Load
  <1>2. Fits(c) /\ c.file = f /\ c.phase = "loading" /\ c.handles = 1 /\ c.backup = Missing
    <2>1. Closed \in View
      BY DEF Closed, View, Missing
    <2>2. \A r \in View, n \in 0..3 :
            LET d == [r EXCEPT !.phase = "loading", !.file = f, !.handles = n]
            IN d \in View /\ d.file = f /\ d.phase = "loading" /\ d.handles = n /\ d.backup = r.backup
      BY DEF View
    <2>3. c \in View /\ c.file = f /\ c.phase = "loading" /\ c.handles = 1 /\ c.backup = Closed.backup
      <3>1. 1 \in 0..3
        OBVIOUS
      <3> QED
        BY <2>1, <2>2, <3>1, Zenon
    <2> HIDE DEF c
    <2> QED
      BY <2>3, ViewsAssumption DEF Fits, Closed
  <1> HIDE DEF c
  <1>3. \A g \in Files : Holds(view[v], g) = 0 /\ Holds(c, g) = IF g = f THEN 1 ELSE 0
    <2>1. Fits(view[v]) /\ view[v].phase = "closed"
      BY <1>1, ViewFits DEF In
    <2> QED
      BY <1>2, <2>1 DEF Fits, Holds
  <1>4. /\ overtaken' \subseteq Views /\ vanished' \subseteq Files
        /\ disk[f] = Missing => f \in vanished'
        /\ \A g \in vanished : g \in vanished' \/ \A u \in Views : view'[u].file # g
    BY <1>1, HistoryFits
  <1>5. /\ writes' \in Nat /\ disk' \in [Files -> 0..writes'] /\ Members(watch', writes')
        /\ writes <= writes' /\ c.backup \in 0..writes'
        /\ \A g \in Files : Users(watch, g) \in Nat
        /\ \A g \in Files \ {f} : Users(watch', g) = Users(watch, g)
        /\ disk[f] # Missing => Users(watch', f) = Users(watch, f) + 1
        /\ disk[f] = Missing => Users(watch', f) = Users(watch, f)
    <2>1. writes \in Nat /\ disk \in [Files -> 0..writes] /\ Members(watch, writes)
      BY WatchFits
    <2> QED
      BY <1>1, <1>2, <2>1, AddCounts DEF Missing
  <1>6. Holds(c, f) = Holds(view[v], f) + 1
    BY <1>3
  <1>7. \A g \in Files \ {f} : Holds(c, g) = Holds(view[v], g) /\ Users(watch', g) = Users(watch, g)
    BY <1>3, <1>5
  <1>8. /\ \A n \in Nat : Users(watch, f) <= n /\ Holds(view[v], f) <= n => Users(watch', f) <= n + 1
        /\ f \notin vanished' /\ Holds(view[v], f) <= Users(watch, f) => Users(watch', f) = Users(watch, f) + 1
    BY <1>4, <1>5
  <1>9. calls' \in 0..MaxCalls
    BY <1>1, OneMoreCall
  <1>10. 1 \in {-2, -1, 0, 1, 2}
    OBVIOUS
  <1>11. UNCHANGED <<tick, timer, s_global_enable, windowVars>>
    BY <1>1
  <1> QED
    BY <1>1, <1>2, <1>4, <1>5, <1>6, <1>7, <1>8, <1>9, <1>10, <1>11, ViewStep, ZenonT(60)

LEMMA ReloadFits ==
  ASSUME Types, Counted, NEW v \in Views, Reload(v)
  PROVE Types' /\ Counted'
  <1> DEFINE f == view[v].file
             c == [view[v] EXCEPT !.phase = "reloading", !.handles = 3, !.read = Missing,
                                  !.known = disk[f], !.notified = FALSE]
             w1 == AddFile(watch, f)
  <1>1. /\ UserMay /\ In(v, {"idle"}) /\ calls' = calls + 1
        /\ view' = [view EXCEPT ![v] = c] /\ watch' = AddFile(w1, f) /\ AddedAt(f)
        /\ UNCHANGED <<disk, writes>> /\ UNCHANGED <<tick, timer, s_global_enable, windowVars>>
    BY DEF Reload
  <1>2. Fits(view[v]) /\ view[v].backup \in 0..writes /\ f \in Files /\ view[v].phase = "idle" /\ view[v].handles = 1
    BY <1>1, ViewFits DEF In, Fits
  <1>3. writes \in Nat /\ disk \in [Files -> 0..writes] /\ Members(watch, writes)
    BY WatchFits
  <1>4. Fits(c) /\ c.file = f /\ c.phase = "reloading" /\ c.handles = 3 /\ c.backup = view[v].backup
    <2>1. PICK r \in View, n \in 0..3, m \in Nat, k \in Nat, b \in BOOLEAN :
            r = view[v] /\ n = 3 /\ m = Missing /\ k = disk[f] /\ b = FALSE
      <3>1. view[v] \in View /\ 3 \in 0..3 /\ Missing \in Nat /\ disk[f] \in Nat /\ FALSE \in BOOLEAN
        BY <1>2, <1>3 DEF Fits, Missing
      <3> HIDE DEF f
      <3> QED
        BY <3>1, Zenon
    <2>2. LET d == [r EXCEPT !.phase = "reloading", !.handles = n, !.read = m, !.known = k, !.notified = b]
          IN /\ d \in View /\ d.file = r.file /\ d.phase = "reloading" /\ d.handles = n
             /\ d.backup = r.backup
      BY DEF View
    <2>3. c = [r EXCEPT !.phase = "reloading", !.handles = n, !.read = m, !.known = k, !.notified = b]
      BY <2>1
    <2>4. c \in View /\ c.file = f /\ c.phase = "reloading" /\ c.handles = 3 /\ c.backup = view[v].backup
      <3> HIDE DEF c
      <3> QED
        BY <2>1, <2>2, <2>3
    <2> HIDE DEF c
    <2> QED
      BY <1>2, <2>4 DEF Fits
  <1> HIDE DEF c, f, w1
  <1>5. /\ \A g \in Files \ {f} : Holds(c, g) = Holds(view[v], g)
        /\ Holds(view[v], f) = 1 /\ Holds(c, f) = 3
    BY <1>2, <1>4 DEF Holds, f
  <1>6. /\ overtaken' \subseteq Views /\ vanished' \subseteq Files
        /\ disk[f] = Missing => f \in vanished'
        /\ \A g \in vanished : g \in vanished' \/ \A u \in Views : view'[u].file # g
    BY <1>1, <1>2, HistoryFits
  <1>7. /\ Members(w1, writes) /\ \A g \in Files \ {f} : Users(w1, g) = Users(watch, g)
        /\ disk[f] # Missing => Users(w1, f) = Users(watch, f) + 1
        /\ disk[f] = Missing => Users(w1, f) = Users(watch, f)
        /\ Users(watch, f) \in Nat /\ Users(w1, f) \in Nat
    BY <1>2, <1>3, AddCounts DEF w1
  <1>8. /\ Members(watch', writes) /\ \A g \in Files \ {f} : Users(watch', g) = Users(w1, g)
        /\ disk[f] # Missing => Users(watch', f) = Users(w1, f) + 1
        /\ disk[f] = Missing => Users(watch', f) = Users(w1, f)
    BY <1>1, <1>2, <1>7, AddCounts
  <1>9. /\ writes' \in Nat /\ disk' \in [Files -> 0..writes'] /\ Members(watch', writes')
         /\ writes <= writes' /\ c.backup \in 0..writes'
    BY <1>1, <1>2, <1>3, <1>4, <1>8
  <1>10. /\ \A n \in Nat : Users(watch, f) <= n /\ Holds(view[v], f) <= n => Users(watch', f) <= n + 2
         /\ f \notin vanished' /\ Holds(view[v], f) <= Users(watch, f) => Users(watch', f) = Users(watch, f) + 2
    BY <1>5, <1>6, <1>7, <1>8
  <1>11. \A g \in Files \ {f} : Holds(c, g) = Holds(view[v], g) /\ Users(watch', g) = Users(watch, g)
    BY <1>5, <1>7, <1>8
  <1>12. calls' \in 0..MaxCalls
    BY <1>1, OneMoreCall
  <1>13. 2 \in {-2, -1, 0, 1, 2} /\ Holds(c, f) = Holds(view[v], f) + 2
    BY <1>5
  <1>14. view' = [view EXCEPT ![v] = c] /\ UNCHANGED <<tick, timer, s_global_enable, windowVars>>
    BY <1>1
  <1> QED
    BY <1>2, <1>4, <1>6, <1>9, <1>10, <1>11, <1>12, <1>13, <1>14, ViewStep, ZenonT(60)

LEMMA ReadFits ==
  ASSUME Types, Counted, NEW v \in Views, Read(v)
  PROVE Types' /\ Counted'
  <1> DEFINE f == view[v].file
             c == [view[v] EXCEPT !.read = disk[f]]
  <1>1. /\ In(v, {"loading", "reloading"}) /\ view' = [view EXCEPT ![v] = c]
        /\ UNCHANGED <<disk, writes, watch, calls, overtaken, vanished>>
        /\ UNCHANGED <<tick, timer, s_global_enable, windowVars>>
    BY DEF Read, Reading, watcherVars, historyVars
  <1>2. Fits(view[v]) /\ view[v].backup \in 0..writes /\ f \in Files
    BY <1>1, ViewFits DEF In
  <1>3. /\ writes \in Nat /\ disk \in [Files -> 0..writes] /\ Members(watch, writes) /\ calls \in 0..MaxCalls
        /\ overtaken \subseteq Views /\ vanished \subseteq Files
    BY WatchFits DEF Types, TypeOK
  <1>4. /\ Fits(c) /\ c.file = f /\ c.phase = view[v].phase /\ c.handles = view[v].handles
        /\ c.backup = view[v].backup
    BY <1>2, <1>3 DEF Fits, View
  <1> HIDE DEF c, f
  <1>5. \A g \in Files : Holds(c, g) = Holds(view[v], g) /\ Holds(c, g) \in 0..3
    BY <1>4, HoldsType DEF Holds, Fits, f
  <1>6. Users(watch, f) \in Nat
    BY <1>3, UsersType
  <1>7. /\ writes' \in Nat /\ disk' \in [Files -> 0..writes'] /\ Members(watch', writes')
        /\ writes <= writes' /\ c.backup \in 0..writes' /\ calls' \in 0..MaxCalls
        /\ overtaken' \subseteq Views /\ vanished' \subseteq Files
        /\ \A g \in vanished : g \in vanished' \/ \A u \in Views : view'[u].file # g
    BY <1>1, <1>2, <1>3, <1>4
  <1>8. /\ \A n \in Nat : Users(watch, f) <= n /\ Holds(view[v], f) <= n => Users(watch', f) <= n + 0
        /\ f \notin vanished' /\ Holds(view[v], f) <= Users(watch, f) => Users(watch', f) = Users(watch, f) + 0
    BY <1>1, <1>6
  <1>9. \A g \in Files \ {f} : Holds(c, g) = Holds(view[v], g) /\ Users(watch', g) = Users(watch, g)
    BY <1>1, <1>5
  <1>10. 0 \in {-2, -1, 0, 1, 2} /\ Holds(c, f) = Holds(view[v], f) + 0
    BY <1>2, <1>5
  <1> QED
    BY <1>1, <1>2, <1>4, <1>7, <1>8, <1>9, <1>10, ViewStep, ZenonT(60)

LEMMA FinishLoadFits ==
  ASSUME Types, Counted, NEW v \in Views, FinishLoad(v)
  PROVE Types' /\ Counted'
  <1> DEFINE f == view[v].file
             c == [view[v] EXCEPT !.phase = "idle", !.handles = 1, !.read = Missing, !.known = view[v].read]
             w1 == RemoveFile(watch, f)
             w2 == AddFile(w1, f)
             w3 == RemoveFile(w2, f)
             w4 == RemoveFile(w3, f)
  <1>1. /\ In(v, {"loading", "reloading"}) /\ view' = [view EXCEPT ![v] = c]
        /\ watch' = (IF In(v, {"loading"}) THEN w2 ELSE w4) /\ AddedAt(f)
        /\ UNCHANGED <<disk, writes, calls>> /\ UNCHANGED <<tick, timer, s_global_enable, windowVars>>
    BY DEF FinishLoad, Reading, Restamped, ReleasedTwo
  <1>2. /\ Fits(view[v]) /\ view[v].backup \in 0..writes /\ f \in Files
        /\ view[v].phase \in {"loading", "reloading"}
    BY <1>1, ViewFits DEF In
  <1>3. /\ writes \in Nat /\ disk \in [Files -> 0..writes] /\ Members(watch, writes) /\ calls \in 0..MaxCalls
    BY WatchFits DEF Types, TypeOK
  <1>4. Fits(c) /\ c.file = f /\ c.phase = "idle" /\ c.handles = 1 /\ c.backup = view[v].backup
    <2>1. PICK r \in View, n \in 0..3, m \in Nat, k \in Nat :
            r = view[v] /\ n = 1 /\ m = Missing /\ k = view[v].read
      <3>1. view[v] \in View /\ 1 \in 0..3 /\ Missing \in Nat /\ view[v].read \in Nat
        BY <1>2, <1>3 DEF Fits, Missing, View
      <3> QED
        BY <3>1, Zenon
    <2>2. LET d == [r EXCEPT !.phase = "idle", !.handles = n, !.read = m, !.known = k]
          IN d \in View /\ d.file = r.file /\ d.phase = "idle" /\ d.handles = n /\ d.backup = r.backup
      BY DEF View
    <2>3. c = [r EXCEPT !.phase = "idle", !.handles = n, !.read = m, !.known = k]
      BY <2>1
    <2>4. c \in View /\ c.file = f /\ c.phase = "idle" /\ c.handles = 1 /\ c.backup = view[v].backup
      <3> HIDE DEF c
      <3> QED
        BY <2>1, <2>2, <2>3
    <2> HIDE DEF c
    <2> QED
      BY <1>2, <2>4 DEF Fits
  <1> HIDE DEF c, f, w1, w2, w3, w4
  <1>5. /\ \A g \in Files \ {f} : Holds(c, g) = Holds(view[v], g)
        /\ In(v, {"loading"}) => Holds(view[v], f) = 1
        /\ ~In(v, {"loading"}) => Holds(view[v], f) = 3
        /\ Holds(c, f) = 1
    BY <1>2, <1>4 DEF Holds, f, Fits, In
  <1>6. /\ overtaken' \subseteq Views /\ vanished' \subseteq Files
        /\ disk[f] = Missing => f \in vanished'
        /\ \A g \in vanished : g \in vanished' \/ \A u \in Views : view'[u].file # g
    BY <1>1, <1>2, HistoryFits
  <1>7. /\ Members(w1, writes) /\ \A g \in Files \ {f} : Users(w1, g) = Users(watch, g)
        /\ Users(watch, f) > 0 => Users(w1, f) = Users(watch, f) - 1
        /\ Users(watch, f) = 0 => Users(w1, f) = 0
        /\ Users(watch, f) \in Nat /\ Users(w1, f) \in Nat
    BY <1>2, <1>3, RemoveCounts DEF w1
  <1>8. /\ Members(w2, writes) /\ \A g \in Files \ {f} : Users(w2, g) = Users(w1, g)
        /\ disk[f] # Missing => Users(w2, f) = Users(w1, f) + 1
        /\ disk[f] = Missing => Users(w2, f) = Users(w1, f)
        /\ Users(w2, f) \in Nat
    BY <1>2, <1>7, AddCounts DEF w2
  <1>9. /\ Members(w3, writes) /\ \A g \in Files \ {f} : Users(w3, g) = Users(w2, g)
        /\ Users(w2, f) > 0 => Users(w3, f) = Users(w2, f) - 1
        /\ Users(w2, f) = 0 => Users(w3, f) = 0
        /\ Users(w3, f) \in Nat
    BY <1>2, <1>8, RemoveCounts DEF w3
  <1>10. /\ Members(w4, writes) /\ \A g \in Files \ {f} : Users(w4, g) = Users(w3, g)
         /\ Users(w3, f) > 0 => Users(w4, f) = Users(w3, f) - 1
         /\ Users(w3, f) = 0 => Users(w4, f) = 0
    BY <1>2, <1>9, RemoveCounts DEF w4
  <1>11. /\ writes' \in Nat /\ disk' \in [Files -> 0..writes'] /\ Members(watch', writes')
         /\ writes <= writes' /\ c.backup \in 0..writes' /\ calls' \in 0..MaxCalls
    BY <1>1, <1>2, <1>3, <1>4, <1>8, <1>10
  <1>12. \A g \in Files \ {f} : Holds(c, g) = Holds(view[v], g) /\ Users(watch', g) = Users(watch, g)
    BY <1>1, <1>5, <1>7, <1>8, <1>9, <1>10
  <1>13. CASE In(v, {"loading"})
    <2>1. /\ \A n \in Nat : Users(watch, f) <= n /\ Holds(view[v], f) <= n => Users(watch', f) <= n + 0
          /\ f \notin vanished' /\ Holds(view[v], f) <= Users(watch, f) => Users(watch', f) = Users(watch, f) + 0
      BY <1>1, <1>5, <1>6, <1>7, <1>8, <1>13
    <2>2. 0 \in {-2, -1, 0, 1, 2} /\ Holds(c, f) = Holds(view[v], f) + 0
      BY <1>5, <1>13
    <2> QED
      BY <1>1, <1>2, <1>4, <1>6, <1>11, <1>12, <2>1, <2>2, ViewStep, ZenonT(60)
  <1>14. CASE ~In(v, {"loading"})
    <2>1. /\ \A n \in Nat : Users(watch, f) <= n /\ Holds(view[v], f) <= n => Users(watch', f) <= n + (-2)
          /\ f \notin vanished' /\ Holds(view[v], f) <= Users(watch, f) => Users(watch', f) = Users(watch, f) + (-2)
      BY <1>1, <1>5, <1>6, <1>7, <1>8, <1>9, <1>10, <1>14
    <2>2. -2 \in {-2, -1, 0, 1, 2} /\ Holds(c, f) = Holds(view[v], f) + (-2)
      BY <1>5, <1>14
    <2> QED
      BY <1>1, <1>2, <1>4, <1>6, <1>11, <1>12, <2>1, <2>2, ViewStep, ZenonT(60)
  <1> QED
    BY <1>13, <1>14

(* The view v gives up a handle it has on its file f, and becomes c.       *)
LEMMA GivesUp ==
  ASSUME Types, Counted, NEW v \in Views, NEW f, f = view[v].file, NEW c, Fits(c),
         view[v].phase \in {"idle", "loading", "reloading"}, view' = [view EXCEPT ![v] = c],
         \A g \in Files : Holds(c, g) = Holds(view[v], g) - IF g = f THEN 1 ELSE 0,
         watch' = RemoveFile(watch, f), Released(v), c.backup \in 0..writes,
         disk' \in [Files -> 0..writes], calls' \in 0..MaxCalls,
         writes' = writes, UNCHANGED <<tick, timer, s_global_enable, windowVars>>
  PROVE Types' /\ Counted'
  <1>1. Fits(view[v]) /\ f \in Files
    BY ViewFits DEF In
  <1>2. writes \in Nat /\ Members(watch, writes)
    BY WatchFits
  <1>3. \A g \in Files : Holds(view[v], g) \in 0..3 /\ Holds(c, g) \in 0..3
    BY <1>1, HoldsType DEF Fits
  <1>4. /\ overtaken' \subseteq Views /\ vanished' \subseteq Files
        /\ \A g \in vanished : g \in vanished' \/ \A u \in Views : view'[u].file # g
    BY <1>1, HistoryFits
  <1>5. /\ Members(watch', writes) /\ \A g \in Files \ {f} : Users(watch', g) = Users(watch, g)
        /\ Users(watch, f) > 0 => Users(watch', f) = Users(watch, f) - 1
        /\ Users(watch, f) = 0 => Users(watch', f) = 0
        /\ Users(watch, f) \in Nat /\ Users(watch', f) \in Nat
    BY <1>1, <1>2, RemoveCounts
  <1>6. Holds(c, f) = Holds(view[v], f) + (-1) /\ Holds(view[v], f) \in 1..3
    BY <1>1, <1>3
  <1>7. /\ writes' \in Nat /\ disk' \in [Files -> 0..writes'] /\ Members(watch', writes')
        /\ writes <= writes' /\ c.backup \in 0..writes'
    BY <1>2, <1>5
  <1>8. \A g \in Files \ {f} : Holds(c, g) = Holds(view[v], g) /\ Users(watch', g) = Users(watch, g)
    BY <1>3, <1>5
  <1>9. /\ \A n \in Nat : Users(watch, f) <= n /\ Holds(view[v], f) <= n => Users(watch', f) <= n + (-1)
        /\ f \notin vanished' /\ Holds(view[v], f) <= Users(watch, f) => Users(watch', f) = Users(watch, f) + (-1)
    BY <1>5, <1>6
  <1>10. -1 \in {-2, -1, 0, 1, 2}
    OBVIOUS
  <1> QED
    BY <1>1, <1>4, <1>6, <1>7, <1>8, <1>9, <1>10, ViewStep, ZenonT(60)

LEMMA CloseFits ==
  ASSUME Types, Counted, NEW v \in Views, Close(v)
  PROVE Types' /\ Counted'
  <1> DEFINE f == view[v].file
  <1>1. /\ UserMay /\ In(v, {"idle"}) /\ calls' = calls + 1 /\ watch' = RemoveFile(watch, f)
        /\ view' = [view EXCEPT ![v] = Closed] /\ Released(v) /\ writes' = writes /\ disk' = disk
        /\ UNCHANGED <<tick, timer, s_global_enable, windowVars>>
    BY DEF Close
  <1>2. Fits(view[v]) /\ f \in Files /\ view[v].phase = "idle" /\ view[v].handles = 1
    BY <1>1, ViewFits DEF In, Fits
  <1>3. Fits(Closed) /\ Closed.backup = 0
    BY DEF Fits, Closed, View, Missing
  <1>4. \A g \in Files : Holds(Closed, g) = Holds(view[v], g) - IF g = f THEN 1 ELSE 0
    BY <1>2, ViewsAssumption DEF Holds, Closed
  <1>5. disk' \in [Files -> 0..writes] /\ calls' \in 0..MaxCalls /\ Closed.backup \in 0..writes
    BY <1>1, <1>3, WatchFits, OneMoreCall
  <1>6. view[v].phase \in {"idle", "loading", "reloading"} /\ f = view[v].file
    BY <1>2
  <1> HIDE DEF f
  <1> QED
    BY <1>1, <1>3, <1>4, <1>5, <1>6, GivesUp, ZenonT(60)

LEMMA LoadFailsFits ==
  ASSUME Types, Counted, NEW v \in Views, LoadFails(v)
  PROVE Types' /\ Counted'
  <1> DEFINE f == view[v].file
             c == IF view[v].phase = "loading" THEN Closed
                  ELSE [view[v] EXCEPT !.phase = "idle", !.handles = 1, !.read = Missing]
             w1 == RemoveFile(watch, f)
             w2 == RemoveFile(w1, f)
  <1>1. /\ In(v, {"loading", "reloading"}) /\ watch' = (IF In(v, {"loading"}) THEN w1 ELSE w2)
        /\ view' = [view EXCEPT ![v] = c] /\ Released(v) /\ writes' = writes /\ disk' = disk /\ calls' = calls
        /\ UNCHANGED <<tick, timer, s_global_enable, windowVars>>
    BY DEF LoadFails, Reading, ReleasedTwo
  <1>2. Fits(view[v]) /\ f \in Files /\ view[v].phase \in {"loading", "reloading"} /\ view[v].backup \in 0..writes
    BY <1>1, ViewFits DEF In
  <1>3. disk' \in [Files -> 0..writes] /\ calls' \in 0..MaxCalls /\ writes \in Nat /\ Members(watch, writes)
    BY <1>1, WatchFits DEF Types, TypeOK
  <1>4. CASE view[v].phase = "loading"
    <2>1. Fits(Closed) /\ Closed.backup = 0 /\ c = Closed
      BY <1>4 DEF Fits, Closed, View, Missing
    <2>2. \A g \in Files : Holds(Closed, g) = Holds(view[v], g) - IF g = f THEN 1 ELSE 0
      BY <1>2, <1>4, ViewsAssumption DEF Holds, Closed, Fits
    <2>3. view[v].phase \in {"idle", "loading", "reloading"} /\ f = view[v].file /\ Closed.backup \in 0..writes
      BY <1>2, <2>1, WatchFits
    <2>4. watch' = RemoveFile(watch, f)
      BY <1>1, <1>4 DEF In
    <2> HIDE DEF c, f, w1, w2
    <2> QED
      BY <1>1, <1>3, <2>1, <2>2, <2>3, <2>4, GivesUp, ZenonT(60)
  <1>5. CASE view[v].phase # "loading"
    <2>1. Fits(c) /\ c.file = f /\ c.phase = "idle" /\ c.handles = 1 /\ c.backup = view[v].backup
      <3>1. PICK r \in View, n \in 0..3, m \in Nat : r = view[v] /\ n = 1 /\ m = Missing
        <4>1. view[v] \in View /\ 1 \in 0..3 /\ Missing \in Nat
          BY <1>2 DEF Fits, Missing
        <4> QED
          BY <4>1, Zenon
      <3>2. LET d == [r EXCEPT !.phase = "idle", !.handles = n, !.read = m]
            IN d \in View /\ d.file = r.file /\ d.phase = "idle" /\ d.handles = n /\ d.backup = r.backup
        BY DEF View
      <3>3. c = [r EXCEPT !.phase = "idle", !.handles = n, !.read = m]
        BY <1>5, <3>1
      <3>4. c \in View /\ c.file = f /\ c.phase = "idle" /\ c.handles = 1 /\ c.backup = view[v].backup
        <4> HIDE DEF c
        <4> QED
          BY <3>1, <3>2, <3>3
      <3> HIDE DEF c
      <3> QED
        BY <1>2, <3>4 DEF Fits
    <2> HIDE DEF c
    <2>2. /\ \A g \in Files \ {f} : Holds(c, g) = Holds(view[v], g)
          /\ Holds(view[v], f) = 3 /\ Holds(c, f) = 1
      BY <1>2, <1>5, <2>1 DEF Holds, Fits
    <2> HIDE DEF f, w1, w2
    <2>3. /\ overtaken' \subseteq Views /\ vanished' \subseteq Files
          /\ \A g \in vanished : g \in vanished' \/ \A u \in Views : view'[u].file # g
      BY <1>1, <1>2, HistoryFits
    <2>4. /\ Members(w1, writes) /\ \A g \in Files \ {f} : Users(w1, g) = Users(watch, g)
          /\ Users(watch, f) > 0 => Users(w1, f) = Users(watch, f) - 1
          /\ Users(watch, f) = 0 => Users(w1, f) = 0
          /\ Users(watch, f) \in Nat /\ Users(w1, f) \in Nat
      BY <1>2, <1>3, RemoveCounts DEF w1
    <2>5. /\ Members(w2, writes) /\ \A g \in Files \ {f} : Users(w2, g) = Users(w1, g)
          /\ Users(w1, f) > 0 => Users(w2, f) = Users(w1, f) - 1
          /\ Users(w1, f) = 0 => Users(w2, f) = 0
      BY <1>2, <2>4, RemoveCounts DEF w2
    <2>6. watch' = w2
      BY <1>1, <1>5 DEF In
    <2>7. /\ writes' \in Nat /\ disk' \in [Files -> 0..writes'] /\ Members(watch', writes')
          /\ writes <= writes' /\ c.backup \in 0..writes'
      BY <1>1, <1>2, <1>3, <2>1, <2>5, <2>6
    <2>8. \A g \in Files \ {f} : Holds(c, g) = Holds(view[v], g) /\ Users(watch', g) = Users(watch, g)
      BY <2>2, <2>4, <2>5, <2>6
    <2>9. /\ \A n \in Nat : Users(watch, f) <= n /\ Holds(view[v], f) <= n => Users(watch', f) <= n + (-2)
          /\ f \notin vanished' /\ Holds(view[v], f) <= Users(watch, f) => Users(watch', f) = Users(watch, f) + (-2)
      BY <2>2, <2>4, <2>5, <2>6
    <2>10. -2 \in {-2, -1, 0, 1, 2} /\ Holds(c, f) = Holds(view[v], f) + (-2)
      BY <2>2
    <2>11. UNCHANGED <<tick, timer, s_global_enable, windowVars>>
      BY <1>1
    <2> QED
      BY <1>1, <1>2, <1>3, <2>1, <2>3, <2>7, <2>8, <2>9, <2>10, <2>11, ViewStep, ZenonT(60)
  <1> QED
    BY <1>4, <1>5

LEMMA SaveFits ==
  ASSUME Types, Counted, NEW v \in Views, NEW f \in Files, Save(v, f)
  PROVE Types' /\ Counted'
  <1> DEFINE old == view[v].file
             c == [view[v] EXCEPT !.phase = "saving", !.file = f, !.backup = disk[f]]
  <1>1. /\ UserMay /\ In(v, {"idle"}) /\ calls' = calls + 1 /\ watch' = RemoveFile(watch, old)
        /\ view' = [view EXCEPT ![v] = c] /\ Released(v) /\ writes' = writes
        /\ disk' = [disk EXCEPT ![f] = Missing] /\ UNCHANGED <<tick, timer, s_global_enable, windowVars>>
    BY DEF Save
  <1>2. Fits(view[v]) /\ old \in Files /\ view[v].phase = "idle" /\ view[v].handles = 1
    BY <1>1, ViewFits DEF In, Fits
  <1>3. writes \in Nat /\ disk \in [Files -> 0..writes] /\ disk[f] \in 0..writes
    BY WatchFits
  <1>4. Fits(c) /\ c.phase = "saving" /\ c.backup \in 0..writes
    <2>1. PICK r \in View, n \in Nat : r = view[v] /\ n = disk[f]
      BY <1>2, <1>3 DEF Fits
    <2>2. LET d == [r EXCEPT !.phase = "saving", !.file = f, !.backup = n]
          IN d \in View /\ d.file = f /\ d.phase = "saving" /\ d.handles = r.handles /\ d.backup = n
      BY DEF View
    <2>3. c \in View /\ c.file = f /\ c.phase = "saving" /\ c.handles = 1 /\ c.backup = disk[f]
      BY <1>2, <2>1, <2>2
    <2> HIDE DEF c
    <2> QED
      BY <1>3, <2>3, ViewsAssumption DEF Fits
  <1> HIDE DEF c
  <1>5. \A g \in Files : Holds(c, g) = Holds(view[v], g) - IF g = old THEN 1 ELSE 0
    BY <1>2, <1>4 DEF Holds
  <1>6. disk' \in [Files -> 0..writes] /\ calls' \in 0..MaxCalls
    BY <1>1, <1>3, OneMoreCall DEF Missing
  <1>7. view[v].phase \in {"idle", "loading", "reloading"} /\ old = view[v].file
    BY <1>2
  <1> HIDE DEF old
  <1> QED
    BY <1>1, <1>4, <1>5, <1>6, <1>7, GivesUp, ZenonT(60)

(* A write leaves what the watcher knows as it is.                         *)
LEMMA MembersStay ==
  ASSUME NEW w, NEW n \in Nat, NEW k \in Nat, n <= k, Members(w, n)
  PROVE Members(w, k)
  <1>1. 1..n \subseteq 1..k
    OBVIOUS
  <1> QED
    BY <1>1 DEF Members

LEMMA WriteEndsFits ==
  ASSUME Types, Counted, NEW v \in Views, WriteEnds(v)
  PROVE Types' /\ Counted'
  <1> DEFINE f == view[v].file
             c == [view[v] EXCEPT !.phase = "saved", !.known = disk'[f], !.backup = Missing]
  <1>1. /\ In(v, {"saving"}) /\ view' = [view EXCEPT ![v] = c]
        /\ writes' = writes /\ (disk' = disk \/ disk' = [disk EXCEPT ![f] = view[v].backup])
        /\ UNCHANGED <<watch, calls, overtaken, vanished>> /\ UNCHANGED <<tick, timer, s_global_enable, windowVars>>
    BY DEF WriteEnds, Saving, historyVars
  <1>2. Fits(view[v]) /\ view[v].backup \in 0..writes /\ f \in Files /\ view[v].phase = "saving"
    BY <1>1, ViewFits DEF In
  <1>3. /\ writes \in Nat /\ disk \in [Files -> 0..writes] /\ Members(watch, writes) /\ calls \in 0..MaxCalls
        /\ overtaken \subseteq Views /\ vanished \subseteq Files
    BY WatchFits DEF Types, TypeOK
  <1>4. writes' \in Nat /\ writes <= writes' /\ disk' \in [Files -> 0..writes']
    BY <1>1, <1>2, <1>3
  <1>5. Fits(c) /\ c.phase = "saved" /\ c.backup \in 0..writes'
    <2>1. PICK r \in View, n \in Nat, m \in Nat : r = view[v] /\ n = disk'[f] /\ m = Missing
      <3>1. view[v] \in View /\ disk'[f] \in Nat /\ Missing \in Nat
        BY <1>2, <1>4 DEF Fits, Missing
      <3> HIDE DEF f
      <3> QED
        BY <3>1, Zenon
    <2>2. LET d == [r EXCEPT !.phase = "saved", !.known = n, !.backup = m]
          IN d \in View /\ d.file = r.file /\ d.phase = "saved" /\ d.handles = r.handles /\ d.backup = m
      BY DEF View
    <2>3. c = [r EXCEPT !.phase = "saved", !.known = n, !.backup = m]
      BY <2>1
    <2>4. c \in View /\ c.file = f /\ c.phase = "saved" /\ c.handles = view[v].handles /\ c.backup = Missing
      <3> HIDE DEF c
      <3> QED
        BY <2>1, <2>2, <2>3
    <2> HIDE DEF c
    <2> QED
      BY <1>2, <1>4, <2>4, ViewsAssumption DEF Fits, Missing
  <1> HIDE DEF c, f
  <1>6. \A g \in Files : Holds(c, g) = 0 /\ Holds(view[v], g) = 0
    BY <1>2, <1>5 DEF Holds
  <1>7. Users(watch, f) \in Nat /\ Members(watch', writes')
    BY <1>1, <1>3, <1>4, UsersType, MembersStay
  <1>8. /\ calls' \in 0..MaxCalls /\ overtaken' \subseteq Views /\ vanished' \subseteq Files
        /\ \A g \in vanished : g \in vanished' \/ \A u \in Views : view'[u].file # g
    BY <1>1, <1>3
  <1>9. /\ \A n \in Nat : Users(watch, f) <= n /\ Holds(view[v], f) <= n => Users(watch', f) <= n + 0
        /\ f \notin vanished' /\ Holds(view[v], f) <= Users(watch, f) => Users(watch', f) = Users(watch, f) + 0
    BY <1>1, <1>7
  <1>10. \A g \in Files \ {f} : Holds(c, g) = Holds(view[v], g) /\ Users(watch', g) = Users(watch, g)
    BY <1>1, <1>6
  <1>11. 0 \in {-2, -1, 0, 1, 2} /\ Holds(c, f) = Holds(view[v], f) + 0
    BY <1>2, <1>6
  <1> QED
    BY <1>1, <1>2, <1>4, <1>5, <1>7, <1>8, <1>9, <1>10, <1>11, ViewStep, ZenonT(60)

LEMMA FinishSaveFits ==
  ASSUME Types, Counted, NEW v \in Views, FinishSave(v)
  PROVE Types' /\ Counted'
  <1> DEFINE f == view[v].file
             c == [view[v] EXCEPT !.phase = "idle"]
  <1>1. /\ In(v, {"saved"}) /\ view' = [view EXCEPT ![v] = c] /\ watch' = AddFile(watch, f) /\ AddedAt(f)
        /\ UNCHANGED <<disk, writes, calls>> /\ UNCHANGED <<tick, timer, s_global_enable, windowVars>>
    BY DEF FinishSave
  <1>2. Fits(view[v]) /\ view[v].backup \in 0..writes /\ f \in Files /\ view[v].phase = "saved" /\ view[v].handles = 1
    BY <1>1, ViewFits DEF In, Fits
  <1>3. writes \in Nat /\ disk \in [Files -> 0..writes] /\ Members(watch, writes) /\ calls \in 0..MaxCalls
    BY WatchFits DEF Types, TypeOK
  <1>4. Fits(c) /\ c.file = f /\ c.phase = "idle" /\ c.handles = 1 /\ c.backup = view[v].backup
    BY <1>2 DEF Fits, View
  <1> HIDE DEF c, f
  <1>5. \A g \in Files : Holds(view[v], g) = 0 /\ Holds(c, g) = IF g = f THEN 1 ELSE 0
    BY <1>2, <1>4 DEF Holds
  <1>6. /\ overtaken' \subseteq Views /\ vanished' \subseteq Files
        /\ disk[f] = Missing => f \in vanished'
        /\ \A g \in vanished : g \in vanished' \/ \A u \in Views : view'[u].file # g
    BY <1>1, <1>2, HistoryFits
  <1>7. /\ Members(watch', writes) /\ \A g \in Files \ {f} : Users(watch', g) = Users(watch, g)
        /\ disk[f] # Missing => Users(watch', f) = Users(watch, f) + 1
        /\ disk[f] = Missing => Users(watch', f) = Users(watch, f)
        /\ Users(watch, f) \in Nat
    BY <1>1, <1>2, <1>3, AddCounts
  <1>8. /\ writes' \in Nat /\ disk' \in [Files -> 0..writes'] /\ Members(watch', writes')
        /\ writes <= writes' /\ c.backup \in 0..writes' /\ calls' \in 0..MaxCalls
    BY <1>1, <1>2, <1>3, <1>4, <1>7
  <1>9. /\ \A n \in Nat : Users(watch, f) <= n /\ Holds(view[v], f) <= n => Users(watch', f) <= n + 1
        /\ f \notin vanished' /\ Holds(view[v], f) <= Users(watch, f) => Users(watch', f) = Users(watch, f) + 1
    BY <1>6, <1>7
  <1>10. \A g \in Files \ {f} : Holds(c, g) = Holds(view[v], g) /\ Users(watch', g) = Users(watch, g)
    BY <1>5, <1>7
  <1>11. 1 \in {-2, -1, 0, 1, 2} /\ Holds(c, f) = Holds(view[v], f) + 1
    BY <1>2, <1>5
  <1> QED
    BY <1>1, <1>2, <1>4, <1>6, <1>8, <1>9, <1>10, <1>11, ViewStep, ZenonT(60)

-----------------------------------------------------------------------------
(* The steps of the watcher, of the window and of other processes open and *)
(* drop no handle.                                                         *)

LEMMA CountStays ==
  ASSUME Types, Counted, \A f \in Files : Users(watch', f) = Users(watch, f), vanished' = vanished,
         \A v \in Views : /\ view'[v].file = view[v].file /\ view'[v].phase = view[v].phase
                         /\ view'[v].handles = view[v].handles
  PROVE Counted'
  <1>1. \A f : HandlesOn(f)' = HandlesOn(f)
    <2> SUFFICES ASSUME NEW f PROVE HandlesOn(f)' = HandlesOn(f)
      OBVIOUS
    <2>1. \A h \in Views \X (1..3) : h[1] \in Views
      OBVIOUS
    <2> QED
      BY <2>1 DEF HandlesOn, In
  <1> SUFFICES ASSUME NEW f \in Files
               PROVE /\ IsFiniteSet(HandlesOn(f)') /\ Users(watch', f) <= Cardinality(HandlesOn(f)')
                     /\ f \notin vanished' => Users(watch', f) = Cardinality(HandlesOn(f)')
    BY DEF Counted
  <1> QED
    BY <1>1 DEF Counted

(* The watcher and the disk may change as long as the count is kept.       *)
LEMMA QuietStep ==
  ASSUME Types, Counted, WatcherTypeOK', Members(watch', writes'), writes <= writes',
         \A f \in Files : Users(watch', f) = Users(watch, f),
         m_changed_files' \subseteq Files, file_changed_timer' \in BOOLEAN, calls' \in 0..MaxCalls,
         overtaken' \subseteq Views, UNCHANGED <<view, vanished>>
  PROVE Types' /\ Counted'
  <1>1. Counted'
    BY CountStays
  <1>2. Phases'
    BY DEF Types, Phases, In
  <1>3. Backups'
    <2>1. writes \in Nat /\ writes' \in Nat /\ \A v \in Views : view[v].backup \in 0..writes
      BY DEF Types, TypeOK, WatcherTypeOK, Backups
    <2> QED
      BY <2>1 DEF Backups
  <1>4. TypeOK'
    BY DEF Types, TypeOK
  <1>5. Members(watch, writes)'
    BY DEF Members
  <1> QED
    BY <1>1, <1>2, <1>3, <1>4, <1>5 DEF Types

LEMMA TickFits ==
  ASSUME Types, Counted, Tick
  PROVE Types' /\ Counted'
  <1>1. /\ tick' = [active |-> TRUE, left |-> BatchSize, changed |-> {}]
        /\ watch' = IF watch.m_iter = End THEN Rewound(watch, watch.m_files) ELSE watch
        /\ UNCHANGED <<disk, writes, timer, s_global_enable>>
        /\ UNCHANGED <<view, m_changed_files, file_changed_timer, calls, overtaken, vanished>>
    BY DEF Tick, StartTimeout, Others, windowVars, historyVars
  <1>2. Members(watch, writes) /\ WatcherTypeOK /\ writes \in Nat
    BY DEF Types, TypeOK, WatcherTypeOK
  <1>3. Members(watch', writes) /\ watch'.m_files = watch.m_files
    <2> DEFINE u == Rewound(watch, watch.m_files)
    <2>1. /\ DOMAIN u = DOMAIN watch /\ u.m_files = watch.m_files /\ u.m_iter = First(watch.m_files)
          /\ u.m_files_removed = watch.m_files_removed
      BY <1>2 DEF Members, Rewound
    <2> HIDE DEF u
    <2>2. Members(u, writes)
      BY <1>2, <2>1, IterFits DEF Members
    <2> QED
      BY <1>1, <1>2, <2>1, <2>2 DEF u
  <1>4. tick' \in [active : BOOLEAN, left : 0..BatchSize, changed : SUBSET Files]
    BY <1>1, WatcherAssumption
  <1>5. WatcherTypeOK'
    BY <1>1, <1>2, <1>3, <1>4 DEF WatcherTypeOK, Members
  <1>6. \A f \in Files : Users(watch', f) = Users(watch, f)
    BY <1>3 DEF Users
  <1> QED
    BY <1>1, <1>2, <1>3, <1>5, <1>6, QuietStep DEF Types, TypeOK

LEMMA CheckFits ==
  ASSUME Types, Counted, Check
  PROVE Types' /\ Counted'
  <1> DEFINE f == watch.m_iter
             next == After(watch.m_files, f)
  <1>1. /\ tick.left > 0 /\ f # End /\ Checked(f)
        /\ UNCHANGED <<disk, writes, timer, s_global_enable>>
        /\ UNCHANGED <<view, m_changed_files, file_changed_timer, calls, overtaken, vanished>>
    BY DEF Check, CheckFile, Others, windowVars, historyVars
  <1>2. Members(watch, writes) /\ WatcherTypeOK /\ writes \in Nat
    BY DEF Types, TypeOK, WatcherTypeOK
  <1>3. /\ f \in DOMAIN watch.m_files /\ f \in Files /\ disk[f] \in 0..writes
        /\ next \in DOMAIN watch.m_files \union {End}
    BY <1>1, <1>2, IterFits DEF Members, WatcherTypeOK
  <1>4. tick' \in [active : BOOLEAN, left : 0..BatchSize, changed : SUBSET Files]
    <2>1. tick \in [active : BOOLEAN, left : 0..BatchSize, changed : SUBSET Files]
      BY <1>2 DEF WatcherTypeOK
    <2>2. tick.left - 1 \in 0..BatchSize
      BY <1>1, <2>1, WatcherAssumption
    <2>3. CASE disk[f] = Missing
      <3>1. tick' = [tick EXCEPT !.left = @ - 1]
        BY <1>1, <2>3 DEF Checked
      <3> QED
        BY <2>1, <2>2, <3>1
    <2>4. CASE disk[f] # Missing
      <3>1. PICK c \in SUBSET Files : tick' = [tick EXCEPT !.left = @ - 1, !.changed = c]
        <4> DEFINE c == IF watch.m_files[f].stamp # disk[f] THEN tick.changed \union {f} ELSE tick.changed
        <4>1. c \in SUBSET Files
          BY <1>3, <2>1
        <4>2. tick' = [tick EXCEPT !.left = @ - 1, !.changed = c]
          BY <1>1, <2>4 DEF Checked
        <4> QED
          BY <4>1, <4>2
      <3>2. PICK n \in 0..BatchSize : n = tick.left - 1
        BY <2>2
      <3>3. tick' = [tick EXCEPT !.left = n, !.changed = c]
        BY <3>1, <3>2
      <3> QED
        BY <2>1, <3>3
    <2> QED
      BY <2>3, <2>4
  <1>5. Members(watch', writes) /\ \A g \in Files : Users(watch', g) = Users(watch, g)
    <2>1. CASE disk[f] = Missing
      <3>1. watch' = [watch EXCEPT !.m_files_removed = @ \union {f}, !.m_iter = next]
        BY <1>1, <2>1 DEF Checked
      <3>2. /\ DOMAIN watch' = DOMAIN watch /\ watch'.m_files = watch.m_files /\ watch'.m_iter = next
            /\ watch'.m_files_removed = watch.m_files_removed \union {f}
        <4> HIDE DEF next
        <4> QED
          BY <1>2, <3>1 DEF Members
      <3> HIDE DEF next
      <3>3. Members(watch', writes)
        BY <1>2, <1>3, <3>2 DEF Members
      <3> QED
        BY <3>2, <3>3 DEF Users
    <2>2. CASE disk[f] # Missing
      <3> DEFINE v == Forgotten(watch, f)
                 files == [watch.m_files EXCEPT ![f].stamp = disk[f]]
      <3>1. watch' = [v EXCEPT !.m_files[f].stamp = disk[f], !.m_iter = next]
        BY <1>1, <2>2 DEF Checked
      <3>2. DOMAIN watch.m_files \subseteq Files /\ watch.m_files \in [DOMAIN watch.m_files -> [refcount : Nat \ {0}, stamp : 1..writes]]
        BY <1>2 DEF Members
      <3>3. Members(v, writes) /\ v.m_files = watch.m_files
        BY <1>2, <3>2, RewoundFits
      <3>4. DOMAIN v = {"m_files", "m_files_removed", "m_iter"} /\ v.m_files = watch.m_files
        BY <3>3 DEF Members
      <3> HIDE DEF v, next
      <3>5. LET u == [v EXCEPT !.m_files[f].stamp = disk[f], !.m_iter = next]
            IN /\ DOMAIN u = DOMAIN v /\ u.m_files = files
               /\ u.m_files_removed = v.m_files_removed /\ u.m_iter = next
        BY <3>4
      <3>6. /\ DOMAIN watch' = DOMAIN v /\ watch'.m_files = files
            /\ watch'.m_files_removed = v.m_files_removed /\ watch'.m_iter = next
        <4> HIDE DEF files
        <4> QED
          BY <3>1, <3>5
      <3>7. DOMAIN files = DOMAIN watch.m_files /\ files \in [DOMAIN files -> [refcount : Nat \ {0}, stamp : 1..writes]]
        BY <1>3, <2>2, <3>2 DEF Missing
      <3>8. \A g \in DOMAIN files : files[g].refcount = watch.m_files[g].refcount
        BY <3>2
      <3> HIDE DEF files
      <3>9. Members(watch', writes)
        BY <1>3, <3>3, <3>6, <3>7 DEF Members
      <3> QED
        BY <3>6, <3>7, <3>8, <3>9 DEF Users
    <2> QED
      BY <2>1, <2>2
  <1>6. WatcherTypeOK'
    BY <1>1, <1>2, <1>4, <1>5 DEF WatcherTypeOK, Members
  <1> QED
    BY <1>1, <1>2, <1>5, <1>6, QuietStep DEF Types, TypeOK

LEMMA EmitFits ==
  ASSUME Types, Counted, EmitChanges
  PROVE Types' /\ Counted'
  <1>1. /\ tick' = NoTick /\ UNCHANGED <<disk, writes, watch, timer, s_global_enable>>
        /\ m_changed_files' = m_changed_files \union tick.changed
        /\ file_changed_timer' = (file_changed_timer \/ tick.changed # {})
        /\ UNCHANGED <<view, calls, overtaken, vanished>>
    BY DEF EmitChanges, EndTimeout, historyVars
  <1>2. Members(watch, writes) /\ WatcherTypeOK /\ writes \in Nat /\ m_changed_files \subseteq Files
    BY DEF Types, TypeOK, WatcherTypeOK
  <1>3. tick.changed \subseteq Files
    BY <1>2 DEF WatcherTypeOK
  <1>4. NoTick \in [active : BOOLEAN, left : 0..BatchSize, changed : SUBSET Files]
    BY WatcherAssumption DEF NoTick
  <1>5. WatcherTypeOK'
    BY <1>1, <1>2, <1>4 DEF WatcherTypeOK
  <1>6. file_changed_timer' \in BOOLEAN
    BY <1>1
  <1>7. m_changed_files' \subseteq Files
    BY <1>1, <1>2, <1>3
  <1> QED
    BY <1>1, <1>2, <1>5, <1>6, <1>7, QuietStep DEF Types, TypeOK

LEMMA WriteOutsideFits ==
  ASSUME Types, Counted, NEW f \in Files, WriteOutside(f)
  PROVE Types' /\ Counted'
  <1>1. /\ writes' = writes + 1 /\ disk' = [disk EXCEPT ![f] = writes']
        /\ UNCHANGED <<watch, tick, timer, s_global_enable>>
        /\ overtaken' = {v \in overtaken : view[v].file # f}
        /\ UNCHANGED <<view, m_changed_files, file_changed_timer, calls, vanished>>
    BY DEF WriteOutside, Write, windowVars
  <1>2. Members(watch, writes) /\ WatcherTypeOK /\ writes \in Nat /\ disk \in [Files -> 0..writes]
    BY DEF Types, TypeOK, WatcherTypeOK
  <1>3. writes' \in Nat /\ writes <= writes' /\ disk' \in [Files -> 0..writes']
    BY <1>1, <1>2
  <1>4. Members(watch', writes')
    BY <1>1, <1>2, <1>3, MembersStay
  <1>5. WatcherTypeOK'
    BY <1>1, <1>2, <1>3, <1>4 DEF WatcherTypeOK, Members
  <1>6. overtaken' \subseteq Views
    BY <1>1 DEF Types, TypeOK
  <1> QED
    BY <1>1, <1>2, <1>3, <1>4, <1>5, <1>6, QuietStep DEF Types, TypeOK

LEMMA WritePartFits ==
  ASSUME Types, Counted, NEW v \in Views, WritePart(v)
  PROVE Types' /\ Counted'
  <1>0. PICK f \in Files : f = view[v].file
    BY ViewFits DEF WritePart, Saving, In
  <1>1. /\ In(v, {"saving"}) /\ writes' = writes + 1 /\ disk' = [disk EXCEPT ![f] = writes']
        /\ UNCHANGED <<watch, tick, timer, s_global_enable>>
        /\ UNCHANGED <<view, m_changed_files, file_changed_timer, calls, overtaken, vanished>>
    BY <1>0 DEF WritePart, Saving, windowVars, historyVars
  <1>2. Members(watch, writes) /\ WatcherTypeOK /\ writes \in Nat /\ disk \in [Files -> 0..writes]
    BY DEF Types, TypeOK, WatcherTypeOK
  <1>3. writes' \in Nat /\ writes <= writes' /\ disk' \in [Files -> 0..writes']
    BY <1>1, <1>2
  <1>4. Members(watch', writes')
    BY <1>1, <1>2, <1>3, MembersStay
  <1>5. WatcherTypeOK'
    BY <1>1, <1>2, <1>3, <1>4 DEF WatcherTypeOK, Members
  <1> QED
    BY <1>1, <1>2, <1>3, <1>4, <1>5, QuietStep DEF Types, TypeOK

LEMMA DeleteOutsideFits ==
  ASSUME Types, Counted, NEW f \in Files, DeleteOutside(f)
  PROVE Types' /\ Counted'
  <1>1. /\ disk' = [disk EXCEPT ![f] = Missing]
        /\ UNCHANGED <<writes, watch, tick, timer, s_global_enable>>
        /\ UNCHANGED <<view, m_changed_files, file_changed_timer, calls, overtaken, vanished>>
    BY DEF DeleteOutside, Delete, windowVars, historyVars
  <1>2. Members(watch, writes) /\ WatcherTypeOK /\ writes \in Nat /\ disk \in [Files -> 0..writes]
    BY DEF Types, TypeOK, WatcherTypeOK
  <1>3. disk' \in [Files -> 0..writes]
    BY <1>1, <1>2 DEF Missing
  <1>4. WatcherTypeOK'
    BY <1>1, <1>2, <1>3 DEF WatcherTypeOK
  <1> QED
    BY <1>1, <1>2, <1>4, QuietStep DEF Types, TypeOK

LEMMA SwitchFits ==
  ASSUME Types, Counted, NEW en \in BOOLEAN, Switch(en)
  PROVE Types' /\ Counted'
  <1>1. UserMay /\ calls' = calls + 1 /\ UNCHANGED <<view, m_changed_files, file_changed_timer, overtaken, vanished>>
    BY DEF Switch, windowVars, historyVars
  <1>2. Members(watch, writes) /\ WatcherTypeOK /\ writes \in Nat
    BY DEF Types, TypeOK, WatcherTypeOK
  <1>3. calls' \in 0..MaxCalls
    BY <1>1, OneMoreCall
  <1>4. CASE Enable(en)
    <2>1. timer' = en /\ UNCHANGED <<disk, writes, watch, tick, s_global_enable>>
      BY <1>4 DEF Enable
    <2>2. WatcherTypeOK'
      BY <1>2, <2>1 DEF WatcherTypeOK
    <2> QED
      BY <1>1, <1>2, <1>3, <2>1, <2>2, QuietStep DEF Types, TypeOK
  <1>5. CASE GlobalEnable(en)
    <2>1. UNCHANGED <<disk, writes, watch, tick, timer>>
      BY <1>5 DEF GlobalEnable
    <2>2. s_global_enable' \in {-1, 0}
      <3>1. CASE en
        BY <1>5, <3>1 DEF GlobalEnable
      <3>2. CASE ~en
        BY <1>5, <3>2 DEF GlobalEnable
      <3> QED
        BY <3>1, <3>2
    <2>3. WatcherTypeOK'
      BY <1>2, <2>1, <2>2 DEF WatcherTypeOK
    <2> QED
      BY <1>1, <1>2, <1>3, <2>1, <2>3, QuietStep DEF Types, TypeOK
  <1> QED
    BY <1>4, <1>5 DEF Switch

LEMMA FileChangedFits ==
  ASSUME Types, Counted, FileChangedTimer
  PROVE Types' /\ Counted'
  <1>1. /\ view' = [v \in Views |-> IF view[v].file \in m_changed_files
                                   THEN [view[v] EXCEPT !.notified = TRUE] ELSE view[v]]
        /\ m_changed_files' = {} /\ file_changed_timer' = FALSE
        /\ UNCHANGED <<disk, writes, watch, tick, timer, s_global_enable, calls, overtaken, vanished>>
    BY DEF FileChangedTimer, watcherVars, historyVars
  <1>2. ASSUME NEW v \in Views
        PROVE /\ view'[v] \in View /\ view'[v].file = view[v].file /\ view'[v].phase = view[v].phase
              /\ view'[v].handles = view[v].handles /\ view'[v].backup = view[v].backup
    <2>1. PICK r \in View, b \in BOOLEAN : r = view[v] /\ b = TRUE
      <3>1. view[v] \in View /\ TRUE \in BOOLEAN
        BY DEF Types, TypeOK
      <3> QED
        BY <3>1, Zenon
    <2>2. LET d == [r EXCEPT !.notified = b]
          IN /\ d \in View /\ d.file = r.file /\ d.phase = r.phase /\ d.handles = r.handles
             /\ d.backup = r.backup
      BY DEF View
    <2> DEFINE d == [r EXCEPT !.notified = b]
    <2>3. view'[v] = d \/ view'[v] = r
      BY <1>1, <2>1
    <2> HIDE DEF d
    <2> QED
      BY <2>1, <2>2, <2>3 DEF d
  <1>3. view' \in [Views -> View]
    <2>1. \A v \in Views : view'[v] \in View
      BY <1>2
    <2>2. view' = [v \in Views |-> view'[v]]
      BY <1>1
    <2> QED
      BY <2>1, <2>2
  <1>4. Phases'
    <2>1. \A v \in Views : /\ view[v].file = NoFile <=> In(v, {"closed"})
                          /\ view[v].handles = IF In(v, {"closed"}) THEN 0 ELSE IF In(v, {"reloading"}) THEN 3 ELSE 1
      BY DEF Types, Phases
    <2> QED
      BY <1>2, <2>1 DEF Phases, In
  <1>5. Backups' /\ Members(watch, writes)'
    <2>1. \A v \in Views : view[v].backup \in 0..writes
      BY DEF Types, Backups
    <2>2. Backups'
      BY <1>1, <1>2, <2>1 DEF Backups
    <2> QED
      BY <1>1, <2>2 DEF Types, Members
  <1>6. Counted'
    BY <1>1, <1>2, CountStays
  <1>7. WatcherTypeOK'
    BY <1>1 DEF Types, TypeOK, WatcherTypeOK
  <1>8. TypeOK'
    BY <1>1, <1>3, <1>7 DEF Types, TypeOK
  <1> QED
    BY <1>4, <1>5, <1>6, <1>8 DEF Types

-----------------------------------------------------------------------------
LEMMA InitCounted ==
  ASSUME Init
  PROVE Types /\ Counted
  <1>1. /\ disk = [f \in Files |-> f] /\ writes = NFiles /\ tick = NoTick /\ timer = TRUE /\ s_global_enable = 0
        /\ watch = [m_files |-> [f \in {} |-> 0], m_files_removed |-> {}, m_iter |-> End]
        /\ view = [v \in Views |-> Closed] /\ m_changed_files = {} /\ file_changed_timer = FALSE
        /\ calls = 0 /\ overtaken = {} /\ vanished = {}
    BY DEF Init, InitWatcher
  <1>2. Members(watch, writes)
    BY <1>1 DEF Members
  <1>3. NoTick \in [active : BOOLEAN, left : 0..BatchSize, changed : SUBSET Files]
    BY WatcherAssumption DEF NoTick
  <1>4. writes \in Nat /\ disk \in [Files -> 0..writes]
    BY <1>1, WatcherAssumption DEF Files
  <1>5. WatcherTypeOK
    <2>1. timer \in BOOLEAN
      BY <1>1
    <2>2. s_global_enable \in {-1, 0}
      BY <1>1
    <2> QED
      BY <1>1, <1>2, <1>3, <1>4, <2>1, <2>2 DEF WatcherTypeOK, Members
  <1>6. Closed \in View /\ Closed.phase = "closed" /\ Closed.file = NoFile /\ Closed.handles = 0 /\ Closed.backup = 0
    BY DEF Closed, View, Missing
  <1>7. TypeOK
    <2>1. file_changed_timer \in BOOLEAN
      BY <1>1
    <2>2. view \in [Views -> View]
      BY <1>1, <1>6
    <2> QED
      BY <1>1, <1>5, <2>1, <2>2, ViewsAssumption DEF TypeOK
  <1>8. \A v \in Views : view[v] = Closed
    BY <1>1
  <1>9. Phases /\ Backups
    BY <1>4, <1>6, <1>8 DEF Phases, Backups, In
  <1>10. Counted
    <2>1. \A f \in Files : HandlesOn(f) = {}
      BY <1>6, <1>8, ViewsAssumption DEF HandlesOn
    <2>2. IsFiniteSet({}) /\ Cardinality({}) = 0
      BY FS_EmptySet
    <2>3. \A f : Users(watch, f) = 0
      BY <1>1 DEF Users
    <2> QED
      BY <2>1, <2>2, <2>3 DEF Counted
  <1> QED
    BY <1>2, <1>7, <1>9, <1>10 DEF Types

LEMMA StepCounted ==
  ASSUME Types, Counted, [Next]_vars
  PROVE Types' /\ Counted'
  <1>1. CASE \E v \in Views, f \in Files : Load(v, f) \/ Save(v, f)
    BY <1>1, LoadFits, SaveFits
  <1>2. CASE \E v \in Views : Reload(v) \/ Close(v)
    BY <1>2, ReloadFits, CloseFits
  <1>3. CASE LoadStep
    BY <1>3, ReadFits, FinishLoadFits, LoadFailsFits DEF LoadStep
  <1>4. CASE SaveStep
    BY <1>4, WritePartFits, WriteEndsFits, FinishSaveFits DEF SaveStep
  <1>5. CASE Tick \/ Check \/ EmitChanges \/ FileChangedTimer
    BY <1>5, TickFits, CheckFits, EmitFits, FileChangedFits
  <1>6. CASE \E f \in Files : WriteOutside(f) \/ DeleteOutside(f)
    BY <1>6, WriteOutsideFits, DeleteOutsideFits
  <1>7. CASE \E en \in BOOLEAN : Switch(en)
    BY <1>7, SwitchFits
  <1>8. CASE UNCHANGED vars
    <2>1. /\ UNCHANGED <<disk, writes, watch, tick, timer, s_global_enable>>
          /\ UNCHANGED <<view, m_changed_files, file_changed_timer, calls, overtaken, vanished>>
      BY <1>8 DEF vars, watcherVars, windowVars, historyVars
    <2>2. Members(watch, writes) /\ WatcherTypeOK /\ writes \in Nat
      BY DEF Types, TypeOK, WatcherTypeOK
    <2>3. WatcherTypeOK'
      BY <2>1, <2>2 DEF WatcherTypeOK
    <2> QED
      BY <2>1, <2>2, <2>3, QuietStep DEF Types, TypeOK
  <1> QED
    BY <1>1, <1>2, <1>3, <1>4, <1>5, <1>6, <1>7, <1>8 DEF Next

LEMMA AlwaysCounted == Spec => [](Types /\ Counted)
  <1>1. Init => Types /\ Counted
    BY InitCounted
  <1>2. Types /\ Counted /\ [Next]_vars => (Types /\ Counted)'
    BY StepCounted
  <1> QED
    BY <1>1, <1>2, PTL DEF Spec

(* The iterator of the watcher is at an entry or at the end, no entry stays*)
(* without a user, and every stamp is that of a content the file had, in   *)
(* whatever order files are added, removed, checked, written and deleted   *)
(* (tlFileSystemWatcher.cc, LayoutHandle).                                 *)
THEOREM TypeCorrect == Spec => []TypeOK
  <1>1. Types /\ Counted => TypeOK
    BY DEF Types
  <1> QED
    BY <1>1, AlwaysCounted, PTL

(* The watcher counts a file as often as views have handles on it, through *)
(* loads, reloads, saves and their failures, and never more often; it may  *)
(* count a file too rarely only when it was missing as somebody added it   *)
(* (LayoutHandle with add_file and remove_file).                           *)
THEOREM WatchCorrect == Spec => []WatchedByHandles
  <1>1. Types /\ Counted => WatchedByHandles
    BY DEF Counted, WatchedByHandles
  <1> QED
    BY <1>1, AlwaysCounted, PTL
=============================================================================

--------------------------- MODULE LibraryManager ---------------------------
(***************************************************************************)
(* Libraries and the proxies that stand for their cells in layouts:        *)
(* db::LibraryManager (db/db/dbLibraryManager.cc), db::Library             *)
(* (dbLibrary.cc), db::LibraryProxy and db::ColdProxy (dbLibraryProxy.cc,  *)
(* dbColdProxy.cc) and the calls of db::Layout for them (dbLayout.cc).     *)
(*                                                                         *)
(* A proxy names its library by the id, which is a slot of the manager,    *)
(* and the cell by its index in the library's layout.  A library counts    *)
(* its proxies, and so knows where to look for them when it goes and when  *)
(* a PCell variant is of no use any more.  A proxy whose library is gone   *)
(* is "cold": it keeps the names until a library fits them.                *)
(*                                                                         *)
(* Everything runs in the GUI thread; a step is a call.  The calls are     *)
(* composed from operators on the database, the record "db".               *)
(***************************************************************************)
EXTENDS Naturals, FiniteSets, Sequences, SequencesExt

CONSTANTS
  Libs, NoLib,  \* library objects, used again when deleted; the null pointer
  Names, NoName, \* of libraries; no name
  Techs,        \* technologies, with Generic for none
  Generic,
  CellNames,    \* of library cells
  PCells,       \* the cells that exist as variants, while a proxy needs them
  Files,        \* what a library file may have in it, sets of cells
  Views,        \* layouts that use the libraries
  MaxProxies,   \* bound: proxies ever made
  MaxIndex      \* bound: cells ever made in a library between two loads

Dead == [place |-> "nowhere"]
Gone == "-"

ASSUME LibrariesAssumption ==
  /\ NoLib \notin Libs /\ Generic \in Techs
  /\ NoName \notin Names /\ Gone \notin CellNames /\ PCells \subseteq CellNames
  /\ Files \subseteq SUBSET CellNames /\ \A has \in Files : IsFiniteSet(has)
  /\ MaxProxies \in Nat /\ MaxIndex \in Nat

VARIABLES
  db,           \* the database, see Database
  m_tech_name   \* the technologies of the views

vars == <<db, m_tech_name>>

(* "has" is what the library's file offers, "cells" the layout of the      *)
(* library by index.  "id" is 0 for a cold proxy, and "op" the place of a  *)
(* proxy that an operation of the undo history holds.                      *)
LibraryRecord ==
  [m_name : Names \union {NoName}, tech : Techs, has : SUBSET CellNames, cells : Seq(CellNames \union {Gone}),
   m_refcount : Seq(Nat), m_referrers : [Views -> Nat]]
Proxy ==
  [place : {"layout", "op"}, view : Views, id : Nat, index : Nat,
   cell_name : CellNames, lib_name : Names \union {NoName}]
Database ==
  [m_libs : Seq(Libs \union {NoLib}), m_lib_by_name : SUBSET [name : Names, id : Nat \ {0}],
   lib : [Libs -> LibraryRecord], proxies : Seq(Proxy \union {Dead}), disturbed : BOOLEAN]

Fresh == [m_name |-> NoName, tech |-> Generic, has |-> {},
          cells |-> <<>>, m_refcount |-> <<>>,
          m_referrers |-> [v \in Views |-> 0]]

Alive(s) == {c \in DOMAIN s.proxies : s.proxies[c] # Dead}
At(s, place) == {c \in Alive(s) : s.proxies[c].place = place}
LibOf(s, id) == IF id \in DOMAIN s.m_libs THEN s.m_libs[id] ELSE NoLib
Owner(s, c) == LibOf(s, s.proxies[c].id)
Registered(s) == Range(s.m_libs) \ {NoLib}
IdOf(s, L) == CHOOSE id \in DOMAIN s.m_libs : s.m_libs[id] = L
IsValid(s, L, index) == index \in DOMAIN s.lib[L].cells /\ s.lib[L].cells[index] # Gone
IndexOf(s, L, name) == CHOOSE i \in DOMAIN s.lib[L].cells : s.lib[L].cells[i] = name

(* lib_by_name(): the library for the technology, or else a generic one.   *)
Named(s, name, t) ==
  {L \in Registered(s) : s.lib[L].tech = t /\ [name |-> name, id |-> IdOf(s, L)] \in s.m_lib_by_name}

LibByName(s, name, t) ==
  LET found == IF Named(s, name, t) # {} THEN Named(s, name, t) ELSE Named(s, name, Generic)
  IN IF found = {} THEN NoLib ELSE CHOOSE L \in found : TRUE

-----------------------------------------------------------------------------
(* What the libraries count.  A variant goes with its last proxy.          *)

Counted(s, L, C) == {c \in C : s.proxies[c].id # 0 /\ Owner(s, c) = L}
AtIndex(s, C, i) == Cardinality({c \in C : s.proxies[c].index = i})
InView(s, C, v) == Cardinality({c \in C : s.proxies[c].view = v})
Less(n, k) == IF n > k THEN n - k ELSE 0

RegisterProxies(s, C) ==
  [s EXCEPT !.lib = [L \in Libs |-> LET D == Counted(s, L, C) IN
    [s.lib[L] EXCEPT !.m_refcount = [i \in DOMAIN @ |-> @[i] + AtIndex(s, D, i)],
                     !.m_referrers = [v \in Views |-> @[v] + InView(s, D, v)]]]]

UnregisterProxies(s, C) ==
  [s EXCEPT !.lib = [L \in Libs |->
    LET D == Counted(s, L, C)
        left == [i \in DOMAIN s.lib[L].cells |-> Less(s.lib[L].m_refcount[i], AtIndex(s, D, i))]
        Unused(i) == left[i] = 0 /\ s.lib[L].m_refcount[i] > 0 /\ s.lib[L].cells[i] \in PCells
    IN [s.lib[L] EXCEPT !.m_refcount = left,
                        !.m_referrers = [v \in Views |-> Less(@[v], InView(s, D, v))],
                        !.cells = [i \in DOMAIN @ |-> IF Unused(i) THEN Gone ELSE @[i]]]]]

(* Proxies are destroyed, and proxies are replaced by cold ones.           *)
Destroy(s, C) ==
  [UnregisterProxies(s, C) EXCEPT
     !.proxies = [c \in DOMAIN @ |-> IF c \in C THEN Dead ELSE @[c]]]

CreateColdProxies(s, C) ==
  LET NameOf(c) == IF Owner(s, c) = NoLib THEN NoName ELSE s.lib[Owner(s, c)].m_name
  IN IF C = {} THEN s ELSE [UnregisterProxies(s, C) EXCEPT
        !.proxies = [c \in DOMAIN @ |->
           IF c \in C THEN [@[c] EXCEPT !.id = 0, !.index = 0, !.lib_name = NameOf(c)] ELSE @[c]]]

(* Of the proxies c those that lead elsewhere go to the library T[c]: the  *)
(* variants they need are made, and they are directed to the cells of      *)
(* their names: get_pcell_variant(), remap().                              *)
WithCells(lib, names) ==
  [lib EXCEPT !.cells = @ \o SetToSeq(names),
              !.m_refcount = @ \o [i \in 1..Cardinality(names) |-> 0]]

WithVariants(s, D, T) ==
  [s EXCEPT !.lib = [L \in Libs |->
     WithCells(s.lib[L], {s.proxies[c].cell_name : c \in {d \in D : T[d] = L}} \ Range(s.lib[L].cells))]]

Remap(s, T) ==
  LET D == {c \in DOMAIN T : Owner(s, c) # T[c]}
      t == UnregisterProxies(WithVariants(s, D, T), D)
      To(p, L) == [p EXCEPT !.id = IdOf(t, L), !.index = IndexOf(t, L, p.cell_name), !.lib_name = NoName]
  IN IF D = {} THEN s ELSE
       RegisterProxies([t EXCEPT !.proxies = [c \in DOMAIN @ |-> IF c \in D THEN To(@[c], T[c]) ELSE @[c]]], D)

(* cleanup(): of several proxies for one cell the first is left.  Proxies  *)
(* that no cell uses go too, but placements are not modelled: for them     *)
(* there is DeleteCell, at any time.                                       *)
Doubles(s, views) ==
  {c \in At(s, "layout") : s.proxies[c].view \in views /\
     \E d \in 1..(c - 1) : s.proxies[d] = s.proxies[c]}

Cleanup(s, views) ==
  IF Doubles(s, views) = {} THEN s ELSE Destroy(s, Doubles(s, views))

-----------------------------------------------------------------------------
(* remap_to(): a library hands its proxies to another one, or to nobody.   *)

Referred(s, L) ==
  {c \in At(s, "layout") : /\ s.proxies[c].id # 0 /\ Owner(s, c) = L
                           /\ s.lib[L].m_referrers[s.proxies[c].view] > 0
                           /\ IsValid(s, L, s.proxies[c].index)}

RemapTo(s, L, other) ==
  LET C == Referred(s, L)
      kept == IF other = NoLib THEN {} ELSE {c \in C : s.proxies[c].cell_name \in s.lib[other].has}
      t == Remap(s, [c \in kept |-> other])
  IN Cleanup(CreateColdProxies(t, C \ kept), {s.proxies[c].view : c \in C})

(* The slot becomes free.  A proxy that the history still holds then leads *)
(* nowhere, or to the next library in that slot ("disturbed").             *)
FreeSlot(s, L) ==
  [s EXCEPT !.m_libs[IdOf(s, L)] = NoLib,
            !.disturbed = @ \/ \E c \in At(s, "op") : s.proxies[c].id = IdOf(s, L)]

(* restore_proxies(): the cold proxies of the views that find their cell.  *)
Restorable(s, c, t) ==
  LET L == LibByName(s, s.proxies[c].lib_name, t)
  IN IF L # NoLib /\ s.proxies[c].cell_name \in s.lib[L].has THEN {L} ELSE {}

RestoreProxies(s, views, techs) ==
  LET Tech(c) == techs[s.proxies[c].view]
      cold == {c \in At(s, "layout") : /\ s.proxies[c].id = 0 /\ s.proxies[c].view \in views
                                       /\ Restorable(s, c, Tech(c)) # {}}
      restored == Remap(s, [c \in cold |-> LibByName(s, s.proxies[c].lib_name, Tech(c))])
  IN Cleanup(restored, {s.proxies[c].view : c \in cold})

(* Slip: the slot is freed first, so that no proxy is found any more.      *)
UnregisterLibEarly(s, L) ==
  [RemapTo(FreeSlot(s, L), L, NoLib) EXCEPT
     !.m_lib_by_name = {e \in @ : e.name # s.lib[L].m_name}]

UnregisterLib(s, L) ==
  LET t == RemapTo(s, L, NoLib)
  IN [FreeSlot(t, L) EXCEPT
        !.m_lib_by_name = {e \in @ : e.name # s.lib[L].m_name}]

DeleteLib(s, L) == [UnregisterLib(s, L) EXCEPT !.lib[L] = Fresh]

FirstFree(libs) ==
  IF NoLib \in Range(libs)
  THEN CHOOSE i \in DOMAIN libs : libs[i] = NoLib /\ \A j \in 1..(i - 1) : libs[j] # NoLib
  ELSE Len(libs) + 1

(* A library of the same name for the same technologies is replaced.       *)
Replaced(s, old, L) == [FreeSlot(RemapTo(s, old, L), old) EXCEPT !.lib[old] = Fresh]

RegisterLib(s, L, techs) ==
  LET name == s.lib[L].m_name
      id == FirstFree(s.m_libs)
      same == Named(s, name, s.lib[L].tech)
      old == IF same = {} THEN NoLib ELSE CHOOSE M \in same : TRUE
      t == [s EXCEPT !.m_libs = [i \in DOMAIN @ \union {id} |-> IF i = id THEN L ELSE @[i]],
                     !.m_lib_by_name = {e \in @ : LibOf(s, e.id) # old}
                                       \union {[name |-> name, id |-> id]}]
      r == IF old = NoLib THEN t ELSE Replaced(t, old, L)
      waiting == {r.proxies[c].view : c \in {d \in Alive(r) :
                    r.proxies[d].id = 0 /\ r.proxies[d].lib_name = name}}
  IN RestoreProxies(r, waiting, techs)

Loaded(s, L, has) ==
  [s EXCEPT !.lib[L] = WithCells([@ EXCEPT !.has = has, !.cells = <<>>, !.m_refcount = <<>>],
                                 has \ PCells)]

-----------------------------------------------------------------------------
(* The calls.                                                              *)

HasRoom ==
  \A L \in Libs : LET cells == db.lib[L].cells
                  IN Len(cells) + Cardinality(PCells \ Range(cells)) <= MaxIndex

(* A new library is filled and registered.                                 *)
Register(name, t, has) ==
  LET L == CHOOSE M \in Libs : M \notin Registered(db)
  IN /\ HasRoom /\ Libs # Registered(db)
     /\ db' = RegisterLib([Loaded(db, L, has) EXCEPT !.lib[L].m_name = name, !.lib[L].tech = t],
                          L, m_tech_name)
     /\ UNCHANGED m_tech_name

Delete(L) ==
  /\ L \in Registered(db)
  /\ db' = DeleteLib(db, L)
  /\ UNCHANGED m_tech_name

(* refresh(): the file may have other cells and another name by now; when  *)
(* it cannot be read the library is registered with nothing in it.         *)
Reloaded(s, L, name, has) ==
  RegisterLib([Loaded(UnregisterLib(s, L), L, has) EXCEPT !.lib[L].m_name = name], L, m_tech_name)

Refresh(L, name, has) ==
  /\ HasRoom /\ L \in Registered(db)
  /\ \/ db' = RemapTo(Reloaded(db, L, name, has), L, L)
     \/ db' = Reloaded(db, L, db.lib[L].m_name, {})
  /\ UNCHANGED m_tech_name

(* Library::rename() first deletes the library it finds under the name.    *)
Rename(L, name) ==
  LET old == LibByName(db, name, db.lib[L].tech)
      s == IF old \in {NoLib, L} THEN db ELSE DeleteLib(db, old)
      id == IdOf(s, L)
  IN /\ L \in Registered(db) /\ name # db.lib[L].m_name
     /\ db' = RemapTo([s EXCEPT !.lib[L].m_name = name,
                                !.m_lib_by_name = (@ \ {[name |-> db.lib[L].m_name, id |-> id]})
                                                  \union {[name |-> name, id |-> id]}], L, L)
     /\ UNCHANGED m_tech_name

(* create_cell(name, libname): a new proxy, unless there is one.           *)
CreateProxy(v, name, cell_name) ==
  LET L == LibByName(db, name, m_tech_name[v])
      new == [place |-> "layout", view |-> v, id |-> 0, index |-> 0,
              cell_name |-> cell_name, lib_name |-> name]
  IN /\ HasRoom /\ Len(db.proxies) < MaxProxies
     /\ L # NoLib /\ cell_name \in db.lib[L].has
     /\ ~\E c \in At(db, "layout") : /\ db.proxies[c].view = v /\ db.proxies[c].id # 0
                                     /\ Owner(db, c) = L /\ db.proxies[c].cell_name = cell_name
     /\ db' = Remap([db EXCEPT !.proxies = Append(@, new)], [c \in {Len(db.proxies) + 1} |-> L])
     /\ UNCHANGED m_tech_name

(* Slip: a cell that is taken from the layout is not counted any more.     *)
TakeCellCounted(s, c) ==
  [UnregisterProxies(s, {c}) EXCEPT !.proxies[c].place = "op"]

(* take_cell(): an operation has the proxy now, which still counts.        *)
TakeCell(s, c) == [s EXCEPT !.proxies[c].place = "op"]

(* delete_cell(): inside a transaction the operation keeps the proxy, and  *)
(* undo puts it back, with all in place that was made after it went.       *)
DeleteCell(c) ==
  /\ c \in At(db, "layout")
  /\ \/ db' = TakeCell(db, c)
     \/ db' = Destroy(db, {c})
  /\ UNCHANGED m_tech_name

InsertCell(c) ==
  /\ c \in At(db, "op")
  /\ ~\E d \in At(db, "layout") : db.proxies[d].view = db.proxies[c].view
                                  /\ db.proxies[d].cell_name = db.proxies[c].cell_name
  /\ db' = [db EXCEPT !.proxies[c].place = "layout"]
  /\ UNCHANGED m_tech_name

ClearHistory(v) ==
  LET held == {c \in At(db, "op") : db.proxies[c].view = v}
  IN /\ held # {}
     /\ db' = Destroy(db, held)
     /\ UNCHANGED m_tech_name

(* Slip: libraries are still looked for under the old technology.          *)
RestoreInOld(s, v, t) == RestoreProxies(s, {v}, m_tech_name)

RestoreIn(s, v, t) == RestoreProxies(s, {v}, [m_tech_name EXCEPT ![v] = t])

(* set_technology_name(): each proxy goes to the library that has the name *)
(* in the new technology; then cold proxies may find one.                  *)
SetTechnologyName(v, t) ==
  LET hot == {c \in At(db, "layout") : db.proxies[c].view = v /\ Owner(db, c) # NoLib}
      New(c) == LibByName(db, db.lib[Owner(db, c)].m_name, t)
      Offers(c) == New(c) # NoLib /\ db.proxies[c].cell_name \in db.lib[New(c)].has
      moved == {c \in hot : New(c) # Owner(db, c)}
      mapped == Remap(db, [c \in {d \in moved : Offers(d)} |-> New(c)])
      cold == {c \in moved : ~Offers(c)}
                \union {c \in At(db, "layout") : db.proxies[c].view = v
                          /\ db.proxies[c].id # 0 /\ Owner(db, c) = NoLib}
      cleaned == Cleanup(CreateColdProxies(mapped, cold), {v})
  IN /\ HasRoom /\ t # m_tech_name[v]
     /\ m_tech_name' = [m_tech_name EXCEPT ![v] = t]
     /\ db' = RestoreIn(cleaned, v, t)

Init ==
  /\ db = [m_libs |-> <<>>, m_lib_by_name |-> {}, lib |-> [L \in Libs |-> Fresh],
           proxies |-> <<>>, disturbed |-> FALSE]
  /\ m_tech_name = [v \in Views |-> Generic]

Call ==
  \/ \E n \in Names, has \in Files : \/ \E t \in Techs : Register(n, t, has)
                                      \/ \E L \in Libs : Refresh(L, n, has)
  \/ \E L \in Libs : Delete(L) \/ \E n \in Names : Rename(L, n)
  \/ \E v \in Views, n \in Names, cn \in CellNames : CreateProxy(v, n, cn)
  \/ \E c \in Alive(db) : DeleteCell(c) \/ InsertCell(c)
  \/ \E v \in Views : ClearHistory(v) \/ \E t \in Techs : SetTechnologyName(v, t)

(* What comes of proxies that lead nowhere is not followed.                *)
Next == ~db.disturbed /\ Call

Spec == Init /\ [][Next]_vars

-----------------------------------------------------------------------------
(* Properties.                                                             *)

(* Types; and every name leads to a registered library that has it, as     *)
(* lib_by_name() asks the library under the id without a test.             *)
TypeOK ==
  /\ db \in Database /\ m_tech_name \in [Views -> Techs]
  /\ \A e \in db.m_lib_by_name : /\ LibOf(db, e.id) # NoLib
                                  /\ db.lib[LibOf(db, e.id)].m_name = e.name

(* A proxy in a layout leads to a cell of a registered library, and to the *)
(* one it was made for, however often libraries were replaced, reloaded,   *)
(* renamed or exchanged with the technology.                               *)
ProxiesResolve ==
  \A c \in At(db, "layout") : ~db.disturbed /\ db.proxies[c].id # 0 =>
    /\ Owner(db, c) # NoLib
    /\ db.proxies[c].index \in DOMAIN db.lib[Owner(db, c)].cells
    /\ db.lib[Owner(db, c)].cells[db.proxies[c].index] = db.proxies[c].cell_name

(* A library counts the proxies that lead to it, also those in an undo     *)
(* history, and has just the variants that one of them needs.              *)
CountsExact ==
  \A L \in Registered(db) : ~db.disturbed =>
    LET D == Counted(db, L, Alive(db))
    IN /\ \A v \in Views : db.lib[L].m_referrers[v] = InView(db, D, v)
       /\ \A i \in DOMAIN db.lib[L].cells :
            /\ db.lib[L].m_refcount[i] = AtIndex(db, D, i)
            /\ db.lib[L].cells[i] \in PCells => db.lib[L].m_refcount[i] > 0

(* When a library has come or the technology was changed, no cold proxy is *)
(* left that could be restored by it.                                      *)
NoneLeftCold ==
  [][\A L \in Libs, v \in Views :
       L \in Registered(db)' \ Registered(db) \/ m_tech_name'[v] # m_tech_name[v] =>
         \A c \in At(db', "layout") : db'.proxies[c].view = v /\ db'.proxies[c].id = 0 =>
           L \notin Restorable(db', c, m_tech_name'[v])]_vars

(* Every registered library is found by its name and technologies.         *)
NamesFound ==
  \A L \in Registered(db) : LibByName(db, db.lib[L].m_name, db.lib[L].tech) = L
=============================================================================

------------------------------ MODULE Manager ------------------------------
(***************************************************************************)
(* db::Manager, the undo manager (db/db/dbManager.{h,cc}), with the        *)
(* objects it serves: the cells of a layout (db/db/dbLayout.cc,            *)
(* dbCell.cc), which a transaction creates, deletes and changes.  A        *)
(* deleted cell lives on inside the operation that deleted it.             *)
(*                                                                         *)
(* Everything runs in the GUI thread; a step is one call, except that      *)
(* undo, redo and the undo inside cancel go operation by operation, since  *)
(* each of them may fail and the progress reporter may break in between.   *)
(***************************************************************************)
EXTENDS Naturals, FiniteSets, Sequences, SequencesExt

CONSTANTS
  Cells,            \* cell indexes; Layout never uses one twice
  Layout, NoObject, \* the layout as an object of the manager, the null pointer
  Props,            \* values of Cell::m_prop_id, 0 for a new cell
  MaxOps,           \* bound: operations per transaction
  MaxTransactions,  \* bound: calls of transaction() that create one
  Clients,          \* who opens transactions: "plain", "joining", "scope"
  Forgetful,        \* the joining client is edt::InstService, which drops its
                    \* id before undo and redo, not the lay::PropertiesDialog
  EmptyClose,       \* the scope client also closes empty transactions
  ReuseAddresses,   \* a new list node may get the address of a deleted one
  Breakable,        \* the user may cancel undo and redo while they run
  Unlogged          \* changes outside transactions while there is a history

ASSUME ObjectsAssumption ==
  /\ Layout \notin Cells /\ NoObject \notin Cells /\ Layout # NoObject
  /\ 0 \in Props
ASSUME BoundsAssumption == MaxOps \in Nat /\ MaxTransactions \in Nat
ASSUME ClientsAssumption ==
  /\ Clients \subseteq {"plain", "joining", "scope"}
  /\ {Forgetful, EmptyClose, ReuseAddresses, Breakable, Unlogged} \subseteq BOOLEAN

VARIABLES
  m_transactions,  \* of [addr, serial, ops]
  m_current,       \* number of transactions before the iterator m_current
  m_opened,
  m_replay,        \* "no", or the call that replays: "undo", "cancel", "redo"
  pos,             \* the operation to replay next
  m_id_table,
  m_id,            \* Object::m_id of the cells
  where,           \* "unborn", in the "layout", owned by an "op", or "dead"
  m_prop_id,       \* Cell::m_prop_id
  user,            \* who opened the open transaction
  scope,           \* a db::Transaction that may be closed and opened exists
  ticket,          \* the transaction id the joining or scope client keeps
  touched,         \* history: transactions the scope client's changes went to
  created          \* history: transactions created

listVars == <<m_transactions, m_current, m_opened>>
replayVars == <<m_replay, pos>>
objectVars == <<m_id_table, m_id, where, m_prop_id>>
clientVars == <<user, scope, ticket, touched>>
vars == <<listVars, replayVars, objectVars, clientVars, created>>

NoTicket == [addr |-> 0, serial |-> 0]
Replaying == m_replay # "no"

(* The document, and the document after the step: what undo restores.      *)
Doc == [live |-> {c \in Cells : where[c] = "layout"}, prop |-> m_prop_id]
DocAfter == [live |-> {c \in Cells : where'[c] = "layout"}, prop |-> m_prop_id']

(* Transaction ids are the addresses of list nodes.                        *)
IdOf(t) == [addr |-> t.addr, serial |-> t.serial]
LastId(ts) == IF ts = <<>> THEN NoTicket ELSE IdOf(Last(ts))
UndoAddress == IF m_current = 0 THEN 0 ELSE m_transactions[m_current].addr
NewAddresses(ts) ==
  IF ReuseAddresses THEN (1..MaxTransactions) \ {t.addr : t \in Range(ts)}
  ELSE {created + 1}

(* m_current is the open transaction, or else the one to redo next.        *)
CurrentOps == m_transactions[m_current + 1].ops

-----------------------------------------------------------------------------
(* Deleting operations deletes the cells they own, and a deleted object    *)
(* gives its id back.                                                      *)

HeldIn(ts) == UNION {{o.cell : o \in {p \in Range(t.ops) : p.held}} : t \in Range(ts)}

(* Slip: the destructor forgets to give the id back.                       *)
KillKeepsIds(dead) ==
  /\ where' = [c \in Cells |-> IF c \in dead THEN "dead" ELSE where[c]]
  /\ m_id' = [c \in Cells |-> IF c \in dead THEN 0 ELSE m_id[c]]
  /\ UNCHANGED <<m_id_table, m_prop_id>>

Kill(dead) ==
  /\ where' = [c \in Cells |-> IF c \in dead THEN "dead" ELSE where[c]]
  /\ m_id' = [c \in Cells |-> IF c \in dead THEN 0 ELSE m_id[c]]
  /\ m_id_table' = [i \in DOMAIN m_id_table |->
                      IF m_id_table[i] \in dead THEN NoObject ELSE m_id_table[i]]
  /\ UNCHANGED m_prop_id

EraseFrom(n, ts) == Kill(HeldIn(SubSeq(ts, n + 1, Len(ts))))

EraseAll ==
  /\ m_transactions' = <<>> /\ m_current' = 0
  /\ m_opened' = FALSE /\ user' = "nobody"
  /\ EraseFrom(0, m_transactions)

(* Ids are recycled; which of the free ones is taken is left open.         *)
FreeIds == {i \in DOMAIN m_id_table : m_id_table[i] = NoObject}
NextIds == IF FreeIds = {} THEN {Len(m_id_table) + 1} ELSE FreeIds
TableWith(id, c) == IF id \in FreeIds THEN [m_id_table EXCEPT ![id] = c]
                                      ELSE Append(m_id_table, c)

-----------------------------------------------------------------------------
(* Transactions.                                                           *)

(* Slip: the empty transaction stays in the list.                          *)
CommittedListWhole == m_transactions

CommittedList == IF CurrentOps # <<>> THEN m_transactions
                 ELSE SubSeq(m_transactions, 1, m_current)
CommittedCursor == IF CurrentOps # <<>> THEN m_current + 1 ELSE m_current

(* transaction(description, join_with); an open transaction is committed   *)
(* first, and the transactions after the cursor are deleted.               *)
(* Slip: join_with is ignored.                                             *)
JoinsNever(ts, join) == FALSE

Joins(ts, join) == ts # <<>> /\ Last(ts).addr = join

Transaction(join) ==
  LET ts == IF m_opened THEN CommittedList ELSE m_transactions
      cursor == IF m_opened THEN CommittedCursor ELSE m_current
  IN /\ ~Replaying
     /\ \/ /\ Joins(ts, join)
           /\ m_transactions' = ts
           /\ UNCHANGED <<objectVars, created>>
        \/ /\ ~Joins(ts, join)
           /\ created < MaxTransactions
           /\ \E a \in NewAddresses(SubSeq(ts, 1, cursor)) :
                m_transactions' = Append(SubSeq(ts, 1, cursor),
                                         [addr |-> a, serial |-> created + 1, ops |-> <<>>])
           /\ created' = created + 1
           /\ EraseFrom(cursor, ts)
     /\ m_current' = Len(m_transactions') - 1
     /\ m_opened' = TRUE
     /\ UNCHANGED replayVars

Commit ==
  /\ m_opened /\ ~Replaying
  /\ m_transactions' = CommittedList
  /\ m_current' = CommittedCursor
  /\ m_opened' = FALSE
  /\ user' = "nobody"
  /\ UNCHANGED <<replayVars, objectVars, created>>

(* cancel(): undo what was collected, then drop it.                        *)
(* Slip: cancel is commit and undo, also for an empty transaction.         *)
CancelBlindly ==
  /\ m_opened /\ ~Replaying
  /\ m_opened' = FALSE
  /\ user' = "nobody"
  /\ m_transactions' = CommittedList
  /\ IF CommittedCursor = 0 THEN UNCHANGED <<m_current, replayVars>>
     ELSE /\ m_current' = CommittedCursor - 1
          /\ m_replay' = "cancel"
          /\ pos' = Len(m_transactions[CommittedCursor].ops)
  /\ UNCHANGED <<objectVars, created>>

CancelPending ==
  /\ m_opened /\ ~Replaying
  /\ m_opened' = FALSE
  /\ user' = "nobody"
  /\ \/ /\ CurrentOps # <<>>
        /\ m_replay' = "cancel" /\ pos' = Len(CurrentOps)
        /\ UNCHANGED <<m_transactions, m_current>>
     \/ /\ CurrentOps = <<>>
        /\ m_transactions' = SubSeq(m_transactions, 1, m_current)
        /\ UNCHANGED <<m_current, replayVars>>
  /\ UNCHANGED <<objectVars, created>>

(* The clients.  A plain one opens, changes, and commits or cancels.       *)
Begin ==
  /\ "plain" \in Clients /\ user \in {"nobody", "plain"}
  /\ Transaction(0)
  /\ user' = "plain"
  /\ UNCHANGED <<scope, ticket, touched>>

End ==
  /\ user = "plain"
  /\ Commit
  /\ UNCHANGED <<scope, ticket, touched>>

Cancel ==
  /\ user = "plain"
  /\ CancelPending
  /\ UNCHANGED <<scope, ticket, touched>>

(* A joining client keeps the id of its last transaction to continue it    *)
(* (InstService::m_reference_transaction_id between the reference cell and *)
(* its instance, PropertiesDialog::m_transaction_id as long as the dialog  *)
(* is open), and undoes it when the edit or the dialog is cancelled.  A    *)
(* scope takes its place (the variable "ticket"), so that they come one    *)
(* after the other.                                                        *)
BeginJoined ==
  /\ "joining" \in Clients /\ ~scope /\ user \in {"nobody", "plain"}
  /\ Transaction(ticket.addr)
  /\ user' = "joining"
  /\ UNCHANGED <<scope, ticket, touched>>

EndJoined ==
  /\ user = "joining"
  /\ Commit
  /\ \/ ticket' = IF CurrentOps # <<>> THEN IdOf(m_transactions[m_current + 1]) ELSE ticket
     \/ Forgetful /\ ticket' = NoTicket      \* the instance is placed
  /\ UNCHANGED <<scope, touched>>

(* A db::Transaction that is closed and opened again, like that of paste   *)
(* and move.                                                               *)
OpenScope ==
  /\ "scope" \in Clients /\ ~scope /\ user \in {"nobody", "plain"}
  /\ Transaction(0)
  /\ user' = "scope" /\ scope' = TRUE
  /\ ticket' = LastId(m_transactions') /\ touched' = {}

CloseScope ==
  /\ user = "scope"
  /\ CurrentOps # <<>> \/ EmptyClose
  /\ Commit
  /\ UNCHANGED <<scope, ticket, touched>>

ReopenScope ==
  /\ scope /\ ~m_opened
  /\ Transaction(ticket.addr)
  /\ user' = "scope"
  /\ UNCHANGED <<scope, ticket, touched>>

CancelScope ==                          \* from the closed state by ReopenScope
  /\ user = "scope"
  /\ CancelPending
  /\ scope' = FALSE /\ ticket' = NoTicket
  /\ UNCHANGED touched

EndScope ==
  /\ scope /\ ~Replaying
  /\ scope' = FALSE /\ ticket' = NoTicket
  /\ \/ Commit
     \/ ~m_opened /\ UNCHANGED <<listVars, replayVars, objectVars, user, created>>
  /\ UNCHANGED touched

-----------------------------------------------------------------------------
(* Changes of the layout.  Inside a transaction an operation is queued.    *)
(* Cells are operated through the layout object, properties through the    *)
(* cell that has them; "cell" is what the operation was queued for.        *)
(* "pre" and "post" are history: the document around the change.           *)

Queue(id, kind, c, held, from, to) ==
  IF m_opened
  THEN /\ Len(CurrentOps) < MaxOps
       /\ m_transactions' = [m_transactions EXCEPT ![m_current + 1].ops = Append(@,
            [id |-> id, kind |-> kind, cell |-> c, held |-> held, from |-> from,
             to |-> to, done |-> TRUE, pre |-> Doc, post |-> DocAfter])]
       /\ touched' = IF user = "scope"
                     THEN touched \union {m_transactions[m_current + 1].serial}
                     ELSE touched
  ELSE UNCHANGED <<m_transactions, touched>>

(* Who changes something outside a transaction clears the history before.  *)
MayChange ==
  /\ ~Replaying
  /\ m_opened \/ m_transactions = <<>> \/ Unlogged
  /\ m_opened \/ ~scope

Unaffected == UNCHANGED <<m_current, m_opened, replayVars, user, scope, ticket, created>>

AddCell(c) ==
  /\ MayChange
  /\ where[c] = "unborn"
  /\ where' = [where EXCEPT ![c] = "layout"]
  /\ \E id \in NextIds : /\ m_id' = [m_id EXCEPT ![c] = id]
                         /\ m_id_table' = TableWith(id, c)
  /\ UNCHANGED m_prop_id
  /\ Queue(1, "new", c, FALSE, 0, 0)
  /\ Unaffected

DeleteCell(c) ==
  /\ MayChange
  /\ where[c] = "layout"
  /\ IF m_opened
     THEN /\ where' = [where EXCEPT ![c] = "op"]
          /\ UNCHANGED <<m_id, m_id_table, m_prop_id>>
     ELSE Kill({c})
  /\ Queue(1, "remove", c, TRUE, 0, 0)
  /\ Unaffected

SetPropId(c, p) ==
  /\ MayChange
  /\ where[c] = "layout" /\ m_prop_id[c] # p
  /\ m_prop_id' = [m_prop_id EXCEPT ![c] = p]
  /\ UNCHANGED <<m_id, m_id_table, where>>
  /\ Queue(m_id[c], "prop", c, FALSE, m_prop_id[c], p)
  /\ Unaffected

-----------------------------------------------------------------------------
(* Undo and redo.  MainWindow cancels the views first: no scope is left    *)
(* then, and InstService has come to CancelDialog; the PropertiesDialog is *)
(* not among those that are cancelled and keeps its id.                    *)
ViewsCancelled == ~scope /\ (Forgetful => ticket = NoTicket)

StartUndo ==
  /\ m_current > 0 /\ ~m_opened /\ ~Replaying
  /\ m_current' = m_current - 1
  /\ m_replay' = "undo"
  /\ pos' = Len(m_transactions[m_current].ops)
  /\ UNCHANGED <<m_transactions, m_opened, objectVars, user, scope, touched, created>>

Undo == ViewsCancelled /\ StartUndo /\ UNCHANGED ticket

(* PropertiesDialog::cancel_pressed and InstService::do_cancel_edit.       *)
CancelDialog ==
  /\ "joining" \in Clients /\ ~scope /\ ~m_opened
  /\ ticket # NoTicket /\ ticket' = NoTicket
  /\ IF UndoAddress = ticket.addr THEN StartUndo
     ELSE ~Replaying /\ UNCHANGED <<listVars, replayVars, objectVars, user, scope, touched, created>>

Redo ==
  /\ ViewsCancelled /\ ~m_opened /\ ~Replaying
  /\ m_current < Len(m_transactions)
  /\ m_replay' = "redo" /\ pos' = 1
  /\ UNCHANGED <<listVars, objectVars, clientVars, created>>

(* The assertions of the loops and of NewRemoveCellOp.                     *)
Forward == m_replay = "redo"
ToLayout(o) == (o.kind = "new") = Forward     \* the cell goes to the layout

Replayable(o) ==
  /\ o.done = ~Forward
  /\ o.id \in DOMAIN m_id_table /\ m_id_table[o.id] # NoObject
  /\ o.kind # "prop" => IF ToLayout(o) THEN o.held /\ where[o.cell] # "layout"
                        ELSE ~o.held /\ where[o.cell] = "layout"

(* Slip: undo sets the new value again.                                    *)
ReplayForward(o) ==
  LET target == m_id_table[o.id]
  IN IF o.kind = "prop"
     THEN m_prop_id' = [m_prop_id EXCEPT ![target] = o.to] /\ UNCHANGED where
     ELSE /\ where' = [where EXCEPT ![o.cell] = IF ToLayout(o) THEN "layout" ELSE "op"]
          /\ UNCHANGED m_prop_id

Replay(o) ==
  LET target == m_id_table[o.id]
  IN IF o.kind = "prop"
     THEN /\ m_prop_id' = [m_prop_id EXCEPT ![target] = IF Forward THEN o.to ELSE o.from]
          /\ UNCHANGED where
     ELSE /\ where' = [where EXCEPT ![o.cell] = IF ToLayout(o) THEN "layout" ELSE "op"]
          /\ UNCHANGED m_prop_id

(* Slips: set_done is forgotten; the operation keeps the pointer to the    *)
(* cell it gave back.                                                      *)
ReplayedUnmarked(o) == [o EXCEPT !.held = IF o.kind = "prop" THEN FALSE ELSE ~ToLayout(o)]
ReplayedHolding(o) == [o EXCEPT !.done = Forward, !.held = o.kind # "prop"]

Replayed(o) == [o EXCEPT !.done = Forward,
                         !.held = IF o.kind = "prop" THEN FALSE ELSE ~ToLayout(o)]

ReplayOp ==
  /\ Replaying /\ pos \in DOMAIN CurrentOps
  /\ Replayable(CurrentOps[pos])
  /\ Replay(CurrentOps[pos])
  /\ m_transactions' = [m_transactions EXCEPT ![m_current + 1].ops[pos] = Replayed(@)]
  /\ pos' = IF Forward THEN pos + 1 ELSE pos - 1
  /\ UNCHANGED <<m_current, m_opened, m_replay, m_id_table, m_id, clientVars, created>>

(* An exception clears the history; what was replayed stays replayed.      *)
ReplayFails ==
  /\ Replaying
  /\ \/ pos \in DOMAIN CurrentOps /\ ~Replayable(CurrentOps[pos])
     \/ Breakable /\ pos # (IF Forward THEN 1 ELSE Len(CurrentOps))
  /\ m_replay' = "no" /\ pos' = 0
  /\ EraseAll
  /\ UNCHANGED <<scope, ticket, touched, created>>

ReplayEnds ==
  /\ Replaying /\ pos \notin DOMAIN CurrentOps
  /\ m_replay' = "no" /\ pos' = 0
  /\ m_current' = IF Forward THEN m_current + 1 ELSE m_current
  /\ IF m_replay = "cancel"
     THEN /\ m_transactions' = SubSeq(m_transactions, 1, m_current)
          /\ EraseFrom(m_current, m_transactions)
     ELSE UNCHANGED <<m_transactions, objectVars>>
  /\ UNCHANGED <<m_opened, clientVars, created>>

Clear ==
  /\ ~Replaying /\ ~scope
  /\ EraseAll
  /\ UNCHANGED <<replayVars, scope, ticket, touched, created>>

-----------------------------------------------------------------------------
Init ==
  /\ m_transactions = <<>> /\ m_current = 0 /\ m_opened = FALSE
  /\ m_replay = "no" /\ pos = 0
  /\ m_id_table = <<Layout>>
  /\ m_id = [c \in Cells |-> 0]
  /\ where = [c \in Cells |-> "unborn"]
  /\ m_prop_id = [c \in Cells |-> 0]
  /\ user = "nobody" /\ scope = FALSE
  /\ ticket = NoTicket /\ touched = {}
  /\ created = 0

Next ==
  \/ Begin \/ End \/ Cancel
  \/ BeginJoined \/ EndJoined \/ CancelDialog
  \/ OpenScope \/ CloseScope \/ ReopenScope \/ CancelScope \/ EndScope
  \/ \E c \in Cells : AddCell(c) \/ DeleteCell(c)
  \/ \E c \in Cells, p \in Props : SetPropId(c, p)
  \/ Undo \/ Redo \/ ReplayOp \/ ReplayFails \/ ReplayEnds
  \/ Clear

Spec == Init /\ [][Next]_vars

-----------------------------------------------------------------------------
(* Properties.                                                             *)

Document == [live : SUBSET Cells, prop : [Cells -> Props]]

Op == [id : Nat, kind : {"new", "remove", "prop"}, cell : Cells,
       held : BOOLEAN, from : Props, to : Props, done : BOOLEAN,
       pre : Document, post : Document]

TransactionRecord == [addr : Nat \ {0}, serial : Nat \ {0}, ops : Seq(Op)]

(* The cursor stays inside the list of transactions, the open transaction  *)
(* is the last one, and no other transaction is empty.                     *)
ListTypeOK ==
  /\ m_transactions \in Seq(TransactionRecord)
  /\ m_current \in 0..Len(m_transactions)
  /\ m_opened \in BOOLEAN
  /\ m_opened => m_current + 1 = Len(m_transactions)
  /\ \A i \in DOMAIN m_transactions :
       m_transactions[i].ops = <<>> => m_opened /\ i = m_current + 1

ReplayTypeOK ==
  /\ m_replay \in {"no", "undo", "cancel", "redo"}
  /\ m_replay = "no" => pos = 0
  /\ m_replay = "cancel" => m_current + 1 = Len(m_transactions)
  /\ Replaying => /\ ~m_opened
                  /\ m_current < Len(m_transactions)
                  /\ pos \in 0..Len(CurrentOps) + 1

ObjectTypeOK ==
  /\ m_id_table \in Seq(Cells \union {Layout, NoObject})
  /\ m_id \in [Cells -> Nat]
  /\ m_prop_id \in [Cells -> Props]
  /\ where \in [Cells -> {"unborn", "layout", "op", "dead"}]

ClientTypeOK ==
  /\ user \in {"nobody", "plain", "joining", "scope"}
  /\ (user = "nobody") = ~m_opened
  /\ scope \in BOOLEAN
  /\ ticket \in [addr : Nat, serial : Nat]
  /\ touched \subseteq Nat
  /\ created \in Nat

TypeOK == ListTypeOK /\ ReplayTypeOK /\ ObjectTypeOK /\ ClientTypeOK

(* A cell taken out of the layout has exactly one owner among the          *)
(* operations, so that it is neither leaked nor deleted twice.             *)
OpsHolding(c) ==
  {ij \in (DOMAIN m_transactions) \X (1..MaxOps) :
     /\ ij[2] \in DOMAIN m_transactions[ij[1]].ops
     /\ m_transactions[ij[1]].ops[ij[2]].held
     /\ m_transactions[ij[1]].ops[ij[2]].cell = c}

CellsOwnedOnce ==
  \A c \in Cells : Cardinality(OpsHolding(c)) = IF where[c] = "op" THEN 1 ELSE 0

(* The id table points to the objects that exist, and to them only.        *)
IdsExact ==
  /\ Head(m_id_table) = Layout
  /\ \A c \in Cells :
       {i \in DOMAIN m_id_table : m_id_table[i] = c} =
         IF where[c] \in {"layout", "op"} THEN {m_id[c]} ELSE {}

(* undo, redo and cancel never run into one of their assertions, which     *)
(* would end in losing the history with the transaction half undone.       *)
AssertionsHold ==
  Replaying /\ pos \in DOMAIN CurrentOps => Replayable(CurrentOps[pos])

(* An undo, cancel or redo that runs to its end has restored the document  *)
(* as it was before, or after, the transaction.                            *)
UndoExact ==
  [][ReplayEnds => Doc = IF Forward THEN Last(CurrentOps).post ELSE CurrentOps[1].pre]_vars

(* What a db::Transaction collects between its construction and its end    *)
(* goes to one transaction, to be undone in one step.                      *)
ScopeIsOneTransaction == scope => Cardinality(touched) <= 1

(* Undo and redo go back and forth between the states of the document.     *)
Before(t) == t.ops[1].pre
After(t) == Last(t.ops).post

LogDoc ==
  CASE m_replay = "undo" -> After(m_transactions[m_current + 1])
    [] m_replay \in {"redo", "cancel"} -> Before(m_transactions[m_current + 1])
    [] OTHER -> Doc

LogPast == [i \in 1..(IF m_replay = "undo" THEN m_current + 1 ELSE m_current)
              |-> Before(m_transactions[i])]

LogFuture ==
  IF m_opened \/ m_replay = "cancel" THEN <<>>
  ELSE [i \in 1..(Len(m_transactions) - Len(LogPast))
          |-> After(m_transactions[Len(LogPast) + i])]

LogBase ==
  IF m_opened /\ CurrentOps # <<>> THEN Before(m_transactions[m_current + 1]) ELSE LogDoc

Log == INSTANCE UndoLog
  WITH doc <- LogDoc, past <- LogPast, future <- LogFuture, open <- m_opened, base <- LogBase

LogSpec == Log!Spec
=============================================================================

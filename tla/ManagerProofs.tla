---------------------------- MODULE ManagerProofs ----------------------------
(***************************************************************************)
(* Theorems about Manager for all cells, properties, clients and bounds:   *)
(* the shape of the history, owners and ids of the objects, the ids that   *)
(* clients keep, and in the last part what undo and redo restore and that  *)
(* the manager implements UndoLog.                                         *)
(***************************************************************************)
EXTENDS Manager, SequenceTheorems, FiniteSetTheorems, TLAPS

(* The first n elements of a sequence.                                     *)
LEMMA Prefix ==
  ASSUME NEW S, NEW s \in Seq(S), NEW n \in 0..Len(s)
  PROVE  /\ SubSeq(s, 1, n) \in Seq(S)
         /\ Len(SubSeq(s, 1, n)) = n
         /\ \A i \in 1..n : SubSeq(s, 1, n)[i] = s[i]
<1>1. n \in Int /\ \A i \in 1..n : s[i] \in S
  BY ElementOfSeq
<1> QED
  BY <1>1, SubSeqProperties

(* What follows the first n elements.                                      *)
LEMMA Suffix ==
  ASSUME NEW S, NEW s \in Seq(S), NEW n \in 0..Len(s)
  PROVE  /\ DOMAIN SubSeq(s, n + 1, Len(s)) = 1..(Len(s) - n)
         /\ \A i \in 1..(Len(s) - n) : SubSeq(s, n + 1, Len(s))[i] = s[n + i]
<1> DEFINE m == n + 1
           rest == SubSeq(s, m, Len(s))
<1>1. m \in Int /\ Len(s) \in Int /\ \A i \in m..Len(s) : s[i] \in S
  BY ElementOfSeq
<1>2. m = n + 1
  OBVIOUS
<1> HIDE DEF m
<1>3. /\ rest \in Seq(S)
      /\ Len(rest) = IF m <= Len(s) THEN Len(s) - m + 1 ELSE 0
      /\ \A i \in 1..Len(s) - m + 1 : rest[i] = s[m + i - 1]
  BY <1>1, SubSeqProperties
<1> HIDE DEF rest
<1>4. DOMAIN rest = 1..(Len(s) - n)
  BY <1>2, <1>3
<1>5. ASSUME NEW i \in 1..(Len(s) - n)
      PROVE  rest[i] = s[n + i]
  <2>1. i \in 1..Len(s) - m + 1 /\ m + i - 1 = n + i
    BY <1>2
  <2> QED
    BY <1>3, <2>1
<1> QED
  BY <1>4, <1>5 DEF m, rest

(* Deleting objects keeps the types.                                       *)
LEMMA KillType ==
  ASSUME ObjectTypeOK, NEW dead, Kill(dead)
  PROVE  ObjectTypeOK'
<1>1. m_id_table' \in Seq(Cells \union {Layout, NoObject})
  <2>1. Len(m_id_table) \in Nat /\ DOMAIN m_id_table = 1..Len(m_id_table)
    BY DEF ObjectTypeOK
  <2>2. \A i \in 1..Len(m_id_table) : m_id_table'[i] \in Cells \union {Layout, NoObject}
    BY <2>1, ElementOfSeq DEF ObjectTypeOK, Kill
  <2> QED
    BY <2>1, <2>2 DEF Kill
<1>2. where' \in [Cells -> {"unborn", "layout", "op", "dead"}]
  BY DEF ObjectTypeOK, Kill
<1>3. m_id' \in [Cells -> Nat] /\ m_prop_id' \in [Cells -> Props]
  BY DEF ObjectTypeOK, Kill
<1> QED
  BY <1>1, <1>2, <1>3 DEF ObjectTypeOK

(* Committing leaves no empty transaction and the cursor at the end.       *)
LEMMA CommittedProperties ==
  ASSUME ListTypeOK, m_opened
  PROVE  /\ CommittedList \in Seq(TransactionRecord)
         /\ CommittedCursor = Len(CommittedList)
         /\ CommittedCursor \in m_current..Len(m_transactions)
         /\ \A i \in 1..CommittedCursor :
              CommittedList[i] = m_transactions[i] /\ m_transactions[i].ops # <<>>
<1>1. m_current \in 0..Len(m_transactions) /\ m_current + 1 = Len(m_transactions)
  BY DEF ListTypeOK
<1>2. \A i \in 1..Len(m_transactions) :
        m_transactions[i].ops = <<>> => i = m_current + 1
  BY DEF ListTypeOK
<1>3. CASE CurrentOps # <<>>
  BY <1>1, <1>2, <1>3 DEF ListTypeOK, CommittedList, CommittedCursor, CurrentOps
<1>4. CASE CurrentOps = <<>>
  <2>1. /\ SubSeq(m_transactions, 1, m_current) \in Seq(TransactionRecord)
        /\ Len(SubSeq(m_transactions, 1, m_current)) = m_current
        /\ \A i \in 1..m_current : SubSeq(m_transactions, 1, m_current)[i] = m_transactions[i]
    BY <1>1, Prefix DEF ListTypeOK
  <2> QED
    BY <1>1, <1>2, <1>4, <2>1 DEF CommittedList, CommittedCursor
<1> QED
  BY <1>3, <1>4

(* transaction() keeps the types, joined or not.                           *)
LEMMA TransactionTypes ==
  ASSUME TypeOK, NEW join, Transaction(join)
  PROVE  /\ ListTypeOK' /\ ObjectTypeOK'
         /\ m_opened' /\ ~Replaying /\ UNCHANGED replayVars
         /\ created' \in Nat
         /\ m_transactions' # <<>> /\ Last(m_transactions') \in TransactionRecord
<1> DEFINE ts == IF m_opened THEN CommittedList ELSE m_transactions
           cursor == IF m_opened THEN CommittedCursor ELSE m_current
<1>1. /\ ts \in Seq(TransactionRecord) /\ cursor \in 0..Len(ts)
      /\ \A i \in 1..Len(ts) : ts[i].ops # <<>>
  <2>1. CASE m_opened
    BY <2>1, CommittedProperties DEF TypeOK, ListTypeOK
  <2>2. CASE ~m_opened
    BY <2>2 DEF TypeOK, ListTypeOK
  <2> QED
    BY <2>1, <2>2
<1>2. /\ m_opened' = TRUE /\ ~Replaying /\ UNCHANGED replayVars
      /\ m_current' = Len(m_transactions') - 1
  BY Zenon DEF Transaction
<1>3. CASE Joins(ts, join) /\ m_transactions' = ts /\ UNCHANGED <<objectVars, created>>
  <2>1. Len(ts) > 0
    BY <1>1, <1>3, EmptySeq DEF Joins
  <2>2. ListTypeOK'
    BY <1>1, <1>2, <1>3, <2>1 DEF ListTypeOK
  <2>3. ObjectTypeOK' /\ created' \in Nat
    BY <1>3 DEF TypeOK, ObjectTypeOK, ClientTypeOK, objectVars
  <2> QED
    BY <1>1, <1>2, <1>3, <2>1, <2>2, <2>3, ElementOfSeq DEF Last
<1>4. CASE /\ created' = created + 1
           /\ EraseFrom(cursor, ts)
           /\ \E a \in NewAddresses(SubSeq(ts, 1, cursor)) :
                m_transactions' = Append(SubSeq(ts, 1, cursor),
                                         [addr |-> a, serial |-> created + 1, ops |-> <<>>])
  <2>1. PICK a \in NewAddresses(SubSeq(ts, 1, cursor)) :
          m_transactions' = Append(SubSeq(ts, 1, cursor),
                                   [addr |-> a, serial |-> created + 1, ops |-> <<>>])
    BY <1>4
  <2>2. created \in Nat /\ a \in Nat \ {0}
    BY BoundsAssumption DEF NewAddresses, TypeOK, ClientTypeOK
  <2>3. [addr |-> a, serial |-> created + 1, ops |-> <<>>] \in TransactionRecord
    BY <2>2, EmptySeq DEF TransactionRecord
  <2>4. /\ SubSeq(ts, 1, cursor) \in Seq(TransactionRecord)
        /\ Len(SubSeq(ts, 1, cursor)) = cursor
        /\ \A i \in 1..cursor : SubSeq(ts, 1, cursor)[i] = ts[i]
    BY <1>1, Prefix
  <2>5. /\ m_transactions' \in Seq(TransactionRecord)
        /\ Len(m_transactions') = cursor + 1
        /\ m_transactions'[cursor + 1] = [addr |-> a, serial |-> created + 1, ops |-> <<>>]
        /\ \A i \in 1..cursor : m_transactions'[i] = ts[i]
    BY <1>1, <2>1, <2>3, <2>4
  <2>6. ListTypeOK'
    <3>1. m_current' = cursor /\ cursor \in Nat /\ DOMAIN m_transactions' = 1..cursor + 1
      BY <1>1, <1>2, <2>5
    <3>2. ASSUME NEW i \in 1..cursor + 1, i # cursor + 1
          PROVE  m_transactions'[i].ops # <<>>
      <4> HIDE DEF ts, cursor
      <4>1. i \in 1..cursor /\ i \in 1..Len(ts)
        BY <1>1, <3>1, <3>2
      <4>2. m_transactions'[i] = ts[i] /\ ts[i].ops # <<>>
        BY <1>1, <2>5, <4>1
      <4> QED
        BY <4>2
    <3> QED
      BY <1>2, <2>5, <3>1, <3>2 DEF ListTypeOK
  <2>7. ObjectTypeOK'
    BY <1>4, KillType DEF TypeOK, EraseFrom
  <2>8. Last(m_transactions') \in TransactionRecord /\ m_transactions' # <<>>
    <3>1. cursor \in Nat
      BY <1>1
    <3> QED
      BY <2>3, <2>5, <3>1 DEF Last
  <2>9. created' \in Nat
    BY <1>4, <2>2
  <2>10. m_opened'
    BY <1>2, Zenon
  <2> QED
    BY <1>2, <2>6, <2>7, <2>8, <2>9, <2>10, Zenon
<1> QED
  BY <1>3, <1>4 DEF Transaction

(* As long as nothing is replayed, there is no position to be wrong.       *)
LEMMA IdleReplay ==
  ASSUME TypeOK, ~Replaying, UNCHANGED replayVars
  PROVE  ReplayTypeOK'
BY DEF TypeOK, ReplayTypeOK, Replaying, replayVars

(* The clients that open a transaction.                                    *)
LEMMA OpeningTypes ==
  ASSUME TypeOK, Begin \/ BeginJoined \/ OpenScope \/ ReopenScope
  PROVE  TypeOK'
<1>1. PICK join : Transaction(join)
  BY DEF Begin, BeginJoined, OpenScope, ReopenScope
<1>2. /\ ListTypeOK' /\ ObjectTypeOK' /\ m_opened' /\ created' \in Nat
      /\ ~Replaying /\ UNCHANGED replayVars
      /\ m_transactions' # <<>> /\ Last(m_transactions') \in TransactionRecord
  BY <1>1, TransactionTypes
<1>3. ReplayTypeOK'
  BY <1>2, IdleReplay
<1>4. user' \in {"plain", "joining", "scope"} /\ scope' \in BOOLEAN
  BY DEF Begin, BeginJoined, OpenScope, ReopenScope, TypeOK, ClientTypeOK
<1>5. ticket' \in [addr : Nat, serial : Nat] /\ touched' \subseteq Nat
  <2>1. CASE OpenScope
    BY <1>2, <2>1 DEF OpenScope, LastId, IdOf, TransactionRecord
  <2>2. CASE Begin \/ BeginJoined \/ ReopenScope
    BY <2>2 DEF Begin, BeginJoined, ReopenScope, TypeOK, ClientTypeOK
  <2> QED
    BY <2>1, <2>2
<1>6. ClientTypeOK'
  BY <1>2, <1>4, <1>5 DEF ClientTypeOK
<1> QED
  BY <1>2, <1>3, <1>6 DEF TypeOK

(* A list without an open transaction.                                     *)
LEMMA ClosedList ==
  ASSUME m_transactions' \in Seq(TransactionRecord),
         m_current' \in 0..Len(m_transactions'), m_opened' = FALSE,
         \A i \in 1..Len(m_transactions') : m_transactions'[i].ops # <<>>
  PROVE  ListTypeOK'
<1>1. m_opened' \in BOOLEAN /\ ~m_opened'
  OBVIOUS
<1>2. DOMAIN m_transactions' = 1..Len(m_transactions')
  OBVIOUS
<1>3. \A i \in DOMAIN m_transactions' :
        m_transactions'[i].ops = <<>> => m_opened' /\ i = m_current' + 1
  BY <1>2
<1> QED
  BY <1>1, <1>3, Zenon DEF ListTypeOK

(* Dropping an empty open transaction.                                     *)
LEMMA DropLast ==
  ASSUME ListTypeOK, m_current + 1 = Len(m_transactions),
         m_transactions' = SubSeq(m_transactions, 1, m_current),
         m_current' = m_current, m_opened' = FALSE
  PROVE  ListTypeOK'
<1>1. m_current \in 0..Len(m_transactions)
  BY DEF ListTypeOK
<1>2. /\ m_transactions' \in Seq(TransactionRecord)
      /\ Len(m_transactions') = m_current
      /\ \A i \in 1..m_current : m_transactions'[i] = m_transactions[i]
  BY <1>1, Prefix DEF ListTypeOK
<1>3. ASSUME NEW i \in 1..m_current
      PROVE  m_transactions'[i].ops # <<>>
  BY <1>1, <1>2, <1>3 DEF ListTypeOK
<1>4. m_current' \in 0..Len(m_transactions')
  BY <1>1, <1>2
<1> QED
  BY <1>2, <1>3, <1>4, ClosedList

(* commit() keeps the types.                                               *)
LEMMA CommitTypes ==
  ASSUME TypeOK, Commit
  PROVE  /\ ListTypeOK' /\ ReplayTypeOK' /\ ObjectTypeOK'
         /\ ~m_opened' /\ user' = "nobody" /\ created' \in Nat
<1>1. m_opened /\ ListTypeOK /\ m_current \in Nat
  BY DEF TypeOK, ListTypeOK, Commit
<1>2. /\ CommittedList \in Seq(TransactionRecord)
      /\ CommittedCursor = Len(CommittedList)
      /\ \A i \in 1..CommittedCursor :
           CommittedList[i] = m_transactions[i] /\ m_transactions[i].ops # <<>>
      /\ CommittedCursor \in Nat
  BY <1>1, CommittedProperties
<1>3. m_transactions' = CommittedList /\ m_current' = CommittedCursor /\ m_opened' = FALSE
  BY Zenon DEF Commit
<1>4. ListTypeOK'
  <2>1. /\ m_transactions' \in Seq(TransactionRecord)
        /\ m_current' \in 0..Len(m_transactions')
    BY <1>2, <1>3
  <2>2. \A i \in 1..Len(m_transactions') : m_transactions'[i].ops # <<>>
    BY <1>2, <1>3
  <2> QED
    BY <1>3, <2>1, <2>2, ClosedList
<1>5. ReplayTypeOK'
  BY IdleReplay DEF Commit
<1>6. ObjectTypeOK' /\ created' \in Nat /\ user' = "nobody"
  BY DEF Commit, TypeOK, ObjectTypeOK, ClientTypeOK, objectVars
<1> QED
  BY <1>3, <1>4, <1>5, <1>6, Zenon

(* cancel() of an open transaction keeps the types.                        *)
LEMMA CancelPendingTypes ==
  ASSUME TypeOK, CancelPending
  PROVE  /\ ListTypeOK' /\ ReplayTypeOK' /\ ObjectTypeOK'
         /\ ~m_opened' /\ user' = "nobody" /\ created' \in Nat
<1>1. /\ m_opened /\ ~Replaying /\ ListTypeOK /\ ReplayTypeOK
      /\ m_current \in Nat /\ m_current + 1 = Len(m_transactions)
  BY DEF TypeOK, ListTypeOK, CancelPending
<1>2. m_opened' = FALSE /\ user' = "nobody"
  BY Zenon DEF CancelPending
<1>3. ObjectTypeOK' /\ created' \in Nat
  BY DEF CancelPending, TypeOK, ObjectTypeOK, ClientTypeOK, objectVars
<1>4. CASE /\ CurrentOps # <<>>
           /\ m_replay' = "cancel" /\ pos' = Len(CurrentOps)
           /\ UNCHANGED <<m_transactions, m_current>>
  <2>1. ListTypeOK'
    BY <1>1, <1>2, <1>4 DEF ListTypeOK, CurrentOps
  <2>2. CurrentOps' = CurrentOps /\ Len(CurrentOps) \in Nat
    <3>1. m_transactions[m_current + 1] \in TransactionRecord
      BY <1>1, ElementOfSeq DEF ListTypeOK
    <3> QED
      BY <1>4, <3>1 DEF CurrentOps, TransactionRecord
  <2>3. ReplayTypeOK'
    BY <1>1, <1>2, <1>4, <2>2 DEF ReplayTypeOK, Replaying
  <2> QED
    BY <1>2, <1>3, <2>1, <2>3
<1>5. CASE /\ CurrentOps = <<>>
           /\ m_transactions' = SubSeq(m_transactions, 1, m_current)
           /\ UNCHANGED <<m_current, replayVars>>
  <2>1. ListTypeOK'
    BY <1>1, <1>2, <1>5, DropLast
  <2>2. ReplayTypeOK'
    BY <1>1, <1>5, IdleReplay
  <2> QED
    BY <1>2, <1>3, <2>1, <2>2
<1> QED
  BY <1>4, <1>5 DEF CancelPending

(* The clients that close or cancel a transaction.                         *)
LEMMA ClosingTypes ==
  ASSUME TypeOK, End \/ Cancel \/ EndJoined \/ CloseScope \/ CancelScope \/ EndScope
  PROVE  TypeOK'
<1>1. CASE Commit
  <2>1. /\ ListTypeOK' /\ ReplayTypeOK' /\ ObjectTypeOK'
        /\ ~m_opened' /\ user' = "nobody" /\ created' \in Nat
    BY <1>1, CommitTypes
  <2>2. IdOf(m_transactions[m_current + 1]) \in [addr : Nat, serial : Nat]
    <3>1. m_opened /\ m_current + 1 \in 1..Len(m_transactions)
      BY <1>1 DEF Commit, TypeOK, ListTypeOK
    <3>2. m_transactions[m_current + 1] \in TransactionRecord
      BY <3>1, ElementOfSeq DEF TypeOK, ListTypeOK
    <3> QED
      BY <3>2 DEF TransactionRecord, IdOf
  <2>3. scope' \in {scope, FALSE} /\ touched' = touched
    BY Zenon DEF End, Cancel, EndJoined, CloseScope, CancelScope, EndScope
  <2>4. ticket' \in {ticket, NoTicket, IdOf(m_transactions[m_current + 1])}
    BY Zenon DEF End, Cancel, EndJoined, CloseScope, CancelScope, EndScope
  <2>5. scope' \in BOOLEAN /\ ticket' \in [addr : Nat, serial : Nat] /\ touched' \subseteq Nat
    <3>1. NoTicket \in [addr : Nat, serial : Nat]
      BY DEF NoTicket
    <3>2. ticket \in [addr : Nat, serial : Nat] /\ scope \in BOOLEAN /\ touched \subseteq Nat
      BY Zenon DEF TypeOK, ClientTypeOK
    <3> QED
      BY <2>2, <2>3, <2>4, <3>1, <3>2
  <2>6. ClientTypeOK'
    BY <2>1, <2>5 DEF ClientTypeOK
  <2> QED
    BY <2>1, <2>6 DEF TypeOK
<1>2. CASE CancelPending /\ ~EndJoined /\ ~EndScope
  <2>1. /\ ListTypeOK' /\ ReplayTypeOK' /\ ObjectTypeOK'
        /\ ~m_opened' /\ user' = "nobody" /\ created' \in Nat
    BY <1>2, CancelPendingTypes
  <2>2. scope' \in {scope, FALSE} /\ ticket' \in {ticket, NoTicket} /\ touched' = touched
    BY <1>2, Zenon DEF End, Cancel, CloseScope, CancelScope
  <2>3. ClientTypeOK'
    <3>1. NoTicket \in [addr : Nat, serial : Nat]
      BY DEF NoTicket
    <3>2. ticket \in [addr : Nat, serial : Nat] /\ scope \in BOOLEAN /\ touched \subseteq Nat
      BY Zenon DEF TypeOK, ClientTypeOK
    <3> QED
      BY <2>1, <2>2, <3>1, <3>2 DEF ClientTypeOK
  <2> QED
    BY <2>1, <2>3 DEF TypeOK
<1>3. CASE EndScope /\ ~Commit
  <2>1. ListTypeOK' /\ ObjectTypeOK'
    BY <1>3 DEF EndScope, TypeOK, ListTypeOK, ObjectTypeOK, listVars, objectVars
  <2>2. ReplayTypeOK'
    BY <1>3, IdleReplay DEF EndScope
  <2>3. user' = user /\ m_opened' = m_opened /\ created' = created
    BY <1>3, Zenon DEF EndScope, listVars
  <2>4. scope' = FALSE /\ ticket' = NoTicket /\ touched' = touched
    BY Zenon, <1>3 DEF EndScope
  <2>5. ClientTypeOK'
    BY <2>3, <2>4 DEF NoTicket, TypeOK, ClientTypeOK
  <2> QED
    BY <2>1, <2>2, <2>5 DEF TypeOK
<1> QED
  BY <1>1, <1>2, <1>3 DEF End, Cancel, EndJoined, CloseScope, CancelScope

(* The document is one.                                                    *)
LEMMA DocTypes ==
  /\ ObjectTypeOK => Doc \in Document
  /\ ObjectTypeOK' => DocAfter \in Document
BY DEF ObjectTypeOK, Doc, DocAfter, Document

(* Queueing an operation.                                                  *)
LEMMA QueueTypes ==
  ASSUME TypeOK, ObjectTypeOK', NEW id \in Nat, NEW kind \in {"new", "remove", "prop"},
         NEW c \in Cells, NEW held \in BOOLEAN, NEW from \in Props, NEW to \in Props,
         Queue(id, kind, c, held, from, to), Unaffected, MayChange
  PROVE  TypeOK'
<1> DEFINE op == [id |-> id, kind |-> kind, cell |-> c, held |-> held, from |-> from,
                  to |-> to, done |-> TRUE, pre |-> Doc, post |-> DocAfter]
<1>1. op \in Op
  BY DocTypes DEF Op, TypeOK
<1>2. ~Replaying /\ UNCHANGED replayVars
  BY DEF MayChange, Unaffected
<1>3. ReplayTypeOK'
  BY <1>2, IdleReplay
<1>4. /\ m_current' = m_current /\ m_opened' = m_opened /\ user' = user
      /\ scope' = scope /\ ticket' = ticket /\ created' = created
  BY Zenon DEF Unaffected
<1>5. CASE m_opened
  <2>1. /\ m_transactions \in Seq(TransactionRecord) /\ m_current \in Nat
        /\ m_current + 1 = Len(m_transactions)
        /\ \A i \in 1..m_current : m_transactions[i].ops # <<>>
    BY <1>5 DEF TypeOK, ListTypeOK
  <2>2. m_transactions[m_current + 1] \in TransactionRecord
    BY <2>1, ElementOfSeq
  <2>3. m_transactions' = [m_transactions EXCEPT
                             ![m_current + 1].ops = Append(@, op)]
    BY <1>5 DEF Queue
  <2>4. /\ Append(CurrentOps, op) \in Seq(Op)
        /\ Append(CurrentOps, op) # <<>>
    <3>1. CurrentOps \in Seq(Op)
      BY <2>2 DEF CurrentOps, TransactionRecord
    <3> QED
      BY <1>1, <3>1, AppendProperties
  <2>5. /\ m_transactions' \in Seq(TransactionRecord)
        /\ Len(m_transactions') = Len(m_transactions)
    <3> DEFINE t == [m_transactions[m_current + 1] EXCEPT !.ops = Append(CurrentOps, op)]
    <3>1. t \in TransactionRecord
      BY <2>2, <2>4 DEF TransactionRecord
    <3>2. m_transactions' = [m_transactions EXCEPT ![m_current + 1] = t]
      BY <2>3, Zenon DEF CurrentOps
    <3> HIDE DEF t
    <3> QED
      BY <2>1, <3>1, <3>2
  <2>6. ListTypeOK'
    BY <1>4, <1>5, <2>1, <2>3, <2>5 DEF TypeOK, ListTypeOK
  <2>7. touched' \subseteq Nat
    BY <1>5, <2>2 DEF Queue, TransactionRecord, TypeOK, ClientTypeOK
  <2>8. ClientTypeOK'
    BY <1>4, <2>7 DEF TypeOK, ClientTypeOK
  <2> QED
    BY <1>3, <2>6, <2>8 DEF TypeOK
<1>6. CASE ~m_opened
  <2>1. m_transactions' = m_transactions /\ touched' = touched
    BY <1>6 DEF Queue
  <2>2. ListTypeOK' /\ ClientTypeOK'
    BY <1>4, <2>1 DEF TypeOK, ListTypeOK, ClientTypeOK
  <2> QED
    BY <1>3, <2>2 DEF TypeOK
<1> QED
  BY <1>5, <1>6

(* The id table after a new object was entered.                            *)
LEMMA TableTypes ==
  ASSUME ObjectTypeOK, NEW c \in Cells, NEW id \in NextIds
  PROVE  /\ id \in Nat \ {0}
         /\ TableWith(id, c) \in Seq(Cells \union {Layout, NoObject})
BY DEF ObjectTypeOK, NextIds, FreeIds, TableWith

(* Changes of the layout.                                                  *)
LEMMA ChangeTypes ==
  ASSUME TypeOK, \/ \E c \in Cells : AddCell(c) \/ DeleteCell(c)
                 \/ \E c \in Cells, p \in Props : SetPropId(c, p)
  PROVE  TypeOK'
<1>1. ASSUME NEW c \in Cells, AddCell(c)
      PROVE  TypeOK'
  <2>1. PICK id \in NextIds : m_id' = [m_id EXCEPT ![c] = id] /\ m_id_table' = TableWith(id, c)
    BY <1>1 DEF AddCell
  <2>2. where' = [where EXCEPT ![c] = "layout"] /\ m_prop_id' = m_prop_id
    BY <1>1 DEF AddCell
  <2>3. ObjectTypeOK'
    BY <2>1, <2>2, TableTypes DEF TypeOK, ObjectTypeOK
  <2>4. Queue(1, "new", c, FALSE, 0, 0) /\ Unaffected /\ MayChange
    BY <1>1 DEF AddCell
  <2> QED
    BY <1>1, <2>3, <2>4, QueueTypes, ObjectsAssumption
<1>2. ASSUME NEW c \in Cells, DeleteCell(c)
      PROVE  TypeOK'
  <2>1. ObjectTypeOK'
    <3>1. CASE m_opened
      BY <1>2, <3>1 DEF DeleteCell, TypeOK, ObjectTypeOK
    <3>2. CASE ~m_opened
      BY <1>2, <3>2, KillType DEF DeleteCell, TypeOK
    <3> QED
      BY <3>1, <3>2
  <2>2. Queue(1, "remove", c, TRUE, 0, 0) /\ Unaffected /\ MayChange
    BY <1>2 DEF DeleteCell
  <2> QED
    BY <2>1, <2>2, QueueTypes, ObjectsAssumption
<1>3. ASSUME NEW c \in Cells, NEW p \in Props, SetPropId(c, p)
      PROVE  TypeOK'
  <2>1. ObjectTypeOK' /\ m_id[c] \in Nat /\ m_prop_id[c] \in Props
    BY <1>3 DEF SetPropId, TypeOK, ObjectTypeOK
  <2>2. Queue(m_id[c], "prop", c, FALSE, m_prop_id[c], p) /\ Unaffected /\ MayChange
    BY <1>3 DEF SetPropId
  <2> QED
    BY <2>1, <2>2, QueueTypes
<1> QED
  BY <1>1, <1>2, <1>3

(* Undo and redo start at the cursor.                                      *)
LEMMA StartUndoTypes ==
  ASSUME TypeOK, StartUndo
  PROVE  /\ ListTypeOK' /\ ReplayTypeOK' /\ ObjectTypeOK'
         /\ user' = user /\ m_opened' = m_opened /\ scope' = scope
         /\ touched' = touched /\ created' = created
<1>1. /\ m_transactions' = m_transactions /\ m_current' = m_current - 1
      /\ m_replay' = "undo" /\ pos' = Len(m_transactions[m_current].ops)
      /\ m_current \in 1..Len(m_transactions)
      /\ ~m_opened /\ ~Replaying
  BY DEF StartUndo, TypeOK, ListTypeOK
<1>2. m_opened' = m_opened /\ UNCHANGED objectVars /\ user' = user /\ scope' = scope
      /\ touched' = touched /\ created' = created
  BY Zenon DEF StartUndo
<1>3. ListTypeOK'
  BY <1>1, <1>2 DEF TypeOK, ListTypeOK
<1>4. m_transactions[m_current] \in TransactionRecord
  BY <1>1, ElementOfSeq DEF TypeOK, ListTypeOK
<1>5. CurrentOps' = m_transactions[m_current].ops
  BY <1>1 DEF CurrentOps
<1>6. Len(m_transactions[m_current].ops) \in Nat
  BY <1>4 DEF TransactionRecord
<1>7. ReplayTypeOK'
  BY <1>1, <1>2, <1>5, <1>6 DEF ReplayTypeOK, Replaying
<1>8. ObjectTypeOK'
  BY <1>2 DEF TypeOK, ObjectTypeOK, objectVars
<1> QED
  BY <1>2, <1>3, <1>7, <1>8, Zenon

(* cm_undo, cm_redo and the cancelled dialog keep the types.               *)
LEMMA StartingTypes ==
  ASSUME TypeOK, Undo \/ CancelDialog \/ Redo
  PROVE  TypeOK'
<1>1. ticket' \in [addr : Nat, serial : Nat]
  BY DEF Undo, CancelDialog, Redo, NoTicket, TypeOK, ClientTypeOK, clientVars
<1>2. CASE StartUndo
  <2>1. /\ ListTypeOK' /\ ReplayTypeOK' /\ ObjectTypeOK'
        /\ user' = user /\ m_opened' = m_opened /\ scope' = scope
        /\ touched' = touched /\ created' = created
    BY <1>2, StartUndoTypes
  <2>2. ClientTypeOK'
    BY <1>1, <2>1 DEF TypeOK, ClientTypeOK
  <2> QED
    BY <2>1, <2>2 DEF TypeOK
<1>3. CASE Redo
  <2>1. /\ UNCHANGED <<listVars, objectVars, user, scope, touched, created>>
        /\ ~m_opened /\ m_current < Len(m_transactions)
        /\ m_replay' = "redo" /\ pos' = 1
    BY <1>3 DEF Redo, clientVars
  <2>2. ListTypeOK' /\ ObjectTypeOK' /\ ClientTypeOK'
    BY <1>1, <2>1 DEF TypeOK, ListTypeOK, ObjectTypeOK, ClientTypeOK, listVars, objectVars
  <2>3. Len(CurrentOps) \in Nat /\ CurrentOps' = CurrentOps
    <3>1. m_transactions[m_current + 1] \in TransactionRecord
      BY <2>1, ElementOfSeq DEF TypeOK, ListTypeOK
    <3> QED
      BY <2>1, <3>1 DEF CurrentOps, TransactionRecord, listVars
  <2>4. ReplayTypeOK'
    BY <2>1, <2>3 DEF ReplayTypeOK, Replaying, listVars
  <2> QED
    BY <2>2, <2>4 DEF TypeOK
<1>4. CASE CancelDialog /\ ~StartUndo
  <2>1. ~Replaying /\ UNCHANGED <<listVars, replayVars, objectVars, user, scope, touched, created>>
    BY <1>4, Zenon DEF CancelDialog
  <2>2. ListTypeOK' /\ ObjectTypeOK' /\ ClientTypeOK'
    BY <1>1, <2>1 DEF TypeOK, ListTypeOK, ObjectTypeOK, ClientTypeOK, listVars, objectVars
  <2>3. ReplayTypeOK'
    BY <2>1, IdleReplay
  <2> QED
    BY <2>2, <2>3 DEF TypeOK
<1> QED
  BY <1>2, <1>3, <1>4 DEF Undo, CancelDialog

(* Replaying an operation.                                                 *)
LEMMA ReplayOpTypes ==
  ASSUME TypeOK, ReplayOp
  PROVE  TypeOK'
<1> DEFINE o == CurrentOps[pos]
<1>1. /\ Replaying /\ ~m_opened
      /\ m_current + 1 \in 1..Len(m_transactions)
      /\ m_transactions \in Seq(TransactionRecord)
      /\ m_transactions[m_current + 1] \in TransactionRecord
  <2>1. Replaying /\ ~m_opened /\ m_current + 1 \in 1..Len(m_transactions)
    BY DEF ReplayOp, TypeOK, ListTypeOK, ReplayTypeOK
  <2> QED
    BY <2>1, ElementOfSeq DEF TypeOK, ListTypeOK
<1>2. CurrentOps \in Seq(Op) /\ pos \in 1..Len(CurrentOps) /\ o \in Op
  <2>1. CurrentOps \in Seq(Op)
    BY <1>1 DEF CurrentOps, TransactionRecord
  <2>2. pos \in 1..Len(CurrentOps)
    BY <2>1 DEF ReplayOp
  <2> QED
    BY <2>1, <2>2, ElementOfSeq
<1>3. Replayed(o) \in Op
  <2>1. Forward \in BOOLEAN /\ (IF o.kind = "prop" THEN FALSE ELSE ~ToLayout(o)) \in BOOLEAN
    BY Zenon DEF Forward, ToLayout
  <2> DEFINE held == IF o.kind = "prop" THEN FALSE ELSE ~ToLayout(o)
  <2> HIDE DEF held, o
  <2> QED
    BY <1>2, <2>1 DEF Replayed, Op, held
<1>4. /\ m_transactions' \in Seq(TransactionRecord)
      /\ Len(m_transactions') = Len(m_transactions)
      /\ CurrentOps' \in Seq(Op) /\ Len(CurrentOps') = Len(CurrentOps)
      /\ \A i \in 1..Len(m_transactions) : i # m_current + 1 => m_transactions'[i] = m_transactions[i]
  <2> DEFINE ops == [CurrentOps EXCEPT ![pos] = Replayed(o)]
             t == [m_transactions[m_current + 1] EXCEPT !.ops = ops]
  <2>1. ops \in Seq(Op) /\ Len(ops) = Len(CurrentOps)
    <3> HIDE DEF o
    <3> QED
      BY <1>2, <1>3
  <2>2. t \in TransactionRecord /\ t.ops = ops
    <3> HIDE DEF ops
    <3> QED
      BY <1>1, <2>1 DEF TransactionRecord
  <2>3. m_transactions' = [m_transactions EXCEPT ![m_current + 1] = t]
    BY Zenon DEF ReplayOp, CurrentOps
  <2>4. m_current' = m_current
    BY DEF ReplayOp
  <2> HIDE DEF t, ops
  <2> QED
    BY <1>1, <2>1, <2>2, <2>3, <2>4 DEF CurrentOps
<1>5. /\ m_current' = m_current /\ m_opened' = m_opened /\ m_replay' = m_replay
      /\ pos' = IF Forward THEN pos + 1 ELSE pos - 1
      /\ m_id_table' = m_id_table /\ m_id' = m_id /\ UNCHANGED clientVars /\ created' = created
  BY Zenon DEF ReplayOp
<1>6. ListTypeOK'
  <2>1. \A i \in 1..Len(m_transactions) : m_transactions'[i].ops # <<>>
    <3>1. m_transactions'[m_current + 1].ops # <<>>
      BY <1>2, <1>4, <1>5 DEF CurrentOps
    <3>2. ASSUME NEW i \in 1..Len(m_transactions), i # m_current + 1
          PROVE  m_transactions'[i].ops # <<>>
      BY <1>1, <1>4, <3>2 DEF TypeOK, ListTypeOK
    <3> QED
      BY <3>1, <3>2
  <2>2. m_opened' = FALSE
    BY <1>1, <1>5 DEF TypeOK, ListTypeOK
  <2>3. m_current' \in 0..Len(m_transactions')
    BY <1>4, <1>5 DEF TypeOK, ListTypeOK
  <2> QED
    BY <1>4, <2>1, <2>2, <2>3, ClosedList
<1>7. ReplayTypeOK'
  BY <1>1, <1>2, <1>4, <1>5 DEF TypeOK, ReplayTypeOK, Replaying
<1>8. ObjectTypeOK'
  <2>1. CASE o.kind = "prop"
    <3>1. o.from \in Props /\ o.to \in Props
      BY <1>2 DEF Op
    <3>2. m_prop_id' = [m_prop_id EXCEPT ![m_id_table[o.id]] = IF Forward THEN o.to ELSE o.from]
          /\ where' = where
      BY <2>1 DEF ReplayOp, Replay
    <3> HIDE DEF o
    <3> QED
      BY <1>5, <3>1, <3>2 DEF TypeOK, ObjectTypeOK
  <2>2. CASE o.kind # "prop"
    <3>1. /\ where' = [where EXCEPT ![o.cell] = IF ToLayout(o) THEN "layout" ELSE "op"]
          /\ m_prop_id' = m_prop_id
      BY <2>2 DEF ReplayOp, Replay
    <3> HIDE DEF o
    <3> QED
      BY <1>5, <3>1 DEF TypeOK, ObjectTypeOK
  <2> QED
    BY <2>1, <2>2
<1>9. ClientTypeOK'
  BY <1>5 DEF TypeOK, ClientTypeOK, clientVars
<1> QED
  BY <1>6, <1>7, <1>8, <1>9 DEF TypeOK

(* The exceptional and the regular end of a replay, and clear().           *)
LEMMA EraseAllTypes ==
  ASSUME TypeOK, EraseAll
  PROVE  ListTypeOK' /\ ObjectTypeOK' /\ ~m_opened' /\ user' = "nobody"
<1>1. /\ m_transactions' = <<>> /\ m_current' = 0 /\ m_opened' = FALSE /\ user' = "nobody"
      /\ \E dead : Kill(dead)
  BY DEF EraseAll, EraseFrom
<1>2. ListTypeOK'
  <2>1. <<>> \in Seq(TransactionRecord) /\ Len(<<>>) = 0
    BY EmptySeq
  <2>2. \A i \in 1..Len(m_transactions') : m_transactions'[i].ops # <<>>
    BY <1>1, <2>1
  <2>3. m_transactions' \in Seq(TransactionRecord) /\ m_current' \in 0..Len(m_transactions')
    BY <1>1, <2>1
  <2> QED
    BY <1>1, <2>2, <2>3, ClosedList
<1>3. ObjectTypeOK'
  BY <1>1, KillType DEF TypeOK
<1> QED
  BY <1>1, <1>2, <1>3

(* The ends of a replay and clear() keep the types.                        *)
LEMMA EndingTypes ==
  ASSUME TypeOK, ReplayFails \/ ReplayEnds \/ Clear
  PROVE  TypeOK'
<1>1. CASE ReplayFails \/ Clear
  <2>1. EraseAll /\ scope' = scope /\ ticket' = ticket /\ touched' = touched /\ created' = created
    BY <1>1 DEF ReplayFails, Clear
  <2>2. ListTypeOK' /\ ObjectTypeOK' /\ ~m_opened' /\ user' = "nobody"
    BY <2>1, EraseAllTypes
  <2>3. ClientTypeOK'
    BY <2>1, <2>2 DEF TypeOK, ClientTypeOK
  <2>4. m_replay' = "no" /\ pos' = 0
    BY <1>1 DEF ReplayFails, Clear, replayVars, TypeOK, ReplayTypeOK, Replaying
  <2>5. ReplayTypeOK'
    BY <2>4 DEF ReplayTypeOK, Replaying
  <2> QED
    BY <2>2, <2>3, <2>5 DEF TypeOK
<1>2. CASE ReplayEnds
  <2>1. /\ m_replay' = "no" /\ pos' = 0 /\ m_opened' = m_opened
        /\ UNCHANGED clientVars /\ created' = created
    BY <1>2, Zenon DEF ReplayEnds
  <2>2. /\ Replaying /\ ~m_opened /\ m_current < Len(m_transactions) /\ m_current \in Nat
        /\ m_transactions \in Seq(TransactionRecord)
        /\ m_opened \in BOOLEAN
        /\ m_current' = IF Forward THEN m_current + 1 ELSE m_current
    BY <1>2 DEF ReplayEnds, TypeOK, ListTypeOK, ReplayTypeOK
  <2>3. ClientTypeOK' /\ ReplayTypeOK'
    BY <2>1 DEF TypeOK, ClientTypeOK, clientVars, ReplayTypeOK, Replaying
  <2>4. CASE m_replay = "cancel"
    <3>1. m_transactions' = SubSeq(m_transactions, 1, m_current) /\ \E dead : Kill(dead)
      BY <1>2, <2>4 DEF ReplayEnds, EraseFrom
    <3>2. m_current' = m_current /\ m_opened' = FALSE
      BY <2>1, <2>2, <2>4 DEF Forward
    <3>3. m_current + 1 = Len(m_transactions)
      BY <2>4 DEF TypeOK, ReplayTypeOK
    <3>4. ListTypeOK' /\ ObjectTypeOK'
      BY <3>1, <3>2, <3>3, DropLast, KillType DEF TypeOK
    <3> QED
      BY <2>3, <3>4 DEF TypeOK
  <2>5. CASE m_replay # "cancel"
    <3>1. UNCHANGED <<m_transactions, objectVars>>
      BY <1>2, <2>5 DEF ReplayEnds
    <3>2. ObjectTypeOK'
      BY <3>1 DEF TypeOK, ObjectTypeOK, objectVars
    <3>3. ListTypeOK'
      BY <2>1, <2>2, <3>1 DEF TypeOK, ListTypeOK
    <3> QED
      BY <2>3, <3>2, <3>3 DEF TypeOK
  <2> QED
    BY <2>4, <2>5
<1> QED
  BY <1>1, <1>2

(* The types hold in every state, whatever the clients do.                 *)
THEOREM TypeCorrect == Spec => []TypeOK
<1>1. Init => TypeOK
  <2> SUFFICES ASSUME Init PROVE TypeOK
    OBVIOUS
  <2>1. <<>> \in Seq(TransactionRecord) /\ Len(<<>>) = 0 /\ DOMAIN <<>> = {}
    BY EmptySeq
  <2>2. ListTypeOK
    <3>1. m_transactions = <<>> /\ m_current = 0 /\ m_opened = FALSE
      BY Zenon DEF Init
    <3>2. m_opened \in BOOLEAN /\ ~m_opened
      BY <3>1
    <3>3. m_transactions \in Seq(TransactionRecord) /\ m_current \in 0..Len(m_transactions)
          /\ DOMAIN m_transactions = {}
      BY <2>1, <3>1
    <3> QED
      BY <3>2, <3>3, Zenon DEF ListTypeOK
  <2>3. ReplayTypeOK /\ ClientTypeOK
    BY DEF Init, ReplayTypeOK, ClientTypeOK, Replaying, NoTicket
  <2>4. ObjectTypeOK
    BY ObjectsAssumption DEF Init, ObjectTypeOK
  <2> QED
    BY <2>2, <2>3, <2>4 DEF TypeOK
<1>2. TypeOK /\ [Next]_vars => TypeOK'
  <2> SUFFICES ASSUME TypeOK, [Next]_vars PROVE TypeOK'
    OBVIOUS
  <2>1. CASE Begin \/ BeginJoined \/ OpenScope \/ ReopenScope
    BY <2>1, OpeningTypes
  <2>2. CASE End \/ Cancel \/ EndJoined \/ CloseScope \/ CancelScope \/ EndScope
    BY <2>2, ClosingTypes
  <2>3. CASE \/ \E c \in Cells : AddCell(c) \/ DeleteCell(c)
             \/ \E c \in Cells, p \in Props : SetPropId(c, p)
    BY <2>3, ChangeTypes
  <2>4. CASE Undo \/ CancelDialog \/ Redo
    BY <2>4, StartingTypes
  <2>5. CASE ReplayOp
    BY <2>5, ReplayOpTypes
  <2>6. CASE ReplayFails \/ ReplayEnds \/ Clear
    BY <2>6, EndingTypes
  <2>7. CASE UNCHANGED vars
    BY <2>7 DEF vars, listVars, replayVars, objectVars, clientVars, TypeOK, ListTypeOK,
                ReplayTypeOK, ObjectTypeOK, ClientTypeOK, Replaying, CurrentOps
  <2> QED
    BY <2>1, <2>2, <2>3, <2>4, <2>5, <2>6, <2>7 DEF Next
<1> QED
  BY <1>1, <1>2, PTL DEF Spec

-----------------------------------------------------------------------------
(* Ownership and ids.  What is inductive: an operation holds at most the   *)
(* cell it was queued for, a cell in the state "op" has one holder and the *)
(* others have none, the id table is exact.                                *)

OpsOK ==
  \A i \in DOMAIN m_transactions :
    /\ Len(m_transactions[i].ops) <= MaxOps
    /\ \A j \in DOMAIN m_transactions[i].ops :
         m_transactions[i].ops[j].held => m_transactions[i].ops[j].kind # "prop"

Owned ==
  \A c \in Cells :
    IF where[c] = "op" THEN \E ij : OpsHolding(c) = {ij} ELSE OpsHolding(c) = {}

ObjectInv == OpsOK /\ Owned /\ Len(m_id_table) > 0 /\ IdsExact

(* What the history looks like after the transactions behind n lost their  *)
(* operations.                                                             *)
CutAt(n) ==
  /\ n \in Nat
  /\ \A i \in DOMAIN m_transactions' :
       \/ m_transactions'[i].ops = <<>>
       \/ i <= n /\ i \in DOMAIN m_transactions /\ m_transactions'[i].ops = m_transactions[i].ops
  /\ \A i \in DOMAIN m_transactions :
       i <= n => i \in DOMAIN m_transactions' /\ m_transactions'[i].ops = m_transactions[i].ops

HeldBehind(n) == {c \in Cells : \E ij \in OpsHolding(c) : ij[1] > n}

(* Which cells the transactions up to n own after the others are cut off.  *)
LEMMA CutHolding ==
  ASSUME TypeOK, TypeOK', OpsOK, NEW n, CutAt(n)
  PROVE  /\ OpsOK' /\ \A c \in Cells : OpsHolding(c)' = {ij \in OpsHolding(c) : ij[1] <= n}
<1>1. DOMAIN m_transactions = 1..Len(m_transactions) /\ Len(m_transactions) \in Nat
      /\ DOMAIN m_transactions' = 1..Len(m_transactions') /\ Len(m_transactions') \in Nat
  BY DEF TypeOK, ListTypeOK
<1>2. DOMAIN <<>> = {} /\ Len(<<>>) = 0 /\ MaxOps \in Nat
  BY BoundsAssumption
<1>3. OpsOK'
  <2>1. ASSUME NEW i \in DOMAIN m_transactions'
        PROVE  /\ Len(m_transactions'[i].ops) <= MaxOps
               /\ \A j \in DOMAIN m_transactions'[i].ops :
                    m_transactions'[i].ops[j].held => m_transactions'[i].ops[j].kind # "prop"
    <3>1. CASE m_transactions'[i].ops = <<>>
      BY <1>2, <3>1
    <3>2. CASE i \in DOMAIN m_transactions /\ m_transactions'[i].ops = m_transactions[i].ops
      BY <3>2 DEF OpsOK
    <3> QED
      BY <2>1, <3>1, <3>2 DEF CutAt
  <2> QED
    BY <2>1 DEF OpsOK
<1>4. ASSUME NEW c \in Cells
      PROVE  OpsHolding(c)' = {ij \in OpsHolding(c) : ij[1] <= n}
  <2>1. ASSUME NEW ij \in OpsHolding(c)'
        PROVE  ij \in OpsHolding(c) /\ ij[1] <= n
    <3>1. ij[1] \in DOMAIN m_transactions' /\ ij[2] \in 1..MaxOps
          /\ ij = <<ij[1], ij[2]>> /\ ij[2] \in DOMAIN m_transactions'[ij[1]].ops
      BY DEF OpsHolding
    <3>2. m_transactions'[ij[1]].ops # <<>>
      BY <1>2, <3>1
    <3>3. ij[1] <= n /\ ij[1] \in DOMAIN m_transactions
          /\ m_transactions'[ij[1]].ops = m_transactions[ij[1]].ops
      BY <3>1, <3>2 DEF CutAt
    <3> QED
      BY <3>1, <3>3 DEF OpsHolding
  <2>2. ASSUME NEW ij \in OpsHolding(c), ij[1] <= n
        PROVE  ij \in OpsHolding(c)'
    <3>1. ij[1] \in DOMAIN m_transactions'
          /\ m_transactions'[ij[1]].ops = m_transactions[ij[1]].ops
      BY <2>2 DEF CutAt, OpsHolding
    <3> QED
      BY <3>1 DEF OpsHolding
  <2> QED
    BY <2>1, <2>2
<1> QED
  BY <1>3, <1>4

(* Nothing is owned by what is cut off: all stays as it is.                *)
LEMMA CutNothing ==
  ASSUME TypeOK, TypeOK', ObjectInv, NEW n, CutAt(n), UNCHANGED objectVars,
         \A i \in DOMAIN m_transactions : m_transactions[i].ops = <<>> \/ i <= n
  PROVE  ObjectInv'
<1>1. OpsOK' /\ \A c \in Cells : OpsHolding(c)' = {ij \in OpsHolding(c) : ij[1] <= n}
  BY CutHolding DEF ObjectInv
<1>2. ASSUME NEW c \in Cells, NEW ij \in OpsHolding(c)
      PROVE  ij[1] <= n
  <2>1. ij[1] \in DOMAIN m_transactions /\ ij[2] \in DOMAIN m_transactions[ij[1]].ops
    BY DEF OpsHolding
  <2>2. DOMAIN <<>> = {}
    OBVIOUS
  <2> QED
    BY <2>1, <2>2
<1>3. \A c \in Cells : OpsHolding(c)' = OpsHolding(c)
  BY <1>1, <1>2
<1>4. Owned'
  BY <1>3 DEF Owned, ObjectInv, objectVars
<1>5. IdsExact' /\ Len(m_id_table') > 0
  BY DEF IdsExact, ObjectInv, objectVars
<1> QED
  BY <1>1, <1>4, <1>5 DEF ObjectInv

(* The cells owned by what is cut off are deleted.                         *)
LEMMA KillIds ==
  ASSUME TypeOK, ObjectInv, NEW dead \in SUBSET Cells, Kill(dead)
  PROVE  Len(m_id_table') > 0 /\ IdsExact'
<1>1. /\ m_id_table \in Seq(Cells \union {Layout, NoObject}) /\ Len(m_id_table) \in Nat
      /\ DOMAIN m_id_table = 1..Len(m_id_table) /\ Len(m_id_table) > 0
  BY DEF TypeOK, ObjectTypeOK, ObjectInv
<1>2. m_id_table' = [i \in 1..Len(m_id_table) |->
                       IF m_id_table[i] \in dead THEN NoObject ELSE m_id_table[i]]
  BY <1>1 DEF Kill
<1>3. m_id_table[1] = Layout /\ 1 \in DOMAIN m_id_table
  BY <1>1 DEF ObjectInv, IdsExact
<1>4. /\ m_id_table' \in Seq(Cells \union {Layout, NoObject})
      /\ Len(m_id_table') = Len(m_id_table)
  <2>1. \A i \in 1..Len(m_id_table) : m_id_table'[i] \in Cells \union {Layout, NoObject}
    BY <1>1, <1>2, ElementOfSeq
  <2> QED
    BY <1>1, <1>2, <2>1
<1>5. Head(m_id_table') = Layout
  BY <1>1, <1>2, <1>3, <1>4, ObjectsAssumption
<1>6. ASSUME NEW c \in Cells
      PROVE  {i \in DOMAIN m_id_table' : m_id_table'[i] = c} =
               IF where'[c] \in {"layout", "op"} THEN {m_id'[c]} ELSE {}
  <2>1. {i \in DOMAIN m_id_table : m_id_table[i] = c} =
          IF where[c] \in {"layout", "op"} THEN {m_id[c]} ELSE {}
    BY DEF ObjectInv, IdsExact
  <2>2. CASE c \in dead
    <3>1. where'[c] = "dead"
      BY <2>2 DEF Kill
    <3>2. \A i \in DOMAIN m_id_table' : m_id_table'[i] # c
      BY <1>2, <2>2, ObjectsAssumption
    <3> QED
      BY <3>1, <3>2
  <2>3. CASE c \notin dead
    <3>1. where'[c] = where[c] /\ m_id'[c] = m_id[c]
      BY <2>3 DEF Kill
    <3>2. {i \in DOMAIN m_id_table' : m_id_table'[i] = c} = {i \in DOMAIN m_id_table : m_id_table[i] = c}
      BY <1>1, <1>2, <2>3, ObjectsAssumption
    <3> QED
      BY <2>1, <3>1, <3>2
  <2> QED
    BY <2>2, <2>3
<1> QED
  BY <1>1, <1>4, <1>5, <1>6 DEF IdsExact

(* Cutting off transactions and deleting what they own keeps the owners.   *)
LEMMA CutKills ==
  ASSUME TypeOK, TypeOK', ObjectInv, NEW n, CutAt(n), Kill(HeldBehind(n))
  PROVE  ObjectInv'
<1>1. OpsOK' /\ \A c \in Cells : OpsHolding(c)' = {ij \in OpsHolding(c) : ij[1] <= n}
  BY CutHolding DEF ObjectInv
<1>2. HeldBehind(n) \in SUBSET Cells
  BY DEF HeldBehind
<1>3. Len(m_id_table') > 0 /\ IdsExact'
  BY <1>2, KillIds
<1>4. ASSUME NEW c \in Cells
      PROVE  IF where'[c] = "op" THEN \E ij : OpsHolding(c)' = {ij} ELSE OpsHolding(c)' = {}
  <2>1. IF where[c] = "op" THEN \E ij : OpsHolding(c) = {ij} ELSE OpsHolding(c) = {}
    BY DEF ObjectInv, Owned
  <2>2. n \in Nat /\ \A ij \in OpsHolding(c) : ij[1] \in Nat
    BY DEF CutAt, OpsHolding, TypeOK, ListTypeOK
  <2>3. CASE c \in HeldBehind(n)
    <3>1. where'[c] = "dead"
      BY <2>3 DEF Kill
    <3>2. PICK ij \in OpsHolding(c) : ij[1] > n
      BY <2>3 DEF HeldBehind
    <3>3. OpsHolding(c) = {ij}
      BY <2>1, <3>2
    <3>4. OpsHolding(c)' = {}
      BY <1>1, <2>2, <3>2, <3>3
    <3> QED
      BY <3>1, <3>4
  <2>4. CASE c \notin HeldBehind(n)
    <3>1. where'[c] = where[c]
      BY <2>4 DEF Kill
    <3>2. \A ij \in OpsHolding(c) : ij[1] <= n
      BY <2>2, <2>4 DEF HeldBehind
    <3>3. OpsHolding(c)' = OpsHolding(c)
      BY <1>1, <3>2
    <3> QED
      BY <2>1, <3>1, <3>3
  <2> QED
    BY <2>3, <2>4
<1> QED
  BY <1>1, <1>3, <1>4 DEF ObjectInv, Owned

(* The cells in the transactions behind n, in a list that is that of the   *)
(* manager up to empty transactions.                                       *)
LEMMA HeldSuffix ==
  ASSUME TypeOK, OpsOK, NEW ts \in Seq(TransactionRecord), NEW n \in 0..Len(ts),
         Len(ts) <= Len(m_transactions),
         \A i \in 1..Len(ts) : ts[i] = m_transactions[i],
         \A i \in 1..Len(m_transactions) : i > Len(ts) => m_transactions[i].ops = <<>>
  PROVE  HeldIn(SubSeq(ts, n + 1, Len(ts))) = HeldBehind(n)
<1> DEFINE rest == SubSeq(ts, n + 1, Len(ts))
<1>1. /\ DOMAIN rest = 1..(Len(ts) - n)
      /\ \A i \in 1..(Len(ts) - n) : rest[i] = ts[n + i]
  BY Suffix
<1>2. DOMAIN m_transactions = 1..Len(m_transactions) /\ Len(m_transactions) \in Nat
      /\ m_transactions \in Seq(TransactionRecord)
  BY DEF TypeOK, ListTypeOK
<1>3. ASSUME NEW i \in DOMAIN m_transactions
      PROVE  /\ m_transactions[i].ops \in Seq(Op)
             /\ DOMAIN m_transactions[i].ops \subseteq 1..MaxOps
             /\ \A j \in DOMAIN m_transactions[i].ops : m_transactions[i].ops[j].cell \in Cells
  <2>1. m_transactions[i].ops \in Seq(Op)
    <3>1. m_transactions[i] \in TransactionRecord
      BY <1>2, ElementOfSeq
    <3> QED
      BY <3>1 DEF TransactionRecord
  <2>2. DOMAIN m_transactions[i].ops = 1..Len(m_transactions[i].ops)
        /\ Len(m_transactions[i].ops) <= MaxOps /\ MaxOps \in Nat
    BY <2>1, BoundsAssumption DEF OpsOK
  <2>3. ASSUME NEW j \in DOMAIN m_transactions[i].ops
        PROVE  m_transactions[i].ops[j].cell \in Cells
    <3>1. m_transactions[i].ops[j] \in Op
      BY <2>1, <2>2, ElementOfSeq
    <3> QED
      BY <3>1 DEF Op
  <2> QED
    BY <2>1, <2>2, <2>3
<1> HIDE DEF rest
<1>4. ASSUME NEW c \in HeldIn(rest)
      PROVE  c \in HeldBehind(n)
  <2>1. PICK i \in 1..(Len(ts) - n) : c \in {o.cell : o \in {p \in Range(rest[i].ops) : p.held}}
    BY <1>1 DEF HeldIn, Range
  <2>2. n + i \in DOMAIN m_transactions /\ rest[i] = m_transactions[n + i] /\ n + i > n
    BY <1>1, <1>2
  <2>3. PICK j \in DOMAIN m_transactions[n + i].ops :
          m_transactions[n + i].ops[j].held /\ m_transactions[n + i].ops[j].cell = c
    BY <2>1, <2>2 DEF Range
  <2>4. <<n + i, j>> \in OpsHolding(c) /\ c \in Cells
    BY <1>3, <2>2, <2>3 DEF OpsHolding
  <2> QED
    BY <2>2, <2>4 DEF HeldBehind
<1>5. ASSUME NEW c \in HeldBehind(n)
      PROVE  c \in HeldIn(rest)
  <2>1. PICK ij \in OpsHolding(c) : ij[1] > n
    BY DEF HeldBehind
  <2>2. /\ ij[1] \in DOMAIN m_transactions /\ ij[2] \in DOMAIN m_transactions[ij[1]].ops
        /\ m_transactions[ij[1]].ops[ij[2]].held
        /\ m_transactions[ij[1]].ops[ij[2]].cell = c
    BY DEF OpsHolding
  <2>3. ij[1] \in n + 1 .. Len(ts)
    <3>1. DOMAIN <<>> = {}
      OBVIOUS
    <3>2. m_transactions[ij[1]].ops # <<>>
      BY <2>2, <3>1
    <3> QED
      BY <1>2, <2>1, <2>2, <3>2
  <2>4. ij[1] - n \in 1..(Len(ts) - n) /\ rest[ij[1] - n] = m_transactions[ij[1]]
    BY <1>1, <2>3
  <2> DEFINE i == ij[1] - n
  <2>5. c \in {o.cell : o \in {p \in Range(rest[i].ops) : p.held}}
    BY <2>2, <2>4 DEF Range
  <2> HIDE DEF i
  <2>6. rest[i] \in Range(rest)
    BY <1>1, <2>4 DEF Range, i
  <2> QED
    BY <2>5, <2>6 DEF HeldIn
<1> QED
  BY <1>4, <1>5 DEF rest

(* A transaction that a commit drops is empty.                             *)
LEMMA CommittedRest ==
  ASSUME TypeOK, m_opened
  PROVE  /\ CommittedList \in Seq(TransactionRecord)
         /\ CommittedCursor = Len(CommittedList)
         /\ CommittedCursor \in 0..Len(m_transactions)
         /\ \A i \in 1..Len(CommittedList) : CommittedList[i] = m_transactions[i]
         /\ \A i \in 1..Len(m_transactions) :
              i > Len(CommittedList) => m_transactions[i].ops = <<>>
<1>1. m_current \in Nat /\ m_current + 1 = Len(m_transactions) /\ ListTypeOK
  BY DEF TypeOK, ListTypeOK
<1>2. /\ CommittedList \in Seq(TransactionRecord)
      /\ CommittedCursor = Len(CommittedList)
      /\ CommittedCursor \in m_current..Len(m_transactions)
      /\ \A i \in 1..CommittedCursor : CommittedList[i] = m_transactions[i]
  BY <1>1, CommittedProperties
<1>3. \A i \in 1..Len(m_transactions) : i > CommittedCursor => m_transactions[i].ops = <<>>
  BY <1>1 DEF CommittedCursor, CurrentOps
<1> QED
  BY <1>1, <1>2, <1>3

(* transaction() deletes what the undone transactions own.                 *)
LEMMA TransactionObjects ==
  ASSUME TypeOK, TypeOK', ObjectInv, NEW join, Transaction(join)
  PROVE  ObjectInv'
<1> DEFINE ts == IF m_opened THEN CommittedList ELSE m_transactions
           cursor == IF m_opened THEN CommittedCursor ELSE m_current
<1>1. /\ ts \in Seq(TransactionRecord) /\ cursor \in 0..Len(ts)
      /\ Len(ts) <= Len(m_transactions) /\ Len(ts) \in Nat
      /\ \A i \in 1..Len(ts) : ts[i] = m_transactions[i]
      /\ \A i \in 1..Len(m_transactions) : i > Len(ts) => m_transactions[i].ops = <<>>
  <2>1. CASE m_opened
    BY <2>1, CommittedRest
  <2>2. CASE ~m_opened
    BY <2>2 DEF TypeOK, ListTypeOK
  <2> QED
    BY <2>1, <2>2
<1>2. DOMAIN m_transactions = 1..Len(m_transactions) /\ DOMAIN ts = 1..Len(ts)
      /\ Len(m_transactions) \in Nat
  BY <1>1 DEF TypeOK, ListTypeOK
<1>3. CASE m_transactions' = ts /\ UNCHANGED objectVars
  <2>1. CutAt(Len(ts))
    <3> HIDE DEF ts, cursor
    <3> QED
      BY <1>1, <1>2, <1>3 DEF CutAt
  <2>2. \A i \in DOMAIN m_transactions : m_transactions[i].ops = <<>> \/ i <= Len(ts)
    <3> HIDE DEF ts, cursor
    <3> QED
      BY <1>1, <1>2
  <2> HIDE DEF ts, cursor
  <2> QED
    BY <1>3, <2>1, <2>2, CutNothing
<1>4. CASE /\ EraseFrom(cursor, ts)
           /\ \E a \in NewAddresses(SubSeq(ts, 1, cursor)) :
                m_transactions' = Append(SubSeq(ts, 1, cursor),
                                         [addr |-> a, serial |-> created + 1, ops |-> <<>>])
  <2>1. PICK a : m_transactions' = Append(SubSeq(ts, 1, cursor),
                                          [addr |-> a, serial |-> created + 1, ops |-> <<>>])
    BY <1>4
  <2> DEFINE t == [addr |-> a, serial |-> created + 1, ops |-> <<>>]
             kept == SubSeq(ts, 1, cursor)
  <2>2. /\ kept \in Seq(TransactionRecord) /\ Len(kept) = cursor
        /\ \A i \in 1..cursor : kept[i] = ts[i]
    BY <1>1, Prefix
  <2>3. /\ DOMAIN m_transactions' = 1..cursor + 1
        /\ m_transactions'[cursor + 1].ops = <<>>
        /\ \A i \in 1..cursor : m_transactions'[i] = ts[i]
    <3>1. m_transactions' = Append(kept, t) /\ t.ops = <<>> /\ cursor \in Nat
      BY <1>1, <2>1
    <3> HIDE DEF t, kept, ts, cursor
    <3> QED
      BY <2>2, <3>1
  <2>4. CutAt(cursor)
    <3> HIDE DEF ts, cursor
    <3> QED
      BY <1>1, <1>2, <2>3 DEF CutAt
  <2>5. Kill(HeldBehind(cursor))
    <3> HIDE DEF ts, cursor
    <3>1. HeldIn(SubSeq(ts, cursor + 1, Len(ts))) = HeldBehind(cursor)
      BY <1>1, HeldSuffix DEF ObjectInv
    <3> QED
      BY <1>4, <3>1 DEF EraseFrom
  <2> HIDE DEF cursor
  <2> QED
    BY <2>4, <2>5, CutKills
<1> QED
  BY <1>3, <1>4 DEF Transaction

(* Committing and starting to cancel delete nothing but empty transactions. *)
LEMMA CloseObjects ==
  ASSUME TypeOK, TypeOK', ObjectInv, Commit \/ CancelPending
  PROVE  ObjectInv'
<1>1. /\ m_opened /\ UNCHANGED objectVars
      /\ m_current \in Nat /\ m_current + 1 = Len(m_transactions)
      /\ DOMAIN m_transactions = 1..Len(m_transactions)
      /\ m_transactions \in Seq(TransactionRecord)
  BY DEF Commit, CancelPending, TypeOK, ListTypeOK
<1>2. CASE m_transactions' = m_transactions
  <2>1. CutAt(Len(m_transactions))
    BY <1>1, <1>2 DEF CutAt
  <2> QED
    BY <1>1, <2>1, CutNothing
<1>3. CASE m_transactions' = SubSeq(m_transactions, 1, m_current) /\ CurrentOps = <<>>
  <2>1. /\ m_transactions' \in Seq(TransactionRecord) /\ Len(m_transactions') = m_current
        /\ \A i \in 1..m_current : m_transactions'[i] = m_transactions[i]
    BY <1>1, <1>3, Prefix
  <2>2. CutAt(m_current)
    BY <1>1, <2>1 DEF CutAt
  <2>3. \A i \in DOMAIN m_transactions : m_transactions[i].ops = <<>> \/ i <= m_current
    BY <1>1, <1>3 DEF CurrentOps
  <2> QED
    BY <1>1, <2>2, <2>3, CutNothing
<1> QED
  BY <1>2, <1>3 DEF Commit, CancelPending, CommittedList

(* Steps that change neither the list nor the objects.                     *)
LEMMA SameObjects ==
  ASSUME TypeOK, TypeOK', ObjectInv, UNCHANGED <<m_transactions, objectVars>>
  PROVE  ObjectInv'
<1>1. CutAt(Len(m_transactions))
  BY DEF CutAt, TypeOK, ListTypeOK
<1>2. \A i \in DOMAIN m_transactions : i <= Len(m_transactions)
  BY DEF TypeOK, ListTypeOK
<1>3. UNCHANGED objectVars
  BY Zenon
<1> QED
  BY <1>1, <1>2, <1>3, CutNothing

(* A step that writes the operation at position p of transaction k only.   *)
LEMMA OneOperation ==
  ASSUME TypeOK, TypeOK', NEW k \in DOMAIN m_transactions, NEW p \in 1..MaxOps, NEW c \in Cells,
         DOMAIN m_transactions' = DOMAIN m_transactions,
         \A i \in DOMAIN m_transactions : i # k => m_transactions'[i] = m_transactions[i],
         p \in DOMAIN m_transactions'[k].ops, m_transactions'[k].ops[p].cell = c,
         DOMAIN m_transactions'[k].ops \ {p} = DOMAIN m_transactions[k].ops \ {p},
         \A j \in DOMAIN m_transactions[k].ops \ {p} :
           m_transactions'[k].ops[j] = m_transactions[k].ops[j],
         p \in DOMAIN m_transactions[k].ops => m_transactions[k].ops[p].cell = c
  PROVE  /\ \A d \in Cells : d # c => OpsHolding(d)' = OpsHolding(d)
         /\ OpsHolding(c)' = (OpsHolding(c) \ {<<k, p>>})
                               \union IF m_transactions'[k].ops[p].held THEN {<<k, p>>} ELSE {}
<1>1. ASSUME NEW d \in Cells, NEW i \in DOMAIN m_transactions, NEW j \in 1..MaxOps, i # k \/ j # p
      PROVE  <<i, j>> \in OpsHolding(d)' <=> <<i, j>> \in OpsHolding(d)
  <2>1. CASE i # k
    <3>1. m_transactions'[i] = m_transactions[i]
      BY <2>1
    <3> QED
      BY <3>1 DEF OpsHolding
  <2>2. CASE i = k /\ j # p
    <3>1. j \in DOMAIN m_transactions'[k].ops <=> j \in DOMAIN m_transactions[k].ops
      BY <2>2
    <3>2. j \in DOMAIN m_transactions[k].ops =>
            m_transactions'[k].ops[j] = m_transactions[k].ops[j]
      BY <2>2
    <3> QED
      BY <2>2, <3>1, <3>2 DEF OpsHolding
  <2> QED
    BY <1>1, <2>1, <2>2
<1>2. \A d \in Cells : d # c => <<k, p>> \notin OpsHolding(d)' /\ <<k, p>> \notin OpsHolding(d)
  BY DEF OpsHolding
<1>3. <<k, p>> \in OpsHolding(c)' <=> m_transactions'[k].ops[p].held
  BY DEF OpsHolding
<1>4. \A d \in Cells : /\ OpsHolding(d) \subseteq (DOMAIN m_transactions) \X (1..MaxOps)
                       /\ OpsHolding(d)' \subseteq (DOMAIN m_transactions) \X (1..MaxOps)
  BY DEF OpsHolding
<1>5. ASSUME NEW d \in Cells, d # c
      PROVE  OpsHolding(d)' = OpsHolding(d)
  <2>1. ASSUME NEW ij \in (DOMAIN m_transactions) \X (1..MaxOps)
        PROVE  ij \in OpsHolding(d)' <=> ij \in OpsHolding(d)
    <3>1. ij = <<ij[1], ij[2]>> /\ ij[1] \in DOMAIN m_transactions /\ ij[2] \in 1..MaxOps
      OBVIOUS
    <3>2. CASE ij[1] # k \/ ij[2] # p
      BY <1>1, <3>1, <3>2
    <3>3. CASE ij[1] = k /\ ij[2] = p
      BY <1>2, <1>5, <3>1, <3>3
    <3> QED
      BY <3>2, <3>3
  <2> QED
    BY <1>4, <2>1
<1>6. OpsHolding(c)' \ {<<k, p>>} = OpsHolding(c) \ {<<k, p>>}
  BY <1>1, <1>4
<1> QED
  BY <1>3, <1>5, <1>6

(* Such a step keeps the bounds on the operations.                         *)
LEMMA OneOperationOK ==
  ASSUME OpsOK, NEW k \in DOMAIN m_transactions, NEW p,
         DOMAIN m_transactions' = DOMAIN m_transactions,
         \A i \in DOMAIN m_transactions : i # k => m_transactions'[i] = m_transactions[i],
         Len(m_transactions'[k].ops) = Len(m_transactions[k].ops),
         DOMAIN m_transactions'[k].ops = DOMAIN m_transactions[k].ops,
         \A j \in DOMAIN m_transactions[k].ops \ {p} :
           m_transactions'[k].ops[j] = m_transactions[k].ops[j],
         m_transactions'[k].ops[p].held => m_transactions'[k].ops[p].kind # "prop"
  PROVE  OpsOK'
<1>1. ASSUME NEW i \in DOMAIN m_transactions, i # k
      PROVE  /\ Len(m_transactions'[i].ops) <= MaxOps
             /\ \A j \in DOMAIN m_transactions'[i].ops :
                  m_transactions'[i].ops[j].held => m_transactions'[i].ops[j].kind # "prop"
  BY <1>1 DEF OpsOK
<1>2. Len(m_transactions'[k].ops) <= MaxOps
  BY DEF OpsOK
<1>3. ASSUME NEW j \in DOMAIN m_transactions'[k].ops, m_transactions'[k].ops[j].held
      PROVE  m_transactions'[k].ops[j].kind # "prop"
  BY <1>3 DEF OpsOK
<1> QED
  BY <1>1, <1>2, <1>3 DEF OpsOK

(* Queueing an operation gives it the cell that left the layout.           *)
LEMMA QueueObjects ==
  ASSUME TypeOK, TypeOK', OpsOK, Owned, NEW id, NEW kind, NEW c \in Cells, NEW held \in BOOLEAN,
         NEW from, NEW to, Queue(id, kind, c, held, from, to), held => kind # "prop",
         IF held /\ m_opened THEN where[c] # "op" /\ where' = [where EXCEPT ![c] = "op"]
         ELSE \A d \in Cells : where'[d] = "op" <=> where[d] = "op"
  PROVE  OpsOK' /\ Owned'
<1>1. CASE ~m_opened
  <2>1. m_transactions' = m_transactions
    BY <1>1 DEF Queue
  <2>2. \A d \in Cells : OpsHolding(d)' = OpsHolding(d)
    BY <2>1 DEF OpsHolding
  <2> QED
    BY <1>1, <2>1, <2>2 DEF OpsOK, Owned
<1>2. CASE m_opened
  <2> DEFINE k == m_current + 1
             op == [id |-> id, kind |-> kind, cell |-> c, held |-> held, from |-> from,
                    to |-> to, done |-> TRUE, pre |-> Doc, post |-> DocAfter]
             p == Len(CurrentOps) + 1
  <2>1. /\ m_transactions \in Seq(TransactionRecord) /\ k \in 1..Len(m_transactions)
        /\ DOMAIN m_transactions = 1..Len(m_transactions)
    BY <1>2 DEF TypeOK, ListTypeOK
  <2>2. m_transactions[k] \in TransactionRecord
    BY <2>1, ElementOfSeq
  <2>3. CurrentOps \in Seq(Op) /\ m_transactions[k].ops = CurrentOps
    BY <2>2 DEF CurrentOps, TransactionRecord
  <2>4. m_transactions' = [m_transactions EXCEPT ![k].ops = Append(@, op)] /\ Len(CurrentOps) < MaxOps
    BY <1>2 DEF Queue
  <2>5. op.held = held /\ op.cell = c /\ op.kind = kind
    OBVIOUS
  <2> HIDE DEF op, k
  <2>6. /\ DOMAIN m_transactions' = DOMAIN m_transactions
        /\ \A i \in DOMAIN m_transactions : i # k => m_transactions'[i] = m_transactions[i]
        /\ m_transactions'[k].ops = Append(CurrentOps, op)
    <3>1. m_transactions' = [m_transactions EXCEPT
                               ![k] = [m_transactions[k] EXCEPT !.ops = Append(@, op)]]
      BY <2>4
    <3> QED
      BY <2>1, <2>2, <2>3, <3>1 DEF TransactionRecord
  <2>7. /\ DOMAIN m_transactions'[k].ops = 1..p /\ p \in 1..MaxOps
        /\ m_transactions'[k].ops[p] = op
        /\ Len(m_transactions'[k].ops) = p
        /\ DOMAIN m_transactions[k].ops = 1..p - 1
        /\ \A j \in 1..p - 1 : m_transactions'[k].ops[j] = m_transactions[k].ops[j]
    BY <2>3, <2>4, <2>6, BoundsAssumption
  <2> HIDE DEF p
  <2>8. /\ p \in DOMAIN m_transactions'[k].ops /\ m_transactions'[k].ops[p].cell = c
        /\ p \in DOMAIN m_transactions[k].ops => m_transactions[k].ops[p].cell = c
        /\ DOMAIN m_transactions'[k].ops \ {p} = DOMAIN m_transactions[k].ops \ {p}
        /\ \A j \in DOMAIN m_transactions[k].ops \ {p} :
             m_transactions'[k].ops[j] = m_transactions[k].ops[j]
    BY <2>5, <2>7, BoundsAssumption
  <2>9. /\ \A d \in Cells : d # c => OpsHolding(d)' = OpsHolding(d)
        /\ OpsHolding(c)' = (OpsHolding(c) \ {<<k, p>>})
                              \union IF m_transactions'[k].ops[p].held THEN {<<k, p>>} ELSE {}
    <3>1. k \in DOMAIN m_transactions /\ p \in 1..MaxOps
      BY <2>1, <2>7
    <3> QED
      BY <2>6, <2>8, <3>1, OneOperation, Zenon
  <2>10. <<k, p>> \notin OpsHolding(c)
    BY <2>7, BoundsAssumption DEF OpsHolding
  <2>11. Owned'
    <3>1. CASE held
      <4>1. where[c] # "op" /\ OpsHolding(c) = {}
        BY <1>2, <3>1 DEF Owned
      <4>2. OpsHolding(c)' = {<<k, p>>}
        BY <2>5, <2>7, <2>9, <3>1, <4>1
      <4>3. \A d \in Cells : where'[d] = IF d = c THEN "op" ELSE where[d]
        BY <1>2, <3>1 DEF TypeOK, ObjectTypeOK
      <4> QED
        BY <2>9, <4>2, <4>3 DEF Owned
    <3>2. CASE ~held
      <4>1. OpsHolding(c)' = OpsHolding(c) \ {<<k, p>>}
        BY <2>5, <2>7, <2>9, <3>2
      <4>2. \A d \in Cells : OpsHolding(d)' = OpsHolding(d)
        BY <2>9, <2>10, <4>1
      <4> QED
        BY <3>2, <4>2 DEF Owned
    <3> QED
      BY <3>1, <3>2
  <2>12. OpsOK'
    <3>1. ASSUME NEW i \in DOMAIN m_transactions'
          PROVE  /\ Len(m_transactions'[i].ops) <= MaxOps
                 /\ \A j \in DOMAIN m_transactions'[i].ops :
                      m_transactions'[i].ops[j].held => m_transactions'[i].ops[j].kind # "prop"
      <4>1. CASE i # k
        BY <2>6, <3>1, <4>1 DEF OpsOK
      <4>2. CASE i = k
        <5>1. Len(m_transactions'[k].ops) <= MaxOps
          BY <2>7, BoundsAssumption
        <5>2. ASSUME NEW j \in DOMAIN m_transactions'[k].ops, m_transactions'[k].ops[j].held
              PROVE  m_transactions'[k].ops[j].kind # "prop"
          <6>1. CASE j = p
            BY <2>5, <2>7, <5>2, <6>1
          <6>2. CASE j # p
            <7>1. j \in 1..p - 1 /\ j \in DOMAIN m_transactions[k].ops
                  /\ m_transactions'[k].ops[j] = m_transactions[k].ops[j]
              BY <2>7, <5>2, <6>2, BoundsAssumption
            <7> QED
              BY <2>1, <5>2, <7>1 DEF OpsOK
          <6> QED
            BY <6>1, <6>2
        <5> QED
          BY <4>2, <5>1, <5>2
      <4> QED
        BY <4>1, <4>2
    <3> QED
      BY <3>1 DEF OpsOK
  <2> QED
    BY <2>11, <2>12
<1> QED
  BY <1>1, <1>2

(* A new cell gets an id nobody else has.                                  *)
LEMMA NewId ==
  ASSUME TypeOK, Len(m_id_table) > 0, IdsExact, NEW c \in Cells, where[c] = "unborn",
         NEW id \in NextIds, m_id_table' = TableWith(id, c), m_id' = [m_id EXCEPT ![c] = id],
         where' = [where EXCEPT ![c] = "layout"]
  PROVE  Len(m_id_table') > 0 /\ IdsExact'
<1>1. /\ m_id_table \in Seq(Cells \union {Layout, NoObject}) /\ Len(m_id_table) \in Nat
      /\ DOMAIN m_id_table = 1..Len(m_id_table)
      /\ m_id \in [Cells -> Nat] /\ where \in [Cells -> {"unborn", "layout", "op", "dead"}]
  BY DEF TypeOK, ObjectTypeOK
<1>2. m_id_table[1] = Layout
  BY <1>1 DEF IdsExact
<1>3. \A i \in DOMAIN m_id_table : m_id_table[i] # c
  <2>1. {i \in DOMAIN m_id_table : m_id_table[i] = c} = {}
    BY DEF IdsExact
  <2> QED
    BY <2>1
<1>4. /\ DOMAIN m_id_table' = DOMAIN m_id_table \union {id}
      /\ id \in DOMAIN m_id_table => m_id_table[id] = NoObject
      /\ m_id_table'[id] = c /\ id # 1
      /\ \A i \in DOMAIN m_id_table : i # id => m_id_table'[i] = m_id_table[i]
      /\ Len(m_id_table') > 0 /\ m_id_table' \in Seq(Cells \union {Layout, NoObject})
  <2>1. CASE id \in FreeIds
    BY <1>1, <1>2, <2>1, ObjectsAssumption DEF FreeIds, TableWith
  <2>2. CASE id \notin FreeIds
    BY <1>1, <2>2 DEF FreeIds, NextIds, TableWith
  <2> QED
    BY <2>1, <2>2
<1>5. Head(m_id_table') = Layout
  BY <1>1, <1>2, <1>4
<1>6. ASSUME NEW d \in Cells
      PROVE  {i \in DOMAIN m_id_table' : m_id_table'[i] = d} =
               IF where'[d] \in {"layout", "op"} THEN {m_id'[d]} ELSE {}
  <2>1. CASE d = c
    <3>1. {i \in DOMAIN m_id_table' : m_id_table'[i] = c} = {id}
      BY <1>3, <1>4
    <3> QED
      BY <1>1, <2>1, <3>1
  <2>2. CASE d # c
    <3>1. {i \in DOMAIN m_id_table' : m_id_table'[i] = d} = {i \in DOMAIN m_id_table : m_id_table[i] = d}
      BY <1>4, <2>2, ObjectsAssumption
    <3>2. where'[d] = where[d] /\ m_id'[d] = m_id[d]
      BY <1>1, <2>2
    <3> QED
      BY <3>1, <3>2 DEF IdsExact
  <2> QED
    BY <2>1, <2>2
<1> QED
  BY <1>4, <1>5, <1>6 DEF IdsExact

(* Ids do not depend on whether a cell is in the layout or in an operation. *)
LEMMA SameIds ==
  ASSUME TypeOK, Len(m_id_table) > 0, IdsExact, m_id_table' = m_id_table, m_id' = m_id,
         \A d \in Cells : where'[d] \in {"layout", "op"} <=> where[d] \in {"layout", "op"}
  PROVE  Len(m_id_table') > 0 /\ IdsExact'
BY DEF IdsExact

(* Every change of the layout keeps the owners and the ids.                *)
LEMMA ChangeObjects ==
  ASSUME TypeOK, TypeOK', ObjectInv,
         \/ \E c \in Cells : AddCell(c) \/ DeleteCell(c)
         \/ \E c \in Cells, p \in Props : SetPropId(c, p)
  PROVE  ObjectInv'
<1> USE DEF ObjectInv
<1>1. ASSUME NEW c \in Cells, AddCell(c)
      PROVE  ObjectInv'
  <2>1. where[c] = "unborn" /\ where' = [where EXCEPT ![c] = "layout"]
        /\ Queue(1, "new", c, FALSE, 0, 0)
    BY <1>1 DEF AddCell
  <2>2. Len(m_id_table') > 0 /\ IdsExact'
    BY <1>1, <2>1, NewId DEF AddCell
  <2>3. \A d \in Cells : where'[d] = "op" <=> where[d] = "op"
    BY <2>1 DEF TypeOK, ObjectTypeOK
  <2>4. OpsOK' /\ Owned'
    BY <2>1, <2>3, QueueObjects
  <2> QED
    BY <2>2, <2>4
<1>2. ASSUME NEW c \in Cells, DeleteCell(c)
      PROVE  ObjectInv'
  <2>1. where[c] = "layout" /\ Queue(1, "remove", c, TRUE, 0, 0)
    BY <1>2 DEF DeleteCell
  <2>2. CASE m_opened
    <3>1. where' = [where EXCEPT ![c] = "op"] /\ m_id_table' = m_id_table /\ m_id' = m_id
      BY <1>2, <2>2 DEF DeleteCell
    <3>2. Len(m_id_table') > 0 /\ IdsExact'
      BY <2>1, <3>1, SameIds DEF TypeOK, ObjectTypeOK
    <3>3. TRUE \in BOOLEAN /\ "remove" # "prop" /\ where[c] # "op" /\ OpsOK /\ Owned
      BY <2>1
    <3>4. OpsOK' /\ Owned'
      BY <2>1, <2>2, <3>1, <3>3, QueueObjects, Zenon
    <3> QED
      BY <3>2, <3>4
  <2>3. CASE ~m_opened
    <3>1. Kill({c}) /\ {c} \in SUBSET Cells
      BY <1>2, <2>3 DEF DeleteCell
    <3>2. Len(m_id_table') > 0 /\ IdsExact'
      BY <3>1, KillIds
    <3>3. \A d \in Cells : where'[d] = "op" <=> where[d] = "op"
      BY <2>1, <3>1 DEF Kill
    <3>4. TRUE \in BOOLEAN /\ "remove" # "prop" /\ OpsOK /\ Owned
      BY <2>1
    <3>5. OpsOK' /\ Owned'
      BY <2>1, <2>3, <3>3, <3>4, QueueObjects, Zenon
    <3> QED
      BY <3>2, <3>5
  <2> QED
    BY <2>2, <2>3
<1>3. ASSUME NEW c \in Cells, NEW p \in Props, SetPropId(c, p)
      PROVE  ObjectInv'
  <2>1. where' = where /\ m_id_table' = m_id_table /\ m_id' = m_id
        /\ Queue(m_id[c], "prop", c, FALSE, m_prop_id[c], p)
    BY <1>3 DEF SetPropId
  <2>2. Len(m_id_table') > 0 /\ IdsExact'
    BY <2>1, SameIds
  <2>3. OpsOK' /\ Owned'
    BY <2>1, QueueObjects
  <2> QED
    BY <2>2, <2>3
<1> QED
  BY <1>1, <1>2, <1>3

(* Replaying hands the cell from the operation to the layout or back.      *)
LEMMA ReplayOpObjects ==
  ASSUME TypeOK, TypeOK', ObjectInv, ReplayOp
  PROVE  ObjectInv'
<1> DEFINE k == m_current + 1
           o == CurrentOps[pos]
<1>1. /\ m_transactions \in Seq(TransactionRecord)
      /\ DOMAIN m_transactions = 1..Len(m_transactions) /\ k \in DOMAIN m_transactions
      /\ where \in [Cells -> {"unborn", "layout", "op", "dead"}]
  BY DEF ReplayOp, TypeOK, ListTypeOK, ReplayTypeOK, ObjectTypeOK
<1>2. m_transactions[k] \in TransactionRecord
  BY <1>1, ElementOfSeq
<1>3. CurrentOps \in Seq(Op) /\ m_transactions[k].ops = CurrentOps
      /\ DOMAIN CurrentOps = 1..Len(CurrentOps)
  BY <1>2 DEF CurrentOps, TransactionRecord
<1>4. pos \in 1..Len(CurrentOps) /\ pos \in 1..MaxOps
  <2>1. Len(CurrentOps) <= MaxOps
    BY <1>1, <1>3 DEF ObjectInv, OpsOK
  <2> QED
    BY <1>3, <2>1, BoundsAssumption DEF ReplayOp
<1>5. o \in Op
  BY <1>3, <1>4, ElementOfSeq
<1>6. /\ Replayable(o) /\ Replay(o)
      /\ m_transactions' = [m_transactions EXCEPT ![k].ops[pos] = Replayed(@)]
      /\ m_id_table' = m_id_table /\ m_id' = m_id
  BY Zenon DEF ReplayOp
<1>7. o.held => o.kind # "prop"
  BY <1>1, <1>3, <1>4 DEF ObjectInv, OpsOK
<1>8. <<k, pos>> \in OpsHolding(o.cell) <=> o.held
  BY <1>1, <1>3, <1>4 DEF OpsHolding
<1>9. /\ Replayed(o).cell = o.cell /\ Replayed(o).kind = o.kind
      /\ Replayed(o).held <=> (o.kind # "prop" /\ ~ToLayout(o))
  <2> HIDE DEF o
  <2> QED
    BY <1>5 DEF Replayed, Op, ToLayout, Forward
<1> DEFINE r == Replayed(o)
<1>10. PICK c \in Cells : c = o.cell
  BY <1>5 DEF Op
<1>11. /\ DOMAIN m_transactions' = DOMAIN m_transactions
       /\ \A i \in DOMAIN m_transactions : i # k => m_transactions'[i] = m_transactions[i]
       /\ m_transactions'[k].ops = [CurrentOps EXCEPT ![pos] = r]
  <2> HIDE DEF k, r
  <2>1. m_transactions' = [m_transactions EXCEPT
                             ![k] = [m_transactions[k] EXCEPT !.ops = [@ EXCEPT ![pos] = r]]]
    BY <1>3, <1>4, <1>6 DEF r
  <2> QED
    BY <1>1, <1>2, <1>3, <2>1 DEF TransactionRecord
<1> HIDE DEF k, r
<1>12. /\ DOMAIN m_transactions'[k].ops = DOMAIN m_transactions[k].ops
       /\ pos \in DOMAIN m_transactions[k].ops
       /\ m_transactions'[k].ops[pos] = r
       /\ \A j \in DOMAIN m_transactions[k].ops \ {pos} :
            m_transactions'[k].ops[j] = m_transactions[k].ops[j]
       /\ Len(m_transactions'[k].ops) = Len(m_transactions[k].ops)
  <2> HIDE DEF o
  <2> QED
    BY <1>3, <1>4, <1>11
<1>13. r.cell = c /\ m_transactions[k].ops[pos].cell = c
  BY <1>3, <1>9, <1>10 DEF r
<1>14. /\ \A d \in Cells : d # c => OpsHolding(d)' = OpsHolding(d)
       /\ OpsHolding(c)' = (OpsHolding(c) \ {<<k, pos>>})
                             \union IF m_transactions'[k].ops[pos].held THEN {<<k, pos>>} ELSE {}
  <2>1. /\ DOMAIN m_transactions'[k].ops \ {pos} = DOMAIN m_transactions[k].ops \ {pos}
        /\ pos \in DOMAIN m_transactions'[k].ops /\ m_transactions'[k].ops[pos].cell = c
        /\ pos \in DOMAIN m_transactions[k].ops => m_transactions[k].ops[pos].cell = c
    BY <1>12, <1>13
  <2> QED
    BY <1>1, <1>4, <1>10, <1>11, <1>12, <2>1, OneOperation, Zenon
<1>15. IF where[c] = "op" THEN \E ij : OpsHolding(c) = {ij} ELSE OpsHolding(c) = {}
  BY <1>10 DEF ObjectInv, Owned
<1>16. CASE o.kind = "prop"
  <2>1. where' = where /\ ~o.held /\ ~r.held
    BY <1>6, <1>7, <1>9, <1>16 DEF Replay, r
  <2>2. OpsHolding(c)' = OpsHolding(c)
    BY <1>8, <1>10, <1>12, <1>14, <2>1
  <2> QED
    <3>1. Owned'
      BY <1>14, <2>1, <2>2 DEF ObjectInv, Owned
    <3>2. Len(m_id_table') > 0 /\ IdsExact'
      BY <1>6, <2>1, SameIds DEF ObjectInv
    <3>3. OpsOK'
      <4>1. m_transactions'[k].ops[pos].held => m_transactions'[k].ops[pos].kind # "prop"
        BY <1>12, <2>1
      <4> QED
        BY <1>1, <1>11, <1>12, <4>1, OneOperationOK DEF ObjectInv
    <3> QED
      BY <3>1, <3>2, <3>3 DEF ObjectInv
<1>17. CASE o.kind # "prop"
  <2>1. where' = [where EXCEPT ![c] = IF ToLayout(o) THEN "layout" ELSE "op"]
    BY <1>6, <1>10, <1>17 DEF Replay
  <2>2. IF ToLayout(o) THEN o.held /\ where[c] # "layout" ELSE ~o.held /\ where[c] = "layout"
    BY <1>6, <1>10, <1>17 DEF Replayable
  <2>3. r.held <=> ~ToLayout(o)
    BY <1>9, <1>17 DEF r
  <2>4. Owned' /\ \A d \in Cells : where'[d] \in {"layout", "op"} <=> where[d] \in {"layout", "op"}
    <3>1. CASE ToLayout(o)
      <4>1. <<k, pos>> \in OpsHolding(c)
        BY <1>8, <1>10, <2>2, <3>1
      <4>2. where[c] = "op" /\ OpsHolding(c) = {<<k, pos>>}
        BY <1>15, <4>1
      <4>3. OpsHolding(c)' = {}
        BY <1>12, <1>14, <2>3, <3>1, <4>2
      <4>4. where'[c] = "layout" /\ \A d \in Cells : d # c => where'[d] = where[d]
        BY <1>1, <1>10, <2>1, <3>1
      <4> QED
        BY <1>14, <4>2, <4>3, <4>4 DEF ObjectInv, Owned
    <3>2. CASE ~ToLayout(o)
      <4>1. OpsHolding(c) = {}
        BY <1>15, <2>2, <3>2
      <4>2. OpsHolding(c)' = {<<k, pos>>}
        BY <1>12, <1>14, <2>3, <3>2, <4>1
      <4>3. where'[c] = "op" /\ \A d \in Cells : d # c => where'[d] = where[d]
        BY <1>1, <1>10, <2>1, <3>2
      <4> QED
        BY <1>14, <2>2, <3>2, <4>2, <4>3 DEF ObjectInv, Owned
    <3> QED
      BY <3>1, <3>2
  <2>5. Len(m_id_table') > 0 /\ IdsExact'
    BY <1>6, <2>4, SameIds DEF ObjectInv
  <2>6. OpsOK'
    <3>1. m_transactions'[k].ops[pos].kind # "prop"
      BY <1>9, <1>12, <1>17 DEF r
    <3> QED
      BY <1>1, <1>11, <1>12, <3>1, OneOperationOK DEF ObjectInv
  <2> QED
    BY <2>4, <2>5, <2>6 DEF ObjectInv
<1> QED
  BY <1>16, <1>17

(* The ends of a replay and clear() keep the owners and the ids.           *)
LEMMA EndingObjects ==
  ASSUME TypeOK, TypeOK', ObjectInv, ReplayFails \/ ReplayEnds \/ Clear
  PROVE  ObjectInv'
<1>1. m_transactions \in Seq(TransactionRecord) /\ Len(m_transactions) \in Nat
      /\ DOMAIN m_transactions = 1..Len(m_transactions)
  BY DEF TypeOK, ListTypeOK
<1>2. CASE EraseAll
  <2>1. m_transactions' = <<>> /\ DOMAIN <<>> = {}
    BY <1>2 DEF EraseAll
  <2>2. CutAt(0)
    BY <1>1, <2>1 DEF CutAt
  <2>3. HeldIn(SubSeq(m_transactions, 0 + 1, Len(m_transactions))) = HeldBehind(0)
    BY <1>1, HeldSuffix DEF ObjectInv
  <2>4. Kill(HeldBehind(0))
    BY <1>2, <2>3 DEF EraseAll, EraseFrom
  <2> QED
    BY <2>2, <2>4, CutKills
<1>3. CASE ReplayEnds /\ m_replay = "cancel"
  <2>1. m_current \in 0..Len(m_transactions)
    BY DEF TypeOK, ListTypeOK
  <2>2. m_transactions' = SubSeq(m_transactions, 1, m_current) /\ EraseFrom(m_current, m_transactions)
    BY <1>3 DEF ReplayEnds
  <2>3. /\ m_transactions' \in Seq(TransactionRecord) /\ Len(m_transactions') = m_current
        /\ \A i \in 1..m_current : m_transactions'[i] = m_transactions[i]
    BY <1>1, <2>1, <2>2, Prefix
  <2>4. CutAt(m_current)
    BY <1>1, <2>1, <2>3 DEF CutAt
  <2>5. HeldIn(SubSeq(m_transactions, m_current + 1, Len(m_transactions))) = HeldBehind(m_current)
    BY <1>1, <2>1, HeldSuffix DEF ObjectInv
  <2> QED
    BY <2>2, <2>4, <2>5, CutKills DEF EraseFrom
<1>4. CASE ReplayEnds /\ m_replay # "cancel"
  BY <1>4, SameObjects DEF ReplayEnds
<1> QED
  BY <1>2, <1>3, <1>4 DEF ReplayFails, Clear

(* Every step keeps the owners and the ids.                                *)
LEMMA ObjectInvStep ==
  ASSUME TypeOK, TypeOK', ObjectInv, [Next]_vars
  PROVE  ObjectInv'
<1>1. CASE \E join : Transaction(join)
  BY <1>1, TransactionObjects
<1>2. CASE Commit \/ CancelPending
  BY <1>2, CloseObjects
<1>3. CASE UNCHANGED <<m_transactions, objectVars>>
  BY <1>3, SameObjects
<1>4. CASE \/ \E c \in Cells : AddCell(c) \/ DeleteCell(c)
           \/ \E c \in Cells, p \in Props : SetPropId(c, p)
  BY <1>4, ChangeObjects
<1>5. CASE Begin \/ BeginJoined \/ OpenScope \/ ReopenScope
  BY <1>1, <1>5 DEF Begin, BeginJoined, OpenScope, ReopenScope
<1>6. CASE End \/ Cancel \/ EndJoined \/ CloseScope \/ CancelScope \/ EndScope
  BY <1>2, <1>3, <1>6 DEF End, Cancel, EndJoined, CloseScope, CancelScope, EndScope, listVars
<1>7. CASE Undo \/ CancelDialog \/ Redo
  BY <1>3, <1>7 DEF Undo, CancelDialog, Redo, StartUndo, listVars
<1>8. CASE ReplayOp
  BY <1>8, ReplayOpObjects
<1>9. CASE ReplayFails \/ ReplayEnds \/ Clear
  BY <1>9, EndingObjects
<1>10. CASE UNCHANGED vars
  BY <1>3, <1>10 DEF vars, listVars
<1> QED
  BY <1>4, <1>5, <1>6, <1>7, <1>8, <1>9, <1>10 DEF Next

(* A new manager and its layout have the owners and the ids right.         *)
LEMMA ObjectInvInit == Init => ObjectInv
<1> SUFFICES ASSUME Init PROVE ObjectInv
  OBVIOUS
<1>1. DOMAIN m_transactions = {} /\ m_id_table = <<Layout>>
      /\ \A c \in Cells : where[c] = "unborn"
  BY DEF Init
<1>2. OpsOK /\ Owned
  BY <1>1 DEF OpsOK, Owned, OpsHolding
<1>3. Len(m_id_table) = 1 /\ Head(m_id_table) = Layout
      /\ DOMAIN m_id_table = {1} /\ m_id_table[1] = Layout
  BY <1>1
<1>4. IdsExact
  BY <1>1, <1>3, ObjectsAssumption DEF IdsExact
<1> QED
  BY <1>2, <1>3, <1>4 DEF ObjectInv

(* Owners and ids are right in every reachable state, for all clients.     *)
THEOREM ObjectInvCorrect == Spec => []ObjectInv
<1>1. TypeOK /\ TypeOK' /\ ObjectInv /\ [Next]_vars => ObjectInv'
  BY ObjectInvStep
<1> QED
  BY <1>1, ObjectInvInit, TypeCorrect, PTL DEF Spec

(* However transactions are opened, joined, broken, replayed or bypassed,  *)
(* a cell outside the layout has one owner: deleting the operations (the   *)
(* destructor of NewRemoveCellOp) neither leaks a cell nor frees one twice. *)
THEOREM OwnershipCorrect == Spec => []CellsOwnedOnce
<1>1. ObjectInv => CellsOwnedOnce
  <2> SUFFICES ASSUME ObjectInv, NEW c \in Cells
               PROVE  Cardinality(OpsHolding(c)) = IF where[c] = "op" THEN 1 ELSE 0
    BY DEF CellsOwnedOnce
  <2> QED
    BY FS_EmptySet, FS_Singleton DEF ObjectInv, Owned
<1> QED
  BY <1>1, ObjectInvCorrect, PTL

(* The id table of the manager points to the objects that exist, so that   *)
(* an operation never reaches a deleted object through its id.             *)
THEOREM IdsCorrect == Spec => []IdsExact
<1>1. ObjectInv => IdsExact
  BY DEF ObjectInv
<1> QED
  BY <1>1, ObjectInvCorrect, PTL

-----------------------------------------------------------------------------
(* Who joins which transaction.                                            *)

(* The list and the cursor after the commit inside transaction().          *)
Kept == IF m_opened THEN CommittedList ELSE m_transactions
KeptCursor == IF m_opened THEN CommittedCursor ELSE m_current

JoinsKept(join) ==
  /\ Kept # <<>> /\ Last(Kept).addr = join
  /\ m_transactions' = Kept
  /\ UNCHANGED <<objectVars, created>>

AddsTransaction ==
  /\ created' = created + 1
  /\ EraseFrom(KeptCursor, Kept)
  /\ Len(m_transactions') = KeptCursor + 1
  /\ \A i \in 1..KeptCursor : m_transactions'[i] = Kept[i]
  /\ \E a \in NewAddresses(SubSeq(Kept, 1, KeptCursor)) :
       m_transactions'[KeptCursor + 1] = [addr |-> a, serial |-> created + 1, ops |-> <<>>]

(* What the list and the cursor are after the implicit commit.             *)
LEMMA KeptProperties ==
  ASSUME TypeOK
  PROVE  /\ Kept \in Seq(TransactionRecord) /\ Len(Kept) \in Nat
         /\ KeptCursor \in 0..Len(Kept)
         /\ Len(Kept) <= Len(m_transactions)
         /\ m_opened => KeptCursor = Len(Kept) /\ KeptCursor >= m_current
         /\ ~m_opened => Kept = m_transactions /\ KeptCursor = m_current
         /\ \A i \in 1..Len(Kept) : Kept[i] = m_transactions[i] /\ Kept[i].ops # <<>>
<1>1. CASE m_opened
  BY <1>1, CommittedProperties DEF TypeOK, ListTypeOK, Kept, KeptCursor
<1>2. CASE ~m_opened
  BY <1>2 DEF TypeOK, ListTypeOK, Kept, KeptCursor
<1> QED
  BY <1>1, <1>2

(* transaction() either continues the last transaction or adds a new one.  *)
LEMMA TransactionOutcome ==
  ASSUME TypeOK, NEW join, Transaction(join)
  PROVE  /\ ~Replaying /\ UNCHANGED replayVars
         /\ m_opened' = TRUE /\ m_current' = Len(m_transactions') - 1
         /\ JoinsKept(join) \/ AddsTransaction
<1>1. /\ Kept \in Seq(TransactionRecord) /\ KeptCursor \in 0..Len(Kept)
  BY KeptProperties
<1>2. /\ m_opened' = TRUE /\ ~Replaying /\ UNCHANGED replayVars
      /\ m_current' = Len(m_transactions') - 1
  BY Zenon DEF Transaction
<1>3. CASE Joins(Kept, join) /\ m_transactions' = Kept /\ UNCHANGED <<objectVars, created>>
  BY <1>2, <1>3 DEF JoinsKept, Joins
<1>4. CASE /\ created' = created + 1
           /\ EraseFrom(KeptCursor, Kept)
           /\ \E a \in NewAddresses(SubSeq(Kept, 1, KeptCursor)) :
                m_transactions' = Append(SubSeq(Kept, 1, KeptCursor),
                                         [addr |-> a, serial |-> created + 1, ops |-> <<>>])
  <2>1. PICK a \in NewAddresses(SubSeq(Kept, 1, KeptCursor)) :
          m_transactions' = Append(SubSeq(Kept, 1, KeptCursor),
                                   [addr |-> a, serial |-> created + 1, ops |-> <<>>])
    BY <1>4
  <2>2. created \in Nat /\ a \in Nat \ {0}
    BY BoundsAssumption DEF NewAddresses, TypeOK, ClientTypeOK
  <2>3. [addr |-> a, serial |-> created + 1, ops |-> <<>>] \in TransactionRecord
    BY <2>2, EmptySeq DEF TransactionRecord
  <2>4. /\ SubSeq(Kept, 1, KeptCursor) \in Seq(TransactionRecord)
        /\ Len(SubSeq(Kept, 1, KeptCursor)) = KeptCursor
        /\ \A i \in 1..KeptCursor : SubSeq(Kept, 1, KeptCursor)[i] = Kept[i]
    BY <1>1, Prefix
  <2>5. /\ Len(m_transactions') = KeptCursor + 1
        /\ m_transactions'[KeptCursor + 1] = [addr |-> a, serial |-> created + 1, ops |-> <<>>]
        /\ \A i \in 1..KeptCursor : m_transactions'[i] = Kept[i]
    BY <1>1, <2>1, <2>3, <2>4
  <2>6. AddsTransaction
    BY <1>4, <2>5 DEF AddsTransaction
  <2> QED
    BY <1>2, <2>6
<1> QED
  BY <1>3, <1>4 DEF Transaction, Kept, KeptCursor

(* While a scope exists, its transaction is the last one, and every change *)
(* it made went there.                                                     *)
ScopeInv ==
  scope => /\ ~Replaying
           /\ m_opened => user = "scope"
           /\ m_transactions # <<>>
           /\ IdOf(Last(m_transactions)) = ticket
           /\ touched \subseteq {ticket.serial}

(* Putting an operation into a transaction keeps its id.                   *)
LEMMA QueueIds ==
  ASSUME TypeOK, NEW c \in Cells, AddCell(c) \/ DeleteCell(c) \/ \E p \in Props : SetPropId(c, p)
  PROVE  /\ Len(m_transactions') = Len(m_transactions)
         /\ \A i \in 1..Len(m_transactions) : IdOf(m_transactions'[i]) = IdOf(m_transactions[i])
         /\ \/ UNCHANGED touched
            \/ /\ user = "scope" /\ m_opened
               /\ touched' = touched \union {m_transactions[m_current + 1].serial}
         /\ ~Replaying /\ (m_opened \/ ~scope)
         /\ m_opened \/ UNCHANGED m_transactions
         /\ Unaffected
<1>1. m_transactions \in Seq(TransactionRecord)
  BY DEF TypeOK, ListTypeOK
<1>2. PICK id, kind, held, from, to : Queue(id, kind, c, held, from, to)
  BY DEF AddCell, DeleteCell, SetPropId
<1>3. ~Replaying /\ (m_opened \/ ~scope) /\ Unaffected
  BY DEF AddCell, DeleteCell, SetPropId, MayChange
<1>4. CASE m_opened
  <2> DEFINE ops == Append(m_transactions[m_current + 1].ops,
            [id |-> id, kind |-> kind, cell |-> c, held |-> held, from |-> from,
             to |-> to, done |-> TRUE, pre |-> Doc, post |-> DocAfter])
  <2>1. m_transactions' = [m_transactions EXCEPT ![m_current + 1].ops = ops]
    BY <1>2, <1>4 DEF Queue
  <2> HIDE DEF ops
  <2>2. /\ Len(m_transactions') = Len(m_transactions)
        /\ \A i \in 1..Len(m_transactions) : IdOf(m_transactions'[i]) = IdOf(m_transactions[i])
    <3>1. ASSUME NEW i \in 1..Len(m_transactions) PROVE IdOf(m_transactions'[i]) = IdOf(m_transactions[i])
      <4>1. m_transactions[i] \in TransactionRecord
        BY <1>1, ElementOfSeq
      <4>2. m_transactions'[i] = IF i = m_current + 1 THEN [m_transactions[i] EXCEPT !.ops = ops]
                                 ELSE m_transactions[i]
        BY <1>1, <2>1
      <4> QED
        BY <4>1, <4>2 DEF TransactionRecord, IdOf
    <3>2. Len(m_transactions') = Len(m_transactions)
      BY <1>1, <2>1
    <3> QED
      BY <3>1, <3>2
  <2>3. touched' = IF user = "scope" THEN touched \union {m_transactions[m_current + 1].serial} ELSE touched
    BY <1>2, <1>4 DEF Queue
  <2> QED
    BY <1>3, <1>4, <2>2, <2>3
<1>5. CASE ~m_opened
  BY <1>2, <1>3, <1>5 DEF Queue
<1> QED
  BY <1>4, <1>5

LEMMA ScopeStep ==
  ASSUME ~EmptyClose, "plain" \notin Clients, TypeOK, TypeOK', ScopeInv, [Next]_vars
  PROVE  ScopeInv'
<1>0. /\ m_transactions \in Seq(TransactionRecord) /\ Len(m_transactions) \in Nat /\ m_current \in Nat
      /\ m_opened => m_current + 1 = Len(m_transactions)
      /\ m_opened <=> user # "nobody"
  BY DEF TypeOK, ListTypeOK, ClientTypeOK
<1>1. CASE Begin \/ BeginJoined
  BY <1>1 DEF Begin, BeginJoined, ScopeInv
<1>2. CASE OpenScope
  <2>1. ~Replaying /\ UNCHANGED replayVars
    BY <1>2, TransactionOutcome DEF OpenScope
  <2>2. m_transactions' # <<>>
    BY <1>2, TransactionTypes DEF OpenScope
  <2>3. ticket' = IdOf(Last(m_transactions')) /\ touched' = {} /\ user' = "scope"
    BY <1>2, <2>2 DEF OpenScope, LastId
  <2> QED
    BY <2>1, <2>2, <2>3 DEF ScopeInv, Replaying, replayVars
<1>3. CASE ReopenScope
  <2>1. ~m_opened /\ scope /\ scope' = scope /\ UNCHANGED <<ticket, touched>> /\ user' = "scope"
    BY <1>3 DEF ReopenScope
  <2>2. ~Replaying /\ UNCHANGED replayVars /\ (JoinsKept(ticket.addr) \/ AddsTransaction)
    BY <1>3, TransactionOutcome DEF ReopenScope
  <2>3. m_transactions # <<>> /\ Last(m_transactions).addr = ticket.addr /\ Kept = m_transactions
    BY <2>1 DEF ScopeInv, IdOf, Kept
  <2>4. Joins(m_transactions, ticket.addr)
    BY <2>3 DEF Joins
  <2>5. m_transactions' = m_transactions
    BY <1>3, <2>1, <2>4 DEF ReopenScope, Transaction
  <2> QED
    BY <2>1, <2>2, <2>5 DEF ScopeInv, Replaying, replayVars
<1>4. CASE CloseScope
  <2>1. m_opened /\ ~Replaying /\ CurrentOps # <<>> /\ UNCHANGED <<scope, ticket, touched, replayVars>>
    BY <1>4 DEF CloseScope, Commit
  <2>2. m_transactions' = m_transactions /\ m_opened' = FALSE
    BY <1>4, <2>1 DEF CloseScope, Commit, CommittedList
  <2> QED
    BY <2>1, <2>2 DEF ScopeInv, Replaying, replayVars
<1>5. CASE End \/ Cancel \/ EndJoined
  <2>1. user \in {"plain", "joining"} /\ scope' = scope
    BY <1>5 DEF End, Cancel, EndJoined
  <2> QED
    BY <1>0, <2>1 DEF ScopeInv
<1>6. CASE CancelScope \/ EndScope
  BY <1>6 DEF CancelScope, EndScope, ScopeInv
<1>7. CASE CancelDialog \/ Undo \/ Redo \/ Clear
  BY <1>7 DEF CancelDialog, StartUndo, Undo, Redo, ViewsCancelled, clientVars, Clear, ScopeInv
<1>8. CASE ReplayOp \/ ReplayFails \/ ReplayEnds
  BY <1>8 DEF ReplayOp, ReplayFails, ReplayEnds, clientVars, ScopeInv
<1>9. ASSUME NEW c \in Cells, AddCell(c) \/ DeleteCell(c) \/ \E p \in Props : SetPropId(c, p)
      PROVE  ScopeInv'
  <2>1. SUFFICES ASSUME scope PROVE ScopeInv'
    BY <1>9, QueueIds DEF ScopeInv, Unaffected
  <2>2. /\ Len(m_transactions') = Len(m_transactions)
        /\ \A i \in 1..Len(m_transactions) : IdOf(m_transactions'[i]) = IdOf(m_transactions[i])
        /\ \/ UNCHANGED touched
           \/ touched' = touched \union {m_transactions[m_current + 1].serial}
        /\ ~Replaying /\ m_opened
        /\ UNCHANGED <<m_current, m_opened, replayVars, user, scope, ticket>>
    BY <1>9, <2>1, QueueIds DEF Unaffected
  <2>3. /\ Len(m_transactions) > 0 /\ IdOf(m_transactions[Len(m_transactions)]) = ticket
        /\ touched \subseteq {ticket.serial} /\ user = "scope"
    BY <1>0, <2>1, <2>2 DEF ScopeInv, Last
  <2>4. m_transactions[m_current + 1].serial = ticket.serial
    BY <1>0, <2>2, <2>3 DEF IdOf
  <2>5. IdOf(m_transactions'[Len(m_transactions')]) = ticket'
    BY <1>0, <2>2, <2>3
  <2>6. m_transactions' # <<>>
    BY <2>2, <2>3
  <2> QED
    BY <2>2, <2>3, <2>4, <2>5, <2>6 DEF ScopeInv, Last, Replaying, replayVars
<1>10. CASE UNCHANGED vars
  BY <1>10 DEF vars, listVars, replayVars, clientVars, ScopeInv, Replaying
<1> QED
  BY <1>1, <1>2, <1>3, <1>4, <1>5, <1>6, <1>7, <1>8, <1>9, <1>10 DEF Next

(* What a db::Transaction that is closed and opened again collects goes to *)
(* one transaction, if nobody opens another one meanwhile and it is not    *)
(* closed while empty.                                                     *)
THEOREM ScopeCorrect ==
  ASSUME ~EmptyClose, "plain" \notin Clients
  PROVE  Spec => []ScopeIsOneTransaction
<1>1. Init => ScopeInv
  BY DEF Init, ScopeInv
<1>2. TypeOK /\ TypeOK' /\ ScopeInv /\ [Next]_vars => ScopeInv'
  BY ScopeStep
<1>3. ScopeInv => ScopeIsOneTransaction
  <2> SUFFICES ASSUME ScopeInv, scope PROVE Cardinality(touched) <= 1
    BY DEF ScopeIsOneTransaction
  <2>1. touched = {} \/ touched = {ticket.serial}
    BY DEF ScopeInv
  <2>2. Cardinality({}) = 0 /\ Cardinality({ticket.serial}) = 1
    BY FS_EmptySet, FS_Singleton
  <2> QED
    BY <2>1, <2>2
<1> QED
  BY <1>1, <1>2, <1>3, TypeCorrect, PTL DEF Spec

-----------------------------------------------------------------------------
(* The client that joins.  One that drops its id before undo and redo      *)
(* never holds the id of an undone transaction.                            *)

Remembered == Forgetful \/ "joining" \notin Clients

(* The id of an existing transaction is kept only as long as nothing is    *)
(* undone.                                                                 *)
TicketInv ==
  /\ user = "joining" => "joining" \in Clients
  /\ ticket # NoTicket =>
       /\ scope \/ "joining" \in Clients
       /\ m_opened \/ m_replay = "cancel" \/ (~Replaying /\ m_current = Len(m_transactions))

(* Where the cursor is when a transaction was closed.                      *)
LEMMA ClosedCursor ==
  ASSUME TypeOK
  PROVE  /\ Commit => m_current' = Len(m_transactions') /\ ~Replaying'
         /\ CancelPending => \/ m_replay' = "cancel"
                             \/ m_current' = Len(m_transactions') /\ ~Replaying'
         /\ ReplayEnds /\ m_replay = "cancel" => m_current' = Len(m_transactions')
<1>0. /\ m_transactions \in Seq(TransactionRecord)
      /\ m_current \in 0..Len(m_transactions) /\ m_current \in Nat
  BY DEF TypeOK, ListTypeOK
<1>1. Len(SubSeq(m_transactions, 1, m_current)) = m_current
  BY <1>0, Prefix
<1>2. ASSUME Commit PROVE m_current' = Len(m_transactions') /\ ~Replaying'
  <2>1. m_transactions' = CommittedList /\ m_current' = CommittedCursor /\ m_opened /\ ~Replaying
        /\ UNCHANGED replayVars
    BY <1>2 DEF Commit
  <2> QED
    BY <2>1, CommittedProperties DEF TypeOK, Replaying, replayVars
<1>3. ASSUME CancelPending PROVE m_replay' = "cancel" \/ (m_current' = Len(m_transactions') /\ ~Replaying')
  <2>1. \/ m_replay' = "cancel"
        \/ /\ m_transactions' = SubSeq(m_transactions, 1, m_current)
           /\ m_current' = m_current /\ UNCHANGED replayVars /\ ~Replaying
    BY <1>3, Zenon DEF CancelPending
  <2> QED
    BY <1>1, <2>1 DEF Replaying, replayVars
<1>4. ASSUME ReplayEnds, m_replay = "cancel" PROVE m_current' = Len(m_transactions')
  <2>1. /\ m_transactions' = SubSeq(m_transactions, 1, m_current) /\ m_current' = m_current
    BY <1>4 DEF ReplayEnds, Forward
  <2> QED
    BY <1>1, <2>1
<1> QED
  BY <1>2, <1>3, <1>4

LEMMA TicketStep ==
  ASSUME Remembered, TypeOK, TicketInv, [Next]_vars
  PROVE  TicketInv'
<1>0. /\ m_transactions \in Seq(TransactionRecord) /\ Len(m_transactions) \in Nat /\ m_current \in Nat
      /\ m_opened => ~Replaying
  BY DEF TypeOK, ListTypeOK, ReplayTypeOK
<1>1. CASE Begin \/ BeginJoined \/ OpenScope \/ ReopenScope
  <2>1. m_opened' = TRUE
    BY <1>1, TransactionOutcome DEF Begin, BeginJoined, OpenScope, ReopenScope
  <2> QED
    BY <1>1, <2>1 DEF Begin, BeginJoined, OpenScope, ReopenScope, TicketInv
<1>2. CASE End \/ EndJoined \/ CloseScope \/ Cancel
  <2>1. \/ m_replay' = "cancel"
        \/ m_current' = Len(m_transactions') /\ ~Replaying'
    BY <1>2, ClosedCursor DEF End, EndJoined, CloseScope, Cancel
  <2>2. user' = "nobody"
    BY <1>2 DEF End, EndJoined, CloseScope, Cancel, Commit, CancelPending
  <2>3. ticket' # NoTicket => scope' \/ "joining" \in Clients
    BY <1>2 DEF End, EndJoined, CloseScope, Cancel, TicketInv
  <2> QED
    BY <2>1, <2>2, <2>3 DEF TicketInv
<1>3. CASE CancelScope \/ EndScope \/ CancelDialog
  <2>1. ticket' = NoTicket
    BY <1>3 DEF CancelScope, EndScope, CancelDialog
  <2>2. user' \in {user, "nobody"}
    BY <1>3 DEF CancelScope, EndScope, CancelDialog, CancelPending, Commit, StartUndo
  <2> QED
    BY <2>1, <2>2 DEF TicketInv
<1>4. CASE Undo \/ Redo
  <2>1. ViewsCancelled /\ user' = user /\ ticket' = ticket
    BY <1>4 DEF Undo, Redo, StartUndo, clientVars
  <2>2. ticket' = NoTicket
    BY <2>1 DEF ViewsCancelled, Remembered, TicketInv
  <2> QED
    BY <2>1, <2>2 DEF TicketInv
<1>5. CASE ReplayOp
  <2>1. Replaying /\ UNCHANGED <<m_replay, clientVars>>
    BY <1>5 DEF ReplayOp
  <2> QED
    BY <1>0, <2>1 DEF TicketInv, clientVars
<1>6. CASE ReplayFails \/ Clear
  <2>1. m_transactions' = <<>> /\ m_current' = 0 /\ user' = "nobody" /\ UNCHANGED <<scope, ticket>>
    BY <1>6 DEF ReplayFails, Clear, EraseAll
  <2>2. ~Replaying'
    BY <1>6 DEF ReplayFails, Clear, replayVars, Replaying
  <2>3. m_current' = Len(m_transactions')
    BY <2>1
  <2> QED
    BY <2>1, <2>2, <2>3 DEF TicketInv
<1>7. CASE ReplayEnds
  <2>1. Replaying /\ m_replay' = "no" /\ UNCHANGED clientVars
    BY <1>7 DEF ReplayEnds
  <2>2. ticket # NoTicket => m_replay = "cancel"
    BY <1>0, <2>1 DEF TicketInv
  <2>3. ticket # NoTicket => m_current' = Len(m_transactions')
    BY <1>7, <2>2, ClosedCursor
  <2> QED
    BY <2>1, <2>3 DEF TicketInv, clientVars, Replaying
<1>8. ASSUME NEW c \in Cells, AddCell(c) \/ DeleteCell(c) \/ \E p \in Props : SetPropId(c, p)
      PROVE  TicketInv'
  <2>1. Len(m_transactions') = Len(m_transactions) /\ Unaffected
    BY <1>8, QueueIds
  <2> QED
    BY <2>1 DEF TicketInv, Unaffected, Replaying, replayVars
<1>9. CASE UNCHANGED vars
  BY <1>9 DEF vars, listVars, replayVars, clientVars, TicketInv, Replaying
<1> QED
  BY <1>1, <1>2, <1>3, <1>4, <1>5, <1>6, <1>7, <1>8, <1>9 DEF Next

-----------------------------------------------------------------------------
(***************************************************************************)
(* What undo, redo and cancel rest on: the operations of the history are a *)
(* chain of documents, and the document of now is where the cursor is.     *)
(*                                                                         *)
(* A client that joins a transaction which was undone breaks the chain     *)
(* there.  The index of the last such transaction is the parameter b of    *)
(* the invariant, 0 if there is none: replay stops at it with a failed     *)
(* assertion, and behind it the chain is whole.                            *)
(***************************************************************************)

(* How many operations of the current transaction have been done.          *)
DonePart ==
  IF m_opened THEN Len(CurrentOps)
  ELSE CASE m_replay \in {"undo", "cancel"} -> pos
         [] m_replay = "redo" -> pos - 1
         [] OTHER -> 0

(* An operation says what it changes; the cells of its documents exist.    *)
OpSound(o) ==
  /\ o.kind = "new" => /\ o.cell \notin o.pre.live
                       /\ o.post = [live |-> o.pre.live \union {o.cell}, prop |-> o.pre.prop]
  /\ o.kind = "remove" => /\ o.cell \in o.pre.live
                          /\ o.post = [live |-> o.pre.live \ {o.cell}, prop |-> o.pre.prop]
  /\ o.kind = "prop" => /\ o.cell \in o.pre.live
                        /\ o.pre.prop[o.cell] = o.from
                        /\ o.post = [live |-> o.pre.live,
                                     prop |-> [o.pre.prop EXCEPT ![o.cell] = o.to]]

OpLinked(o) ==
  /\ o.id = IF o.kind = "prop" THEN m_id[o.cell] ELSE 1
  /\ \A c \in o.pre.live \union o.post.live : where[c] \in {"layout", "op"}

(* The parts of the invariant, for a list of transactions ts, a cursor n   *)
(* and d operations done of the transaction at the cursor.                 *)
Sound(ts, b) ==
  \A i \in (b + 1)..Len(ts) : \A j \in 1..Len(ts[i].ops) :
    OpSound(ts[i].ops[j]) /\ OpLinked(ts[i].ops[j])

Flags(ts, n, d, b) ==
  \A i \in (b + 1)..Len(ts) : \A j \in 1..Len(ts[i].ops) :
    LET o == ts[i].ops[j] IN
    /\ o.done = (i <= n \/ (i = n + 1 /\ j <= d))
    /\ o.held = (o.kind # "prop" /\ o.done = (o.kind = "remove"))

Chain(ts, b) ==
  \A i \in (b + 1)..Len(ts) :
    /\ \A j \in 1..(Len(ts[i].ops) - 1) : ts[i].ops[j + 1].pre = ts[i].ops[j].post
    /\ i < Len(ts) /\ ts[i + 1].ops # <<>> => ts[i + 1].ops[1].pre = Last(ts[i].ops).post

(* A cell is in no document from before it was made.                       *)
NewFirst(ts, b) ==
  \A i, k \in (b + 1)..Len(ts) : \A j \in 1..Len(ts[i].ops), l \in 1..Len(ts[k].ops) :
    (k < i \/ (k = i /\ l < j)) /\ ts[i].ops[j].kind = "new" =>
      ts[i].ops[j].cell \notin ts[k].ops[l].pre.live \union ts[k].ops[l].post.live

AtCursor(ts, n, d, b) ==
  n >= b =>
    /\ n < Len(ts) /\ d >= 1 => Doc = ts[n + 1].ops[d].post
    /\ n < Len(ts) /\ d < Len(ts[n + 1].ops) => Doc = ts[n + 1].ops[d + 1].pre
    /\ n > b /\ d = 0 => Doc = Last(ts[n].ops).post

Broken(ts, b) ==
  b \in 0..Len(ts) /\ (b > 0 => Len(ts[b].ops) >= 1 /\ ~ts[b].ops[1].done)

HistoryOK(ts, n, d, b) ==
  /\ Broken(ts, b)
  /\ Sound(ts, b) /\ Flags(ts, n, d, b) /\ Chain(ts, b) /\ NewFirst(ts, b)
  /\ AtCursor(ts, n, d, b)

(* Replay stays inside the transaction and cannot go past a broken one.    *)
ReplayInside(b) ==
  /\ m_replay \in {"undo", "cancel"} => pos <= Len(CurrentOps)
  /\ m_replay = "redo" => pos >= 1
  /\ m_current >= b \/ (/\ m_current + 1 = b
                        /\ m_opened \/ (m_replay \in {"undo", "cancel"} /\ pos >= 1))

HistoryInv(b) == HistoryOK(m_transactions, m_current, DonePart, b) /\ ReplayInside(b)

-----------------------------------------------------------------------------
(* What is in a list of transactions.                                      *)
LEMMA ListTypes ==
  ASSUME NEW ts \in Seq(TransactionRecord), NEW i \in 1..Len(ts)
  PROVE  /\ Len(ts) \in Nat
         /\ ts[i] \in TransactionRecord
         /\ ts[i].ops \in Seq(Op) /\ Len(ts[i].ops) \in Nat
         /\ DOMAIN ts[i].ops = 1..Len(ts[i].ops)
         /\ \A j \in 1..Len(ts[i].ops) : ts[i].ops[j] \in Op
         /\ ts[i].ops # <<>> <=> Len(ts[i].ops) >= 1
<1>1. ts[i] \in TransactionRecord /\ Len(ts) \in Nat
  BY ElementOfSeq
<1>2. ts[i].ops \in Seq(Op)
  BY <1>1 DEF TransactionRecord
<1>3. \A j \in 1..Len(ts[i].ops) : ts[i].ops[j] \in Op
  BY <1>2, ElementOfSeq
<1> QED
  BY <1>1, <1>2, <1>3

(* The same list and cursor with the same objects.                         *)
LEMMA SameHistory ==
  ASSUME NEW ts \in Seq(TransactionRecord), NEW n, NEW d, NEW b \in Nat, HistoryOK(ts, n, d, b),
         m_transactions' = ts, m_current' = n, DonePart' = d, UNCHANGED objectVars
  PROVE  HistoryOK(m_transactions, m_current, DonePart, b)'
<1>1. Doc' = Doc /\ m_id' = m_id /\ where' = where
  BY DEF Doc, objectVars
<1>2. Broken(m_transactions, b)' /\ Chain(m_transactions, b)' /\ NewFirst(m_transactions, b)'
  <2>1. Broken(ts, b) /\ Chain(ts, b) /\ NewFirst(ts, b)
    BY DEF HistoryOK
  <2>2. Broken(m_transactions, b)'
    BY <2>1 DEF Broken
  <2>3. Chain(m_transactions, b)'
    BY <2>1 DEF Chain
  <2>4. NewFirst(m_transactions, b)'
    <3>1. NewFirst(ts, b)
      BY <2>1
    <3>2. NewFirst(m_transactions, b)' <=> NewFirst(m_transactions', b)
      BY DEF NewFirst
    <3> QED
      BY <3>1, <3>2
  <2> QED
    BY <2>2, <2>3, <2>4
<1>3. Sound(m_transactions, b)'
  <2> SUFFICES ASSUME NEW i \in (b + 1)..Len(m_transactions'), NEW j \in 1..Len(m_transactions'[i].ops)
               PROVE  (OpSound(m_transactions[i].ops[j]) /\ OpLinked(m_transactions[i].ops[j]))'
    BY DEF Sound
  <2>1. OpSound(ts[i].ops[j]) /\ OpLinked(ts[i].ops[j])
    BY DEF HistoryOK, Sound
  <2>2. OpSound(m_transactions[i].ops[j])'
    BY <2>1 DEF OpSound
  <2>3. OpLinked(m_transactions[i].ops[j])'
    BY <1>1, <2>1 DEF OpLinked
  <2> QED
    BY <2>2, <2>3
<1>4. Flags(m_transactions, m_current, DonePart, b)'
  BY DEF HistoryOK, Flags
<1>5. AtCursor(m_transactions, m_current, DonePart, b)'
  BY <1>1 DEF HistoryOK, AtCursor
<1> QED
  BY <1>2, <1>3, <1>4, <1>5 DEF HistoryOK

(* Seen from behind a done transaction, or from inside it at its end.      *)
LEMMA CursorBack ==
  ASSUME NEW ts \in Seq(TransactionRecord), NEW n \in 1..Len(ts), NEW b,
         HistoryOK(ts, n, 0, b), ts[n].ops # <<>>
  PROVE  HistoryOK(ts, n - 1, Len(ts[n].ops), b)
<1>1. Len(ts) \in Nat /\ Len(ts[n].ops) \in Nat /\ Len(ts[n].ops) >= 1 /\ b \in Nat
  BY ListTypes DEF HistoryOK, Broken
<1>2. Flags(ts, n - 1, Len(ts[n].ops), b)
  <2>1. ASSUME NEW i \in (b + 1)..Len(ts), NEW j \in 1..Len(ts[i].ops)
        PROVE  (i <= n \/ (i = n + 1 /\ j <= 0)) <=> (i <= n - 1 \/ (i = n /\ j <= Len(ts[n].ops)))
    BY <1>1
  <2>2. n - 1 + 1 = n
    BY <1>1
  <2> QED
    BY <2>1, <2>2 DEF HistoryOK, Flags
<1>3. AtCursor(ts, n - 1, Len(ts[n].ops), b)
  <2> SUFFICES ASSUME n - 1 >= b
               PROVE  Doc = ts[n].ops[Len(ts[n].ops)].post
    BY <1>1 DEF AtCursor
  <2>1. Doc = Last(ts[n].ops).post
    BY <1>1 DEF HistoryOK, AtCursor
  <2> QED
    BY <2>1 DEF Last
<1> QED
  BY <1>2, <1>3 DEF HistoryOK

LEMMA CursorForward ==
  ASSUME NEW ts \in Seq(TransactionRecord), NEW n \in Nat, n + 1 <= Len(ts), NEW b,
         HistoryOK(ts, n, Len(ts[n + 1].ops), b), n >= b \/ n + 1 = Len(ts),
         \A i \in 1..Len(ts) : ts[i].ops # <<>>
  PROVE  HistoryOK(ts, n + 1, 0, b)
<1>1. n + 1 \in 1..Len(ts) /\ Len(ts) \in Nat /\ b \in Nat
  BY DEF HistoryOK, Broken
<1>2. Len(ts[n + 1].ops) \in Nat /\ Len(ts[n + 1].ops) >= 1
  BY <1>1, ListTypes
<1>3. Flags(ts, n + 1, 0, b)
  <2>1. ASSUME NEW i \in (b + 1)..Len(ts), NEW j \in 1..Len(ts[i].ops)
        PROVE  (i <= n \/ (i = n + 1 /\ j <= Len(ts[n + 1].ops))) <=> (i <= n + 1 \/ (i = n + 1 + 1 /\ j <= 0))
    BY <1>1
  <2> QED
    BY <2>1 DEF HistoryOK, Flags
<1>4. AtCursor(ts, n + 1, 0, b)
  <2>1. CASE n >= b
    <3>1. Doc = ts[n + 1].ops[Len(ts[n + 1].ops)].post
      BY <1>1, <1>2, <2>1 DEF HistoryOK, AtCursor
    <3>2. Doc = Last(ts[n + 1].ops).post
      BY <3>1 DEF Last
    <3>3. ASSUME n + 1 < Len(ts) PROVE Doc = ts[n + 1 + 1].ops[1].pre
      <4>1. n + 1 \in (b + 1)..Len(ts) /\ ts[n + 1 + 1].ops # <<>>
        BY <1>1, <2>1, <3>3
      <4>2. ts[n + 1 + 1].ops[1].pre = Last(ts[n + 1].ops).post
        BY <3>3, <4>1 DEF HistoryOK, Chain
      <4> QED
        BY <3>2, <4>2
    <3> QED
      BY <3>2, <3>3 DEF AtCursor
  <2>2. CASE n + 1 = Len(ts) /\ ~(n >= b)
    BY <1>1, <2>2 DEF AtCursor
  <2> QED
    BY <2>1, <2>2
<1> QED
  BY <1>3, <1>4 DEF HistoryOK

(* A cell that is held behind n is held by one of the operations there.    *)
LEMMA HeldElement ==
  ASSUME NEW ts \in Seq(TransactionRecord), NEW n \in 0..Len(ts),
         NEW c \in HeldIn(SubSeq(ts, n + 1, Len(ts)))
  PROVE  \E i \in (n + 1)..Len(ts) : \E j \in 1..Len(ts[i].ops) :
           ts[i].ops[j].held /\ ts[i].ops[j].cell = c
<1> DEFINE rest == SubSeq(ts, n + 1, Len(ts))
<1>1. /\ DOMAIN rest = 1..(Len(ts) - n)
      /\ \A k \in 1..(Len(ts) - n) : rest[k] = ts[n + k]
  BY Suffix
<1>2. c \in HeldIn(rest)
  OBVIOUS
<1> HIDE DEF rest
<1>3. PICK k \in 1..(Len(ts) - n) : c \in {o.cell : o \in {p \in Range(rest[k].ops) : p.held}}
  BY <1>1, <1>2 DEF HeldIn, Range
<1>4. n + k \in (n + 1)..Len(ts) /\ n + k \in 1..Len(ts) /\ rest[k] = ts[n + k]
  BY <1>1
<1>5. DOMAIN ts[n + k].ops = 1..Len(ts[n + k].ops)
  BY <1>4, ListTypes
<1>6. PICK o \in Range(ts[n + k].ops) : o.held /\ o.cell = c
  BY <1>3, <1>4
<1>7. PICK j \in 1..Len(ts[n + k].ops) : ts[n + k].ops[j] = o
  BY <1>5, <1>6 DEF Range
<1> QED
  BY <1>4, <1>6, <1>7

(* The first n transactions, with an empty one behind them or none, when   *)
(* the cells the others own are deleted.                                   *)
LEMMA CutHistory ==
  ASSUME NEW ts \in Seq(TransactionRecord), NEW n \in 0..Len(ts), NEW b \in 0..n,
         HistoryOK(ts, n, 0, b), ObjectTypeOK,
         m_transactions' \in Seq(TransactionRecord),
         Len(m_transactions') \in {n, n + 1},
         \A i \in 1..n : m_transactions'[i] = ts[i],
         Len(m_transactions') = n + 1 => m_transactions'[n + 1].ops = <<>>,
         m_current' = n, DonePart' = 0,
         EraseFrom(n, ts) \/ UNCHANGED objectVars,
         \A c \in Cells : c \in HeldIn(SubSeq(ts, n + 1, Len(ts))) => where[c] = "op"
  PROVE  HistoryOK(m_transactions, m_current, DonePart, b)'
<1>0. Len(ts) \in Nat /\ n \in Nat /\ b \in Nat /\ Len(m_transactions') \in Nat /\ Len(<<>>) = 0
  OBVIOUS
<1>1. ASSUME NEW i \in (b + 1)..Len(m_transactions'), NEW j \in 1..Len(m_transactions'[i].ops)
      PROVE  /\ i \in (b + 1)..n /\ i \in (b + 1)..Len(ts) /\ m_transactions'[i] = ts[i]
             /\ j \in 1..Len(ts[i].ops) /\ ts[i].ops[j] \in Op
  <2>1. i # n + 1
    BY <1>0
  <2>2. i \in 1..n /\ i \in 1..Len(ts)
    BY <1>0, <2>1
  <2>3. m_transactions'[i] = ts[i]
    BY <2>2
  <2> QED
    BY <1>0, <2>2, <2>3, ListTypes
<1>2. ASSUME NEW i \in (b + 1)..n, NEW j \in 1..Len(ts[i].ops)
      PROVE  /\ ts[i].ops[j].cell \in Cells
             /\ \A c \in {ts[i].ops[j].cell} \union ts[i].ops[j].pre.live \union ts[i].ops[j].post.live :
                  where'[c] = where[c] /\ m_id'[c] = m_id[c]
  <2>1. i \in (b + 1)..Len(ts) /\ i \in 1..Len(ts)
    BY <1>0
  <2>2. ts[i].ops[j] \in Op
    BY <2>1, ListTypes
  <2>3. /\ ts[i].ops[j].pre.live \subseteq Cells /\ ts[i].ops[j].post.live \subseteq Cells
        /\ ts[i].ops[j].cell \in Cells
    BY <2>2 DEF Op, Document
  <2>4. ts[i].ops[j].cell \in ts[i].ops[j].pre.live \union ts[i].ops[j].post.live
    <3>1. OpSound(ts[i].ops[j])
      BY <2>1 DEF HistoryOK, Sound
    <3> QED
      BY <2>2, <3>1 DEF OpSound, Op
  <2>5. ASSUME NEW c \in ts[i].ops[j].pre.live \union ts[i].ops[j].post.live,
               c \in HeldIn(SubSeq(ts, n + 1, Len(ts)))
        PROVE  FALSE
    <3>1. PICK k \in (n + 1)..Len(ts) : \E l \in 1..Len(ts[k].ops) : ts[k].ops[l].held /\ ts[k].ops[l].cell = c
      BY <2>5, HeldElement
    <3>2. PICK l \in 1..Len(ts[k].ops) : ts[k].ops[l].held /\ ts[k].ops[l].cell = c
      BY <3>1
    <3>3. k \in (b + 1)..Len(ts) /\ k \in 1..Len(ts) /\ i < k /\ ~(k <= n) /\ ~(l <= 0)
      BY <1>0
    <3>4. ts[k].ops[l] \in Op
      BY <3>3, ListTypes
    <3>5. /\ ts[k].ops[l].done = (k <= n \/ (k = n + 1 /\ l <= 0))
          /\ ts[k].ops[l].held = (ts[k].ops[l].kind # "prop" /\ ts[k].ops[l].done = (ts[k].ops[l].kind = "remove"))
      BY <3>3 DEF HistoryOK, Flags
    <3>6. ts[k].ops[l].done = FALSE
      BY <3>3, <3>5
    <3>7. ts[k].ops[l].kind = "new"
      BY <3>2, <3>4, <3>5, <3>6 DEF Op
    <3> QED
      BY <2>1, <2>5, <3>2, <3>3, <3>7 DEF HistoryOK, NewFirst
  <2>6. ASSUME NEW c \in ts[i].ops[j].pre.live \union ts[i].ops[j].post.live
        PROVE  where'[c] = where[c] /\ m_id'[c] = m_id[c]
    <3>1. c \in Cells /\ c \notin HeldIn(SubSeq(ts, n + 1, Len(ts)))
      BY <2>3, <2>5
    <3> QED
      BY <3>1 DEF EraseFrom, Kill, objectVars
  <2> QED
    BY <2>3, <2>4, <2>6
<1>3. Doc' = Doc
  <2>1. CASE UNCHANGED objectVars
    BY <2>1 DEF Doc, objectVars
  <2>2. CASE EraseFrom(n, ts)
    <3>1. m_prop_id' = m_prop_id
      BY <2>2 DEF EraseFrom, Kill
    <3>2. \A c \in Cells : where'[c] = "layout" <=> where[c] = "layout"
      BY <2>2 DEF EraseFrom, Kill
    <3> QED
      BY <3>1, <3>2 DEF Doc
  <2> QED
    BY <2>1, <2>2
<1>4. Sound(m_transactions, b)'
  <2> SUFFICES ASSUME NEW i \in (b + 1)..Len(m_transactions'), NEW j \in 1..Len(m_transactions'[i].ops)
               PROVE  (OpSound(m_transactions[i].ops[j]) /\ OpLinked(m_transactions[i].ops[j]))'
    BY DEF Sound
  <2>1. /\ i \in (b + 1)..n /\ i \in (b + 1)..Len(ts) /\ m_transactions'[i] = ts[i] /\ j \in 1..Len(ts[i].ops)
    BY <1>1
  <2>2. OpSound(ts[i].ops[j]) /\ OpLinked(ts[i].ops[j])
    BY <2>1 DEF HistoryOK, Sound
  <2>3. OpSound(m_transactions[i].ops[j])'
    BY <2>1, <2>2 DEF OpSound
  <2>4. OpLinked(m_transactions[i].ops[j])'
    <3>1. \A c \in {ts[i].ops[j].cell} \union ts[i].ops[j].pre.live \union ts[i].ops[j].post.live :
            where'[c] = where[c] /\ m_id'[c] = m_id[c]
      BY <1>2, <2>1
    <3> QED
      BY <2>1, <2>2, <3>1 DEF OpLinked
  <2> QED
    BY <2>3, <2>4
<1>5. Flags(m_transactions, m_current, DonePart, b)'
  <2> SUFFICES ASSUME NEW i \in (b + 1)..Len(m_transactions'), NEW j \in 1..Len(m_transactions'[i].ops)
               PROVE  LET o == m_transactions'[i].ops[j] IN
                      /\ o.done = (i <= n \/ (i = n + 1 /\ j <= 0))
                      /\ o.held = (o.kind # "prop" /\ o.done = (o.kind = "remove"))
    BY DEF Flags
  <2>1. /\ i \in (b + 1)..Len(ts) /\ m_transactions'[i] = ts[i] /\ j \in 1..Len(ts[i].ops)
    BY <1>1
  <2> QED
    BY <2>1 DEF HistoryOK, Flags
<1>6. Chain(m_transactions, b)'
  <2> SUFFICES ASSUME NEW i \in (b + 1)..Len(m_transactions')
               PROVE  /\ \A j \in 1..(Len(m_transactions'[i].ops) - 1) :
                           m_transactions'[i].ops[j + 1].pre = m_transactions'[i].ops[j].post
                      /\ i < Len(m_transactions') /\ m_transactions'[i + 1].ops # <<>>
                           => m_transactions'[i + 1].ops[1].pre = Last(m_transactions'[i].ops).post
    BY DEF Chain
  <2>1. CASE i = n + 1
    <3>1. Len(m_transactions'[i].ops) = 0 /\ ~(i < Len(m_transactions'))
      BY <1>0, <2>1
    <3> QED
      BY <3>1
  <2>2. CASE i # n + 1
    <3>1. i \in 1..n /\ i \in (b + 1)..Len(ts)
      BY <1>0, <2>2
    <3>2. m_transactions'[i] = ts[i]
      BY <3>1
    <3>3. ASSUME i < Len(m_transactions'), m_transactions'[i + 1].ops # <<>>
          PROVE  i < Len(ts) /\ m_transactions'[i + 1] = ts[i + 1]
      <4>1. i + 1 # n + 1
        BY <3>3
      <4>2. i + 1 \in 1..n
        BY <1>0, <3>1, <4>1
      <4> QED
        BY <1>0, <4>2
    <3> QED
      BY <3>1, <3>2, <3>3 DEF HistoryOK, Chain
  <2> QED
    BY <2>1, <2>2
<1>7. NewFirst(m_transactions, b)'
  <2> SUFFICES ASSUME NEW i \in (b + 1)..Len(m_transactions'), NEW k \in (b + 1)..Len(m_transactions'),
                      NEW j \in 1..Len(m_transactions'[i].ops), NEW l \in 1..Len(m_transactions'[k].ops),
                      k < i \/ (k = i /\ l < j), m_transactions'[i].ops[j].kind = "new"
               PROVE  m_transactions'[i].ops[j].cell \notin
                        m_transactions'[k].ops[l].pre.live \union m_transactions'[k].ops[l].post.live
    BY DEF NewFirst
  <2>1. /\ i \in (b + 1)..Len(ts) /\ m_transactions'[i] = ts[i] /\ j \in 1..Len(ts[i].ops)
        /\ k \in (b + 1)..Len(ts) /\ m_transactions'[k] = ts[k] /\ l \in 1..Len(ts[k].ops)
    BY <1>1
  <2> QED
    BY <2>1 DEF HistoryOK, NewFirst
<1>8. Broken(m_transactions, b)'
  <2>1. b > 0 => b \in 1..n
    BY <1>0
  <2> QED
    BY <1>0, <2>1 DEF HistoryOK, Broken
<1>9. AtCursor(m_transactions, m_current, DonePart, b)'
  <2>1. n > b => Doc' = Last(m_transactions'[n].ops).post
    <3>1. n > b => Doc = Last(ts[n].ops).post
      BY <1>0 DEF HistoryOK, AtCursor
    <3>2. n > b => n \in 1..n
      BY <1>0
    <3> QED
      BY <1>3, <3>1, <3>2
  <2>2. n < Len(m_transactions') => Len(m_transactions'[n + 1].ops) = 0
    BY <1>0
  <2> QED
    BY <2>1, <2>2 DEF AtCursor
<1> QED
  BY <1>4, <1>5, <1>6, <1>7, <1>8, <1>9 DEF HistoryOK

(* What a cell deleted with its operation was: owned by that operation.    *)
LEMMA HeldIsOwned ==
  ASSUME TypeOK, ObjectInv, NEW ts \in Seq(TransactionRecord), NEW n \in 0..Len(ts),
         Len(ts) <= Len(m_transactions), \A i \in 1..Len(ts) : ts[i] = m_transactions[i],
         NEW c \in Cells, c \in HeldIn(SubSeq(ts, n + 1, Len(ts)))
  PROVE  where[c] = "op"
<1>1. PICK i \in (n + 1)..Len(ts) : \E j \in 1..Len(ts[i].ops) : ts[i].ops[j].held /\ ts[i].ops[j].cell = c
  BY HeldElement
<1>2. PICK j \in 1..Len(ts[i].ops) : ts[i].ops[j].held /\ ts[i].ops[j].cell = c
  BY <1>1
<1>3. /\ m_transactions \in Seq(TransactionRecord) /\ i \in 1..Len(ts) /\ i \in 1..Len(m_transactions)
      /\ i \in DOMAIN m_transactions /\ ts[i] = m_transactions[i]
  BY DEF TypeOK, ListTypeOK
<1>4. Len(m_transactions[i].ops) <= MaxOps /\ DOMAIN m_transactions[i].ops = 1..Len(m_transactions[i].ops)
      /\ Len(m_transactions[i].ops) \in Nat
  BY <1>3, ListTypes DEF ObjectInv, OpsOK
<1>5. j \in 1..MaxOps /\ j \in DOMAIN m_transactions[i].ops
  BY <1>3, <1>4, BoundsAssumption
<1>6. <<i, j>> \in OpsHolding(c)
  BY <1>2, <1>3, <1>5 DEF OpsHolding
<1> QED
  BY <1>6 DEF ObjectInv, Owned

(* Without the transactions behind the cursor the chain is shorter.        *)
LEMMA ShortenHistory ==
  ASSUME NEW ts \in Seq(TransactionRecord), NEW n \in 0..Len(ts), NEW b \in 0..n,
         HistoryOK(ts, n, 0, b), NEW us \in Seq(TransactionRecord), Len(us) = n,
         \A i \in 1..n : us[i] = ts[i]
  PROVE  HistoryOK(us, n, 0, b)
<1>0. Len(ts) \in Nat /\ n \in Nat /\ b \in Nat
  OBVIOUS
<1>1. ASSUME NEW i \in (b + 1)..n PROVE us[i] = ts[i] /\ i \in (b + 1)..Len(ts)
  BY <1>0
<1>2. Sound(us, b)
  BY <1>1 DEF HistoryOK, Sound
<1>3. Flags(us, n, 0, b)
  BY <1>1 DEF HistoryOK, Flags
<1>4. Chain(us, b)
  <2> SUFFICES ASSUME NEW i \in (b + 1)..n
               PROVE  /\ \A j \in 1..(Len(us[i].ops) - 1) : us[i].ops[j + 1].pre = us[i].ops[j].post
                      /\ i < n /\ us[i + 1].ops # <<>> => us[i + 1].ops[1].pre = Last(us[i].ops).post
    BY DEF Chain
  <2>1. us[i] = ts[i] /\ i \in (b + 1)..Len(ts) /\ (i < n => us[i + 1] = ts[i + 1] /\ i < Len(ts))
    BY <1>0, <1>1
  <2> QED
    BY <2>1 DEF HistoryOK, Chain
<1>5. NewFirst(us, b)
  BY <1>1 DEF HistoryOK, NewFirst
<1>6. Broken(us, b)
  <2>1. b > 0 => us[b] = ts[b]
    BY <1>0
  <2> QED
    BY <1>0, <2>1 DEF HistoryOK, Broken
<1>7. AtCursor(us, n, 0, b)
  <2>1. n > b => us[n] = ts[n]
    BY <1>0
  <2> QED
    BY <1>0, <2>1 DEF HistoryOK, AtCursor
<1> QED
  BY <1>2, <1>3, <1>4, <1>5, <1>6, <1>7 DEF HistoryOK

(* The history after the commit inside transaction().                      *)
LEMMA KeptHistory ==
  ASSUME TypeOK, NEW b \in Nat, HistoryInv(b), ~Replaying
  PROVE  HistoryOK(Kept, KeptCursor, 0, b) /\ b \in 0..KeptCursor
<1>0. /\ m_transactions \in Seq(TransactionRecord) /\ Len(m_transactions) \in Nat
      /\ m_current \in Nat /\ m_current \in 0..Len(m_transactions)
      /\ m_opened => m_current + 1 = Len(m_transactions)
      /\ \A i \in 1..Len(m_transactions) : m_transactions[i].ops = <<>> => m_opened /\ i = m_current + 1
      /\ m_replay = "no"
  BY DEF TypeOK, ListTypeOK, Replaying
<1>1. /\ HistoryOK(m_transactions, m_current, DonePart, b)
      /\ m_current >= b \/ (m_current + 1 = b /\ m_opened)
  BY <1>0 DEF HistoryInv, ReplayInside
<1>2. CASE ~m_opened
  BY <1>0, <1>1, <1>2 DEF Kept, KeptCursor, DonePart
<1>3. CASE m_opened /\ CurrentOps # <<>>
  <2>1. Kept = m_transactions /\ KeptCursor = m_current + 1 /\ DonePart = Len(m_transactions[m_current + 1].ops)
    BY <1>3 DEF Kept, KeptCursor, DonePart, CommittedList, CommittedCursor, CurrentOps
  <2>2. \A i \in 1..Len(m_transactions) : m_transactions[i].ops # <<>>
    BY <1>0, <1>3 DEF CurrentOps
  <2>3. HistoryOK(m_transactions, m_current + 1, 0, b)
    <3>1. HistoryOK(m_transactions, m_current, Len(m_transactions[m_current + 1].ops), b)
      BY <1>1, <2>1
    <3>2. m_current + 1 <= Len(m_transactions) /\ (m_current >= b \/ m_current + 1 = Len(m_transactions))
      BY <1>0, <1>3
    <3> QED
      BY <1>0, <2>2, <3>1, <3>2, CursorForward
  <2> QED
    BY <1>0, <1>1, <2>1, <2>3
<1>4. CASE m_opened /\ CurrentOps = <<>>
  <2>1. Kept = SubSeq(m_transactions, 1, m_current) /\ KeptCursor = m_current /\ DonePart = 0
    BY <1>4 DEF Kept, KeptCursor, DonePart, CommittedList, CommittedCursor
  <2>2. m_current >= b
    <3> SUFFICES ASSUME m_current + 1 = b PROVE FALSE
      BY <1>1
    <3>1. Len(m_transactions[b].ops) >= 1
      BY <1>0, <1>1 DEF HistoryOK, Broken
    <3>2. m_transactions[b].ops = <<>>
      BY <1>4 DEF CurrentOps
    <3> QED
      BY <3>1, <3>2
  <2>3. /\ Kept \in Seq(TransactionRecord) /\ Len(Kept) = m_current
        /\ \A i \in 1..m_current : Kept[i] = m_transactions[i]
    BY <1>0, <2>1, Prefix
  <2>4. HistoryOK(m_transactions, m_current, 0, b) /\ b \in 0..m_current
    BY <1>0, <1>1, <2>1, <2>2
  <2>5. HistoryOK(Kept, m_current, 0, b)
    BY <1>0, <2>3, <2>4, ShortenHistory
  <2> QED
    BY <2>1, <2>4, <2>5
<1> QED
  BY <1>2, <1>3, <1>4

(* A join of an undone transaction.                                        *)
StaleJoin(join) ==
  ~m_opened /\ ~Replaying /\ m_current < Len(m_transactions) /\ JoinsKept(join)

(* transaction() keeps the chain, or breaks it at what it joined.          *)
LEMMA TransactionHistory ==
  ASSUME TypeOK, TypeOK', ObjectInv, NEW b \in Nat, HistoryInv(b), NEW join, Transaction(join)
  PROVE  HistoryInv(b)' \/ (StaleJoin(join) /\ \E v \in Nat : HistoryInv(v)')
<1>0. /\ ~Replaying /\ UNCHANGED replayVars /\ m_opened' = TRUE /\ m_current' = Len(m_transactions') - 1
      /\ JoinsKept(join) \/ AddsTransaction
  BY TransactionOutcome
<1>1. /\ Kept \in Seq(TransactionRecord) /\ Len(Kept) \in Nat
      /\ KeptCursor \in 0..Len(Kept)
      /\ Len(Kept) <= Len(m_transactions)
      /\ m_opened => KeptCursor = Len(Kept)
      /\ ~m_opened => Kept = m_transactions /\ KeptCursor = m_current
      /\ \A i \in 1..Len(Kept) : Kept[i] = m_transactions[i] /\ Kept[i].ops # <<>>
      /\ m_transactions' \in Seq(TransactionRecord) /\ Len(m_transactions') \in Nat
  BY KeptProperties DEF TypeOK, ListTypeOK
<1>2. HistoryOK(Kept, KeptCursor, 0, b) /\ b \in 0..KeptCursor
  BY <1>0, KeptHistory
<1>3. m_replay' = "no"
  BY <1>0 DEF Replaying, replayVars
<1>4. DonePart' = Len(m_transactions'[Len(m_transactions')].ops)
  <2>1. m_current' + 1 = Len(m_transactions')
    BY <1>0, <1>1
  <2> QED
    BY <1>0, <2>1 DEF DonePart, CurrentOps
<1>5. ASSUME AddsTransaction PROVE HistoryInv(b)'
  <2>1. /\ EraseFrom(KeptCursor, Kept) /\ Len(m_transactions') = KeptCursor + 1
        /\ \A i \in 1..KeptCursor : m_transactions'[i] = Kept[i]
        /\ m_transactions'[KeptCursor + 1].ops = <<>>
    BY <1>5 DEF AddsTransaction
  <2>2. m_current' = KeptCursor /\ DonePart' = 0
    BY <1>0, <1>1, <1>4, <2>1
  <2>3. \A c \in Cells : c \in HeldIn(SubSeq(Kept, KeptCursor + 1, Len(Kept))) => where[c] = "op"
    BY <1>1, HeldIsOwned
  <2>4. HistoryOK(m_transactions, m_current, DonePart, b)'
    BY <1>1, <1>2, <2>1, <2>2, <2>3, CutHistory DEF TypeOK
  <2>5. ReplayInside(b)'
    BY <1>1, <1>2, <1>3, <2>2 DEF ReplayInside
  <2> QED
    BY <2>4, <2>5 DEF HistoryInv
<1>6. ASSUME JoinsKept(join) PROVE HistoryInv(b)' \/ (StaleJoin(join) /\ \E v \in Nat : HistoryInv(v)')
  <2>0. PICK n \in Nat : n = Len(Kept)
    BY <1>1
  <2>1. /\ m_transactions' = Kept /\ UNCHANGED objectVars /\ n \in 1..n /\ n \in Nat
    BY <1>1, <1>6, <2>0 DEF JoinsKept
  <2>2. m_current' = n - 1 /\ DonePart' = Len(Kept[n].ops) /\ Len(Kept[n].ops) >= 1 /\ Len(Kept[n].ops) \in Nat
    BY <1>0, <1>1, <1>4, <2>0, <2>1, ListTypes
  <2>3. CASE KeptCursor = n
    <3>1. HistoryOK(Kept, n - 1, Len(Kept[n].ops), b)
      BY <1>1, <1>2, <2>0, <2>1, <2>3, CursorBack
    <3>2. HistoryOK(m_transactions, m_current, DonePart, b)'
      BY <1>1, <2>1, <2>2, <3>1, SameHistory
    <3>3. ReplayInside(b)'
      BY <1>0, <1>1, <1>2, <1>3, <2>2, <2>3 DEF ReplayInside
    <3> QED
      BY <3>2, <3>3 DEF HistoryInv
  <2>4. CASE KeptCursor # n
    <3>1. StaleJoin(join)
      BY <1>0, <1>1, <1>6, <2>0, <2>4 DEF StaleJoin
    <3>2. n \in (b + 1)..n /\ 1 \in 1..Len(Kept[n].ops) /\ ~(n <= KeptCursor) /\ ~(1 <= 0)
      BY <1>1, <1>2, <2>0, <2>1, <2>2, <2>4
    <3>3. ~Kept[n].ops[1].done
      BY <1>2, <2>0, <3>2 DEF HistoryOK, Flags
    <3>4. (n + 1)..Len(Kept) = {} /\ ~(n - 1 >= n)
      BY <2>0, <2>1
    <3>5. Broken(Kept, n)
      BY <2>0, <2>1, <2>2, <3>3 DEF Broken
    <3>6. HistoryOK(Kept, n - 1, Len(Kept[n].ops), n)
      BY <3>4, <3>5, Zenon DEF HistoryOK, Sound, Flags, Chain, NewFirst, AtCursor
    <3>7. HistoryOK(m_transactions, m_current, DonePart, n)'
      BY <1>1, <2>1, <2>2, <3>6, SameHistory
    <3>8. ReplayInside(n)'
      BY <1>0, <1>3, <2>1, <2>2 DEF ReplayInside
    <3> QED
      BY <2>1, <3>1, <3>7, <3>8 DEF HistoryInv
  <2> QED
    BY <2>3, <2>4
<1> QED
  BY <1>0, <1>5, <1>6

(* Without transactions there is nothing to replay.                        *)
LEMMA EmptyHistory ==
  ASSUME m_transactions' = <<>>, m_current' = 0, m_opened' = FALSE, m_replay' = "no"
  PROVE  HistoryInv(0)'
<1>1. Len(m_transactions') = 0 /\ DonePart' = 0
  BY DEF DonePart
<1>2. (0 + 1)..Len(m_transactions') = {}
  BY <1>1
<1>3. HistoryOK(m_transactions, m_current, DonePart, 0)'
  BY <1>1, <1>2 DEF HistoryOK, Broken, Sound, Flags, Chain, NewFirst, AtCursor
<1>4. ReplayInside(0)'
  BY DEF ReplayInside
<1> QED
  BY <1>3, <1>4 DEF HistoryInv

(* commit() and cancel() of an open transaction.                           *)
LEMMA CloseHistory ==
  ASSUME TypeOK, TypeOK', NEW b \in Nat, HistoryInv(b), Commit \/ CancelPending
  PROVE  HistoryInv(b)'
<1>0. /\ m_opened /\ ~Replaying /\ m_opened' = FALSE /\ UNCHANGED objectVars /\ m_replay = "no"
      /\ HistoryOK(m_transactions, m_current, DonePart, b) /\ ReplayInside(b)
      /\ DonePart = Len(CurrentOps)
      /\ m_transactions \in Seq(TransactionRecord) /\ Len(m_transactions) \in Nat
      /\ m_current \in Nat /\ m_current + 1 = Len(m_transactions)
  BY DEF Commit, CancelPending, TypeOK, ListTypeOK, Replaying, HistoryInv, DonePart
<1>1. /\ HistoryOK(Kept, KeptCursor, 0, b) /\ b \in 0..KeptCursor
      /\ Kept \in Seq(TransactionRecord) /\ KeptCursor \in Nat
  BY <1>0, KeptHistory, KeptProperties
<1>2. ASSUME m_transactions' = Kept, m_current' = KeptCursor, m_replay' = m_replay
      PROVE  HistoryInv(b)'
  <2>1. DonePart' = 0
    BY <1>0, <1>2 DEF DonePart
  <2>2. HistoryOK(m_transactions, m_current, DonePart, b)'
    BY <1>0, <1>1, <1>2, <2>1, SameHistory
  <2>3. ReplayInside(b)'
    BY <1>0, <1>1, <1>2 DEF ReplayInside
  <2> QED
    BY <2>2, <2>3 DEF HistoryInv
<1>3. CASE Commit
  BY <1>0, <1>2, <1>3 DEF Commit, Kept, KeptCursor, replayVars
<1>4. CASE /\ CurrentOps = <<>> /\ m_transactions' = SubSeq(m_transactions, 1, m_current)
           /\ UNCHANGED <<m_current, replayVars>>
  BY <1>0, <1>2, <1>4 DEF Kept, KeptCursor, CommittedList, CommittedCursor, replayVars
<1>5. CASE /\ CurrentOps # <<>> /\ m_replay' = "cancel" /\ pos' = Len(CurrentOps)
           /\ UNCHANGED <<m_transactions, m_current>>
  <2>1. CurrentOps' = CurrentOps /\ Len(CurrentOps) \in Nat /\ Len(CurrentOps) >= 1
    BY <1>0, <1>5, ListTypes DEF CurrentOps
  <2>2. DonePart' = DonePart
    BY <1>0, <1>5, <2>1 DEF DonePart
  <2>3. HistoryOK(m_transactions, m_current, DonePart, b)'
    BY <1>0, <1>5, <2>2, SameHistory
  <2>4. ReplayInside(b)'
    BY <1>0, <1>5, <2>1 DEF ReplayInside
  <2> QED
    BY <2>3, <2>4 DEF HistoryInv
<1> QED
  BY <1>3, <1>4, <1>5 DEF CancelPending

(* undo and redo are started.                                              *)
LEMMA StartHistory ==
  ASSUME TypeOK, TypeOK', NEW b \in Nat, HistoryInv(b), StartUndo \/ Redo
  PROVE  HistoryInv(b)'
<1>0. /\ ~m_opened /\ ~Replaying /\ m_replay = "no" /\ UNCHANGED <<objectVars, m_transactions, m_opened>>
      /\ HistoryOK(m_transactions, m_current, DonePart, b) /\ ReplayInside(b) /\ DonePart = 0
      /\ m_transactions \in Seq(TransactionRecord) /\ Len(m_transactions) \in Nat
      /\ m_current \in Nat /\ m_current \in 0..Len(m_transactions) /\ m_current >= b
      /\ \A i \in 1..Len(m_transactions) : m_transactions[i].ops # <<>>
  BY DEF StartUndo, Redo, listVars, TypeOK, ListTypeOK, Replaying, HistoryInv, DonePart, ReplayInside
<1>1. CASE StartUndo
  <2>1. /\ m_current > 0 /\ m_current' = m_current - 1 /\ m_replay' = "undo"
        /\ pos' = Len(m_transactions[m_current].ops)
    BY <1>1 DEF StartUndo
  <2>2. m_current \in 1..Len(m_transactions) /\ m_current - 1 + 1 = m_current
    BY <1>0, <2>1
  <2>3. m_transactions[m_current].ops # <<>> /\ Len(m_transactions[m_current].ops) \in Nat
        /\ Len(m_transactions[m_current].ops) >= 1
    BY <1>0, <2>2, ListTypes
  <2>4. CurrentOps' = m_transactions[m_current].ops
    BY <1>0, <2>1, <2>2 DEF CurrentOps
  <2>5. DonePart' = Len(m_transactions[m_current].ops)
    BY <1>0, <2>1 DEF DonePart
  <2>6. HistoryOK(m_transactions, m_current - 1, Len(m_transactions[m_current].ops), b)
    BY <1>0, <2>2, <2>3, CursorBack
  <2>7. HistoryOK(m_transactions, m_current, DonePart, b)'
    BY <1>0, <2>1, <2>5, <2>6, SameHistory
  <2>8. ReplayInside(b)'
    BY <1>0, <2>1, <2>3, <2>4 DEF ReplayInside
  <2> QED
    BY <2>7, <2>8 DEF HistoryInv
<1>2. CASE Redo
  <2>1. m_current' = m_current /\ m_replay' = "redo" /\ pos' = 1
    BY <1>2 DEF Redo, listVars
  <2>2. DonePart' = 0
    BY <1>0, <2>1 DEF DonePart
  <2>3. HistoryOK(m_transactions, m_current, DonePart, b)'
    BY <1>0, <2>1, <2>2, SameHistory
  <2>4. ReplayInside(b)'
    BY <1>0, <2>1 DEF ReplayInside
  <2> QED
    BY <2>3, <2>4 DEF HistoryInv
<1> QED
  BY <1>1, <1>2

(* A replay that ran to its end leaves the cursor between transactions.    *)
LEMMA EndHistory ==
  ASSUME TypeOK, TypeOK', ObjectInv, NEW b \in Nat, HistoryInv(b), ReplayEnds
  PROVE  HistoryInv(b)'
<1>0. /\ ~m_opened /\ m_opened' = FALSE /\ m_replay' = "no" /\ Replaying /\ pos \notin DOMAIN CurrentOps
      /\ m_replay \in {"undo", "cancel", "redo"}
      /\ HistoryOK(m_transactions, m_current, DonePart, b) /\ ReplayInside(b)
      /\ m_transactions \in Seq(TransactionRecord) /\ Len(m_transactions) \in Nat
      /\ m_current \in Nat /\ m_current + 1 \in 1..Len(m_transactions) /\ m_current \in 0..Len(m_transactions)
      /\ \A i \in 1..Len(m_transactions) : m_transactions[i].ops # <<>>
      /\ pos \in 0..(Len(CurrentOps) + 1)
  <2>1. Replaying /\ pos \notin DOMAIN CurrentOps /\ m_replay' = "no" /\ m_opened' = m_opened
    BY DEF ReplayEnds
  <2>2. ~m_opened /\ m_current < Len(m_transactions) /\ pos \in 0..(Len(CurrentOps) + 1)
    BY <2>1 DEF TypeOK, ReplayTypeOK
  <2>3. /\ m_transactions \in Seq(TransactionRecord) /\ Len(m_transactions) \in Nat
        /\ m_current \in Nat
        /\ \A i \in 1..Len(m_transactions) : m_transactions[i].ops # <<>>
    BY <2>2 DEF TypeOK, ListTypeOK
  <2>4. m_current + 1 \in 1..Len(m_transactions) /\ m_current \in 0..Len(m_transactions)
    BY <2>2, <2>3
  <2>5. m_opened' = FALSE
    BY <2>1, <2>2 DEF TypeOK, ListTypeOK
  <2> QED
    BY <2>1, <2>2, <2>3, <2>4, <2>5 DEF HistoryInv, TypeOK, ReplayTypeOK, Replaying
<1>1. DOMAIN CurrentOps = 1..Len(CurrentOps) /\ Len(CurrentOps) \in Nat /\ Len(CurrentOps) >= 1
      /\ CurrentOps = m_transactions[m_current + 1].ops
  BY <1>0, ListTypes DEF CurrentOps
<1>2. pos = 0 \/ pos = Len(CurrentOps) + 1
  BY <1>0, <1>1
<1>3. m_current >= b
  BY <1>0, <1>1, <1>2 DEF ReplayInside
<1>4. DonePart' = 0
  BY <1>0 DEF DonePart
<1>5. m_current' >= b => ReplayInside(b)'
  BY <1>0 DEF ReplayInside
<1>6. CASE m_replay = "redo"
  <2>1. pos = Len(CurrentOps) + 1 /\ DonePart = Len(m_transactions[m_current + 1].ops)
    BY <1>0, <1>1, <1>2, <1>6 DEF ReplayInside, DonePart
  <2>2. UNCHANGED <<m_transactions, objectVars>> /\ m_current' = m_current + 1
    BY <1>6 DEF ReplayEnds, Forward
  <2>3. HistoryOK(m_transactions, m_current + 1, 0, b)
    <3>1. HistoryOK(m_transactions, m_current, Len(m_transactions[m_current + 1].ops), b)
      BY <1>0, <2>1
    <3>2. m_current + 1 <= Len(m_transactions)
      BY <1>0
    <3> QED
      BY <1>0, <1>3, <3>1, <3>2, CursorForward
  <2>4. HistoryOK(m_transactions, m_current, DonePart, b)'
    BY <1>0, <1>4, <2>2, <2>3, SameHistory
  <2>5. ReplayInside(b)'
    BY <1>0, <1>3, <1>5, <2>2
  <2> QED
    BY <2>4, <2>5 DEF HistoryInv
<1>7. CASE m_replay # "redo"
  <2>1. pos = 0 /\ DonePart = 0 /\ HistoryOK(m_transactions, m_current, 0, b)
    BY <1>0, <1>1, <1>2, <1>7 DEF ReplayInside, DonePart
  <2>2. m_current' = m_current
    BY <1>7 DEF ReplayEnds, Forward
  <2>3. ReplayInside(b)'
    BY <1>3, <1>5, <2>2
  <2>4. CASE UNCHANGED <<m_transactions, objectVars>>
    <3>1. HistoryOK(m_transactions, m_current, DonePart, b)'
      BY <1>0, <1>4, <2>1, <2>2, <2>4, SameHistory
    <3> QED
      BY <2>3, <3>1 DEF HistoryInv
  <2>5. CASE /\ m_transactions' = SubSeq(m_transactions, 1, m_current)
             /\ EraseFrom(m_current, m_transactions)
    <3>1. /\ m_transactions' \in Seq(TransactionRecord) /\ Len(m_transactions') = m_current
          /\ \A i \in 1..m_current : m_transactions'[i] = m_transactions[i]
      BY <1>0, <2>5, Prefix
    <3>2. \A c \in Cells : c \in HeldIn(SubSeq(m_transactions, m_current + 1, Len(m_transactions)))
                             => where[c] = "op"
      BY <1>0, HeldIsOwned
    <3>3. b \in 0..m_current /\ Len(m_transactions') # m_current + 1
      BY <1>0, <1>3, <3>1
    <3>4. HistoryOK(m_transactions, m_current, DonePart, b)'
      BY <1>0, <1>4, <2>1, <2>2, <2>5, <3>1, <3>2, <3>3, CutHistory DEF TypeOK
    <3> QED
      BY <2>3, <3>4 DEF HistoryInv
  <2> QED
    BY <1>7, <2>4, <2>5 DEF ReplayEnds
<1> QED
  BY <1>6, <1>7

(* A step that changes nothing of an operation but its flags, and no cell  *)
(* that a document knows goes away.                                        *)
SameButFlags(o, p) ==
  /\ p.id = o.id /\ p.kind = o.kind /\ p.cell = o.cell
  /\ p.from = o.from /\ p.to = o.to /\ p.pre = o.pre /\ p.post = o.post

LEMMA FlagsOnly ==
  ASSUME NEW ts \in Seq(TransactionRecord), NEW us \in Seq(TransactionRecord), NEW b \in Nat,
         Sound(ts, b), Chain(ts, b), NewFirst(ts, b), Len(us) = Len(ts),
         \A i \in 1..Len(ts) : /\ Len(us[i].ops) = Len(ts[i].ops)
                               /\ \A j \in 1..Len(ts[i].ops) : SameButFlags(ts[i].ops[j], us[i].ops[j])
  PROVE  Sound(us, b) /\ Chain(us, b) /\ NewFirst(us, b)
<1>0. Len(ts) \in Nat
  OBVIOUS
<1>1. ASSUME NEW i \in (b + 1)..Len(us), NEW j \in 1..Len(us[i].ops)
      PROVE  i \in (b + 1)..Len(ts) /\ j \in 1..Len(ts[i].ops) /\ SameButFlags(ts[i].ops[j], us[i].ops[j])
  <2>1. i \in 1..Len(ts)
    BY <1>0
  <2> QED
    BY <2>1
<1>2. Sound(us, b)
  <2> SUFFICES ASSUME NEW i \in (b + 1)..Len(us), NEW j \in 1..Len(us[i].ops)
               PROVE  OpSound(us[i].ops[j]) /\ OpLinked(us[i].ops[j])
    BY DEF Sound
  <2>1. i \in (b + 1)..Len(ts) /\ j \in 1..Len(ts[i].ops) /\ SameButFlags(ts[i].ops[j], us[i].ops[j])
    BY <1>1
  <2>2. OpSound(ts[i].ops[j]) /\ OpLinked(ts[i].ops[j])
    BY <2>1 DEF Sound
  <2> QED
    BY <2>1, <2>2 DEF SameButFlags, OpSound, OpLinked
<1>3. NewFirst(us, b)
  <2> SUFFICES ASSUME NEW i \in (b + 1)..Len(us), NEW k \in (b + 1)..Len(us),
                      NEW j \in 1..Len(us[i].ops), NEW l \in 1..Len(us[k].ops),
                      k < i \/ (k = i /\ l < j), us[i].ops[j].kind = "new"
               PROVE  us[i].ops[j].cell \notin us[k].ops[l].pre.live \union us[k].ops[l].post.live
    BY DEF NewFirst
  <2>1. i \in (b + 1)..Len(ts) /\ j \in 1..Len(ts[i].ops) /\ SameButFlags(ts[i].ops[j], us[i].ops[j])
    BY <1>1
  <2>2. k \in (b + 1)..Len(ts) /\ l \in 1..Len(ts[k].ops) /\ SameButFlags(ts[k].ops[l], us[k].ops[l])
    BY <1>1
  <2>3. ts[i].ops[j].kind = "new"
    BY <2>1 DEF SameButFlags
  <2>4. ts[i].ops[j].cell \notin ts[k].ops[l].pre.live \union ts[k].ops[l].post.live
    BY <2>1, <2>2, <2>3 DEF NewFirst
  <2> QED
    BY <2>1, <2>2, <2>4 DEF SameButFlags
<1>4. Chain(us, b)
  <2> SUFFICES ASSUME NEW i \in (b + 1)..Len(us)
               PROVE  /\ \A j \in 1..(Len(us[i].ops) - 1) : us[i].ops[j + 1].pre = us[i].ops[j].post
                      /\ i < Len(us) /\ us[i + 1].ops # <<>> => us[i + 1].ops[1].pre = Last(us[i].ops).post
    BY DEF Chain
  <2>1. i \in 1..Len(ts) /\ i \in (b + 1)..Len(ts) /\ i \in 1..Len(us)
    BY <1>0
  <2>2. Len(ts[i].ops) \in Nat /\ Len(us[i].ops) = Len(ts[i].ops)
    BY <2>1, ListTypes
  <2>3. ASSUME NEW j \in 1..(Len(us[i].ops) - 1) PROVE us[i].ops[j + 1].pre = us[i].ops[j].post
    <3>1. j \in 1..(Len(ts[i].ops) - 1) /\ j \in 1..Len(ts[i].ops) /\ j + 1 \in 1..Len(ts[i].ops)
      BY <2>2
    <3>2. ts[i].ops[j + 1].pre = ts[i].ops[j].post
      BY <2>1, <3>1 DEF Chain
    <3> QED
      BY <2>1, <3>1, <3>2 DEF SameButFlags
  <2>4. ASSUME i < Len(us), us[i + 1].ops # <<>> PROVE us[i + 1].ops[1].pre = Last(us[i].ops).post
    <3>1. i + 1 \in 1..Len(ts) /\ i + 1 \in 1..Len(us) /\ i < Len(ts)
      BY <1>0, <2>4
    <3>2. Len(us[i + 1].ops) >= 1 /\ Len(ts[i + 1].ops) >= 1 /\ ts[i + 1].ops # <<>>
          /\ Len(ts[i + 1].ops) \in Nat
      BY <2>4, <3>1, ListTypes
    <3>3. ts[i + 1].ops[1].pre = Last(ts[i].ops).post
      BY <2>1, <3>1, <3>2 DEF Chain
    <3>4. us[i + 1].ops[1].pre = ts[i + 1].ops[1].pre
      <4>1. 1 \in 1..Len(ts[i + 1].ops)
        BY <3>2
      <4> QED
        BY <3>1, <4>1 DEF SameButFlags
    <3>5. CASE Len(ts[i].ops) >= 1
      <4>1. Len(ts[i].ops) \in 1..Len(ts[i].ops)
        BY <2>2, <3>5
      <4>2. us[i].ops[Len(ts[i].ops)].post = ts[i].ops[Len(ts[i].ops)].post
        BY <2>1, <4>1 DEF SameButFlags
      <4> QED
        BY <2>2, <3>3, <3>4, <4>2 DEF Last
    <3>6. CASE Len(ts[i].ops) = 0
      <4>1. ts[i].ops = <<>> /\ us[i].ops = <<>>
        BY <2>1, <2>2, <3>6, ListTypes
      <4> QED
        BY <3>3, <3>4, <4>1
    <3> QED
      BY <2>2, <3>5, <3>6
  <2> QED
    BY <2>3, <2>4
<1> QED
  BY <1>2, <1>3, <1>4

(* Replaying an operation goes from one of its documents to the other.     *)
LEMMA ReplayedDocument ==
  ASSUME ObjectTypeOK, IdsExact, NEW o \in Op, OpSound(o), OpLinked(o), Replay(o),
         Doc = IF Forward THEN o.pre ELSE o.post
  PROVE  Doc' = IF Forward THEN o.post ELSE o.pre
<1>1. /\ o.cell \in Cells /\ o.kind \in {"new", "remove", "prop"}
      /\ where \in [Cells -> {"unborn", "layout", "op", "dead"}]
      /\ m_prop_id \in [Cells -> Props]
  BY DEF Op, ObjectTypeOK
<1>2. /\ o.pre = [live |-> o.pre.live, prop |-> o.pre.prop]
      /\ o.pre.prop \in [Cells -> Props] /\ o.pre.live \subseteq Cells
  BY DEF Op, Document
<1>3. Doc'.live = {c \in Cells : where'[c] = "layout"} /\ Doc'.prop = m_prop_id'
      /\ Doc' = [live |-> Doc'.live, prop |-> Doc'.prop]
      /\ Doc.live = {c \in Cells : where[c] = "layout"} /\ Doc.prop = m_prop_id
  BY DEF Doc
<1>4. CASE o.kind = "prop"
  <2>1. o.cell \in o.pre.live /\ o.id = m_id[o.cell] /\ where[o.cell] \in {"layout", "op"}
    BY <1>4 DEF OpSound, OpLinked
  <2>2. m_id_table[o.id] = o.cell
    <3>1. {i \in DOMAIN m_id_table : m_id_table[i] = o.cell} = {m_id[o.cell]}
      BY <1>1, <2>1 DEF IdsExact
    <3> QED
      BY <2>1, <3>1
  <2>3. m_prop_id' = [m_prop_id EXCEPT ![o.cell] = IF Forward THEN o.to ELSE o.from] /\ where' = where
    BY <1>4, <2>2 DEF Replay
  <2>4. /\ o.pre.prop[o.cell] = o.from
        /\ o.post = [live |-> o.pre.live, prop |-> [o.pre.prop EXCEPT ![o.cell] = o.to]]
    BY <1>4 DEF OpSound
  <2>5. CASE Forward
    <3>1. Doc.live = o.pre.live /\ m_prop_id = o.pre.prop
      BY <1>3, <2>5
    <3>2. Doc'.live = o.pre.live /\ Doc'.prop = [o.pre.prop EXCEPT ![o.cell] = o.to]
      BY <1>3, <2>3, <2>5, <3>1
    <3> QED
      BY <1>3, <2>4, <2>5, <3>2
  <2>6. CASE ~Forward
    <3>1. Doc.live = o.pre.live /\ m_prop_id = [o.pre.prop EXCEPT ![o.cell] = o.to]
      BY <1>3, <2>4, <2>6
    <3>2. m_prop_id' = [m_prop_id EXCEPT ![o.cell] = o.pre.prop[o.cell]]
      BY <2>3, <2>4, <2>6
    <3>3. m_prop_id' = o.pre.prop
      BY <1>1, <1>2, <3>1, <3>2
    <3>4. Doc'.live = o.pre.live
      BY <1>3, <2>3, <3>1
    <3> QED
      BY <1>2, <1>3, <2>6, <3>3, <3>4
  <2> QED
    BY <2>5, <2>6
<1>5. CASE o.kind # "prop"
  <2>1. /\ where' = [where EXCEPT ![o.cell] = IF ToLayout(o) THEN "layout" ELSE "op"]
        /\ m_prop_id' = m_prop_id
    BY <1>5 DEF Replay
  <2>2. Doc'.live = IF ToLayout(o) THEN Doc.live \union {o.cell} ELSE Doc.live \ {o.cell}
    BY <1>1, <1>3, <2>1
  <2>3. Doc'.prop = Doc.prop
    BY <1>3, <2>1
  <2>4. CASE o.kind = "new"
    <3>1. /\ o.cell \notin o.pre.live
          /\ o.post = [live |-> o.pre.live \union {o.cell}, prop |-> o.pre.prop]
          /\ ToLayout(o) = Forward
      BY <2>4 DEF OpSound, ToLayout, Forward
    <3>2. CASE Forward
      <4>1. Doc'.live = o.pre.live \union {o.cell} /\ Doc'.prop = o.pre.prop
        BY <2>2, <2>3, <3>1, <3>2
      <4> QED
        BY <1>3, <3>1, <3>2, <4>1
    <3>3. CASE ~Forward
      <4>1. Doc'.live = o.pre.live /\ Doc'.prop = o.pre.prop
        BY <2>2, <2>3, <3>1, <3>3
      <4> QED
        BY <1>2, <1>3, <3>3, <4>1
    <3> QED
      BY <3>2, <3>3
  <2>5. CASE o.kind = "remove"
    <3>1. /\ o.cell \in o.pre.live
          /\ o.post = [live |-> o.pre.live \ {o.cell}, prop |-> o.pre.prop]
          /\ ToLayout(o) = ~Forward
      BY <2>5 DEF OpSound, ToLayout, Forward
    <3>2. CASE Forward
      <4>1. Doc'.live = o.pre.live \ {o.cell} /\ Doc'.prop = o.pre.prop
        BY <2>2, <2>3, <3>1, <3>2
      <4> QED
        BY <1>3, <3>1, <3>2, <4>1
    <3>3. CASE ~Forward
      <4>1. Doc.live = o.pre.live \ {o.cell} /\ Doc.prop = o.pre.prop
        BY <3>1, <3>3
      <4>2. Doc'.live = Doc.live \union {o.cell}
        BY <2>2, <3>1, <3>3
      <4>3. Doc'.live = o.pre.live
        BY <3>1, <4>1, <4>2
      <4>4. Doc'.prop = o.pre.prop
        BY <2>3, <4>1
      <4> QED
        BY <1>2, <1>3, <3>3, <4>3, <4>4
    <3> QED
      BY <3>2, <3>3
  <2> QED
    BY <1>1, <1>5, <2>4, <2>5
<1> QED
  BY <1>4, <1>5

(* What a replayed operation looks like, and that nothing else changes.    *)
LEMMA MarkedOperation ==
  ASSUME TypeOK, ReplayOp, NEW k \in Nat, k = m_current + 1
  PROVE  /\ k \in 1..Len(m_transactions) /\ k <= Len(m_transactions)
         /\ pos \in 1..Len(m_transactions[k].ops) /\ Len(m_transactions[k].ops) \in Nat
         /\ m_transactions[k].ops[pos] \in Op
         /\ Len(m_transactions') = Len(m_transactions)
         /\ \A i \in 1..Len(m_transactions) : i # k => m_transactions'[i] = m_transactions[i]
         /\ Len(m_transactions'[k].ops) = Len(m_transactions[k].ops)
         /\ \A j \in 1..Len(m_transactions[k].ops) :
              m_transactions'[k].ops[j] = IF j = pos THEN Replayed(m_transactions[k].ops[j])
                                          ELSE m_transactions[k].ops[j]
<1>1. /\ m_transactions \in Seq(TransactionRecord) /\ k \in 1..Len(m_transactions)
      /\ Len(m_transactions) \in Nat
  BY DEF ReplayOp, TypeOK, ListTypeOK, ReplayTypeOK
<1> DEFINE ops == m_transactions[k].ops
           o == m_transactions[k].ops[pos]
           r == Replayed(o)
<1>2. /\ ops \in Seq(Op) /\ Len(ops) \in Nat /\ DOMAIN ops = 1..Len(ops)
      /\ \A j \in 1..Len(ops) : ops[j] \in Op
      /\ m_transactions[k] \in TransactionRecord
  BY <1>1, ListTypes
<1>3. pos \in 1..Len(ops)
  BY <1>2 DEF ReplayOp, CurrentOps
<1>4. m_transactions' = [m_transactions EXCEPT ![k].ops[pos] = r]
  BY <1>2, <1>3, Zenon DEF ReplayOp, r, CurrentOps
<1> HIDE DEF r
<1>5. m_transactions' = [m_transactions EXCEPT ![k] = [m_transactions[k] EXCEPT !.ops = [ops EXCEPT ![pos] = r]]]
  BY <1>1, <1>2, <1>4
<1>6. PICK new : new = [ops EXCEPT ![pos] = r]
  OBVIOUS
<1>7. Len(new) = Len(ops) /\ \A j \in 1..Len(ops) : new[j] = IF j = pos THEN r ELSE ops[j]
  <2> HIDE DEF ops
  <2> QED
    BY <1>2, <1>3, <1>6
<1>8. m_transactions' = [m_transactions EXCEPT ![k] = [m_transactions[k] EXCEPT !.ops = new]]
  BY <1>5, <1>6
<1>9. /\ Len(m_transactions') = Len(m_transactions)
      /\ \A i \in 1..Len(m_transactions) : i # k => m_transactions'[i] = m_transactions[i]
      /\ m_transactions'[k].ops = new
  BY <1>1, <1>2, <1>8 DEF TransactionRecord
<1>10. \A j \in 1..Len(ops) : new[j] = IF j = pos THEN Replayed(ops[j]) ELSE ops[j]
  BY <1>7 DEF r
<1> QED
  BY <1>1, <1>2, <1>3, <1>7, <1>9, <1>10

(* Replaying one operation moves the document along the chain.             *)
LEMMA ReplayHistory ==
  ASSUME TypeOK, TypeOK', ObjectInv, NEW b \in Nat, HistoryInv(b), ReplayOp
  PROVE  HistoryInv(b)'
<1>0. /\ ~m_opened /\ m_opened' = m_opened /\ m_replay' = m_replay /\ m_id' = m_id
      /\ m_current' = m_current /\ m_current \in Nat
      /\ m_replay \in {"undo", "cancel", "redo"}
      /\ pos' = IF Forward THEN pos + 1 ELSE pos - 1
      /\ HistoryOK(m_transactions, m_current, DonePart, b) /\ ReplayInside(b)
      /\ m_transactions \in Seq(TransactionRecord) /\ Len(m_transactions) \in Nat
      /\ m_transactions' \in Seq(TransactionRecord)
  BY DEF ReplayOp, TypeOK, ListTypeOK, ReplayTypeOK, Replaying, HistoryInv
<1>1. PICK k \in Nat : k = m_current + 1
  BY <1>0
<1>2. PICK o : o = m_transactions[k].ops[pos]
  OBVIOUS
<1>3. PICK len \in Nat : len = Len(m_transactions[k].ops)
  BY <1>1, MarkedOperation
<1>4. /\ k \in 1..Len(m_transactions) /\ pos \in 1..len /\ o \in Op
      /\ Len(m_transactions') = Len(m_transactions)
      /\ \A i \in 1..Len(m_transactions) : i # k => m_transactions'[i] = m_transactions[i]
      /\ Len(m_transactions'[k].ops) = len
      /\ \A j \in 1..len :
           m_transactions'[k].ops[j] = IF j = pos THEN Replayed(m_transactions[k].ops[j])
                                       ELSE m_transactions[k].ops[j]
  BY <1>1, <1>2, <1>3, MarkedOperation
<1>5. Replayable(o) /\ Replay(o)
  BY <1>1, <1>2 DEF ReplayOp, CurrentOps
<1>6. PICK r : r = Replayed(o)
  OBVIOUS
<1>7. /\ SameButFlags(o, r) /\ r.done = Forward
      /\ r.held = IF o.kind = "prop" THEN FALSE ELSE ~ToLayout(o)
      /\ m_transactions'[k].ops[pos] = r
  <2>1. SameButFlags(o, r) /\ r.done = Forward /\ r.held = IF o.kind = "prop" THEN FALSE ELSE ~ToLayout(o)
    BY <1>4, <1>6 DEF Replayed, SameButFlags, Op
  <2> QED
    BY <1>2, <1>4, <1>6, <2>1
<1>8. \A i \in 1..Len(m_transactions) :
        /\ Len(m_transactions'[i].ops) = Len(m_transactions[i].ops)
        /\ \A j \in 1..Len(m_transactions[i].ops) :
             /\ SameButFlags(m_transactions[i].ops[j], m_transactions'[i].ops[j])
             /\ i # k \/ j # pos => m_transactions'[i].ops[j] = m_transactions[i].ops[j]
  BY <1>2, <1>3, <1>4, <1>6, <1>7 DEF SameButFlags
<1>9. \A c \in Cells : where'[c] \in {"layout", "op"} <=> where[c] \in {"layout", "op"}
  <2>1. where \in [Cells -> {"unborn", "layout", "op", "dead"}] /\ o.cell \in Cells
    BY <1>4 DEF TypeOK, ObjectTypeOK, Op
  <2>2. CASE o.kind = "prop"
    BY <1>5, <2>2 DEF Replay
  <2>3. CASE o.kind # "prop"
    <3>1. where' = [where EXCEPT ![o.cell] = IF ToLayout(o) THEN "layout" ELSE "op"]
      BY <1>5, <2>3 DEF Replay
    <3>2. where[o.cell] \in {"layout", "op"}
      <4>1. CASE ToLayout(o)
        <5>1. o.held
          BY <1>5, <2>3, <4>1 DEF Replayable
        <5>2. <<k, pos>> \in OpsHolding(o.cell)
          <6>1. len <= MaxOps /\ DOMAIN m_transactions[k].ops = 1..len
            <7>1. k \in DOMAIN m_transactions
              BY <1>0, <1>4
            <7>2. Len(m_transactions[k].ops) <= MaxOps
              BY <7>1 DEF ObjectInv, OpsOK
            <7>3. DOMAIN m_transactions[k].ops = 1..Len(m_transactions[k].ops)
              BY <1>0, <1>4, ListTypes
            <7> QED
              BY <1>3, <7>2, <7>3
          <6>2. pos \in 1..MaxOps
            BY <1>4, <6>1, BoundsAssumption
          <6> QED
            BY <1>0, <1>2, <1>4, <5>1, <6>1, <6>2 DEF OpsHolding
        <5> QED
          BY <2>1, <5>2 DEF ObjectInv, Owned
      <4>2. CASE ~ToLayout(o)
        BY <1>5, <2>3, <4>2 DEF Replayable
      <4> QED
        BY <4>1, <4>2
    <3> QED
      BY <2>1, <3>1, <3>2
  <2> QED
    BY <2>2, <2>3
<1>10. PICK d \in Nat : d = IF Forward THEN pos - 1 ELSE pos
  BY <1>4 DEF Forward
<1>11. PICK e \in Nat : e = IF Forward THEN pos ELSE pos - 1
  BY <1>4 DEF Forward
<1>12. DonePart = d /\ DonePart' = e
  BY <1>0, <1>4, <1>10, <1>11 DEF DonePart, Forward
<1>13. /\ Broken(m_transactions, b) /\ Sound(m_transactions, b) /\ Chain(m_transactions, b)
       /\ NewFirst(m_transactions, b)
       /\ Flags(m_transactions, m_current, d, b) /\ AtCursor(m_transactions, m_current, d, b)
  BY <1>0, <1>12 DEF HistoryOK
<1>14. Sound(m_transactions', b) /\ Chain(m_transactions', b) /\ NewFirst(m_transactions', b)
  BY <1>0, <1>4, <1>8, <1>13, FlagsOnly
<1>15. Sound(m_transactions, b)'
  <2> SUFFICES ASSUME NEW i \in (b + 1)..Len(m_transactions'), NEW j \in 1..Len(m_transactions'[i].ops)
               PROVE  (OpSound(m_transactions[i].ops[j]) /\ OpLinked(m_transactions[i].ops[j]))'
    BY DEF Sound
  <2>1. OpSound(m_transactions'[i].ops[j]) /\ OpLinked(m_transactions'[i].ops[j])
    BY <1>14 DEF Sound
  <2>2. m_transactions'[i].ops[j] \in Op
    <3>1. i \in 1..Len(m_transactions')
      BY <1>0, <1>4
    <3> QED
      BY <1>0, <3>1, ListTypes
  <2>3. \A c \in m_transactions'[i].ops[j].pre.live \union m_transactions'[i].ops[j].post.live : c \in Cells
    BY <2>2 DEF Op, Document
  <2>4. OpSound(m_transactions[i].ops[j])'
    BY <2>1 DEF OpSound
  <2>5. OpLinked(m_transactions[i].ops[j])'
    BY <1>0, <1>9, <2>1, <2>3 DEF OpLinked
  <2> QED
    BY <2>4, <2>5
<1>16. Chain(m_transactions, b)' /\ NewFirst(m_transactions, b)'
  BY <1>14, Zenon DEF Chain, NewFirst
<1>17. Flags(m_transactions, m_current, DonePart, b)'
  <2> SUFFICES ASSUME NEW i \in (b + 1)..Len(m_transactions'), NEW j \in 1..Len(m_transactions'[i].ops)
               PROVE  LET p == m_transactions'[i].ops[j] IN
                      /\ p.done = (i <= m_current \/ (i = k /\ j <= e))
                      /\ p.held = (p.kind # "prop" /\ p.done = (p.kind = "remove"))
    BY <1>0, <1>1, <1>12 DEF Flags
  <2>1. i \in 1..Len(m_transactions) /\ i \in (b + 1)..Len(m_transactions) /\ j \in 1..Len(m_transactions[i].ops)
        /\ Len(m_transactions[i].ops) \in Nat
    <3>1. i \in 1..Len(m_transactions) /\ i \in (b + 1)..Len(m_transactions)
      BY <1>0, <1>4
    <3> QED
      BY <1>0, <1>8, <3>1, ListTypes
  <2>2. CASE i = k /\ j = pos
    <3>1. o.kind \in {"new", "remove", "prop"} /\ r.kind = o.kind /\ Forward \in BOOLEAN
      BY <1>4, <1>7 DEF Op, SameButFlags, Forward
    <3>2. r.done = (pos <= e)
      BY <1>4, <1>7, <1>11, <3>1
    <3>3. r.held = (r.kind # "prop" /\ r.done = (r.kind = "remove"))
      BY <1>7, <3>1 DEF ToLayout
    <3>4. ~(k <= m_current)
      BY <1>0, <1>1
    <3> QED
      BY <1>7, <2>2, <3>2, <3>3, <3>4
  <2>3. CASE i # k \/ j # pos
    <3>1. m_transactions'[i].ops[j] = m_transactions[i].ops[j]
      BY <1>8, <2>1, <2>3
    <3>2. (i = k /\ j <= d) <=> (i = k /\ j <= e)
      BY <1>4, <1>10, <1>11, <2>1, <2>3
    <3>3. LET p == m_transactions[i].ops[j] IN
          /\ p.done = (i <= m_current \/ (i = k /\ j <= d))
          /\ p.held = (p.kind # "prop" /\ p.done = (p.kind = "remove"))
      BY <1>1, <1>13, <2>1 DEF Flags
    <3> QED
      BY <3>1, <3>2, <3>3
  <2> QED
    BY <2>2, <2>3
<1>18. AtCursor(m_transactions, m_current, DonePart, b)'
  <2> SUFFICES ASSUME m_current >= b
               PROVE  /\ e >= 1 => Doc' = m_transactions'[k].ops[e].post
                      /\ e < len => Doc' = m_transactions'[k].ops[e + 1].pre
                      /\ m_current > b /\ e = 0 => Doc' = Last(m_transactions'[m_current].ops).post
    BY <1>0, <1>1, <1>4, <1>12 DEF AtCursor
  <2>1. k \in (b + 1)..Len(m_transactions) /\ m_current < Len(m_transactions)
    BY <1>0, <1>1, <1>4
  <2>2. OpSound(o) /\ OpLinked(o)
    BY <1>2, <1>3, <1>4, <1>13, <2>1 DEF Sound
  <2>3. /\ d >= 1 => Doc = m_transactions[k].ops[d].post
        /\ d < len => Doc = m_transactions[k].ops[d + 1].pre
    BY <1>1, <1>3, <1>13, <2>1 DEF AtCursor
  <2>4. Doc = IF Forward THEN o.pre ELSE o.post
    BY <1>2, <1>4, <1>10, <2>3
  <2>5. Doc' = IF Forward THEN o.post ELSE o.pre
    BY <1>4, <1>5, <2>2, <2>4, ReplayedDocument DEF TypeOK, ObjectInv
  <2>6. \A j \in 1..len : /\ m_transactions'[k].ops[j].pre = m_transactions[k].ops[j].pre
                          /\ m_transactions'[k].ops[j].post = m_transactions[k].ops[j].post
    BY <1>3, <1>4, <1>8 DEF SameButFlags
  <2>7. \A j \in 1..(len - 1) : m_transactions[k].ops[j + 1].pre = m_transactions[k].ops[j].post
    BY <1>3, <1>13, <2>1 DEF Chain
  <2>8. CASE Forward
    <3>1. e = pos /\ Doc' = m_transactions[k].ops[e].post
      BY <1>2, <1>11, <2>5, <2>8
    <3>2. Doc' = m_transactions'[k].ops[e].post
      BY <1>4, <2>6, <3>1
    <3>3. ASSUME e < len PROVE Doc' = m_transactions'[k].ops[e + 1].pre
      <4>1. e \in 1..(len - 1) /\ e + 1 \in 1..len
        BY <1>4, <3>1, <3>3
      <4> QED
        BY <2>6, <2>7, <3>1, <4>1
    <3> QED
      BY <1>4, <3>1, <3>2, <3>3
  <2>9. CASE ~Forward
    <3>1. e = pos - 1 /\ e + 1 = pos /\ Doc' = m_transactions[k].ops[e + 1].pre
      BY <1>2, <1>4, <1>11, <2>5, <2>9
    <3>2. Doc' = m_transactions'[k].ops[e + 1].pre
      BY <1>4, <2>6, <3>1
    <3>3. ASSUME e >= 1 PROVE Doc' = m_transactions'[k].ops[e].post
      <4>1. e \in 1..(len - 1) /\ e \in 1..len
        BY <1>4, <3>1, <3>3
      <4> QED
        BY <2>6, <2>7, <3>1, <4>1
    <3>4. ASSUME m_current > b, e = 0 PROVE Doc' = Last(m_transactions'[m_current].ops).post
      <4>1. m_current \in (b + 1)..Len(m_transactions) /\ m_current \in 1..Len(m_transactions) /\ m_current # k
        BY <1>0, <1>1, <2>1, <3>4
      <4>2. m_transactions[k].ops # <<>>
        BY <1>0, <1>3, <1>4, ListTypes
      <4>3. m_transactions[k].ops[1].pre = Last(m_transactions[m_current].ops).post
        BY <1>1, <1>13, <2>1, <4>1, <4>2 DEF Chain
      <4>4. m_transactions'[m_current] = m_transactions[m_current]
        BY <1>4, <4>1
      <4> QED
        BY <3>1, <3>4, <4>3, <4>4
    <3> QED
      BY <3>2, <3>3, <3>4
  <2> QED
    BY <2>8, <2>9
<1>19. b = k => pos >= 2
  <2> SUFFICES ASSUME b = k, pos = 1 PROVE FALSE
    BY <1>4
  <2>1. ~o.done /\ ~Forward
    BY <1>0, <1>1, <1>2, <1>13 DEF Broken, ReplayInside, Forward
  <2> QED
    BY <1>5, <2>1 DEF Replayable
<1>20. Broken(m_transactions, b)'
  <2>1. b \in 0..Len(m_transactions') /\ (b > 0 => b \in 1..Len(m_transactions))
    BY <1>0, <1>4, <1>13 DEF Broken
  <2>2. ASSUME b > 0 PROVE Len(m_transactions'[b].ops) >= 1 /\ ~m_transactions'[b].ops[1].done
    <3>1. Len(m_transactions[b].ops) >= 1 /\ ~m_transactions[b].ops[1].done /\ Len(m_transactions[b].ops) \in Nat
      BY <1>0, <1>13, <2>1, <2>2, ListTypes DEF Broken
    <3>2. Len(m_transactions'[b].ops) >= 1
      BY <1>8, <2>1, <2>2, <3>1
    <3>3. b # k \/ 1 # pos
      BY <1>19
    <3>4. m_transactions'[b].ops[1] = m_transactions[b].ops[1]
      BY <1>8, <2>1, <2>2, <3>1, <3>3
    <3> QED
      BY <3>1, <3>2, <3>4
  <2> QED
    BY <2>1, <2>2 DEF Broken
<1>21. ReplayInside(b)'
  <2>1. CurrentOps = m_transactions[k].ops /\ CurrentOps' = m_transactions'[k].ops
    BY <1>0, <1>1 DEF CurrentOps
  <2>2. CASE m_replay = "redo"
    BY <1>0, <1>4, <2>1, <2>2 DEF ReplayInside, Forward
  <2>3. CASE m_replay # "redo"
    <3>1. pos' = pos - 1 /\ pos' <= Len(CurrentOps') /\ (b = k => pos' >= 1)
      BY <1>0, <1>4, <1>19, <2>1, <2>3 DEF Forward
    <3> QED
      BY <1>0, <1>1, <2>3, <3>1 DEF ReplayInside
  <2> QED
    BY <2>2, <2>3
<1> QED
  BY <1>15, <1>16, <1>17, <1>18, <1>20, <1>21 DEF HistoryInv, HistoryOK

(* What an operation that is queued looks like.                            *)
NewOp(id, kind, c, held, from, to) ==
  [id |-> id, kind |-> kind, cell |-> c, held |-> held, from |-> from, to |-> to,
   done |-> TRUE, pre |-> Doc, post |-> DocAfter]

LEMMA QueuedOperation ==
  ASSUME TypeOK, m_opened, NEW id, NEW kind, NEW c, NEW held, NEW from, NEW to,
         Queue(id, kind, c, held, from, to), NEW k \in Nat, k = m_current + 1,
         NEW len \in Nat, len = Len(m_transactions[k].ops)
  PROVE  /\ k \in 1..Len(m_transactions) /\ k = Len(m_transactions)
         /\ Len(m_transactions') = Len(m_transactions)
         /\ \A i \in 1..Len(m_transactions) : i # k => m_transactions'[i] = m_transactions[i]
         /\ Len(m_transactions'[k].ops) = len + 1
         /\ \A j \in 1..len : m_transactions'[k].ops[j] = m_transactions[k].ops[j]
         /\ m_transactions'[k].ops[len + 1] = NewOp(id, kind, c, held, from, to)
<1> DEFINE o == NewOp(id, kind, c, held, from, to)
           ops == m_transactions[k].ops
<1>1. /\ m_transactions \in Seq(TransactionRecord) /\ k \in 1..Len(m_transactions)
      /\ Len(m_transactions) \in Nat /\ k = Len(m_transactions)
  BY DEF TypeOK, ListTypeOK
<1>2. ops \in Seq(Op) /\ m_transactions[k] \in TransactionRecord
  BY <1>1, ListTypes
<1>3. m_transactions' = [m_transactions EXCEPT ![k].ops = Append(@, o)]
  BY DEF Queue, NewOp
<1> HIDE DEF o
<1>4. PICK new : new = Append(ops, o)
  OBVIOUS
<1>5. Len(new) = len + 1 /\ (\A j \in 1..len : new[j] = ops[j]) /\ new[len + 1] = o
  <2> HIDE DEF ops
  <2>1. len = Len(ops)
    BY DEF ops
  <2> QED
    BY <1>2, <1>4, <2>1
<1>6. m_transactions' = [m_transactions EXCEPT ![k] = [m_transactions[k] EXCEPT !.ops = new]]
  BY <1>3, <1>4
<1>7. /\ Len(m_transactions') = Len(m_transactions)
      /\ \A i \in 1..Len(m_transactions) : i # k => m_transactions'[i] = m_transactions[i]
      /\ m_transactions'[k].ops = new
  BY <1>1, <1>2, <1>6 DEF TransactionRecord
<1> QED
  BY <1>1, <1>5, <1>7 DEF o

(* An operation queued at the end continues the chain.                     *)
LEMMA QueueHistory ==
  ASSUME TypeOK, TypeOK', NEW b \in Nat, HistoryInv(b), m_opened, ~Replaying,
         UNCHANGED <<m_current, m_opened, replayVars>>,
         NEW id, NEW kind \in {"new", "remove", "prop"}, NEW c \in Cells, NEW held \in BOOLEAN,
         NEW from, NEW to, Queue(id, kind, c, held, from, to),
         held = (kind = "remove"),
         OpSound(NewOp(id, kind, c, held, from, to)),
         id = IF kind = "prop" THEN m_id[c] ELSE 1,
         \A d \in Cells : where[d] \in {"layout", "op"}
                            => where'[d] \in {"layout", "op"} /\ m_id'[d] = m_id[d],
         kind = "new" => where[c] \notin {"layout", "op"}
  PROVE  HistoryInv(b)'
<1>0. /\ m_replay = "no" /\ m_replay' = m_replay
      /\ m_current' = m_current /\ m_current \in Nat /\ m_opened' = m_opened
      /\ HistoryOK(m_transactions, m_current, DonePart, b) /\ ReplayInside(b)
      /\ m_transactions \in Seq(TransactionRecord) /\ Len(m_transactions) \in Nat
      /\ m_transactions' \in Seq(TransactionRecord)
  BY DEF TypeOK, ListTypeOK, Replaying, HistoryInv, replayVars
<1>1. PICK k \in Nat : k = m_current + 1
  BY <1>0
<1>2. PICK len \in Nat : len = Len(m_transactions[k].ops)
  <2>1. k \in 1..Len(m_transactions)
    BY <1>0, <1>1 DEF TypeOK, ListTypeOK
  <2> QED
    BY <1>0, <2>1, ListTypes
<1>3. PICK o : o = NewOp(id, kind, c, held, from, to)
  OBVIOUS
<1>4. /\ k \in 1..Len(m_transactions) /\ k = Len(m_transactions)
      /\ Len(m_transactions') = Len(m_transactions)
      /\ \A i \in 1..Len(m_transactions) : i # k => m_transactions'[i] = m_transactions[i]
      /\ Len(m_transactions'[k].ops) = len + 1
      /\ \A j \in 1..len : m_transactions'[k].ops[j] = m_transactions[k].ops[j]
      /\ m_transactions'[k].ops[len + 1] = o
  BY <1>1, <1>2, <1>3, QueuedOperation
<1>5. /\ o.kind = kind /\ o.cell = c /\ o.held = held /\ o.done = TRUE /\ o.id = id
      /\ o.pre = Doc /\ o.post = Doc' /\ o.from = from /\ o.to = to
  BY <1>3 DEF NewOp, Doc, DocAfter
<1>6. OpSound(o)
  BY <1>3
<1>7. /\ DonePart = len /\ DonePart' = len + 1
  BY <1>0, <1>1, <1>2, <1>4 DEF DonePart, CurrentOps
<1>8. /\ Broken(m_transactions, b) /\ Sound(m_transactions, b) /\ Chain(m_transactions, b)
      /\ NewFirst(m_transactions, b)
      /\ Flags(m_transactions, m_current, len, b) /\ AtCursor(m_transactions, m_current, len, b)
  BY <1>0, <1>7 DEF HistoryOK
<1>9. ASSUME NEW i \in (b + 1)..Len(m_transactions'), NEW j \in 1..Len(m_transactions'[i].ops)
      PROVE  \/ i = k /\ j = len + 1 /\ m_transactions'[i].ops[j] = o
             \/ /\ i # k \/ j \in 1..len
                /\ i \in (b + 1)..Len(m_transactions) /\ i \in 1..Len(m_transactions)
                /\ j \in 1..Len(m_transactions[i].ops)
                /\ m_transactions'[i].ops[j] = m_transactions[i].ops[j]
                /\ m_transactions[i].ops[j] \in Op
                /\ \A d \in {m_transactions[i].ops[j].cell} \union m_transactions[i].ops[j].pre.live
                            \union m_transactions[i].ops[j].post.live :
                     d \in Cells /\ where[d] \in {"layout", "op"}
  <2>1. i \in (b + 1)..Len(m_transactions) /\ i \in 1..Len(m_transactions)
    BY <1>0, <1>4
  <2>2. CASE i = k /\ j = len + 1
    BY <1>4, <2>2
  <2>3. CASE i # k \/ j # len + 1
    <3>1. /\ i # k \/ j \in 1..len
          /\ j \in 1..Len(m_transactions[i].ops)
          /\ m_transactions'[i].ops[j] = m_transactions[i].ops[j]
      <4>1. CASE i # k
        <5>1. m_transactions'[i] = m_transactions[i]
          BY <1>4, <2>1, <4>1
        <5> QED
          BY <4>1, <5>1
      <4>2. CASE i = k
        <5>1. j \in 1..len
          BY <1>4, <2>3, <4>2
        <5> QED
          BY <1>2, <1>4, <4>2, <5>1
      <4> QED
        BY <4>1, <4>2
    <3>2. m_transactions[i].ops[j] \in Op
      BY <1>0, <2>1, <3>1, ListTypes
    <3>3. OpSound(m_transactions[i].ops[j]) /\ OpLinked(m_transactions[i].ops[j])
      BY <1>8, <2>1, <3>1 DEF Sound
    <3>4. m_transactions[i].ops[j].cell \in m_transactions[i].ops[j].pre.live \union m_transactions[i].ops[j].post.live
      <4>1. PICK q \in Op : q = m_transactions[i].ops[j]
        BY <3>2
      <4>2. OpSound(q)
        BY <3>3, <4>1
      <4>3. q.kind \in {"new", "remove", "prop"}
        BY DEF Op
      <4>4. q.cell \in q.pre.live \union q.post.live
        BY <4>2, <4>3 DEF OpSound
      <4> QED
        BY <4>1, <4>4
    <3>5. m_transactions[i].ops[j].pre.live \subseteq Cells /\ m_transactions[i].ops[j].post.live \subseteq Cells
      BY <3>2 DEF Op, Document
    <3>6. \A d \in m_transactions[i].ops[j].pre.live \union m_transactions[i].ops[j].post.live :
            where[d] \in {"layout", "op"}
      BY <3>3 DEF OpLinked
    <3> QED
      BY <2>1, <3>1, <3>2, <3>4, <3>5, <3>6
  <2> QED
    BY <2>2, <2>3
<1>10. Sound(m_transactions, b)'
  <2> SUFFICES ASSUME NEW i \in (b + 1)..Len(m_transactions'), NEW j \in 1..Len(m_transactions'[i].ops)
               PROVE  (OpSound(m_transactions[i].ops[j]) /\ OpLinked(m_transactions[i].ops[j]))'
    BY DEF Sound
  <2>1. CASE m_transactions'[i].ops[j] = o
    <3>1. OpSound(m_transactions[i].ops[j])'
      BY <1>6, <2>1 DEF OpSound
    <3>2. OpLinked(m_transactions[i].ops[j])'
      <4>1. /\ o.id = IF o.kind = "prop" THEN m_id'[o.cell] ELSE 1
            /\ \A d \in o.pre.live \union o.post.live : where'[d] \in {"layout", "op"}
        <5>1. \A d \in Doc.live : d \in Cells /\ where[d] \in {"layout", "op"}
          BY DEF Doc
        <5>2. \A d \in Doc'.live : where'[d] \in {"layout", "op"}
          BY DEF Doc
        <5>3. o.kind = "prop" => m_id'[c] = m_id[c]
          BY <1>5, <1>6, <5>1 DEF OpSound
        <5> QED
          BY <1>5, <5>1, <5>2, <5>3
      <4> QED
        BY <2>1, <4>1 DEF OpLinked
    <3> QED
      BY <3>1, <3>2
  <2>2. CASE /\ i \in (b + 1)..Len(m_transactions) /\ j \in 1..Len(m_transactions[i].ops)
             /\ m_transactions'[i].ops[j] = m_transactions[i].ops[j]
             /\ \A d \in {m_transactions[i].ops[j].cell} \union m_transactions[i].ops[j].pre.live
                         \union m_transactions[i].ops[j].post.live :
                  d \in Cells /\ where[d] \in {"layout", "op"}
    <3>1. OpSound(m_transactions[i].ops[j]) /\ OpLinked(m_transactions[i].ops[j])
      BY <1>8, <2>2 DEF Sound
    <3>2. OpSound(m_transactions[i].ops[j])'
      BY <2>2, <3>1 DEF OpSound
    <3>3. OpLinked(m_transactions[i].ops[j])'
      BY <2>2, <3>1 DEF OpLinked
    <3> QED
      BY <3>2, <3>3
  <2> QED
    BY <1>9, <2>1, <2>2
<1>11. Flags(m_transactions, m_current, DonePart, b)'
  <2> SUFFICES ASSUME NEW i \in (b + 1)..Len(m_transactions'), NEW j \in 1..Len(m_transactions'[i].ops)
               PROVE  LET p == m_transactions'[i].ops[j] IN
                      /\ p.done = (i <= m_current \/ (i = k /\ j <= len + 1))
                      /\ p.held = (p.kind # "prop" /\ p.done = (p.kind = "remove"))
    BY <1>0, <1>1, <1>7 DEF Flags
  <2>1. CASE i = k /\ j = len + 1 /\ m_transactions'[i].ops[j] = o
    <3>1. o.held = (o.kind # "prop" /\ o.done = (o.kind = "remove"))
      BY <1>5
    <3>2. i = k /\ j <= len + 1
      BY <2>1
    <3> QED
      BY <1>5, <2>1, <3>1, <3>2
  <2>2. CASE /\ i # k \/ j \in 1..len
             /\ i \in (b + 1)..Len(m_transactions)
             /\ j \in 1..Len(m_transactions[i].ops)
             /\ m_transactions'[i].ops[j] = m_transactions[i].ops[j]
    <3>1. LET p == m_transactions[i].ops[j] IN
          /\ p.done = (i <= m_current \/ (i = k /\ j <= len))
          /\ p.held = (p.kind # "prop" /\ p.done = (p.kind = "remove"))
      BY <1>1, <1>8, <2>2 DEF Flags
    <3>2. (i = k /\ j <= len + 1) <=> (i = k /\ j <= len)
      BY <2>2
    <3> QED
      BY <2>2, <3>1, <3>2
  <2> QED
    BY <1>9, <2>1, <2>2
<1>12. Chain(m_transactions, b)'
  <2> SUFFICES ASSUME NEW i \in (b + 1)..Len(m_transactions')
               PROVE  /\ \A j \in 1..(Len(m_transactions'[i].ops) - 1) :
                           m_transactions'[i].ops[j + 1].pre = m_transactions'[i].ops[j].post
                      /\ i < Len(m_transactions') /\ m_transactions'[i + 1].ops # <<>>
                           => m_transactions'[i + 1].ops[1].pre = Last(m_transactions'[i].ops).post
    BY DEF Chain
  <2>1. i \in (b + 1)..Len(m_transactions) /\ i \in 1..Len(m_transactions) /\ i <= k
    BY <1>0, <1>4
  <2>2. CASE i = k
    <3>1. ~(i < Len(m_transactions')) /\ m_current >= b /\ m_current < Len(m_transactions)
      BY <1>0, <1>1, <1>4, <2>1, <2>2
    <3>2. ASSUME NEW j \in 1..len PROVE m_transactions'[k].ops[j + 1].pre = m_transactions'[k].ops[j].post
      <4>1. CASE j = len
        <5>1. Doc = m_transactions[k].ops[len].post
          BY <1>1, <1>8, <3>1, <4>1 DEF AtCursor
        <5> QED
          BY <1>4, <1>5, <4>1, <5>1
      <4>2. CASE j # len
        <5>1. j \in 1..(Len(m_transactions[k].ops) - 1) /\ j + 1 \in 1..len
          BY <1>2, <4>2
        <5>2. m_transactions[k].ops[j + 1].pre = m_transactions[k].ops[j].post
          BY <1>8, <2>1, <2>2, <5>1 DEF Chain
        <5> QED
          BY <1>4, <5>1, <5>2
      <4> QED
        BY <4>1, <4>2
    <3>3. Len(m_transactions'[i].ops) - 1 = len
      <4>1. Len(m_transactions'[i].ops) = len + 1
        BY <1>4, <2>2
      <4> QED
        BY <4>1
    <3> QED
      BY <2>2, <3>1, <3>2, <3>3
  <2>3. CASE i # k
    <3>1. m_transactions'[i] = m_transactions[i] /\ i < Len(m_transactions)
      BY <1>4, <2>1, <2>3
    <3>2. ASSUME NEW j \in 1..(Len(m_transactions'[i].ops) - 1)
          PROVE  m_transactions'[i].ops[j + 1].pre = m_transactions'[i].ops[j].post
      BY <1>8, <2>1, <3>1 DEF Chain
    <3>3. CASE i + 1 # k
      <4>1. i + 1 \in 1..Len(m_transactions) /\ m_transactions'[i + 1] = m_transactions[i + 1]
        BY <1>0, <1>4, <2>1, <3>1, <3>3
      <4> QED
        BY <1>8, <2>1, <3>1, <3>2, <4>1 DEF Chain
    <3>4. CASE i + 1 = k
      <4>1. i = m_current /\ m_current > b /\ m_current < Len(m_transactions)
        BY <1>0, <1>1, <2>1, <3>1, <3>4
      <4>2. CASE len = 0
        <5>1. Doc = Last(m_transactions[m_current].ops).post
          BY <1>0, <1>8, <4>1, <4>2 DEF AtCursor
        <5>2. m_transactions'[k].ops[1].pre = Doc
          BY <1>4, <1>5, <4>2
        <5> QED
          BY <3>1, <3>2, <3>4, <4>1, <5>1, <5>2
      <4>3. CASE len # 0
        <5>1. m_transactions[k].ops # <<>> /\ 1 \in 1..len
          BY <1>2, <4>3
        <5>2. m_transactions[k].ops[1].pre = Last(m_transactions[i].ops).post
          BY <1>8, <2>1, <3>1, <3>4, <5>1 DEF Chain
        <5>3. m_transactions'[k].ops[1] = m_transactions[k].ops[1]
          BY <1>4, <5>1
        <5> QED
          BY <3>1, <3>2, <3>4, <5>2, <5>3
      <4> QED
        BY <4>2, <4>3
    <3> QED
      BY <3>3, <3>4
  <2> QED
    BY <2>2, <2>3
<1>13. NewFirst(m_transactions, b)'
  <2> SUFFICES ASSUME NEW i \in (b + 1)..Len(m_transactions'), NEW l \in (b + 1)..Len(m_transactions'),
                      NEW j \in 1..Len(m_transactions'[i].ops), NEW m \in 1..Len(m_transactions'[l].ops),
                      l < i \/ (l = i /\ m < j), m_transactions'[i].ops[j].kind = "new"
               PROVE  m_transactions'[i].ops[j].cell \notin
                        m_transactions'[l].ops[m].pre.live \union m_transactions'[l].ops[m].post.live
    BY DEF NewFirst
  <2>1. ~(l = k /\ m = len + 1)
    <3>1. j \in 1..Len(m_transactions'[i].ops) /\ i <= k
      BY <1>4
    <3> QED
      BY <1>4, <3>1
  <2>2. /\ l \in (b + 1)..Len(m_transactions) /\ m \in 1..Len(m_transactions[l].ops)
        /\ m_transactions'[l].ops[m] = m_transactions[l].ops[m]
        /\ \A d \in m_transactions[l].ops[m].pre.live \union m_transactions[l].ops[m].post.live :
             where[d] \in {"layout", "op"}
    BY <1>9, <2>1
  <2>3. CASE i = k /\ j = len + 1 /\ m_transactions'[i].ops[j] = o
    BY <1>5, <2>2, <2>3
  <2>4. CASE /\ i \in (b + 1)..Len(m_transactions) /\ j \in 1..Len(m_transactions[i].ops)
             /\ m_transactions'[i].ops[j] = m_transactions[i].ops[j]
    <3>1. m_transactions[i].ops[j].kind = "new"
      BY <2>4
    <3>2. m_transactions[i].ops[j].cell \notin m_transactions[l].ops[m].pre.live \union m_transactions[l].ops[m].post.live
      BY <1>8, <2>2, <2>4, <3>1 DEF NewFirst
    <3> QED
      BY <2>2, <2>4, <3>2
  <2> QED
    BY <1>9, <2>3, <2>4
<1>14. AtCursor(m_transactions, m_current, DonePart, b)'
  <2>1. Doc' = m_transactions'[k].ops[len + 1].post
    BY <1>4, <1>5
  <2> QED
    BY <1>0, <1>1, <1>4, <1>7, <2>1 DEF AtCursor
<1>15. Broken(m_transactions, b)'
  <2>1. b \in 0..Len(m_transactions') /\ (b > 0 => b \in 1..Len(m_transactions))
    BY <1>0, <1>4, <1>8 DEF Broken
  <2>2. ASSUME b > 0 PROVE Len(m_transactions'[b].ops) >= 1 /\ ~m_transactions'[b].ops[1].done
    <3>1. Len(m_transactions[b].ops) >= 1 /\ ~m_transactions[b].ops[1].done
      BY <1>8, <2>2 DEF Broken
    <3>2. CASE b # k
      BY <1>4, <2>1, <2>2, <3>1, <3>2
    <3>3. CASE b = k
      <4>1. 1 \in 1..len
        BY <1>2, <3>1, <3>3
      <4> QED
        BY <1>4, <3>1, <3>3, <4>1
    <3> QED
      BY <3>2, <3>3
  <2> QED
    BY <2>1, <2>2 DEF Broken
<1>16. ReplayInside(b)'
  BY <1>0 DEF ReplayInside
<1> QED
  BY <1>10, <1>11, <1>12, <1>13, <1>14, <1>15, <1>16 DEF HistoryInv, HistoryOK

(* The changes of the layout.                                              *)
LEMMA ChangeHistory ==
  ASSUME ~Unlogged, TypeOK, TypeOK', NEW b \in Nat, HistoryInv(b), NEW c \in Cells,
         AddCell(c) \/ DeleteCell(c) \/ \E p \in Props : SetPropId(c, p)
  PROVE  HistoryInv(b)' \/ HistoryInv(0)'
<1>0. /\ ~Replaying /\ UNCHANGED <<m_current, m_opened, replayVars>>
      /\ m_opened \/ m_transactions = <<>>
      /\ where \in [Cells -> {"unborn", "layout", "op", "dead"}]
      /\ m_id \in [Cells -> Nat] /\ m_prop_id \in [Cells -> Props]
  BY DEF AddCell, DeleteCell, SetPropId, MayChange, Unaffected, TypeOK, ObjectTypeOK
<1>1. CASE ~m_opened
  <2>1. PICK id, kind, held, from, to : Queue(id, kind, c, held, from, to)
    BY DEF AddCell, DeleteCell, SetPropId
  <2>2. m_transactions' = <<>> /\ m_current = 0 /\ m_replay = "no"
    BY <1>0, <1>1, <2>1 DEF Queue, TypeOK, ListTypeOK, Replaying
  <2>3. m_opened' = FALSE
    BY <1>0, <1>1 DEF TypeOK, ListTypeOK
  <2>4. m_current' = 0 /\ m_replay' = "no"
    BY <1>0, <2>2 DEF replayVars
  <2> QED
    BY <2>2, <2>3, <2>4, EmptyHistory
<1>2. CASE m_opened /\ AddCell(c)
  <2>1. /\ where[c] = "unborn" /\ where' = [where EXCEPT ![c] = "layout"] /\ m_prop_id' = m_prop_id
        /\ Queue(1, "new", c, FALSE, 0, 0)
        /\ \E id \in NextIds : m_id' = [m_id EXCEPT ![c] = id]
    BY <1>2 DEF AddCell
  <2>2. DocAfter = [live |-> Doc.live \union {c}, prop |-> Doc.prop] /\ c \notin Doc.live
    <3>1. {d \in Cells : where'[d] = "layout"} = {d \in Cells : where[d] = "layout"} \union {c}
      BY <1>0, <2>1
    <3> QED
      BY <2>1, <3>1 DEF Doc, DocAfter
  <2>3. OpSound(NewOp(1, "new", c, FALSE, 0, 0))
    BY <2>2 DEF OpSound, NewOp
  <2>4. \A d \in Cells : where[d] \in {"layout", "op"} => where'[d] \in {"layout", "op"} /\ m_id'[d] = m_id[d]
    BY <1>0, <2>1
  <2>5. FALSE \in BOOLEAN /\ FALSE = ("new" = "remove") /\ "new" \in {"new", "remove", "prop"}
        /\ 1 = IF "new" = "prop" THEN m_id[c] ELSE 1
    OBVIOUS
  <2>6. "new" = "new" => where[c] \notin {"layout", "op"}
    BY <2>1
  <2>7. HistoryInv(b)'
    BY <1>0, <1>2, <2>1, <2>3, <2>4, <2>5, <2>6, QueueHistory
  <2> QED
    BY <2>7
<1>3. CASE m_opened /\ DeleteCell(c)
  <2>1. /\ where[c] = "layout" /\ where' = [where EXCEPT ![c] = "op"] /\ m_prop_id' = m_prop_id /\ m_id' = m_id
        /\ Queue(1, "remove", c, TRUE, 0, 0)
    BY <1>3 DEF DeleteCell
  <2>2. DocAfter = [live |-> Doc.live \ {c}, prop |-> Doc.prop] /\ c \in Doc.live
    <3>1. {d \in Cells : where'[d] = "layout"} = {d \in Cells : where[d] = "layout"} \ {c}
      BY <1>0, <2>1
    <3> QED
      BY <2>1, <3>1 DEF Doc, DocAfter
  <2>3. OpSound(NewOp(1, "remove", c, TRUE, 0, 0))
    BY <2>2 DEF OpSound, NewOp
  <2>4. \A d \in Cells : where[d] \in {"layout", "op"} => where'[d] \in {"layout", "op"} /\ m_id'[d] = m_id[d]
    BY <1>0, <2>1
  <2>5. TRUE \in BOOLEAN /\ TRUE = ("remove" = "remove")
    OBVIOUS
  <2>6. "remove" \in {"new", "remove", "prop"} /\ 1 = IF "remove" = "prop" THEN m_id[c] ELSE 1
    OBVIOUS
  <2>7. "remove" = "new" => where[c] \notin {"layout", "op"}
    OBVIOUS
  <2>8. HistoryInv(b)'
    BY <1>0, <1>3, <2>1, <2>3, <2>4, <2>5, <2>6, <2>7, QueueHistory
  <2> QED
    BY <2>8
<1>4. ASSUME m_opened, NEW p \in Props, SetPropId(c, p)
      PROVE  HistoryInv(b)'
  <2>1. /\ where[c] = "layout" /\ where' = where /\ m_id' = m_id
        /\ m_prop_id' = [m_prop_id EXCEPT ![c] = p]
        /\ Queue(m_id[c], "prop", c, FALSE, m_prop_id[c], p)
    BY <1>4 DEF SetPropId
  <2>2. DocAfter = [live |-> Doc.live, prop |-> [Doc.prop EXCEPT ![c] = p]] /\ c \in Doc.live
        /\ Doc.prop[c] = m_prop_id[c]
    BY <2>1 DEF Doc, DocAfter
  <2>3. OpSound(NewOp(m_id[c], "prop", c, FALSE, m_prop_id[c], p))
    BY <2>2 DEF OpSound, NewOp
  <2>4. \A d \in Cells : where[d] \in {"layout", "op"} => where'[d] \in {"layout", "op"} /\ m_id'[d] = m_id[d]
    BY <2>1
  <2>5. FALSE \in BOOLEAN /\ FALSE = ("prop" = "remove") /\ "prop" \in {"new", "remove", "prop"}
        /\ m_id[c] = IF "prop" = "prop" THEN m_id[c] ELSE 1
        /\ ("prop" = "new" => where[c] \notin {"layout", "op"})
    OBVIOUS
  <2> QED
    BY <1>0, <1>4, <2>1, <2>3, <2>4, <2>5, QueueHistory
<1> QED
  BY <1>1, <1>2, <1>3, <1>4

(* The null id, and the id of a client that drops it before undo, are not  *)
(* that of an undone transaction.                                          *)
LEMMA NoStaleJoin ==
  ASSUME TypeOK
  PROVE  ~StaleJoin(0) /\ (TicketInv => ~StaleJoin(ticket.addr))
<1>1. ASSUME NEW join, StaleJoin(join)
      PROVE  /\ join # 0 /\ ~m_opened /\ ~Replaying
             /\ m_current < Len(m_transactions) /\ m_current # Len(m_transactions)
  <2>1. Kept # <<>> /\ Last(Kept).addr = join /\ Kept \in Seq(TransactionRecord) /\ Len(Kept) \in Nat
    BY <1>1, KeptProperties DEF StaleJoin, JoinsKept
  <2>2. Len(Kept) \in 1..Len(Kept)
    BY <2>1
  <2>3. Kept[Len(Kept)] \in TransactionRecord
    BY <2>1, <2>2, ListTypes
  <2>4. join # 0
    BY <2>1, <2>3 DEF Last, TransactionRecord
  <2>5. m_current \in Nat /\ Len(m_transactions) \in Nat
    BY DEF TypeOK, ListTypeOK
  <2> QED
    BY <1>1, <2>4, <2>5 DEF StaleJoin
<1>2. ASSUME TicketInv, StaleJoin(ticket.addr) PROVE FALSE
  <2>1. /\ ticket.addr # 0 /\ ~m_opened /\ ~Replaying
        /\ m_current < Len(m_transactions) /\ m_current # Len(m_transactions)
    BY <1>1, <1>2
  <2>2. ticket # NoTicket /\ m_replay # "cancel"
    BY <2>1 DEF NoTicket, Replaying
  <2> QED
    BY <1>2, <2>1, <2>2 DEF TicketInv
<1> QED
  BY <1>1, <1>2

(* Every step keeps the chain, cuts or forgets it, or joins an undone      *)
(* transaction.                                                            *)
LEMMA HistoryStep ==
  ASSUME ~Unlogged, TypeOK, TypeOK', ObjectInv, NEW b \in Nat, HistoryInv(b), [Next]_vars
  PROVE  \/ HistoryInv(b)' \/ HistoryInv(0)'
         \/ StaleJoin(ticket.addr) /\ \E v \in Nat : HistoryInv(v)'
<1>1. CASE Begin \/ OpenScope
  <2>1. Transaction(0)
    BY <1>1 DEF Begin, OpenScope
  <2>2. ~StaleJoin(0)
    BY NoStaleJoin
  <2> QED
    BY <2>1, <2>2, TransactionHistory
<1>2. CASE BeginJoined \/ ReopenScope
  <2>1. Transaction(ticket.addr)
    BY <1>2 DEF BeginJoined, ReopenScope
  <2> QED
    BY <2>1, TransactionHistory
<1>3. CASE UNCHANGED <<listVars, replayVars, objectVars>>
  <2>1. /\ m_transactions' = m_transactions /\ m_current' = m_current /\ m_opened' = m_opened
        /\ m_replay' = m_replay /\ pos' = pos
    BY <1>3 DEF listVars, replayVars
  <2>2. DonePart' = DonePart /\ CurrentOps' = CurrentOps
    BY <2>1 DEF DonePart, CurrentOps
  <2>3. HistoryOK(m_transactions, m_current, DonePart, b)'
    BY <1>3, <2>1, <2>2, SameHistory DEF HistoryInv, TypeOK, ListTypeOK
  <2>4. ReplayInside(b)'
    BY <2>1, <2>2 DEF HistoryInv, ReplayInside
  <2> QED
    BY <2>3, <2>4 DEF HistoryInv
<1>4. CASE End \/ Cancel \/ EndJoined \/ CloseScope \/ CancelScope \/ EndScope
  <2>1. Commit \/ CancelPending \/ UNCHANGED <<listVars, replayVars, objectVars>>
    BY <1>4 DEF End, Cancel, EndJoined, CloseScope, CancelScope, EndScope
  <2> QED
    BY <1>3, <2>1, CloseHistory
<1>5. CASE CancelDialog \/ Undo \/ Redo
  <2>1. StartUndo \/ Redo \/ UNCHANGED <<listVars, replayVars, objectVars>>
    BY <1>5 DEF CancelDialog, Undo
  <2> QED
    BY <1>3, <2>1, StartHistory
<1>6. ASSUME NEW c \in Cells, AddCell(c) \/ DeleteCell(c) \/ \E p \in Props : SetPropId(c, p)
      PROVE  HistoryInv(b)' \/ HistoryInv(0)'
  BY <1>6, ChangeHistory
<1>7. CASE ReplayOp
  BY <1>7, ReplayHistory
<1>8. CASE ReplayEnds
  BY <1>8, EndHistory
<1>9. CASE ReplayFails \/ Clear
  <2>1. m_transactions' = <<>> /\ m_current' = 0 /\ m_opened' = FALSE
    BY <1>9 DEF ReplayFails, Clear, EraseAll
  <2>2. m_replay' = "no"
    BY <1>9 DEF ReplayFails, Clear, Replaying, replayVars
  <2> QED
    BY <2>1, <2>2, EmptyHistory
<1>10. CASE UNCHANGED vars
  BY <1>3, <1>10 DEF vars
<1> QED
  BY <1>1, <1>2, <1>4, <1>5, <1>6, <1>7, <1>8, <1>9, <1>10 DEF Next

LEMMA HistoryInit == Init => HistoryInv(0)
<1> SUFFICES ASSUME Init PROVE HistoryInv(0)
  OBVIOUS
<1>1. m_transactions = <<>> /\ Len(m_transactions) = 0 /\ DonePart = 0 /\ m_current = 0 /\ m_replay = "no"
  BY DEF Init, DonePart
<1>2. (0 + 1)..Len(m_transactions) = {}
  BY <1>1
<1>3. HistoryOK(m_transactions, m_current, DonePart, 0)
  BY <1>1, <1>2 DEF HistoryOK, Broken, Sound, Flags, Chain, NewFirst, AtCursor
<1> QED
  BY <1>1, <1>3 DEF HistoryInv, ReplayInside

(* The chain holds in every reachable state, from some transaction on,     *)
(* whatever the clients join.                                              *)
HistoryKept == \E b \in Nat : HistoryInv(b)

LEMMA HistoryKeptCorrect ==
  ASSUME ~Unlogged
  PROVE  Spec => []HistoryKept
<1>1. Init => HistoryKept
  BY HistoryInit DEF HistoryKept
<1>2. TypeOK /\ TypeOK' /\ ObjectInv /\ HistoryKept /\ [Next]_vars => HistoryKept'
  <2> SUFFICES ASSUME TypeOK, TypeOK', ObjectInv, HistoryKept, [Next]_vars PROVE HistoryKept'
    OBVIOUS
  <2>1. PICK b \in Nat : HistoryInv(b)
    BY DEF HistoryKept
  <2>2. \E v \in Nat : HistoryInv(v)'
    BY <2>1, HistoryStep
  <2> QED
    BY <2>2 DEF HistoryKept
<1> QED
  BY <1>1, <1>2, TypeCorrect, ObjectInvCorrect, PTL DEF Spec

-----------------------------------------------------------------------------
(* A replay that ran to its end restored the document.                     *)
LEMMA RestoredDocument ==
  ASSUME TypeOK, NEW b \in Nat, HistoryInv(b), ReplayEnds
  PROVE  Doc = IF Forward THEN Last(CurrentOps).post ELSE CurrentOps[1].pre
<1>1. /\ ~m_opened /\ pos \notin DOMAIN CurrentOps /\ m_replay \in {"undo", "cancel", "redo"}
      /\ m_transactions \in Seq(TransactionRecord) /\ Len(m_transactions) \in Nat
      /\ m_current \in Nat /\ m_current < Len(m_transactions) /\ pos \in 0..(Len(CurrentOps) + 1)
      /\ \A i \in DOMAIN m_transactions : m_transactions[i].ops = <<>> => m_opened
  BY DEF ReplayEnds, TypeOK, ListTypeOK, ReplayTypeOK, Replaying
<1>2. PICK k \in 1..Len(m_transactions) : k = m_current + 1
  BY <1>1
<1>3. PICK ops \in Seq(Op) : ops = m_transactions[k].ops
  BY <1>1, ListTypes
<1>4. /\ ops = CurrentOps /\ DOMAIN ops = 1..Len(ops) /\ Len(ops) \in Nat /\ ops # <<>>
  BY <1>1, <1>2, <1>3 DEF CurrentOps
<1>5. PICK len \in Nat : len = Len(ops) /\ len >= 1
  <2>1. Len(ops) >= 1
    BY <1>1, <1>3, <1>4, ListTypes
  <2> QED
    BY <1>4, <2>1
<1>6. pos = 0 \/ pos = len + 1
  BY <1>1, <1>4, <1>5
<1>7. m_current >= b
  BY <1>1, <1>4, <1>5, <1>6 DEF HistoryInv, ReplayInside
<1>8. AtCursor(m_transactions, m_current, DonePart, b)
  BY DEF HistoryInv, HistoryOK
<1>9. /\ DonePart >= 1 => Doc = ops[DonePart].post
      /\ DonePart < len => Doc = ops[DonePart + 1].pre
  BY <1>1, <1>2, <1>3, <1>5, <1>7, <1>8 DEF AtCursor
<1>10. CASE m_replay = "redo"
  <2>1. pos = len + 1 /\ DonePart = len
    BY <1>1, <1>6, <1>10 DEF HistoryInv, ReplayInside, DonePart
  <2>2. Doc = ops[len].post
    BY <1>5, <1>9, <2>1
  <2> QED
    BY <1>4, <1>5, <1>10, <2>2 DEF Forward, Last
<1>11. CASE m_replay # "redo"
  <2>1. pos = 0 /\ DonePart = 0
    BY <1>1, <1>4, <1>5, <1>6, <1>11 DEF HistoryInv, ReplayInside, DonePart
  <2>2. Doc = ops[1].pre
    BY <1>5, <1>9, <2>1
  <2> QED
    BY <1>4, <1>11, <2>2 DEF Forward
<1> QED
  BY <1>10, <1>11

(* An undo, cancel or redo that runs to its end restores the document,     *)
(* whatever the clients join and where the user breaks other replays, if   *)
(* every change is made inside a transaction or clears the history.        *)
THEOREM UndoExactCorrect ==
  ASSUME ~Unlogged
  PROVE  Spec => UndoExact
<1>1. ASSUME TypeOK, HistoryKept, ReplayEnds
      PROVE  Doc = IF Forward THEN Last(CurrentOps).post ELSE CurrentOps[1].pre
  BY <1>1, RestoredDocument DEF HistoryKept
<1>2. TypeOK /\ HistoryKept /\ [Next]_vars
        => [ReplayEnds => Doc = IF Forward THEN Last(CurrentOps).post ELSE CurrentOps[1].pre]_vars
  BY <1>1
<1> QED
  BY <1>2, TypeCorrect, HistoryKeptCorrect, PTL DEF Spec, UndoExact

(* A client that drops its id before undo and redo never joins an undone   *)
(* transaction: the whole history is a chain.                              *)
LEMMA WholeHistoryCorrect ==
  ASSUME ~Unlogged, Remembered
  PROVE  Spec => [](HistoryInv(0) /\ TicketInv)
<1>1. Init => HistoryInv(0) /\ TicketInv
  <2>1. Init => TicketInv
    BY DEF Init, TicketInv
  <2> QED
    BY <2>1, HistoryInit
<1>2. TypeOK /\ TypeOK' /\ ObjectInv /\ (HistoryInv(0) /\ TicketInv) /\ [Next]_vars
        => (HistoryInv(0) /\ TicketInv)'
  <2> SUFFICES ASSUME TypeOK, TypeOK', ObjectInv, HistoryInv(0), TicketInv, [Next]_vars
               PROVE  HistoryInv(0)' /\ TicketInv'
    OBVIOUS
  <2>1. TicketInv'
    BY TicketStep
  <2>2. \/ HistoryInv(0)' \/ StaleJoin(ticket.addr)
    <3>1. 0 \in Nat
      OBVIOUS
    <3> QED
      BY <3>1, HistoryStep
  <2>3. ~StaleJoin(ticket.addr)
    BY NoStaleJoin
  <2> QED
    BY <2>1, <2>2, <2>3
<1> QED
  BY <1>1, <1>2, TypeCorrect, ObjectInvCorrect, PTL DEF Spec

(* Before an operation is replayed, the document is the one it was queued  *)
(* for: NewRemoveCellOp and the loops of undo and redo find what they      *)
(* assert, and an id always finds its object.                              *)
LEMMA ReplayableOperation ==
  ASSUME TypeOK, ObjectInv, HistoryInv(0), Replaying, pos \in DOMAIN CurrentOps
  PROVE  Replayable(CurrentOps[pos])
<1>1. /\ ~m_opened /\ m_replay \in {"undo", "cancel", "redo"}
      /\ m_transactions \in Seq(TransactionRecord) /\ Len(m_transactions) \in Nat
      /\ m_current \in Nat /\ m_current < Len(m_transactions)
  BY DEF TypeOK, ListTypeOK, ReplayTypeOK, Replaying
<1>2. PICK k \in 1..Len(m_transactions) : k = m_current + 1
  BY <1>1
<1>3. PICK len \in Nat : len = Len(m_transactions[k].ops)
  BY <1>1, ListTypes
<1>4. pos \in 1..len /\ CurrentOps[pos] = m_transactions[k].ops[pos] /\ m_transactions[k].ops[pos] \in Op
  BY <1>1, <1>2, <1>3, ListTypes DEF CurrentOps
<1>5. PICK o \in Op : o = m_transactions[k].ops[pos]
  BY <1>4
<1>6. PICK d \in Nat : d = IF Forward THEN pos - 1 ELSE pos
  BY <1>4 DEF Forward
<1>7. DonePart = d
  BY <1>1, <1>6 DEF DonePart, Forward
<1>8. /\ Sound(m_transactions, 0) /\ Flags(m_transactions, m_current, d, 0)
      /\ AtCursor(m_transactions, m_current, d, 0)
  BY <1>7 DEF HistoryInv, HistoryOK
<1>9. k \in (0 + 1)..Len(m_transactions) /\ ~(k <= m_current)
  BY <1>1, <1>2
<1>10. OpSound(o) /\ OpLinked(o)
  BY <1>3, <1>4, <1>5, <1>8, <1>9 DEF Sound
<1>11. /\ o.done = (k <= m_current \/ (k = m_current + 1 /\ pos <= d))
       /\ o.held = (o.kind # "prop" /\ o.done = (o.kind = "remove"))
  BY <1>3, <1>4, <1>5, <1>8, <1>9 DEF Flags
<1>12. o.done = ~Forward
  <2>1. (pos <= d) = ~Forward
    BY <1>4, <1>6 DEF Forward
  <2> QED
    BY <1>2, <1>9, <1>11, <2>1
<1>13. Doc = IF Forward THEN o.pre ELSE o.post
  <2>1. /\ d >= 1 => Doc = m_transactions[k].ops[d].post
        /\ d < len => Doc = m_transactions[k].ops[d + 1].pre
    BY <1>1, <1>2, <1>3, <1>8 DEF AtCursor
  <2> QED
    BY <1>4, <1>5, <1>6, <2>1
<1>14. o.kind \in {"new", "remove", "prop"} /\ o.cell \in Cells
  BY DEF Op
<1>15. o.id \in DOMAIN m_id_table /\ m_id_table[o.id] # NoObject
  <2>1. CASE o.kind = "prop"
    <3>1. o.id = m_id[o.cell] /\ where[o.cell] \in {"layout", "op"}
      BY <1>10, <2>1 DEF OpSound, OpLinked
    <3>2. {i \in DOMAIN m_id_table : m_id_table[i] = o.cell} = {m_id[o.cell]}
      BY <1>14, <3>1 DEF ObjectInv, IdsExact
    <3>3. o.id \in DOMAIN m_id_table /\ m_id_table[o.id] = o.cell
      BY <3>1, <3>2
    <3> QED
      BY <1>14, <3>3, ObjectsAssumption
  <2>2. CASE o.kind # "prop"
    <3>1. o.id = 1
      BY <1>10, <2>2 DEF OpLinked
    <3>2. 1 \in DOMAIN m_id_table /\ m_id_table[1] = Layout
      BY DEF ObjectInv, IdsExact, TypeOK, ObjectTypeOK
    <3> QED
      BY <3>1, <3>2, ObjectsAssumption
  <2> QED
    BY <2>1, <2>2
<1>16. ASSUME o.kind # "prop"
       PROVE  IF ToLayout(o) THEN o.held /\ where[o.cell] # "layout"
              ELSE ~o.held /\ where[o.cell] = "layout"
  <2>1. o.held = ToLayout(o)
    BY <1>11, <1>12, <1>14, <1>16 DEF ToLayout, Forward
  <2>2. where[o.cell] = "layout" <=> o.cell \in Doc.live
    BY <1>14 DEF Doc
  <2>3. o.cell \in Doc.live <=> ~ToLayout(o)
    <3>1. CASE o.kind = "new"
      <4>1. o.cell \notin o.pre.live /\ o.cell \in o.post.live /\ ToLayout(o) = Forward
        BY <1>10, <3>1 DEF OpSound, ToLayout, Forward
      <4> QED
        BY <1>13, <4>1
    <3>2. CASE o.kind = "remove"
      <4>1. o.cell \in o.pre.live /\ o.cell \notin o.post.live /\ ToLayout(o) = ~Forward
        BY <1>10, <3>2 DEF OpSound, ToLayout, Forward
      <4> QED
        BY <1>13, <4>1
    <3> QED
      BY <1>14, <1>16, <3>1, <3>2
  <2> QED
    BY <2>1, <2>2, <2>3
<1> QED
  BY <1>4, <1>5, <1>12, <1>15, <1>16 DEF Replayable

(* The assertions of undo, redo and cancel hold if every change is made    *)
(* inside a transaction or clears the history, and no client joins a       *)
(* transaction that was undone.                                            *)
THEOREM AssertionsCorrect ==
  ASSUME ~Unlogged, Remembered
  PROVE  Spec => []AssertionsHold
<1>1. TypeOK /\ ObjectInv /\ HistoryInv(0) => AssertionsHold
  BY ReplayableOperation DEF AssertionsHold
<1> QED
  BY <1>1, TypeCorrect, ObjectInvCorrect, WholeHistoryCorrect, PTL

-----------------------------------------------------------------------------
(* Refinement of UndoLog: undo and redo go back and forth between          *)
(* documents.  The documents before the first n transactions of a list,    *)
(* and those after the others.                                             *)

Befores(ts, n) == [i \in 1..n |-> Before(ts[i])]
Afters(ts, n) == [i \in 1..(Len(ts) - n) |-> After(ts[n + i])]

LEMMA FunctionSeq ==
  ASSUME NEW n \in Nat, NEW f, f = [i \in 1..n |-> f[i]]
  PROVE  \E S : f \in Seq(S) /\ Len(f) = n /\ DOMAIN f = 1..n
<1>1. f \in Seq({f[i] : i \in 1..n})
  OBVIOUS
<1>2. DOMAIN f = 1..n
  OBVIOUS
<1>3. Len(f) = n
  BY <1>1, <1>2, LenProperties
<1> QED
  BY <1>1, <1>2, <1>3

(* One more transaction to undo.                                           *)
LEMMA MoreBefores ==
  ASSUME NEW ts, NEW n \in Nat
  PROVE  /\ Befores(ts, n + 1) = Append(Befores(ts, n), Before(ts[n + 1]))
         /\ Befores(ts, n + 1) # <<>>
         /\ Log!Last(Befores(ts, n + 1)) = Before(ts[n + 1])
         /\ Log!Front(Befores(ts, n + 1)) = Befores(ts, n)
<1> DEFINE f == Befores(ts, n)
           g == Befores(ts, n + 1)
<1>1. /\ f = [i \in 1..n |-> f[i]] /\ g = [i \in 1..(n + 1) |-> g[i]]
      /\ \A i \in 1..n : f[i] = Before(ts[i]) /\ g[i] = Before(ts[i])
      /\ g[n + 1] = Before(ts[n + 1])
  BY DEF Befores
<1> HIDE DEF f, g
<1>2. PICK S : f \in Seq(S) /\ Len(f) = n /\ DOMAIN f = 1..n
  BY <1>1, FunctionSeq
<1>3. PICK T : g \in Seq(T) /\ Len(g) = n + 1 /\ DOMAIN g = 1..(n + 1)
  <2>1. n + 1 \in Nat
    OBVIOUS
  <2> QED
    BY <1>1, <2>1, FunctionSeq
<1>4. g = Append(f, Before(ts[n + 1]))
  <2>1. PICK x : x = Before(ts[n + 1])
    OBVIOUS
  <2>2. f \in Seq(S \union {x})
    BY <1>2
  <2>3. /\ Append(f, x) \in Seq(S \union {x}) /\ Len(Append(f, x)) = n + 1
        /\ \A i \in 1..n : Append(f, x)[i] = f[i]
        /\ Append(f, x)[n + 1] = x
    BY <1>2, <2>2, AppendProperties
  <2>4. ASSUME NEW i \in 1..(n + 1) PROVE g[i] = Append(f, x)[i]
    <3>1. CASE i = n + 1
      BY <1>1, <2>1, <2>3, <3>1
    <3>2. CASE i \in 1..n
      BY <1>1, <2>3, <3>2
    <3>3. i = n + 1 \/ i \in 1..n
      OBVIOUS
    <3> QED
      BY <3>1, <3>2, <3>3
  <2>5. g \in Seq(T \union S \union {x}) /\ Append(f, x) \in Seq(T \union S \union {x})
    BY <1>3, <2>3
  <2>6. g = Append(f, x)
    BY <1>3, <2>3, <2>4, <2>5, SeqEqual
  <2> QED
    BY <2>1, <2>6
<1>5. g # <<>>
  BY <1>3
<1>6. Log!Last(g) = Before(ts[n + 1])
  BY <1>1, <1>3 DEF Log!Last
<1>7. Log!Front(g) = f
  <2>1. Log!Front(g) = SubSeq(g, 1, n)
    BY <1>3 DEF Log!Front
  <2>2. /\ SubSeq(g, 1, n) \in Seq(T) /\ Len(SubSeq(g, 1, n)) = n
        /\ \A i \in 1..n : SubSeq(g, 1, n)[i] = g[i]
    <3>1. n \in 0..Len(g)
      BY <1>3
    <3> QED
      BY <1>3, <3>1, Prefix
  <2>3. \A i \in 1..n : SubSeq(g, 1, n)[i] = f[i]
    BY <1>1, <2>2
  <2>4. f \in Seq(T \union S) /\ SubSeq(g, 1, n) \in Seq(T \union S)
    BY <1>2, <2>2
  <2> QED
    BY <1>2, <2>1, <2>2, <2>3, <2>4, SeqEqual
<1> QED
  BY <1>4, <1>5, <1>6, <1>7 DEF f, g

(* One more transaction to redo.                                           *)
LEMMA MoreAfters ==
  ASSUME NEW ts \in Seq(TransactionRecord), NEW n \in Nat, n < Len(ts)
  PROVE  /\ Afters(ts, n) = <<After(ts[n + 1])>> \o Afters(ts, n + 1)
         /\ Afters(ts, n) # <<>>
         /\ Head(Afters(ts, n)) = After(ts[n + 1])
         /\ Tail(Afters(ts, n)) = Afters(ts, n + 1)
<1> DEFINE m == Len(ts) - n - 1
           f == Afters(ts, n)
           g == Afters(ts, n + 1)
<1>1. m \in Nat /\ Len(ts) - n = m + 1 /\ Len(ts) - (n + 1) = m /\ Len(ts) \in Nat
  OBVIOUS
<1>2. f = [i \in 1..(m + 1) |-> After(ts[n + i])] /\ g = [i \in 1..m |-> After(ts[n + 1 + i])]
  BY <1>1 DEF Afters
<1> HIDE DEF m, f, g
<1>3. /\ f = [i \in 1..(m + 1) |-> f[i]] /\ g = [i \in 1..m |-> g[i]]
      /\ \A i \in 1..(m + 1) : f[i] = After(ts[n + i])
      /\ \A i \in 1..m : g[i] = f[i + 1]
      /\ f[1] = After(ts[n + 1])
  <2>1. f = [i \in 1..(m + 1) |-> f[i]] /\ g = [i \in 1..m |-> g[i]]
    BY <1>2
  <2>2. \A i \in 1..(m + 1) : f[i] = After(ts[n + i])
    BY <1>2
  <2>3. 1 \in 1..(m + 1)
    BY <1>1
  <2>4. ASSUME NEW i \in 1..m PROVE g[i] = f[i + 1]
    <3>1. i + 1 \in 1..(m + 1) /\ n + (i + 1) = n + 1 + i
      BY <1>1
    <3>2. f[i + 1] = After(ts[n + 1 + i])
      BY <2>2, <3>1
    <3> QED
      BY <1>2, <3>2
  <2> QED
    BY <2>1, <2>2, <2>3, <2>4
<1>4. PICK S : f \in Seq(S) /\ Len(f) = m + 1 /\ DOMAIN f = 1..(m + 1)
  <2>1. m + 1 \in Nat
    BY <1>1
  <2> QED
    BY <1>3, <2>1, FunctionSeq
<1>5. PICK T : g \in Seq(T) /\ Len(g) = m /\ DOMAIN g = 1..m
  BY <1>1, <1>3, FunctionSeq
<1>6. f # <<>>
  BY <1>1, <1>4
<1>7. Head(f) = After(ts[n + 1])
  BY <1>3, <1>4
<1>8. Tail(f) = g
  <2>1. /\ Tail(f) \in Seq(S) /\ Len(Tail(f)) = m /\ \A i \in 1..m : Tail(f)[i] = f[i + 1]
    BY <1>1, <1>4, <1>6, HeadTailProperties
  <2>2. g \in Seq(T \union S) /\ Tail(f) \in Seq(T \union S)
    BY <1>5, <2>1
  <2>3. \A i \in 1..m : Tail(f)[i] = g[i]
    BY <1>3, <2>1
  <2> QED
    BY <1>5, <2>1, <2>2, <2>3, SeqEqual
<1>9. f = <<After(ts[n + 1])>> \o g
  <2>1. PICK h : h = <<After(ts[n + 1])>>
    OBVIOUS
  <2>2. h \in Seq({After(ts[n + 1])}) /\ Len(h) = 1 /\ h[1] = After(ts[n + 1])
    BY <2>1
  <2> DEFINE U == S \union T \union {After(ts[n + 1])}
  <2>3. h \in Seq(U) /\ g \in Seq(U) /\ f \in Seq(U)
    BY <1>4, <1>5, <2>2
  <2> HIDE DEF U
  <2>4. /\ h \o g \in Seq(U) /\ Len(h \o g) = Len(h) + Len(g)
        /\ \A i \in 1..Len(h) + Len(g) : (h \o g)[i] = IF i <= Len(h) THEN h[i] ELSE g[i - Len(h)]
    BY <2>3, ConcatProperties
  <2>5. Len(h \o g) = m + 1
    BY <1>1, <1>5, <2>2, <2>4
  <2>6. ASSUME NEW i \in 1..(m + 1) PROVE f[i] = (h \o g)[i]
    <3>1. (h \o g)[i] = IF i <= 1 THEN h[i] ELSE g[i - 1]
      BY <1>1, <1>5, <2>2, <2>4
    <3>2. CASE i = 1
      <4>1. i <= 1
        BY <3>2
      <4>2. (h \o g)[i] = h[i]
        BY <3>1, <4>1
      <4>3. f[1] = h[1]
        BY <1>3, <2>2
      <4> QED
        BY <3>2, <4>2, <4>3
    <3>3. CASE i # 1
      <4>1. i - 1 \in 1..m /\ i - 1 + 1 = i /\ ~(i <= 1)
        BY <1>1, <3>3
      <4>2. g[i - 1] = f[i]
        BY <1>3, <4>1
      <4> QED
        BY <3>1, <4>1, <4>2
    <3> QED
      BY <3>2, <3>3
  <2>7. f = h \o g
    BY <1>4, <2>3, <2>4, <2>5, <2>6, SeqEqual
  <2> QED
    BY <2>1, <2>7
<1> QED
  BY <1>6, <1>7, <1>8, <1>9 DEF f, g

LEMMA NoAfters ==
  ASSUME NEW ts \in Seq(TransactionRecord), NEW n \in Nat, n >= Len(ts)
  PROVE  Afters(ts, n) = <<>>
<1>1. 1..(Len(ts) - n) = {}
  OBVIOUS
<1> QED
  BY <1>1 DEF Afters

(* What the mapping makes of a state, for each kind of state.              *)
LogViews ==
  /\ ~m_opened /\ m_replay = "no" =>
       /\ LogDoc = Doc /\ LogBase = Doc
       /\ LogPast = Befores(m_transactions, m_current)
       /\ LogFuture = Afters(m_transactions, m_current)
  /\ m_opened =>
       /\ LogDoc = Doc
       /\ LogBase = IF CurrentOps # <<>> THEN Before(m_transactions[m_current + 1]) ELSE Doc
       /\ LogPast = Befores(m_transactions, m_current)
       /\ LogFuture = <<>>
  /\ m_replay = "undo" =>
       /\ LogDoc = After(m_transactions[m_current + 1]) /\ LogBase = LogDoc
       /\ LogPast = Befores(m_transactions, m_current + 1)
       /\ LogFuture = Afters(m_transactions, m_current + 1)
  /\ m_replay = "redo" =>
       /\ LogDoc = Before(m_transactions[m_current + 1]) /\ LogBase = LogDoc
       /\ LogPast = Befores(m_transactions, m_current)
       /\ LogFuture = Afters(m_transactions, m_current)
  /\ m_replay = "cancel" =>
       /\ LogDoc = Before(m_transactions[m_current + 1]) /\ LogBase = LogDoc
       /\ LogPast = Befores(m_transactions, m_current)
       /\ LogFuture = <<>>

LEMMA LogViewsCorrect == TypeOK => LogViews
<1> SUFFICES ASSUME TypeOK PROVE LogViews
  OBVIOUS
<1>0. /\ m_current \in Nat
      /\ m_opened => m_replay = "no"
      /\ Replaying => ~m_opened
      /\ m_replay \in {"no", "undo", "cancel", "redo"} /\ m_opened \in BOOLEAN
  BY DEF TypeOK, ListTypeOK, ReplayTypeOK, Replaying
<1>1. ASSUME NEW n \in Nat PROVE Len(Befores(m_transactions, n)) = n
  <2>1. Befores(m_transactions, n) = [i \in 1..n |-> Befores(m_transactions, n)[i]]
    BY DEF Befores
  <2> QED
    BY <2>1, FunctionSeq
<1>2. CASE m_replay = "undo"
  <2>1. LogPast = Befores(m_transactions, m_current + 1)
    BY <1>2 DEF LogPast, Befores
  <2>2. Len(LogPast) = m_current + 1
    <3>1. m_current + 1 \in Nat
      BY <1>0
    <3> QED
      BY <1>1, <2>1, <3>1
  <2>3. LogFuture = Afters(m_transactions, m_current + 1)
    BY <1>0, <1>2, <2>2 DEF LogFuture, Afters, Replaying
  <2>4. LogDoc = After(m_transactions[m_current + 1]) /\ LogBase = LogDoc
    BY <1>0, <1>2 DEF LogDoc, LogBase, Replaying
  <2> QED
    BY <1>0, <1>2, <2>1, <2>3, <2>4 DEF LogViews, Replaying
<1>3. CASE m_replay # "undo"
  <2>1. LogPast = Befores(m_transactions, m_current)
    BY <1>3 DEF LogPast, Befores
  <2>2. Len(LogPast) = m_current
    BY <1>0, <1>1, <2>1
  <2>3. LogFuture = IF m_opened \/ m_replay = "cancel" THEN <<>> ELSE Afters(m_transactions, m_current)
    BY <2>2 DEF LogFuture, Afters
  <2>4. LogDoc = IF m_replay \in {"redo", "cancel"} THEN Before(m_transactions[m_current + 1]) ELSE Doc
    BY <1>0, <1>3 DEF LogDoc
  <2>5. LogBase = IF m_opened /\ CurrentOps # <<>> THEN Before(m_transactions[m_current + 1]) ELSE LogDoc
    BY DEF LogBase
  <2> QED
    BY <1>0, <1>3, <2>1, <2>3, <2>4, <2>5 DEF LogViews, Replaying
<1> QED
  BY <1>2, <1>3

LEMMA LogViewsNext == (TypeOK => LogViews)'
BY LogViewsCorrect, PTL

(* Deleting transactions leaves the document alone.                        *)
LEMMA EraseKeepsDocument ==
  ASSUME TypeOK, ObjectInv, NEW ts \in Seq(TransactionRecord), NEW n \in 0..Len(ts),
         Len(ts) <= Len(m_transactions), \A i \in 1..Len(ts) : ts[i] = m_transactions[i],
         EraseFrom(n, ts)
  PROVE  Doc' = Doc
<1>1. \A c \in Cells : c \in HeldIn(SubSeq(ts, n + 1, Len(ts))) => where[c] = "op"
  BY HeldIsOwned
<1>2. m_prop_id' = m_prop_id
  BY DEF EraseFrom, Kill
<1>3. \A c \in Cells : where'[c] = "layout" <=> where[c] = "layout"
  BY <1>1 DEF EraseFrom, Kill
<1> QED
  BY <1>2, <1>3 DEF Doc

(* The documents before the transactions that stay are the same.           *)
LEMMA SameBefores ==
  ASSUME NEW ts, NEW us, NEW n \in Nat, \A i \in 1..n : Before(us[i]) = Before(ts[i])
  PROVE  Befores(us, n) = Befores(ts, n)
BY DEF Befores

(* What is committed on the way is the past of UndoLog.                    *)
LEMMA KeptPast ==
  ASSUME TypeOK, ~Replaying
  PROVE  /\ m_opened => LogFuture = <<>>
         /\ LogDoc = Doc
         /\ \/ m_opened /\ Befores(Kept, KeptCursor) = Append(LogPast, LogBase)
            \/ Befores(Kept, KeptCursor) = LogPast /\ LogDoc = LogBase
<1>0. /\ LogViews /\ m_replay = "no" /\ m_current \in Nat /\ Len(m_transactions) \in Nat
      /\ m_transactions \in Seq(TransactionRecord)
      /\ m_opened => m_current + 1 = Len(m_transactions)
  BY LogViewsCorrect DEF TypeOK, ListTypeOK, Replaying
<1>1. /\ Kept \in Seq(TransactionRecord) /\ Len(Kept) \in Nat
      /\ ~m_opened => Kept = m_transactions /\ KeptCursor = m_current
      /\ \A i \in 1..Len(Kept) : Kept[i] = m_transactions[i]
  BY KeptProperties
<1>2. CASE ~m_opened
  BY <1>0, <1>1, <1>2 DEF LogViews
<1>3. CASE m_opened /\ CurrentOps # <<>>
  <2>1. Kept = m_transactions /\ KeptCursor = m_current + 1
    BY <1>3 DEF Kept, KeptCursor, CommittedList, CommittedCursor
  <2>2. Befores(Kept, KeptCursor) = Append(LogPast, LogBase)
    BY <1>0, <1>3, <2>1, MoreBefores DEF LogViews
  <2> QED
    BY <1>0, <1>3, <2>2 DEF LogViews
<1>4. CASE m_opened /\ CurrentOps = <<>>
  <2>1. Kept = SubSeq(m_transactions, 1, m_current) /\ KeptCursor = m_current
    BY <1>4 DEF Kept, KeptCursor, CommittedList, CommittedCursor
  <2>2. \A i \in 1..m_current : Kept[i] = m_transactions[i]
    <3>1. m_current \in 0..Len(m_transactions)
      BY <1>0, <1>4
    <3> QED
      BY <1>0, <2>1, <3>1, Prefix
  <2>3. Befores(Kept, KeptCursor) = LogPast
    BY <1>0, <1>4, <2>1, <2>2, SameBefores DEF LogViews
  <2> QED
    BY <1>0, <1>4, <2>3 DEF LogViews
<1> QED
  BY <1>2, <1>3, <1>4

(* transaction() begins a transaction or continues the last one.           *)
LEMMA LogTransaction ==
  ASSUME TypeOK, TypeOK', ObjectInv, NEW join, Transaction(join), ~StaleJoin(join)
  PROVE  Log!Begin \/ Log!Join
<1>0. /\ ~Replaying /\ m_opened' = TRUE /\ m_current' = Len(m_transactions') - 1
      /\ JoinsKept(join) \/ AddsTransaction
  BY TransactionOutcome
<1>1. /\ Kept \in Seq(TransactionRecord) /\ Len(Kept) \in Nat
      /\ KeptCursor \in 0..Len(Kept) /\ KeptCursor \in Nat
      /\ Len(Kept) <= Len(m_transactions)
      /\ m_opened => KeptCursor = Len(Kept)
      /\ ~m_opened => Kept = m_transactions /\ KeptCursor = m_current
      /\ \A i \in 1..Len(Kept) : Kept[i] = m_transactions[i] /\ Kept[i].ops # <<>>
      /\ m_transactions \in Seq(TransactionRecord) /\ Len(m_transactions) \in Nat
  BY KeptProperties DEF TypeOK, ListTypeOK
<1>2. /\ m_opened => LogFuture = <<>>
      /\ LogDoc = Doc
      /\ \/ m_opened /\ Befores(Kept, KeptCursor) = Append(LogPast, LogBase)
         \/ Befores(Kept, KeptCursor) = LogPast /\ LogDoc = LogBase
  BY <1>0, KeptPast
<1>3. /\ LogDoc' = Doc'
      /\ LogBase' = IF CurrentOps' # <<>> THEN Before(m_transactions'[m_current' + 1]) ELSE Doc'
      /\ LogPast' = Befores(m_transactions', m_current')
      /\ LogFuture' = <<>>
  <2>1. LogViews'
    BY LogViewsNext
  <2> QED
    BY <1>0, <2>1 DEF LogViews, Befores
<1>4. CASE AddsTransaction
  <2>1. /\ EraseFrom(KeptCursor, Kept) /\ Len(m_transactions') = KeptCursor + 1
        /\ \A i \in 1..KeptCursor : m_transactions'[i] = Kept[i]
        /\ m_transactions'[KeptCursor + 1].ops = <<>>
    BY <1>4 DEF AddsTransaction
  <2>2. m_current' = KeptCursor /\ CurrentOps' = <<>>
    BY <1>0, <1>1, <2>1 DEF CurrentOps
  <2>3. Doc' = Doc
    BY <1>1, <2>1, EraseKeepsDocument
  <2>4. LogPast' = Befores(Kept, KeptCursor)
    BY <1>1, <1>3, <2>1, <2>2, SameBefores
  <2>5. LogDoc' = LogDoc /\ LogBase' = LogDoc
    BY <1>2, <1>3, <2>2, <2>3
  <2> QED
    BY <1>0, <1>2, <1>3, <2>4, <2>5 DEF Log!Begin, Log!Committed
<1>5. CASE JoinsKept(join)
  <2>1. /\ Kept # <<>> /\ m_transactions' = Kept /\ UNCHANGED objectVars
    BY <1>5 DEF JoinsKept
  <2>2. KeptCursor = Len(Kept) /\ LogFuture = <<>>
    <3>1. CASE m_opened
      BY <1>1, <1>2, <3>1
    <3>2. CASE ~m_opened
      <4>1. ~(m_current < Len(m_transactions))
        BY <1>0, <1>5, <3>2 DEF StaleJoin
      <4>2. m_current = Len(m_transactions)
        BY <1>1, <3>2, <4>1
      <4>3. LogFuture = Afters(m_transactions, m_current)
        <5>1. LogViews /\ m_replay = "no"
          BY <1>0, LogViewsCorrect DEF Replaying
        <5> QED
          BY <3>2, <5>1 DEF LogViews
      <4>4. Afters(m_transactions, m_current) = <<>>
        BY <1>1, <3>2, <4>2, NoAfters
      <4> QED
        BY <1>1, <3>2, <4>2, <4>3, <4>4
    <3> QED
      BY <3>1, <3>2
  <2>3. PICK n \in Nat : Len(Kept) = n + 1
    <3>1. Len(Kept) - 1 \in Nat /\ Len(Kept) = Len(Kept) - 1 + 1
      BY <1>1, <2>1
    <3> QED
      BY <3>1
  <2>4. PICK p : p = Befores(Kept, n + 1)
    OBVIOUS
  <2>5. p # <<>> /\ Log!Last(p) = Before(Kept[n + 1]) /\ Log!Front(p) = Befores(Kept, n)
    BY <2>4, MoreBefores
  <2>6. m_current' = n /\ m_transactions' = Kept
    BY <1>0, <2>1, <2>3
  <2>7. CurrentOps' # <<>>
    BY <1>1, <2>3, <2>6 DEF CurrentOps
  <2>8. LogBase' = Log!Last(p) /\ LogPast' = Log!Front(p)
    BY <1>3, <2>5, <2>6, <2>7
  <2>9. Doc' = Doc
    BY <2>1 DEF objectVars, Doc
  <2>10. p \in {LogPast, Append(LogPast, LogBase)} /\ Log!Committed(p)
    <3>1. \/ m_opened /\ p = Append(LogPast, LogBase)
          \/ p = LogPast /\ LogDoc = LogBase
      BY <1>2, <2>2, <2>3, <2>4
    <3> QED
      BY <3>1 DEF Log!Committed
  <2>11. LogDoc' = LogDoc /\ LogFuture' = LogFuture
    BY <1>2, <1>3, <2>2, <2>9
  <2>12. \E q \in {LogPast, Append(LogPast, LogBase)} :
            /\ Log!Committed(q) /\ q # <<>>
            /\ LogBase' = Log!Last(q) /\ LogPast' = Log!Front(q)
    BY <2>5, <2>8, <2>10
  <2> QED
    BY <1>0, <2>2, <2>11, <2>12 DEF Log!Join
<1> QED
  BY <1>0, <1>4, <1>5

(* commit() and cancel().                                                  *)
LEMMA LogClose ==
  ASSUME TypeOK, TypeOK', Commit \/ CancelPending
  PROVE  Log!Commit \/ Log!Cancel
<1>0. /\ m_opened /\ ~Replaying /\ m_opened' = FALSE /\ UNCHANGED objectVars /\ m_replay = "no"
      /\ m_transactions \in Seq(TransactionRecord) /\ Len(m_transactions) \in Nat
      /\ m_transactions' \in Seq(TransactionRecord)
      /\ m_current \in Nat /\ m_current \in 0..Len(m_transactions)
  BY DEF Commit, CancelPending, TypeOK, ListTypeOK, Replaying
<1>1. LogViews /\ LogViews'
  BY LogViewsCorrect, LogViewsNext
<1>2. Doc' = Doc
  BY <1>0 DEF objectVars, Doc
<1>3. CASE Commit
  <2>1. m_transactions' = Kept /\ m_current' = KeptCursor /\ m_replay' = "no"
    BY <1>0, <1>3 DEF Commit, Kept, KeptCursor, replayVars
  <2>2. KeptCursor = Len(Kept) /\ Kept \in Seq(TransactionRecord) /\ Len(Kept) \in Nat
    BY <1>0, KeptProperties
  <2>3. /\ LogFuture = <<>> /\ LogDoc = Doc
        /\ \/ m_opened /\ Befores(Kept, KeptCursor) = Append(LogPast, LogBase)
           \/ Befores(Kept, KeptCursor) = LogPast /\ LogDoc = LogBase
    BY <1>0, KeptPast
  <2>4. /\ LogDoc' = Doc' /\ LogBase' = Doc' /\ LogPast' = Befores(Kept, KeptCursor)
        /\ LogFuture' = Afters(Kept, KeptCursor)
    BY <1>0, <1>1, <2>1 DEF LogViews, Befores, Afters
  <2>5. Afters(Kept, KeptCursor) = <<>>
    BY <2>2, NoAfters
  <2>6. Log!Committed(LogPast')
    BY <2>3, <2>4 DEF Log!Committed
  <2> QED
    BY <1>0, <1>2, <2>3, <2>4, <2>5, <2>6 DEF Log!Commit
<1>4. CASE /\ CurrentOps # <<>> /\ m_replay' = "cancel" /\ pos' = Len(CurrentOps)
           /\ UNCHANGED <<m_transactions, m_current>>
  <2>1. /\ LogDoc' = Before(m_transactions[m_current + 1]) /\ LogBase' = LogDoc'
        /\ LogPast' = Befores(m_transactions, m_current) /\ LogFuture' = <<>>
    BY <1>1, <1>4 DEF LogViews, Befores, Before
  <2>2. /\ LogBase = Before(m_transactions[m_current + 1])
        /\ LogPast = Befores(m_transactions, m_current) /\ LogFuture = <<>>
    BY <1>0, <1>1, <1>4 DEF LogViews
  <2> QED
    BY <1>0, <2>1, <2>2 DEF Log!Cancel
<1>5. CASE /\ CurrentOps = <<>> /\ m_transactions' = SubSeq(m_transactions, 1, m_current)
           /\ UNCHANGED <<m_current, replayVars>>
  <2>1. /\ Len(m_transactions') = m_current
        /\ \A i \in 1..m_current : m_transactions'[i] = m_transactions[i]
    BY <1>0, <1>5, Prefix
  <2>2. /\ LogDoc' = Doc' /\ LogBase' = Doc' /\ LogPast' = Befores(m_transactions', m_current)
        /\ LogFuture' = Afters(m_transactions', m_current)
    BY <1>0, <1>1, <1>5 DEF LogViews, Befores, Afters, replayVars
  <2>3. /\ LogBase = Doc /\ LogPast = Befores(m_transactions, m_current) /\ LogFuture = <<>>
    BY <1>0, <1>1, <1>5 DEF LogViews
  <2>4. Befores(m_transactions', m_current) = Befores(m_transactions, m_current)
    BY <1>0, <2>1, SameBefores
  <2>5. Afters(m_transactions', m_current) = <<>>
    BY <1>0, <2>1, NoAfters
  <2> QED
    BY <1>0, <1>2, <2>2, <2>3, <2>4, <2>5 DEF Log!Cancel
<1> QED
  BY <1>3, <1>4, <1>5 DEF CancelPending

(* UndoLog goes back when undo ends, not when it starts.                   *)
LEMMA LogStart ==
  ASSUME TypeOK, TypeOK', HistoryInv(0), StartUndo \/ Redo
  PROVE  UNCHANGED Log!logVars
<1>0. /\ ~m_opened /\ ~Replaying /\ m_replay = "no" /\ UNCHANGED <<objectVars, m_transactions, m_opened>>
      /\ m_transactions \in Seq(TransactionRecord) /\ Len(m_transactions) \in Nat
      /\ m_current \in Nat /\ m_current \in 0..Len(m_transactions)
      /\ \A i \in 1..Len(m_transactions) : m_transactions[i].ops # <<>>
      /\ AtCursor(m_transactions, m_current, 0, 0)
  BY DEF StartUndo, Redo, listVars, TypeOK, ListTypeOK, Replaying, HistoryInv, HistoryOK, DonePart
<1>1. LogViews /\ LogViews'
  BY LogViewsCorrect, LogViewsNext
<1>2. /\ LogDoc = Doc /\ LogBase = Doc
      /\ LogPast = Befores(m_transactions, m_current)
      /\ LogFuture = Afters(m_transactions, m_current)
  BY <1>0, <1>1 DEF LogViews
<1>3. CASE StartUndo
  <2>1. m_current > 0 /\ m_current' = m_current - 1 /\ m_replay' = "undo"
    BY <1>3 DEF StartUndo
  <2>2. m_current' + 1 = m_current
    BY <1>0, <2>1
  <2>3. /\ LogDoc' = After(m_transactions[m_current]) /\ LogBase' = LogDoc'
        /\ LogPast' = Befores(m_transactions, m_current)
        /\ LogFuture' = Afters(m_transactions, m_current)
    BY <1>0, <1>1, <2>1, <2>2 DEF LogViews, Befores, Afters, After
  <2>4. Doc = After(m_transactions[m_current])
    BY <1>0, <2>1 DEF AtCursor, After
  <2> QED
    BY <1>0, <1>2, <2>3, <2>4 DEF Log!logVars
<1>4. CASE Redo
  <2>1. m_current' = m_current /\ m_replay' = "redo" /\ m_current < Len(m_transactions)
    BY <1>4 DEF Redo, listVars
  <2>2. /\ LogDoc' = Before(m_transactions[m_current + 1]) /\ LogBase' = LogDoc'
        /\ LogPast' = Befores(m_transactions, m_current)
        /\ LogFuture' = Afters(m_transactions, m_current)
    BY <1>0, <1>1, <2>1 DEF LogViews, Befores, Afters, Before
  <2>3. Doc = Before(m_transactions[m_current + 1])
    <3>1. m_current + 1 \in 1..Len(m_transactions)
      BY <1>0, <2>1
    <3>2. 0 < Len(m_transactions[m_current + 1].ops)
      BY <1>0, <3>1, ListTypes
    <3> QED
      BY <1>0, <2>1, <3>2 DEF AtCursor, Before
  <2> QED
    BY <1>0, <1>2, <2>2, <2>3 DEF Log!logVars
<1> QED
  BY <1>3, <1>4

LEMMA SameAfters ==
  ASSUME NEW ts \in Seq(TransactionRecord), NEW us \in Seq(TransactionRecord), NEW n \in Nat,
         Len(us) = Len(ts), \A i \in 1..Len(ts) : After(us[i]) = After(ts[i])
  PROVE  Afters(us, n) = Afters(ts, n)
<1>1. \A i \in 1..(Len(ts) - n) : n + i \in 1..Len(ts)
  OBVIOUS
<1> QED
  BY <1>1 DEF Afters

(* Nor while operations are replayed.                                      *)
LEMMA LogReplay ==
  ASSUME TypeOK, TypeOK', ReplayOp
  PROVE  UNCHANGED Log!logVars
<1>0. /\ ~m_opened /\ m_opened' = m_opened /\ m_replay' = m_replay /\ m_current' = m_current
      /\ m_current \in Nat /\ m_replay \in {"undo", "cancel", "redo"}
      /\ m_transactions \in Seq(TransactionRecord) /\ Len(m_transactions) \in Nat
      /\ m_transactions' \in Seq(TransactionRecord)
      /\ \A i \in 1..Len(m_transactions) : m_transactions[i].ops # <<>>
  BY DEF ReplayOp, TypeOK, ListTypeOK, ReplayTypeOK, Replaying
<1>1. PICK k \in Nat : k = m_current + 1
  BY <1>0
<1>2. /\ k \in 1..Len(m_transactions) /\ k <= Len(m_transactions)
      /\ pos \in 1..Len(m_transactions[k].ops)
      /\ Len(m_transactions') = Len(m_transactions)
      /\ \A i \in 1..Len(m_transactions) : i # k => m_transactions'[i] = m_transactions[i]
      /\ Len(m_transactions'[k].ops) = Len(m_transactions[k].ops)
      /\ m_transactions[k].ops[pos] \in Op
      /\ \A j \in 1..Len(m_transactions[k].ops) :
           m_transactions'[k].ops[j] = IF j = pos THEN Replayed(m_transactions[k].ops[j])
                                       ELSE m_transactions[k].ops[j]
  BY <1>1, MarkedOperation
<1>3. \A o \in Op : Replayed(o).pre = o.pre /\ Replayed(o).post = o.post
  BY DEF Replayed, Op
<1>4. ASSUME NEW i \in 1..Len(m_transactions)
      PROVE  Before(m_transactions'[i]) = Before(m_transactions[i]) /\ After(m_transactions'[i]) = After(m_transactions[i])
  <2>1. CASE i # k
    BY <1>2, <2>1
  <2>2. CASE i = k
    <3>1. PICK len \in Nat : len = Len(m_transactions[k].ops) /\ len >= 1
      BY <1>0, <1>2, ListTypes
    <3>2. \A j \in 1..len : /\ m_transactions'[k].ops[j].pre = m_transactions[k].ops[j].pre
                            /\ m_transactions'[k].ops[j].post = m_transactions[k].ops[j].post
      BY <1>2, <1>3, <3>1
    <3>3. Len(m_transactions'[k].ops) = len /\ 1 \in 1..len /\ len \in 1..len
      BY <1>2, <3>1
    <3> QED
      BY <2>2, <3>1, <3>2, <3>3 DEF Before, After, Last
  <2> QED
    BY <2>1, <2>2
<1>5. LogViews /\ LogViews'
  BY LogViewsCorrect, LogViewsNext
<1>6. \A n \in Nat : Afters(m_transactions', n) = Afters(m_transactions, n)
  BY <1>0, <1>2, <1>4, SameAfters
<1>7. Befores(m_transactions', m_current) = Befores(m_transactions, m_current)
  <2>1. \A i \in 1..m_current : i \in 1..Len(m_transactions)
    BY <1>0, <1>1, <1>2
  <2> QED
    BY <1>0, <1>4, <2>1, SameBefores
<1>8. Befores(m_transactions', m_current + 1) = Befores(m_transactions, m_current + 1)
  <2>1. \A i \in 1..(m_current + 1) : i \in 1..Len(m_transactions)
    BY <1>0, <1>1, <1>2
  <2>2. m_current + 1 \in Nat
    BY <1>0
  <2> QED
    BY <1>4, <2>1, <2>2, SameBefores
<1>9. /\ Before(m_transactions'[m_current + 1]) = Before(m_transactions[m_current + 1])
      /\ After(m_transactions'[m_current + 1]) = After(m_transactions[m_current + 1])
      /\ m_current + 1 \in Nat
  BY <1>0, <1>1, <1>2, <1>4
<1>10. CASE m_replay = "undo"
  <2>1. /\ LogDoc' = After(m_transactions'[m_current + 1]) /\ LogBase' = LogDoc'
        /\ LogPast' = Befores(m_transactions', m_current + 1)
        /\ LogFuture' = Afters(m_transactions', m_current + 1)
    BY <1>0, <1>5, <1>10 DEF LogViews, Befores, Afters, After
  <2>2. /\ LogDoc = After(m_transactions[m_current + 1]) /\ LogBase = LogDoc
        /\ LogPast = Befores(m_transactions, m_current + 1)
        /\ LogFuture = Afters(m_transactions, m_current + 1)
    BY <1>5, <1>10 DEF LogViews
  <2> QED
    BY <1>0, <1>6, <1>8, <1>9, <2>1, <2>2 DEF Log!logVars
<1>11. CASE m_replay = "redo"
  <2>1. /\ LogDoc' = Before(m_transactions'[m_current + 1]) /\ LogBase' = LogDoc'
        /\ LogPast' = Befores(m_transactions', m_current)
        /\ LogFuture' = Afters(m_transactions', m_current)
    BY <1>0, <1>5, <1>11 DEF LogViews, Befores, Afters, Before
  <2>2. /\ LogDoc = Before(m_transactions[m_current + 1]) /\ LogBase = LogDoc
        /\ LogPast = Befores(m_transactions, m_current)
        /\ LogFuture = Afters(m_transactions, m_current)
    BY <1>5, <1>11 DEF LogViews
  <2> QED
    BY <1>0, <1>6, <1>7, <1>9, <2>1, <2>2 DEF Log!logVars
<1>12. CASE m_replay = "cancel"
  <2>1. /\ LogDoc' = Before(m_transactions'[m_current + 1]) /\ LogBase' = LogDoc'
        /\ LogPast' = Befores(m_transactions', m_current) /\ LogFuture' = <<>>
    BY <1>0, <1>5, <1>12 DEF LogViews, Befores, Before
  <2>2. /\ LogDoc = Before(m_transactions[m_current + 1]) /\ LogBase = LogDoc
        /\ LogPast = Befores(m_transactions, m_current) /\ LogFuture = <<>>
    BY <1>5, <1>12 DEF LogViews
  <2> QED
    BY <1>0, <1>7, <1>9, <2>1, <2>2 DEF Log!logVars
<1> QED
  BY <1>0, <1>10, <1>11, <1>12

(* UndoLog goes back, or forward, when the replay ends.                    *)
LEMMA LogEnd ==
  ASSUME TypeOK, TypeOK', ObjectInv, HistoryInv(0), ReplayEnds
  PROVE  Log!Undo \/ Log!Redo \/ UNCHANGED Log!logVars
<1>0. /\ ~m_opened /\ m_opened' = m_opened /\ m_opened' = FALSE /\ m_replay' = "no"
      /\ m_replay \in {"undo", "cancel", "redo"}
      /\ m_current \in Nat /\ m_current < Len(m_transactions) /\ Len(m_transactions) \in Nat
      /\ m_transactions \in Seq(TransactionRecord) /\ m_transactions' \in Seq(TransactionRecord)
  BY DEF ReplayEnds, TypeOK, ListTypeOK, ReplayTypeOK, Replaying
<1>1. LogViews /\ LogViews'
  BY LogViewsCorrect, LogViewsNext
<1>2. Doc = IF Forward THEN After(m_transactions[m_current + 1]) ELSE Before(m_transactions[m_current + 1])
  <2>1. 0 \in Nat
    OBVIOUS
  <2> QED
    BY <2>1, RestoredDocument DEF CurrentOps, Before, After
<1>3. /\ LogDoc' = Doc' /\ LogBase' = Doc'
      /\ LogPast' = Befores(m_transactions', m_current')
      /\ LogFuture' = Afters(m_transactions', m_current')
  BY <1>0, <1>1 DEF LogViews, Befores, Afters
<1>4. CASE m_replay = "undo"
  <2>1. m_transactions' = m_transactions /\ UNCHANGED objectVars /\ m_current' = m_current
    BY <1>4 DEF ReplayEnds, Forward
  <2>2. Doc' = Doc /\ Doc = Before(m_transactions[m_current + 1])
    BY <1>2, <1>4, <2>1 DEF Doc, objectVars, Forward
  <2>3. /\ LogDoc = After(m_transactions[m_current + 1])
        /\ LogPast = Befores(m_transactions, m_current + 1)
        /\ LogFuture = Afters(m_transactions, m_current + 1)
    BY <1>1, <1>4 DEF LogViews
  <2>4. /\ LogPast # <<>> /\ Log!Last(LogPast) = Before(m_transactions[m_current + 1])
        /\ Log!Front(LogPast) = Befores(m_transactions, m_current)
    BY <1>0, <2>3, MoreBefores
  <2>5. Afters(m_transactions, m_current) = <<LogDoc>> \o LogFuture
    BY <1>0, <2>3, MoreAfters
  <2>6. /\ LogDoc' = Log!Last(LogPast) /\ LogBase' = LogDoc' /\ LogPast' = Log!Front(LogPast)
        /\ LogFuture' = <<LogDoc>> \o LogFuture
    BY <1>3, <2>1, <2>2, <2>4, <2>5
  <2> QED
    BY <1>0, <2>4, <2>6 DEF Log!Undo
<1>5. CASE m_replay = "redo"
  <2>1. m_transactions' = m_transactions /\ UNCHANGED objectVars /\ m_current' = m_current + 1
    BY <1>5 DEF ReplayEnds, Forward
  <2>2. Doc' = Doc /\ Doc = After(m_transactions[m_current + 1])
    BY <1>2, <1>5, <2>1 DEF Doc, objectVars, Forward
  <2>3. /\ LogDoc = Before(m_transactions[m_current + 1])
        /\ LogPast = Befores(m_transactions, m_current)
        /\ LogFuture = Afters(m_transactions, m_current)
    BY <1>1, <1>5 DEF LogViews
  <2>4. /\ LogFuture # <<>> /\ Head(LogFuture) = After(m_transactions[m_current + 1])
        /\ Tail(LogFuture) = Afters(m_transactions, m_current + 1)
    BY <1>0, <2>3, MoreAfters
  <2>5. Befores(m_transactions, m_current + 1) = Append(LogPast, LogDoc)
    BY <1>0, <2>3, MoreBefores
  <2>6. /\ LogDoc' = Head(LogFuture) /\ LogBase' = LogDoc' /\ LogPast' = Append(LogPast, LogDoc)
        /\ LogFuture' = Tail(LogFuture)
    BY <1>3, <2>1, <2>2, <2>4, <2>5
  <2> QED
    BY <1>0, <2>4, <2>6 DEF Log!Redo
<1>6. CASE m_replay = "cancel"
  <2>1. /\ m_transactions' = SubSeq(m_transactions, 1, m_current)
        /\ EraseFrom(m_current, m_transactions) /\ m_current' = m_current
    BY <1>6 DEF ReplayEnds, Forward
  <2>2. m_current \in 0..Len(m_transactions)
    BY <1>0
  <2>3. Doc' = Doc
    <3>1. /\ Len(m_transactions) <= Len(m_transactions)
          /\ \A i \in 1..Len(m_transactions) : m_transactions[i] = m_transactions[i]
      BY <1>0
    <3> QED
      BY <1>0, <2>1, <2>2, <3>1, EraseKeepsDocument
  <2>4. Doc = Before(m_transactions[m_current + 1])
    BY <1>2, <1>6 DEF Forward
  <2>5. /\ Len(m_transactions') = m_current
        /\ \A i \in 1..m_current : m_transactions'[i] = m_transactions[i]
    BY <1>0, <2>1, <2>2, Prefix
  <2>6. Befores(m_transactions', m_current) = Befores(m_transactions, m_current)
    BY <1>0, <2>5, SameBefores
  <2>7. Afters(m_transactions', m_current) = <<>>
    BY <1>0, <2>5, NoAfters
  <2>8. /\ LogDoc = Before(m_transactions[m_current + 1]) /\ LogBase = LogDoc
        /\ LogPast = Befores(m_transactions, m_current) /\ LogFuture = <<>>
    BY <1>1, <1>6 DEF LogViews
  <2>9. /\ LogDoc' = LogDoc /\ LogBase' = LogBase /\ LogPast' = LogPast /\ LogFuture' = LogFuture
    BY <1>3, <2>1, <2>3, <2>4, <2>6, <2>7, <2>8
  <2> QED
    BY <1>0, <2>9 DEF Log!logVars
<1> QED
  BY <1>0, <1>4, <1>5, <1>6

(* clear().                                                                *)
LEMMA LogForget ==
  ASSUME TypeOK, TypeOK', ObjectInv, ~Replaying, EraseAll, m_replay' = m_replay
  PROVE  Log!Forget
<1>0. /\ m_transactions' = <<>> /\ m_current' = 0 /\ m_opened' = FALSE
      /\ m_replay = "no" /\ m_replay' = "no"
      /\ EraseFrom(0, m_transactions)
      /\ m_transactions \in Seq(TransactionRecord) /\ Len(m_transactions) \in Nat
      /\ m_transactions' \in Seq(TransactionRecord)
  BY DEF EraseAll, Replaying, TypeOK, ListTypeOK
<1>1. LogViews /\ LogViews'
  BY LogViewsCorrect, LogViewsNext
<1>2. Doc' = Doc
  <2>1. /\ Len(m_transactions) <= Len(m_transactions) /\ 0 \in 0..Len(m_transactions)
        /\ \A i \in 1..Len(m_transactions) : m_transactions[i] = m_transactions[i]
    BY <1>0
  <2> QED
    BY <1>0, <2>1, EraseKeepsDocument
<1>3. LogDoc = Doc
  BY <1>0, <1>1 DEF LogViews, TypeOK, ListTypeOK
<1>4. /\ LogDoc' = Doc' /\ LogBase' = Doc'
      /\ LogPast' = Befores(m_transactions', 0)
      /\ LogFuture' = Afters(m_transactions', 0)
  BY <1>0, <1>1 DEF LogViews, Befores, Afters
<1>5. Befores(m_transactions', 0) = <<>>
  BY DEF Befores
<1>6. Afters(m_transactions', 0) = <<>>
  <2>1. 0 \in Nat /\ Len(m_transactions') = 0 /\ 0 >= Len(m_transactions')
    BY <1>0
  <2> QED
    BY <1>0, <2>1, NoAfters
<1> QED
  BY <1>0, <1>2, <1>3, <1>4, <1>5, <1>6 DEF Log!Forget

(* A queued operation leaves the document that the transaction started     *)
(* from, which is the one before its first operation.                      *)
LEMMA LogQueue ==
  ASSUME TypeOK, TypeOK', m_opened, UNCHANGED <<m_current, m_opened, replayVars>>,
         NEW id, NEW kind, NEW c, NEW held, NEW from, NEW to, Queue(id, kind, c, held, from, to)
  PROVE  Log!Edit
<1>0. /\ m_current \in Nat /\ m_current' = m_current /\ m_opened' = m_opened
      /\ m_transactions \in Seq(TransactionRecord) /\ Len(m_transactions) \in Nat
      /\ m_current + 1 = Len(m_transactions)
  BY DEF TypeOK, ListTypeOK
<1>1. PICK k \in Nat : k = m_current + 1
  BY <1>0
<1>2. PICK len \in Nat : len = Len(m_transactions[k].ops) /\ (CurrentOps # <<>> <=> len >= 1)
  <2>1. k \in 1..Len(m_transactions)
    BY <1>0, <1>1
  <2> QED
    BY <1>0, <1>1, <2>1, ListTypes DEF CurrentOps
<1>3. /\ \A i \in 1..Len(m_transactions) : i # k => m_transactions'[i] = m_transactions[i]
      /\ Len(m_transactions'[k].ops) = len + 1
      /\ \A j \in 1..len : m_transactions'[k].ops[j] = m_transactions[k].ops[j]
      /\ m_transactions'[k].ops[len + 1] = NewOp(id, kind, c, held, from, to)
  BY <1>1, <1>2, QueuedOperation
<1>4. LogViews /\ LogViews'
  BY LogViewsCorrect, LogViewsNext
<1>5. CurrentOps' # <<>> /\ CurrentOps' = m_transactions'[k].ops
  <2>1. CurrentOps' = m_transactions'[k].ops
    BY <1>0, <1>1 DEF CurrentOps
  <2>2. Len(m_transactions'[k].ops) # 0
    BY <1>2, <1>3
  <2> QED
    BY <2>1, <2>2
<1>6. /\ LogBase' = Before(m_transactions'[k])
      /\ LogPast' = Befores(m_transactions', m_current) /\ LogFuture' = <<>>
  BY <1>0, <1>1, <1>4, <1>5 DEF LogViews, Befores, Before
<1>7. /\ LogBase = IF CurrentOps # <<>> THEN Before(m_transactions[k]) ELSE Doc
      /\ LogPast = Befores(m_transactions, m_current) /\ LogFuture = <<>>
  BY <1>1, <1>4 DEF LogViews
<1>8. Befores(m_transactions', m_current) = Befores(m_transactions, m_current)
  <2>1. \A i \in 1..m_current : Before(m_transactions'[i]) = Before(m_transactions[i])
    BY <1>0, <1>1, <1>3
  <2> QED
    BY <1>0, <2>1, SameBefores
<1>9. Before(m_transactions'[k]) = IF CurrentOps # <<>> THEN Before(m_transactions[k]) ELSE Doc
  <2>1. CASE len >= 1
    <3>1. 1 \in 1..len
      BY <2>1
    <3>2. m_transactions'[k].ops[1] = m_transactions[k].ops[1]
      BY <1>3, <3>1
    <3> QED
      BY <1>2, <2>1, <3>2 DEF Before
  <2>2. CASE len = 0
    <3>1. m_transactions'[k].ops[1] = NewOp(id, kind, c, held, from, to)
      BY <1>3, <2>2
    <3>2. NewOp(id, kind, c, held, from, to).pre = Doc
      BY DEF NewOp
    <3>3. ~(len >= 1)
      BY <2>2
    <3> QED
      BY <1>2, <3>1, <3>2, <3>3 DEF Before
  <2> QED
    BY <2>1, <2>2
<1> QED
  BY <1>0, <1>6, <1>7, <1>8, <1>9 DEF Log!Edit

(* The changes of the layout.                                              *)
LEMMA LogChange ==
  ASSUME ~Unlogged, TypeOK, TypeOK', NEW c \in Cells,
         AddCell(c) \/ DeleteCell(c) \/ \E p \in Props : SetPropId(c, p)
  PROVE  Log!Edit \/ Log!EditUnlogged
<1>0. /\ ~Replaying /\ UNCHANGED <<m_current, m_opened, replayVars>>
      /\ m_opened \/ m_transactions = <<>>
  BY DEF AddCell, DeleteCell, SetPropId, MayChange, Unaffected
<1>1. PICK id, kind, held, from, to : Queue(id, kind, c, held, from, to)
  BY DEF AddCell, DeleteCell, SetPropId
<1>2. CASE m_opened
  BY <1>0, <1>1, <1>2, LogQueue
<1>3. CASE ~m_opened
  <2>1. /\ m_transactions = <<>> /\ m_transactions' = <<>> /\ m_current = 0 /\ m_current' = 0
        /\ m_replay = "no" /\ m_replay' = "no" /\ m_opened' = m_opened
        /\ Len(m_transactions) = 0 /\ Len(m_transactions') = 0
        /\ m_transactions \in Seq(TransactionRecord) /\ m_transactions' \in Seq(TransactionRecord)
    <3>1. m_transactions = <<>> /\ m_transactions' = <<>>
      BY <1>0, <1>1, <1>3 DEF Queue
    <3>2. m_current = 0 /\ m_replay = "no"
      BY <1>0, <3>1 DEF TypeOK, ListTypeOK, Replaying
    <3> QED
      BY <1>0, <3>1, <3>2 DEF replayVars
  <2>2. LogViews /\ LogViews'
    BY LogViewsCorrect, LogViewsNext
  <2>3. /\ LogDoc' = Doc' /\ LogBase' = Doc'
        /\ LogPast' = Befores(m_transactions', 0) /\ LogFuture' = Afters(m_transactions', 0)
    BY <1>3, <2>1, <2>2 DEF LogViews, Befores, Afters
  <2>4. LogPast = Befores(m_transactions, 0) /\ LogFuture = Afters(m_transactions, 0)
    BY <1>3, <2>1, <2>2 DEF LogViews
  <2>5. Befores(m_transactions', 0) = <<>> /\ Befores(m_transactions, 0) = <<>>
    BY DEF Befores
  <2>6. Afters(m_transactions', 0) = <<>> /\ Afters(m_transactions, 0) = <<>>
    <3>1. 0 \in Nat /\ 0 >= Len(m_transactions') /\ 0 >= Len(m_transactions)
      BY <2>1
    <3> QED
      BY <2>1, <3>1, NoAfters
  <2> QED
    BY <1>3, <2>1, <2>3, <2>4, <2>5, <2>6 DEF Log!EditUnlogged
<1> QED
  BY <1>2, <1>3

(* What is not a call of the manager, or does nothing, is no step.         *)
LEMMA LogIdle ==
  ASSUME UNCHANGED <<listVars, replayVars, objectVars>>
  PROVE  UNCHANGED Log!logVars
<1>1. LogDoc' = LogDoc
  BY DEF listVars, replayVars, objectVars, LogDoc, Doc
<1>2. LogPast' = LogPast
  BY DEF listVars, replayVars, LogPast
<1>3. LogFuture' = LogFuture
  BY <1>2 DEF listVars, replayVars, LogFuture
<1>4. LogBase' = LogBase
  BY <1>1 DEF listVars, LogBase, CurrentOps
<1> QED
  BY <1>1, <1>2, <1>3, <1>4 DEF Log!logVars, listVars

(* A replay that cannot fail does not: nothing is lost half way.           *)
LEMMA NoReplayFails ==
  ASSUME ~Breakable, TypeOK, ObjectInv, HistoryInv(0)
  PROVE  ~ReplayFails
<1> SUFFICES ASSUME ReplayFails PROVE FALSE
  OBVIOUS
<1>1. Replaying /\ pos \in DOMAIN CurrentOps /\ ~Replayable(CurrentOps[pos])
  BY DEF ReplayFails
<1> QED
  BY <1>1, ReplayableOperation

(* Every step of the manager is one of UndoLog, or changes nothing there.  *)
LEMMA LogStep ==
  ASSUME ~Unlogged, ~Breakable, TypeOK, TypeOK', ObjectInv, HistoryInv(0), TicketInv, [Next]_vars
  PROVE  [Log!Next]_(Log!logVars)
<1>1. CASE Begin \/ OpenScope
  <2>1. Transaction(0) /\ ~StaleJoin(0)
    BY <1>1, NoStaleJoin DEF Begin, OpenScope
  <2> QED
    BY <2>1, LogTransaction DEF Log!Next
<1>2. CASE BeginJoined \/ ReopenScope
  <2>1. Transaction(ticket.addr) /\ ~StaleJoin(ticket.addr)
    BY <1>2, NoStaleJoin DEF BeginJoined, ReopenScope
  <2> QED
    BY <2>1, LogTransaction DEF Log!Next
<1>3. CASE End \/ Cancel \/ EndJoined \/ CloseScope \/ CancelScope \/ EndScope
  <2>1. Commit \/ CancelPending \/ UNCHANGED <<listVars, replayVars, objectVars>>
    BY <1>3 DEF End, Cancel, EndJoined, CloseScope, CancelScope, EndScope
  <2> QED
    BY <2>1, LogClose, LogIdle DEF Log!Next
<1>4. CASE CancelDialog \/ Undo \/ Redo
  <2>1. StartUndo \/ Redo \/ UNCHANGED <<listVars, replayVars, objectVars>>
    BY <1>4 DEF CancelDialog, Undo
  <2> QED
    BY <2>1, LogStart, LogIdle
<1>5. ASSUME NEW c \in Cells, AddCell(c) \/ DeleteCell(c) \/ \E p \in Props : SetPropId(c, p)
      PROVE  Log!Next
  BY <1>5, LogChange DEF Log!Next
<1>6. CASE ReplayOp
  BY <1>6, LogReplay
<1>7. CASE ReplayEnds
  BY <1>7, LogEnd DEF Log!Next
<1>8. CASE ReplayFails
  BY <1>8, NoReplayFails
<1>9. CASE Clear
  <2>1. ~Replaying /\ EraseAll /\ m_replay' = m_replay
    BY <1>9 DEF Clear, replayVars
  <2> QED
    BY <2>1, LogForget DEF Log!Next
<1>10. CASE UNCHANGED vars
  BY <1>10, LogIdle DEF vars
<1> QED
  BY <1>1, <1>2, <1>3, <1>4, <1>5, <1>6, <1>7, <1>8, <1>9, <1>10 DEF Next

LEMMA LogInit == TypeOK /\ Init => Log!Init
<1> SUFFICES ASSUME TypeOK, Init PROVE Log!Init
  OBVIOUS
<1>1. /\ m_transactions = <<>> /\ Len(m_transactions) = 0 /\ m_current = 0 /\ m_opened = FALSE
      /\ m_replay = "no" /\ m_transactions \in Seq(TransactionRecord)
  BY DEF Init
<1>2. LogViews
  BY LogViewsCorrect
<1>3. /\ LogDoc = Doc /\ LogBase = Doc
      /\ LogPast = Befores(m_transactions, 0) /\ LogFuture = Afters(m_transactions, 0)
  BY <1>1, <1>2 DEF LogViews
<1>4. Befores(m_transactions, 0) = <<>>
  BY DEF Befores
<1>5. Afters(m_transactions, 0) = <<>>
  <2>1. 0 \in Nat /\ 0 >= Len(m_transactions)
    BY <1>1
  <2> QED
    BY <1>1, <2>1, NoAfters
<1> QED
  BY <1>1, <1>3, <1>4, <1>5 DEF Log!Init

(* The manager, with ids, operations, flags and cells that change hands,   *)
(* implements UndoLog: a transaction is undone and redone as a whole, and  *)
(* undo and redo go back and forth between documents that were there.      *)
(* This needs what the code relies on: every change is made inside a       *)
(* transaction or clears the history, no client joins a transaction that   *)
(* was undone, and the user does not break a replay.                       *)
THEOREM UndoLogImplemented ==
  ASSUME ~Unlogged, Remembered, ~Breakable
  PROVE  Spec => LogSpec
<1>1. TypeOK /\ TypeOK' /\ ObjectInv /\ (HistoryInv(0) /\ TicketInv) /\ [Next]_vars
        => [Log!Next]_(Log!logVars)
  BY LogStep
<1> QED
  BY <1>1, LogInit, TypeCorrect, ObjectInvCorrect, WholeHistoryCorrect, PTL
     DEF Spec, LogSpec, Log!Spec
=============================================================================

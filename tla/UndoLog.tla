------------------------------ MODULE UndoLog ------------------------------
(***************************************************************************)
(* What undo and redo promise, without operations, object ids or flags:    *)
(* the document, the states the undo steps go back to and the states the   *)
(* redo steps go forward to.  A transaction is undone and redone as a      *)
(* whole, and redoing what was undone gives the document of before.        *)
(***************************************************************************)
EXTENDS Sequences, SequencesExt

VARIABLES
  doc,      \* the document
  past,     \* the document before each transaction that can be undone
  future,   \* the document after each transaction that can be redone
  open,     \* a transaction is open
  base      \* the document the open transaction started from

logVars == <<doc, past, future, open, base>>

Init == past = <<>> /\ future = <<>> /\ ~open /\ base = doc

(* The history after the open transaction, if any, was committed: empty    *)
(* transactions leave no trace.                                            *)
Committed(p) == \/ p = Append(past, base) /\ open
                \/ p = past /\ doc = base

Begin == /\ Committed(past')
         /\ open' /\ base' = doc
         /\ future' = <<>>
         /\ UNCHANGED doc

Join == /\ \E p \in {past, Append(past, base)} :
             /\ Committed(p)
             /\ p # <<>>
             /\ base' = Last(p) /\ past' = Front(p)
        /\ future = <<>>
        /\ open'
        /\ UNCHANGED <<doc, future>>

Edit == open /\ UNCHANGED <<past, future, open, base>>

Commit == /\ open /\ ~open'
          /\ Committed(past')
          /\ base' = doc
          /\ UNCHANGED <<doc, future>>

Cancel == /\ open /\ ~open'
          /\ doc' = base /\ base' = base
          /\ UNCHANGED <<past, future>>

Undo == /\ ~open /\ past # <<>>
        /\ doc' = Last(past) /\ base' = doc'
        /\ past' = Front(past)
        /\ future' = <<doc>> \o future
        /\ UNCHANGED open

Redo == /\ ~open /\ future # <<>>
        /\ doc' = Head(future) /\ base' = doc'
        /\ past' = Append(past, doc)
        /\ future' = Tail(future)
        /\ UNCHANGED open

Forget == /\ past' = <<>> /\ future' = <<>> /\ ~open'
          /\ base' = doc
          /\ UNCHANGED doc

(* Changes that are not recorded need an empty history.                    *)
EditUnlogged == /\ ~open /\ past = <<>> /\ future = <<>>
                /\ base' = doc'
                /\ UNCHANGED <<past, future, open>>

Next == \/ Begin \/ Join \/ Edit \/ Commit \/ Cancel
        \/ Undo \/ Redo \/ Forget \/ EditUnlogged

Spec == Init /\ [][Next]_logVars
=============================================================================

CONSTANTS
  Cells = {c1, c2}
  Layout = Layout
  NoObject = NoObject
  Props = {0, 1}
  MaxOps = 2
  MaxTransactions = 2
  Clients = {"joining", "scope"}
  Forgetful = FALSE
  EmptyClose = FALSE
  ReuseAddresses = TRUE
  Breakable = TRUE
  Unlogged = FALSE
SYMMETRY CellSymmetry
SPECIFICATION Spec
INVARIANTS CellsOwnedOnce IdsExact ScopeIsOneTransaction
PROPERTIES UndoExact

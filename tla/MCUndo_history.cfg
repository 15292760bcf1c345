CONSTANTS
  Cells = {c1, c2}
  Layout = Layout
  NoObject = NoObject
  Props = {0, 1}
  MaxOps = 2
  MaxTransactions = 3
  Clients = {"plain", "joining"}
  Forgetful = TRUE
  EmptyClose = FALSE
  ReuseAddresses = FALSE
  Breakable = FALSE
  Unlogged = FALSE
SYMMETRY CellSymmetry
SPECIFICATION Spec
INVARIANTS TypeOK AssertionsHold
PROPERTIES LogSpec

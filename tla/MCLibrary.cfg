CONSTANTS
  Libs = {A, B}
  NoLib = NoLib
  Names = {lib, other}
  NoName = NoName
  Techs = {"T", "none"}
  Generic = "none"
  CellNames = {"cell", "pcell"}
  PCells = {"pcell"}
  Files = {{"cell", "pcell"}}
  Views = {v1}
  MaxProxies = 2
  MaxIndex = 2
SYMMETRY Symmetry
CHECK_DEADLOCK FALSE
SPECIFICATION Spec
INVARIANTS ProxiesResolve CountsExact
PROPERTIES NoneLeftCold

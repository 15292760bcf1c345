CONSTANTS
  Libs = {A, B}
  NoLib = NoLib
  Names = {lib}
  NoName = NoName
  Techs = {"T", "none"}
  Generic = "none"
  CellNames = {"cell"}
  PCells = {}
  Files = {{"cell"}}
  Views = {v1}
  MaxProxies = 1
  MaxIndex = 1
CHECK_DEADLOCK FALSE
SPECIFICATION Spec
INVARIANTS NamesFound

CONSTANTS
  Workers = {w1, w2}
  Layers = {l1}
  Boxes = Boxes
  Viewports = {v1, v2}
  CacheSize = 1
SPECIFICATION Spec
INVARIANTS ReadsProtected WaitEnds DrawnComplete CacheSound
SYMMETRY Symmetry
CONSTRAINT Bound
VIEW Seen

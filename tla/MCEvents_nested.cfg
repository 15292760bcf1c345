CONSTANTS
  Objects = {o1, o2}
  NoObject = NoObject
  Functions = {f, g}
  MaxAdds = 3
  MaxFires = 2
  MaxDepth = 2
  Throwing = FALSE
SYMMETRY ReceiverSymmetry
SPECIFICATION Spec
PROPERTIES NothingAfterDestruction

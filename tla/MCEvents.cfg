CONSTANTS
  Objects = {o1, o2}
  NoObject = NoObject
  Functions = {f, g}
  MaxAdds = 3
  MaxFires = 3
  MaxDepth = 2
  Throwing = TRUE
SYMMETRY ReceiverSymmetry
SPECIFICATION Spec
INVARIANTS TypeOK RegistrationsExact
PROPERTIES CallsAreDue EveryoneCalled StopsAfterDestruction

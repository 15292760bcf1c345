CONSTANTS
  Methods = {a, b}
  Compressed = {a}
  MaxCalls = 4
  MaxDisabled = 1
  MaxDepth = 2
  Cancelling = TRUE
  Throwing = TRUE
SPECIFICATION FairSpec
INVARIANTS LostOnlyIfDisturbed EventPosted
PROPERTIES NoSpuriousCall CallsServed

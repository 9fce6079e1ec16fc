SPECIFICATION HFairSpec
CONSTANTS
  Proc = {p1, p2}
  File = {f}
  Size = 3
  MaxPosition = 5
INVARIANTS TypeOK PositionInside
PROPERTIES ImplementsAtomicDevice CallsReturn

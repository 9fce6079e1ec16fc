SPECIFICATION Spec
CONSTANTS
  Proc = {p1}
  File = {f1}
  Size = 3
  MaxPosition = 6
INVARIANT WritesStayInside

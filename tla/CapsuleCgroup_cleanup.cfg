SPECIFICATION Spec
CONSTANTS
  Capsule = {c1}
  Other = {o}
  Builds = {FALSE}
INVARIANT GroupRemoved

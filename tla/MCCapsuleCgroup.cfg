SPECIFICATION Spec
CONSTANTS
  Capsule = {c1, c2}
  Other = {o}
  Builds = {TRUE, FALSE}
SYMMETRY Symmetry
INVARIANTS TypeOK ShellIsLimited ReportsLastClone

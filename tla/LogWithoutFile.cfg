SPECIFICATION Spec
CONSTANTS
  Log = {l1, l2, l3}
  Stream = {f1, f2, f3}
  Stdout = Stdout
  Stderr = Stderr
  Null = Null
SYMMETRY Symmetry
INVARIANTS
  NeverDies

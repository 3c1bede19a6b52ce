CONSTANTS
  Caller = {c1}
  Data = {d1, d2}
SPECIFICATION Spec
INVARIANTS RefusedIsNotAcked
SYMMETRY Symmetry

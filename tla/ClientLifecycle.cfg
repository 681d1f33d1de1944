CONSTANTS
  Calls = {c1, c2, c3, c4, c5}
  Sessions = {s1, s2, s3, s4, s5}
  None = None
SPECIFICATION Spec
SYMMETRY Symmetry
INVARIANTS
    Reachable
    FreshConnect
    CloseCovers

CONSTANTS
  Editor = {e1}
  Reader = {r1}
  Role = {"R_SUPER", "R_A"}
  Super = "R_SUPER"
  Menu = {"m"}
  Mark = {x1, x2}
SYMMETRY Symmetry
VIEW Seen
SPECIFICATION Spec
INVARIANTS TypeOK CachedIsCurrent AllowedIsGranted

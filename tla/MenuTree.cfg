CONSTANTS
  Editor = {e1, e2}
  Reader = {}
  MaxMenu = 3
  Path = {"a"}
SPECIFICATION Spec
SYMMETRY Symmetry
INVARIANTS TypeOK CyclesComeLate
PROPERTIES PathsChecked WalksClimb

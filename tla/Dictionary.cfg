CONSTANTS
  Editor = {e1, e2}
  Reader = {}
  MaxDict = 2
  Type = {a, b}
  TypeName = {x}
  Status = {"1"}
  Default = {"yes", "no"}
SPECIFICATION Spec
SYMMETRY Symmetry
INVARIANTS TypeOK DefaultsComeLate

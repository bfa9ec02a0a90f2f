CONSTANTS
  Editor = {e1, e2}
  Reader = {r1}
  MaxDict = 2
  Type = {a, b}
  TypeName = {x}
  Status = {"1", "2"}
  Default = {}
SPECIFICATION Spec
SYMMETRY Symmetry
INVARIANTS TypesUniform
PROPERTIES ImplementsListStore

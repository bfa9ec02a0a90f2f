CONSTANTS
  Editor = {e1, e2}
  Reader = {r1}
  MaxMenu = 2
  Path = {"a"}
SPECIFICATION Spec
SYMMETRY Symmetry
INVARIANTS FoundIsShown
PROPERTIES ImplementsListStore

CONSTANTS
  Editor = {e1}
  Reader = {}
  MaxMenu = 3
  Path = {"a", "b"}
SPECIFICATION Spec
PROPERTIES UpdatedPathFree

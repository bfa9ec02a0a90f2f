CONSTANTS
  Request = {r1, r2}
  Email = {"a@x"}
  Captcha = {"c1"}
  Name = {"u1", "u2"}
  Filter = {{"u1", "u2"}}
  PageNo = {2}
  MaxSize = 1
  MaxIssued = 2
SPECIFICATION Spec
SYMMETRY Symmetry
CHECK_DEADLOCK FALSE
INVARIANTS TypeOK SpentStaysSpent CodeKept SharedEmailNeedsOverlap 

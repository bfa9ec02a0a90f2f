CONSTANTS
  Request = {r1, r2}
  MaxLogins = 1
  MaxPw = 1
  Admin = TRUE
SPECIFICATION Spec
SYMMETRY RequestSymmetry
INVARIANTS PasswordModifiedInvalidates

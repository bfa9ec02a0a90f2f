CONSTANTS
  Request = {r1, r2}
  MaxLogins = 2
  MaxPw = 2
  Admin = TRUE
SPECIFICATION Spec
SYMMETRY RequestSymmetry
INVARIANTS TypeOK PasswordCurrent DisabledOut LogoutFinal TokensPaired

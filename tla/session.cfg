SPECIFICATION Spec
CONSTANTS
  None = None
  Users = {u1, u2}
  Tokens = {t1, t2, t3}
  Slots = {s1, s2, s3}
SYMMETRY Permuted
INVARIANTS
  SessionTypeOK
  PageIsOwn
  TokensAgree
PROPERTIES
  SessionsEndForAReason

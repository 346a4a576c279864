SPECIFICATION FairSpec
CONSTANTS
  ann = ann
  Ann = Ann
  odd = odd
  p1 = p1
  p2 = p2
  r2 = r2
  None = None
  Emails = {ann, Ann, odd}
  Normal <- MCNormal
  Unfit = {odd}
  Passwords = {p1, p2}
  Requests = {r1, r2, r3}
  Calls <- MCCalls
  Lifetime = 1
  MaxTime = 1
INVARIANTS
  AccountsTypeOK
  OneAccountPerEmail
  TakenIsTrue
  RegisteredCanLogIn
  AnswersGoToOwners
  RetiredGetNothing
PROPERTIES
  EveryRequestIsAnswered

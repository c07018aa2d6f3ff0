CONSTANTS
  t1 = t1
  t2 = t2
  NoToken = NoToken
  Token = {t1, t2}
  MaxLen = 4
  Rows <- MCRows
SPECIFICATION Spec
INVARIANTS TypeOK WellFormed
PROPERTIES ImplementsForcedRuns

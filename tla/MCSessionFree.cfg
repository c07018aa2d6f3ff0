CONSTANTS
  A1 = A1
  B = B
  AB = AB
  AAB = AAB
  A2 = A2
  NoToken = NoToken
  Token = {A1, AB}
  Keys <- MCKeys
  Inputs <- FewInputs
  Spelling <- MCSpelling
  MaxInput = 2
  MaxParts = 2
  MaxRows = 1
  Defer = TRUE
  Faults = TRUE
  Disciplined = FALSE
  AnyAnchorRows = TRUE

SPECIFICATION Spec

INVARIANTS
  CursorInInput


CONSTANTS
  A1 = A1
  B = B
  AB = AB
  AAB = AAB
  A2 = A2
  NoToken = NoToken
  Token = {A1, A2, B, AB, AAB}
  Keys <- MCKeys
  Inputs <- KeyInputs
  Spelling <- MCSpelling
  MaxInput = 3
  MaxParts = 6
  MaxRows = 2
  Defer = FALSE
  Faults = FALSE
  Disciplined = TRUE
  AnyAnchorRows = FALSE

SPECIFICATION Spec

INVARIANTS
  SelectedTextWhenGuessed
  TrainsWhatIsShown
  ForcedRunsWhole
  RowsHonourForcings
  ForcingsAreSelected

PROPERTIES
  GuessKeepsSelection

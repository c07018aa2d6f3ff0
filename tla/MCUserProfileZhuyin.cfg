CONSTANTS
  library = library
  user = user
  bigram = bigram
  Order <- MCOrder
  Chunks = {library, user}
  Session = {s1, s2}
  Law = "Zhuyin"
  Reporting = TRUE
  IOFaults = FALSE
  Found = {"missing", "other", "conform"}
  OPEN_COUNTER_LIMIT = 2
  MaxSaves = 4

SPECIFICATION Spec

INVARIANTS
  MixedInOrder
  OtherVersionNeverRead


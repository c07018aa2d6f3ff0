CONSTANTS
  library = library
  user = user
  bigram = bigram
  Order <- MCOrder
  Chunks = {library, user}
  Session = {s1}
  Law = "Pinyin"
  Reporting = TRUE
  IOFaults = TRUE
  Found = {"missing", "other", "conform"}
  OPEN_COUNTER_LIMIT = 2
  MaxSaves = 4

SPECIFICATION Spec

INVARIANTS
  NoTornProfile

CHECK_DEADLOCK FALSE

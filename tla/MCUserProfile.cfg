CONSTANTS
  library = library
  user = user
  bigram = bigram
  Order <- MCOrder
  Chunks = {library, user}
  Session = {s1}
  Law = "Pinyin"
  Reporting = FALSE
  IOFaults = TRUE
  Found = {"missing", "other", "conform"}
  OPEN_COUNTER_LIMIT = 2
  MaxSaves = 4

SPECIFICATION Spec

INVARIANTS
  NoTornProfile
  MixedInOrder
  SavedMeansOnDisk
  WipeOnlyAfterDeaths

PROPERTIES
  SaveEnds

CHECK_DEADLOCK FALSE

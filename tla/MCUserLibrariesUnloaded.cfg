\* The operation bound stops every behaviour.
CHECK_DEADLOCK FALSE
SPECIFICATION Spec
CONSTANTS
  Libs = {1, 2}
  Addon = 1
  Unloadable = {2}
  MaxSlot = 2
  Entries <- MCEntries
  AddonItems <- MCAddonItems
  Deltas = {4}
  Word = 16
  PronWrap = 3
  UnigramFactor = 3
  Disks <- MCDisks
  MaxOps = 3
  MaxPhraseLength = 2
  KeyOrder <- MCKeyOrder
  ReadingOrder <- MCReadingOrder
  TextOrder <- MCTextOrder
INVARIANT UnloadedOwnsNoItem

SPECIFICATION Spec
CONSTANTS
  Words <- MCWords
  Parses <- MCParses
  MaxEvents = 2
  MaxForced = 1
INVARIANTS
  AnswerResumes
  AnsweredNeverAborts
  RowsOfThisInput
PROPERTY ChoosesWhatIsShown
CHECK_DEADLOCK FALSE

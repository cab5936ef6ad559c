SPECIFICATION FairSpec
CONSTANTS
  Names = {f}
  MaxSize = 2
  Offsets = {0, 1, 2, 3, 4}
  Huge = 4
INVARIANTS
  
  
  RangeIsExact
  AnswersAreFramed
PROPERTIES
  TesterReports

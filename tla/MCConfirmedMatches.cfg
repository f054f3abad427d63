SPECIFICATION Spec
CHECK_DEADLOCK FALSE
CONSTANTS
  None = None
  NormalGrade <- MCNormalGrade
  GradeKey <- MCGradeKey
  Spelt <- MCSpelt
  IsDigits <- MCIsDigits
  Length <- MCLength
  ProfileOf <- MCProfileOf
  Alike <- MCAlike
  HeaderRows = 3
  Blank <- MCBlank
  Similarity <- MCSimilarity
  Tasks <- MCTasks
INVARIANT OnlyConfirmedMatches

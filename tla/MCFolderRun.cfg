SPECIFICATION Spec
CHECK_DEADLOCK FALSE
CONSTANTS
  None = None
  NormalGrade <- MCNormalGrade
  GradeKey <- MCGradeKey
  Grades <- MCGrades
  SpaceNormal <- MCSpaceNormal
  Spelling <- MCSpelling
  Words <- MCWords
  Queries <- MCQueries
  AnswersTo <- MCAnswersTo
  Folder <- MCFolder
  Runs <- MCRuns
  MaxRetries = 2
INVARIANTS
  SourceStatesEveryChange
  RowsAreSettled
  ReportIsTrue
PROPERTIES
  AllOrNothing
  RunEnds

CONSTANTS
  Owners <- AllOwners
  Queries <- AskedQueries
  MaxRevision = 1
  MaxPrograms = 5
  MaxAnswers = 2
SPECIFICATION Spec
INVARIANTS TypeOK AnswersAreCurrent FactsAreUnconditional ViewsDependOnProfileOnly ConstantsAgree NoProgramIsWasted
PROPERTIES ViewsNeverChange
CHECK_DEADLOCK FALSE

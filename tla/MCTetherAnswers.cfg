SPECIFICATION Spec
CONSTANTS
  MaxAsks = 4
  MaxSenses = 0
INVARIANT AnswersMatch

CONSTANTS
  Numeral <- NumeralDef
  Literal <- LiteralDef
  Program <- ProgramDef
  Tree <- TreeDef
  StepBudget = 50
  MaxDepth = 2
  OutCap = 6
  MaxList = 3
  MaxStr = 5
  IntMax = 31
  RepeatMax = 4
SPECIFICATION Spec
INVARIANTS TypeOK OutputFits StackBounded LocalsStayLocal LoosestLast HoistedAlike Agrees
PROPERTY ProgramEnds
CHECK_DEADLOCK FALSE

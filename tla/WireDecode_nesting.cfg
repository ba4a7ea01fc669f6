SPECIFICATION Spec
CONSTANTS
  BufLen = 8
  RecursionLimit = 3
  CounterMax = 1000
  VarintWidths = {1}
  Tags = {1, 2, 3, 4}
  Field <- NestingSchema
INVARIANTS TypeOK BudgetMatchesDepth
PROPERTIES NoEarlyLimit Terminates ImplementsWellNested
CHECK_DEADLOCK FALSE

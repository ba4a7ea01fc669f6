SPECIFICATION Spec
CONSTANTS
  BufLen = 10
  RecursionLimit = 2
  CounterMax = 1000
  VarintWidths = {1, 2}
  Tags = {1, 2, 3, 4, 5}
  Field <- FieldsSchema
INVARIANTS StackBounded
PROPERTIES Terminates ImplementsWellNested
CHECK_DEADLOCK FALSE

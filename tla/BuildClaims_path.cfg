SPECIFICATION Spec
CONSTANTS
  Messages <- ClaimMessages
  Snake <- MCSnake
  Camel <- MCCamel
  Strip <- MCStrip
  Names <- MCNames
  Rank <- MCRank
  Requests <- ConfiguredPaths
INVARIANT ConfiguredPathIsRead
CHECK_DEADLOCK FALSE

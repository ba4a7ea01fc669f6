SPECIFICATION Spec
CONSTANTS
  Messages <- ClaimMessages
  Snake <- MCSnake
  Camel <- MCCamel
  Strip <- MCStrip
  Names <- MCNames
  Rank <- MCRank
  Requests <- TwiceTheSame
INVARIANT LifetimesAreNeeded
CHECK_DEADLOCK FALSE

SPECIFICATION Spec
CONSTANTS
  Messages <- MCMessages
  Snake <- MCSnake
  Camel <- MCCamel
  Strip <- MCStrip
  Names <- MCNames
  Rank <- MCRank
  Requests <- MCRequests
INVARIANTS
  DocsComeFromTheirElement
  ReferencesResolve
  LifetimesAreCarried
  ByValueTypesAreFinite
  DerivesAreConsistent
  DeriveReadsTheDescriptors
  IncludesMirrorModules
PROPERTIES
  OpensOnce
  Completes
CHECK_DEADLOCK FALSE

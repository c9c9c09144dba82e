SPECIFICATION Spec
CONSTANTS
  Merge <- MCMerge
  Parse <- MCParse
  ExcludeUndefined <- MCExcludeUndefined
  Describe <- MCDescribe
  Project <- MCProject
  Named <- MCNamed
  Reached <- MCReached
  IsProvablyEmpty <- MCIsProvablyEmpty
  IsProvablyInhabited <- MCIsProvablyInhabited
  IsProvablyIdentity <- MCIsProvablyIdentity
  IsProvablyUniversal <- MCIsProvablyUniversal
  IsProvablyNarrow <- MCIsProvablyNarrow
  IsLiteralAcceptanceDecidable <- MCIsLiteralAcceptanceDecidable
  AcceptsLiteral <- MCAcceptsLiteral
  Families <- MCFamilies
  ExpandChoices <- MCExpandChoices
  AnonymousOpaque <- MCAnonymousOpaque
  Compare <- MCCompare
  Encoded <- MCEncoded
  Written <- MCWritten
  NodeParses <- MCNodeParses
  Visited <- MCVisited
  Meant <- MCMeant
  Reconstructs <- MCReconstructs
  Rebuilt <- MCRebuilt
  Repeat <- MCRepeat
  Generate <- MCGenerate
  HasProjection <- MCHasProjection
  IsJson <- MCIsJson
  Convert <- MCConvert
  Representable <- MCRepresentable
  IsWire <- MCIsWire
  HasNonJson <- MCHasNonJson
  Rebase <- MCRebase
  AcceptsAbsence <- MCAcceptsAbsence
  Targets <- MCTargets
  Valid <- MCValid
  HasAnonymous <- MCHasAnonymous
  HasIntersection <- MCHasIntersection
  Definitions <- MCDefinitions
  PatternTexts <- MCPatternTexts
  Warnings <- MCWarnings
  LazyDepth = 5
  SchemaDepth = 4
  PoolSize = 16
  Attempts = 128
  Pool <- CorePool
  Values <- MCValues
  Checks = {"r"}
  Twins <- MCTwins
INVARIANTS SafeIsContained BreakingIsReal AnonymousIsNeverSafe TwinsAreSafe ConnectionIsSound WitnessIsReal SnapshotsReadBack InputExportIsExact OutputExportCovers
CHECK_DEADLOCK FALSE

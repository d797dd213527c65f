CONSTANTS
  Names <- AllNames
  Nodes <- AllNodes
  NoNode = NoNode
  Templates <- AllTemplates
  Expressions <- AllExpressions
  Depth <- DepthOfEach
  MaxDepth = 5
  Canonical <- Rewriting
  HoursPerMonth = 7
  FreeIops = 3
  FreeThroughput = 1
  Unlisted <- NoPrice
  MaxFailures = 1
SPECIFICATION EngineSpec
INVARIANTS
  NeverQuietlyWrong
CHECK_DEADLOCK FALSE

SPECIFICATION FairSpec
CONSTANTS
  All <- Suite4
  NeedL1 <- OnL1
  Hooked <- OneHooked
  CommandLines <- SomeLines
  Words <- TextWords
  Selectors <- AllSelectors
  Shapes <- AllShapes
  Values <- AllValues
  U32Max = 3
  None = None
  Nothing = Nothing
  Radix = 2
  Places <- TwoPlaces
  Leaves <- LeafValues
  Mine = "mine"
  Others = "others"
  Empty = "empty"
  Chain = "chain"
  OtherChain = "other chain"
  Committee = Committee
  Address = Address
  LyingOn <- OnlyS046
  MaxBlocks = 3
  MaxRound = 3
INVARIANTS TypeOK ExitTellsReport TornDown LeftOutOnlyIfAsked PassIsEvidence IncludedMeansCommitted RoundIsGenuine FailuresDeserved
PROPERTIES RunnerReturns StaysInHarness
CHECK_DEADLOCK FALSE

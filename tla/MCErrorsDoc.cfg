SPECIFICATION Spec
CONSTANTS
  All <- OnlyS030
  NeedL1 <- NoIds
  Hooked <- NoIds
  CommandLines <- JustComplete
  Words <- TextWords
  Selectors <- AllSelectors
  Shapes <- AllShapes
  Values <- AllValues
  U32Max = 3
  None = None
  Nothing = Nothing
  Radix = 2
  Places <- TwoPlaces
  Leaves <- LeafValues
  Mine = "mine"
  Others = "others"
  Empty = "empty"
  Chain = "chain"
  OtherChain = "other chain"
  Committee = Committee
  Address = Address
  LyingOn <- NoIds
  MaxBlocks = 3
  MaxRound = 3
INVARIANTS RejectionIsRecognised
CHECK_DEADLOCK FALSE

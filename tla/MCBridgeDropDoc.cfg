SPECIFICATION FairSpec
CONSTANTS
  c1 = c1
  c2 = c2
  x1 = x1
  r1 = r1
  zero = zero
  h1 = h1
  NoOne = NoOne
  Handle = Handle
  Records = {r1}
  Attesters = {zero}
  Lag = 1
  Holders = {h1}
  Capacity = 1
  Calls = {c1, c2}
  Txs = {c1, c2}
  Body <- MCBody
  Via <- CloneVia
PROPERTIES DropEndsLoop

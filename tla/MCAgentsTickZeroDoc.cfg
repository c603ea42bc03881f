SPECIFICATION Spec
CONSTANTS
  NoOne = NoOne
  Attesters <- Senders
  Txs <- ScenarioTxs
  Records <- ScenarioRecords
  Body <- ScenarioBody
  Admin = "admin"
  ZeroAddress = "address(0)"
  Keys = {"none", "dummy"}
  NoKey = "none"
  Zero = "zero"
  Suites <- ColdSuites
  Start <- ColdStart
  MaxFaults = 0
  Lag = 2
INVARIANTS AcceptedFromTickZero
CHECK_DEADLOCK FALSE

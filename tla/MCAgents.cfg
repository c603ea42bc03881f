SPECIFICATION FairSpec
CONSTANTS
  NoOne = NoOne
  Attesters <- Senders
  Txs <- ScenarioTxs
  Records <- ScenarioRecords
  Body <- ScenarioBody
  Admin = "admin"
  ZeroAddress = "address(0)"
  Keys = {"none", "dummy"}
  NoKey = "none"
  Zero = "zero"
  Suites <- AllSuites
  Start <- AllStarts
  MaxFaults = 4
  Lag = 3
INVARIANTS TypeOK VerdictsAreDeserved PassIsEvidence NoUnclaimedTx NoStrayCandidate
PROPERTIES SuiteTerminates
CHECK_DEADLOCK FALSE

SPECIFICATION Spec
CONSTANTS
  Zero = "zero"
  Signers <- Keys
  AttesterKeys = {"zero"}
  Suites <- BothSuites
  Optional = {"open", "scheme", "proof", "threshold", "previous", "fresh", "aged", "nullifier", "execute", "lane", "gate"}
  MaxLacking = 2
  MaxFaults = 1
  MaxRolls = 1
  Window = 2
  MaxHead = 9
  Base = 4
  Age = 1
  Slack = 1
  Young = 3
  StaleAge = 6
  Trouble <- SomeTrouble
INVARIANTS TypeOK GreenMeansChecked NoMintUnseen
PROPERTIES FailuresDeserved
CHECK_DEADLOCK FALSE

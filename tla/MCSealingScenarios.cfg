SPECIFICATION Spec
CONSTANTS
  Modulus = 5
  MaxSeals = 2
  Nobody = Nobody
  Suites <- OnceOrTwice
  MaxFaults = 2
  Optional = {"adminPath", "once", "order", "link", "signer", "signature", "attester", "provider", "enclave", "totals", "context", "handles", "settlement"}
  MaxLacking = 3
INVARIANTS TypeOK GreenMeansChecked Rerunnable
CHECK_DEADLOCK FALSE

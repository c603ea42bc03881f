SPECIFICATION Spec
CONSTANTS
  Nobody = Nobody
  Suites <- BothSuites
  MaxFaults = 2
  Optional = {"empty", "ascending", "found", "day", "currency", "length", "count", "inputs", "snark", "lane", "dispatch", "keeps", "leaf"}
  Trouble <- ThreeEach
INVARIANTS TypeOK FailuresDeserved GreenMeansChecked
CHECK_DEADLOCK FALSE

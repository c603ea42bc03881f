SPECIFICATION Spec
CONSTANTS
  Modulus = 3
  MaxSeals = 2
  Nobody = Nobody
  Attesters = {a1, a2}
  Me = a1
  Contexts = {c1}
  MaxSyncs = 2
  Pools = {1, 2}
  Contents <- SomeContents
  Enclave = enclave
  Provider = provider
  MaxManifest = 1
  MaxDay = 2
  MaxEpoch = 1
  MaxHandover = 2
PROPERTY RevertsFailHere
CHECK_DEADLOCK FALSE

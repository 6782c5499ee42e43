SPECIFICATION Spec
CONSTANTS
  Peers = {host, other}
  Expected = host
  MaxBody = 2
  WireCap = 1
INVARIANTS RegistryInv UploadWhole
PROPERTY UploadEnds
CHECK_DEADLOCK FALSE

SPECIFICATION DriversSpec
CONSTANTS
  Addrs = {0, 1}
  Bytes = {{}, {0}}
  Delays = {1, 4, 5}
  ClearsMode = FALSE
INVARIANT WritesLand

\* Drivers that write the mode bits before an EEPROM write, as avr-libc's.
SPECIFICATION DevSpec
CONSTANTS
  N3 = 4
  N4 = 3
  Div3 = 2
  Prescs4 = {0, 1, 2}
  Targets = {0, 2}
  Cycles = {1, 3}
  Limit = 8
  Addrs = {0, 1}
  Bytes = {{}, {0}}
  Delays = {1, 4, 5}
  ClearsMode = TRUE
INVARIANTS CountersTrue OnTime NoStall WritesLand ReadsBack
PROPERTIES NoEventLost EveryDriverEnds

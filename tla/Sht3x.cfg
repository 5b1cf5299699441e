\* Both addresses of loadConfig, two pairs of offsets; waits of 2, 4 and 5.
SPECIFICATION ShtFairSpec
CONSTANTS
  Addresses = {a40, a41}
  Calibrations = {c1, c2}
  NoReading = NoReading
  InitialBackoff = 2
  MaxBackoff = 5
INVARIANTS
  ShtTypeOK
  OldAddressOnce
PROPERTY
  SettingsTakeEffect

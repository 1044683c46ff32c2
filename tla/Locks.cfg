SPECIFICATION LocksSpec
CONSTANTS
  Thread = {a, b, c, d}
  MayWrite = {a, b, c}
  MayRead = {b, c, d}
  MaxReaders = 3
  Places = 2
  WordSize = 5
INVARIANTS TypeOK Exclusion CountsAgree NoMissedRelease NobodyMissesRoom
PROPERTIES ClaimedIsWritten SomebodyEnters

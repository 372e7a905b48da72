SPECIFICATION Spec
CONSTANTS
  None = None
  Outcome = {}
  Faults = {"disconnect", "companion", "reload", "decoder", "service", "daemon", "clear"}
  MaxFaults = 2
  MaxWire = 1
  MaxStream = 2
  MaxSeq = 3
  MaxSync = 2
  MaxVersion = 1
INVARIANTS
  TypeOK
  EffectiveInventory
  PublicationsKept
PROPERTIES
  NoRegression
CHECK_DEADLOCK FALSE

SPECIFICATION Spec
CONSTANTS
  None = None
  Outcome = {o1, o2}
  Faults = {"disconnect"}
  MaxFaults = 1
  MaxWire = 2
  MaxStream = 1
  MaxSeq = 2
  MaxSync = 1
  MaxVersion = 1
INVARIANTS
  OutcomesKept
CHECK_DEADLOCK FALSE

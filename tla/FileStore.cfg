\* Saves fail and processes die anywhere but between remove and rename.
SPECIFICATION FileSpec
CONSTANTS
  Process = {p1, p2}
  Op = {o1, o2, o3}
  SaveFailsAt = {"mutated", "written"}
  CrashAt = {"idle", "holding", "mutated", "written", "saved"}
INVARIANT AcknowledgedIsKept
PROPERTIES RollbackOnError ImplementsLedger
CHECK_DEADLOCK FALSE

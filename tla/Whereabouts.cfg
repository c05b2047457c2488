\* None of the five hazards happens; saves fail wherever that is provided for:
\* in the operations that put the session back, or do not move it, when one does.
SPECIFICATION Spec
CONSTANTS
  Char = {a, b}
  None = None
  MaxParties = 2
  MaxInstances = 2
  SaveFailsIn = {"handoff", "disconnect", "exit", "housing"}
  HardExpiry = TRUE
  Races = {}
INVARIANTS WayBack CountedInside EmptyInstanceExpires
CHECK_DEADLOCK FALSE

\* The session's loop and one sub-agent, two Agents one after the other.
SPECIFICATION Spec
CONSTANTS
  Root = root
  Children = {child}
  Calls <- MCCalls
  Postures <- MCPostures
  MaxBatch = 2
  MaxOpen = 2
  MaxWords = 2
  None = None
INVARIANTS TypeOK FloorsHold WordStands

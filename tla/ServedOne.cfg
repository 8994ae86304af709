\* A bounded run in six configurations; two processes, on one boot or on two.
SPECIFICATION FairSpec
CONSTANTS
  None = None
  Configs <- Servers
  MaxStart = 2
INVARIANTS TypeOK EndingReachesOneTurn NothingIsLeft
PROPERTY EndingStands SayIsNeverDropped CapEndsTheRun
\* the last process may be down
CHECK_DEADLOCK FALSE

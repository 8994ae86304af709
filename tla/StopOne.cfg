\* Two callers, a mind that races the app or not, every fault of the setter, two ends.
CONSTANTS
  Raisers = {r1, r2}
  MaxRaise = 1
  MaxCrash = 2
SPECIFICATION FairSpec
INVARIANTS TypeOK TargetOutlivesNeed CompleteMeansDone FilesMeanAStop
PROPERTY SpentIsRetired
\* every caller may be answered and the mind stopped
CHECK_DEADLOCK FALSE

\* Two calls, a disk with faults or with none; the process ends twice, between any
\* two steps.
SPECIFICATION Spec
CONSTANTS
  Calls = {k1, k2}
  None = None
  Bad = Bad
  MaxMoney = 2
  MaxCrash = 2
SYMMETRY AnyCall
INVARIANTS TypeOK OvershootBounded FailsClosed
PROPERTY CapSpec

SPECIFICATION LiveSpec
CONSTANTS
  Turns <- MCTurns
  Asks = {a1, a2}
  MaxLength = 2
  AttemptCap = 2
  MaxProviderVetoes = 2
  MaxPlain = 1
  MaxSteps = 2
  Sections = {s1, s2}
  MaxFiles = 3
INVARIANTS TypeOK EveryCallAnswered OvershootBounded CompletedMeansDone PoolIsSound
PROPERTY TurnEnds

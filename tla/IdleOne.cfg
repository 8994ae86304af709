SPECIFICATION FairSpec
CONSTANTS
  Confs <- MCConfs
  t1 = t1
  t2 = t2
  Tasks = {t1, t2}
  Endings = {done, stall}
  Stall = stall
  Failed = failed
  None = None
  MaxEnds = 2
INVARIANTS TypeOK BarrenEnds
PROPERTY LoopSurvives ReportedOnce

\* Two turns and two messages, in each of the settings of MCConfs.
SPECIFICATION FairSpec
CONSTANTS
  Chats = {c1, c2, c3}
  First = c1
  Known = {c1, c2}
  MaxTurn = 2
  Confs <- MCConfs
  MaxSay = 2
  Absent = Absent
INVARIANTS ChatTypeOK NothingSavedIsLost SayRunsInItsChat
PROPERTY CutGivesBack
\* the turns and the names of chats run out
CHECK_DEADLOCK FALSE

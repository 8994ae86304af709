\* Two senders, a say box, a web app and a REPL; one of the processes may die.
SPECIFICATION FairSpec
CONSTANTS
  Msg = {m1, m2}
  Senders = {p1, p2}
  Repls = {r1}
  Servers = {s1}
  Boxes = {b1}
  None = None
  MaxCrash = 1
INVARIANTS TypeOK ServedOwnsItsSlot
PROPERTY SlotSpec PendingIsTaken
\* every process may have ended and every message be used up
CHECK_DEADLOCK FALSE

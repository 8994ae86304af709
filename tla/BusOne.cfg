\* A watcher of a bus that only the event loop publishes on; the ring and the queue
\* overflow, and the bus may close at any step.
SPECIFICATION FairSpec
CONSTANTS
  Watchers = {w1}
  Loop = loop
  Workers = {}
  Ring = 2
  QueueMax = 2
  MaxCursor = 5
INVARIANTS TypeOK InOrder NothingSlips
PROPERTY CloseEndsEveryWatcher
\* a bus with every cursor handed out and nobody watching stops
CHECK_DEADLOCK FALSE

\* A worker thread publishes beside the event loop.
SPECIFICATION Spec
CONSTANTS
  Watchers = {w1}
  Loop = loop
  Workers = {worker}
  Ring = 2
  QueueMax = 3
  MaxCursor = 3
INVARIANT NothingSlips
\* a bus with every cursor handed out and nobody watching stops
CHECK_DEADLOCK FALSE

\* One gateway and one answer: a stream whose upstream pauses.
CONSTANTS
  g1 = g1
  g2 = g2
  c1 = c1
  Instances = {g1}
  Last = 1
  Calls = {c1}
  Chunks = 2
  BufferSize = 1
  Budget = 1
  Overrun = 1
  MaxRequests = 1
SPECIFICATION Spec
INVARIANT NothingIsHeldBack

SPECIFICATION FairSpec
CONSTANTS
  Worker = {w1, w2}
  Master = {m1, m2}
  NoThread = NoThread
  Check = {k1, k2, k3}
  Free = Free
  Queue = Queue
  BatchSize = 2
INVARIANTS CountersExact WaitExact
PROPERTIES ImplementsSession SessionEnds

SPECIFICATION ListFairSpec
CONSTANTS
  Producers = {p1, p2}
  Consumer = c
  Messages = {m1, m2, big}
  TooLong = {big}
  QueueSize = 4
  NULL = NULL
INVARIANTS
  PointersFormLists
  NodesConserved
  NoLostWakeup
PROPERTIES
  DetachedUntouched
  ImplementsFifo
  InterruptReleases
  ProducersNeverAllStuck

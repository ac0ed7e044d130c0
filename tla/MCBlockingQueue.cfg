CONSTANTS
  Producers = {p1, p2}
  Consumers = {c1}
  Bound = {2}
  MaxCalls = 2

SPECIFICATION FairSpec

INVARIANT TypeOK
INVARIANT NoLostWakeup
PROPERTY ImplementsFifo
PROPERTY PushesGoOn

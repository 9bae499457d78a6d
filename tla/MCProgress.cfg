\* A producer whose batches are longer than the ring, two consumers.
CONSTANTS
  Producers = {p1}
  CachedProducers = {}
  Consumers = {c1, c2}
  BufSiz = 2
  CacheCapacity = 1
  DeqSizes = {1}
  MaxItems = 3
  StMax = 0
  Threads = {t1, t2}
  LocMax = 2
  LocHalf = 1
  GlobMax = 1
  Block = {b1, b2, b3, b4}
  NoThread = NoThread
  NOBODY = NOBODY
  Thread = {c1, c2}
  Node = {x1, x2, x3, x4}
  hash <- TableHash
  bucketcnt = 4
  mutex_shift = 1
  NONE = NONE
  NULL = NULL
  num_bufs = 4
  PcapQueue = {q1, q2}
  ABSENT = ABSENT
  ifname <- IfName
  Records <- FourRecords
  Torn = TRUE
  MaxRefc = 2
  Outq = {q1, q2}
  FilesOf <- TwoFiles
  MaxPackets = 2
  MaxCalls = 2
  MaxFaults = 1
  Worker = {p1}
  Worker0 = p1
  NOWHERE = NOWHERE
  Mac = {x1, x2, x3}
  Port = {0, 1}
  mac_hash <- MacHash
  mac_bucketcnt = 2
  mac_mutex_shift = 0
  TIMEOUT = 1
  MaxTime = 2
  x1 = x1
  x2 = x2
  x3 = x3
  x4 = x4
  q1 = q1
  q2 = q2
  p1 = p1
  p2 = p2
  c1 = c1
  c2 = c2
  t1 = t1
  t2 = t2
  b1 = b1
  b2 = b2
  b3 = b3
  b4 = b4
SPECIFICATION FairAllSpec
INVARIANTS  NoLostWakeup
PROPERTIES ImplementsFifo QueueProgress CallsReturn

\* Three timers.
CONSTANTS
  LOG_LEVEL_COUNT = 2
  Increment = 2
  MaxBurst = 3
  Interval = 1
  MaxMissed = 1
  MaxReal = 4
  MaxSetbacks = 2
  initial_tokens = 2
  timer_period = 3
  timer_add = 1
  hash_size = 4
  batch_size = 2
  Word = 100000
  MaxNow = 7
  ARP_CACHE_MAX_PACKETS = 2
  ARP_CACHE_TIMEOUT = 2
  Size = 2
  Granularity = 2
  Start = 1
  MaxTime = 5
  Zeroed = TRUE
  ip1 = ip1
  ip2 = ip2
  Ip = {ip1, ip2}
  pkt1 = pkt1
  pkt2 = pkt2
  pkt3 = pkt3
  Packet = {pkt1, pkt2, pkt3}
  t1 = t1
  t2 = t2
  t3 = t3
  Timer = {t1, t2, t3}
  Task = {t1, t2, t3}
  NoTask = NoTask
  size = 2
  granularity = 2
  start = 1
  MaxTick = 6
  NIL = NIL
  HEAD = HEAD
  Garbage = Garbage
SPECIFICATION TimersSpec
SYMMETRY Symmetry
INVARIANT SkipListSound
PROPERTIES WheelOnTime HeapWheelOnTime ImplementsLinkWheel

\* A datagram whose length is a multiple of the unit.
CONSTANTS
  NULL = NULL
  Unit = 2
  Top = 7
  Input <- TreeInput
  Ipv6 = FALSE
  Wrap = 48
  Isn = 45
  Segment <- Segments
SPECIFICATION EvenSpec
INVARIANT CompleteWhenAll

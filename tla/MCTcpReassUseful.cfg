\* Segments of up to three bytes in the first eight positions.
CONSTANTS
  NULL = NULL
  Unit = 2
  Top = 7
  Input <- TreeInput
  Ipv6 = FALSE
  Wrap = 48
  Isn = 45
  Segment <- Segments
SPECIFICATION TcpOnly
INVARIANT OnlyUsefulData
\* add may abort the program.
CHECK_DEADLOCK FALSE

\* Any number of fragments over two to six units of two bytes; segments whose
\* sequence numbers wrap after two bytes; two calls on a header or a packet; up to
\* three extension headers or two options; messages with up to two answers.
CONSTANTS
  NULL = NULL
  Unit = 2
  Top = 7
  Input <- TreeInput
  Ipv6 = FALSE
  Wrap = 48
  Isn = 45
  Segment <- Segments
SPECIFICATION AllSpec
INVARIANTS KeptSuffices CompleteIsSound SegmentsExact HeadersReadBack
PROPERTIES TreeImplements OutcomeExact
\* add of the TCP reassembler may abort the program
CHECK_DEADLOCK FALSE

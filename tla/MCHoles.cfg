\* Fragments over four units of two bytes; any over three for the tree of holes
\* and for the change of method; pieces of one unit over nine.
CONSTANTS
  Unit = 2
  Top = 7
  Input <- ListInput
  MaxPackets = 3
SPECIFICATION AllSpec
INVARIANTS CopiesFill DatagramIntact Rb815TreeLinked
PROPERTIES IpReassImplements Rfc815Implements ComboImplements Rb815Implements

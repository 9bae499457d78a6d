\* The tree does not stay a red-black tree.
CONSTANTS
  Unit = 2
  Top = 7
  Input <- ListInput
  MaxPackets = 3
SPECIFICATION TreeSpec
INVARIANT TreeValid

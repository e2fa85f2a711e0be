SPECIFICATION QueueSpec
CONSTANTS
  Size = 8
  MaxLen = 3
  Packets <- MCPackets
INVARIANTS
  StartsWithFrame
PROPERTIES
  ImplementsFifo


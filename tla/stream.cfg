SPECIFICATION StreamSpec
CONSTANTS
  Base = 16
  Packet <- ThreePackets
  KnownType = {1, 3}
  BufferSize = 33
  MaxSent = 3
  Cut <- Borders
INVARIANT PacketsExact
PROPERTY PacketsArrive
CHECK_DEADLOCK FALSE

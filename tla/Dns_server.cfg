SPECIFICATION FairSpec
CONSTANTS
  ann = ann
  bob = bob
  x = x
  y = y
  z = z
  Player = {ann, bob}
  Ip = {x, y, z}
  IpOf <- Addresses
  Local = z
  Slot = {s1, s2}
  Hangs = {}
  DnsTimeout = 0
  ServerTimeout = 1
  PipeSize = 1
  None = None
INVARIANTS SlotsCounted WaitingIsPending
PROPERTY WaitingEnds

SPECIFICATION Spec
CONSTANTS
  m1 = m1
  m2 = m2
  m3 = m3
  NoModule = NoModule
  Missing = Missing
  Broken = Broken
  Trailer = Trailer
  NoOfIslands = 2
  NoOfColumns = 3
  ResourceString <- Device
  Modules = {m2, m3}
  Meta <- Whole
  Port = "icap"
  MaxFds = 30
  Block = 4
  MaxCalls = 2
  MaxKills = 0
INVARIANT AvailableIsFree

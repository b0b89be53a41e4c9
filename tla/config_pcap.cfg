SPECIFICATION Spec
CONSTANTS
  m1 = m1
  m2 = m2
  m3 = m3
  NoModule = NoModule
  Missing = Missing
  Broken = Broken
  Trailer = Trailer
  NoOfIslands = 2
  NoOfColumns = 3
  ResourceString <- Device
  Modules = {m1}
  Meta <- One
  Port = "pcap"
  MaxFds = 30
  Block = 4
  MaxCalls = 2
  MaxKills = 0
INVARIANT StreamIsWhole

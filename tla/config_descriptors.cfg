SPECIFICATION Spec
CONSTANTS
  m1 = m1
  m2 = m2
  m3 = m3
  NoModule = NoModule
  Missing = Missing
  Broken = Broken
  Trailer = Trailer
  NoOfIslands = 4
  NoOfColumns = 3
  ResourceString <- Device
  Modules = {m1}
  Meta <- One
  Port = "icap"
  MaxFds = 14
  Block = 4
  MaxCalls = 3
  MaxKills = 0
PROPERTY Protected

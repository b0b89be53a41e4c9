SPECIFICATION Spec
CONSTANTS
  m1 = m1
  m2 = m2
  m3 = m3
  NoModule = NoModule
  Missing = Missing
  Broken = Broken
  Trailer = Trailer
  NoOfIslands = 2
  NoOfColumns = 3
  ResourceString <- Device
  Modules = {m1, m2, m3}
  Meta <- Three
  Port = "icap"
  MaxFds = 30
  Block = 4
  MaxCalls = 4
  MaxKills = 0
INVARIANTS TypeOK BookIsTrue
PROPERTIES OnlyItsIsland ReplacementRestores Recoupled

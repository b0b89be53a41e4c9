SPECIFICATION Spec
CONSTANTS
  m1 = m1
  m2 = m2
  m3 = m3
  NoModule = NoModule
  Missing = Missing
  Broken = Broken
  Trailer = Trailer
  NoOfIslands = 2
  NoOfColumns = 3
  ResourceString <- Device
  Modules = {m2, m3}
  Meta <- Whole
  Port = "pcap"
  MaxFds = 10
  Block = 4
  MaxCalls = 3
  MaxKills = 2
INVARIANT CoupledIsWhole
PROPERTIES Protected ImplementsIslands
\* the last placement may have been made, and fwrite may have killed the process
CHECK_DEADLOCK FALSE

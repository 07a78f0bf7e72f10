SPECIFICATION FairSpec
CONSTANTS
  s1 = s1
  s2 = s2
  n1 = n1
  n2 = n2
  u1 = u1
  u2 = u2
  None = None
  Servers = {s1, s2}
  Tools = {"t"}
  Urls = {u1, u2}
  Namespaces = {n1}
  Confs <- NoConfs
  InitOrder <- TwoServers
  InitConf <- TwoConfs
  Writes = {}
  Loose = {"probe"}
  MaxFp = 2
  MaxChanges = 2
  ChannelCap = 1
INVARIANTS NameMeansOneTool
PROPERTIES EventuallyFresh

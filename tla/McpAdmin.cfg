SPECIFICATION Spec
CONSTANTS
  s1 = s1
  s2 = s2
  n1 = n1
  n2 = n2
  u1 = u1
  u2 = u2
  None = None
  Servers = {s1}
  Tools = {"t"}
  Urls = {u1, u2}
  Namespaces = {n1, n2}
  Confs <- AdminConfs
  InitOrder <- OneServer
  InitConf <- OneConf
  Writes = {"create", "update", "delete"}
  Loose = {"reconnect"}
  MaxFp = 1
  MaxChanges = 0
  ChannelCap = 1
INVARIANTS EntryConsistent ServersMatch

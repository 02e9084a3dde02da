SPECIFICATION FairSpec
CONSTANTS
  c1 = c1
  c2 = c2
  s1 = s1
  s2 = s2
  Sources = {s1, s2}
  Conns = {c1, c2}
  MaxClients = 1
  ChannelBuf = 1
  MaxBroadcasts = 1
PROPERTIES BroadcastReturns CallsReturn

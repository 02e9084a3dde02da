SPECIFICATION Spec
CONSTANTS
  c1 = c1
  c2 = c2
  c3 = c3
  s1 = s1
  s2 = s2
  Conns = {c1, c2, c3}
  Sources = {s1, s2}
  MaxClients = 2
  ChannelBuf = 1
  MaxBroadcasts = 2
SYMMETRY Symmetry
INVARIANTS TypeOK CountExact CapRespected NoDoubleClose ChannelLifecycle NoGap
CONSTRAINT FewBroadcasts
PROPERTIES FanOutSpec

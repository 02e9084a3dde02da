SPECIFICATION EventsSpec
CONSTANTS
  c1 = c1
  smart = smart
  zfs = zfs
  Conns = {c1}
  Sources = {smart, zfs}
  MaxClients = 1
  ChannelBuf = 2
  MaxBroadcasts = 3
  Smart = smart
  Window = 2
  MaxRefreshes = 2
INVARIANTS EventsTypeOK NoMissedUpdate NoMissingPoint
PROPERTIES BackOnlyFromSnapshot
VIEW WithoutHistory
CONSTRAINT FewNotices

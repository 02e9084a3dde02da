SPECIFICATION Spec
CONSTANTS
  Disks = {d1}
  Clients = {c1}
  d1 = d1
  c1 = c1
  History = 1
  MaxTime = 2
PROPERTIES RecreatedOnlyIfCorrupt

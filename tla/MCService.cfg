SPECIFICATION Spec
CONSTANTS
  Disks = {d1, d2}
  Clients = {}
  d1 = d1
  d2 = d2
  History = 2
  MaxTime = 3
SYMMETRY Symmetry
INVARIANTS ServiceTypeOK HistoryKept

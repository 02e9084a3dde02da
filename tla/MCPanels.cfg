SPECIFICATION PanelsFairSpec
CONSTANTS
  Waiting = Waiting
  Error = Error
  p1 = p1
  Pages = {p1}
  MaxClients = 1
  MaxScans = 2
  MaxChanges = 1
  MaxTicks = 1
  MaxClicks = 1
  MaxFaults = 1
  MaxInFlight = 2
INVARIANTS PanelsTypeOK QuietMeansCurrent IndicatorSettles
PROPERTIES BackOnlyIfOvertaken NoticeIsServed

SPECIFICATION CollectorsSpec
CONSTANTS
  Failed = Failed
  Bad = Bad
  Garbage = Garbage
  NoTemp = NoTemp
  NoParent = NoParent
  Unset = Unset
  Invalid = Invalid
  LoadError = LoadError
  Idle = Idle
  System = "system"
  PoolName = "tank"
  Second = 10
  DurationRange = 256
  Required <- MCRequired
  Default <- MCDefault
  Shown <- MCShown
  UserName <- MCUserName
  UserRank <- MCUserRank
  Envs <- MCEnvs
  SmartInputs <- MCSmartInputs
  DeviceInputs <- MCDeviceInputs
  FilesInputs <- MCFilesInputs
  ZfsInputs <- MCZfsInputs
INVARIANTS
  LoadFollowsEnv TickersRun DisksAsListed GreenWasAnswered WorseIsNoBetter
  TreeAsOnDisk UsageAddsUp PieStable DevicesOfConfig SnapshotsAddUp HitRateColour

CONSTANTS
  f1 = f1
  f2 = f2
  Inodes = {f1, f2}
  MaxWrites = 2
  MaxSwaps = 2
  Requests <- MCRequests
  Foreign <- MCForeign
  Longer <- MCLonger
  Pids = {1, 2, 3, 4, 5}
  Self = 2
  Parent = 3
  Name <- MCName
  ShellOn = TRUE
  ShellAllowed = {"x"}
  MaxDeletes = 2
  MaxActions = 3
  MaxBirths = 2
  LocalPolicies <- MCLocal
  RemotePolicies <- MCRemote
  PrivateCidrs <- MCPrivate
  HostCidrs <- MCHostCidrs
  HostIPs = {2}
  DenyCidrs <- MCDeny
  Triggers = {"scheduled", "manual"}
  WatchPaths <- MCWatch
  Contents = {"c1", "c2"}
  Attrs = {"a", "b"}
  MinInterval = 2
  SettleWindow = 2
  Grain = 2
  HashCacheTTL = 2
  HashCacheMaxItems = 1
  MaxBatchSize = 1
  MaxTime = 5
  MaxInode = 2
  MaxOps = 2
  Configs <- MCConfigs
  Callers = {ticker, enrollment}
  Enroller = enrollment
  Loops <- MCLoops
  LocalOn <- MCLoops
  ConfigFaults = TRUE
  MaxStarts = 2
  Versions = {0, 1, 2, 3}
  Offered <- MCOffered
  KeepReleases = 2
  RelMaxRuns = 3
  RelMaxRenewals = 1
  RelMaxDamages = 1
  RelInterrupts = 1
  Entries <- MCEntries
  Prio <- MCPrio
  Size <- MCSize
  MaxBytes = 3
  MaxItems = 1
  Limit = 2
  MaxGrowth = 0
  MaxCrashes = 2
  DiskFaults = TRUE
SPECIFICATION HostSpec
INVARIANTS LegacyUnblockIsScoped
CHECK_DEADLOCK FALSE

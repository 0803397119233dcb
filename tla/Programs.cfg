SPECIFICATION ProgramsSpec
CONSTANTS
  s1 = s1
  s2 = s2
  f1 = f1
  n1 = n1
  n2 = n2
  p1 = p1
  r1 = r1
  r2 = r2
  Structs = {s1, s2}
  Minors = {0, 1}
  Files = {f1}
  MaxPlugs = 3
  MaxReads = 1
  Ids <- SomeIds
  Settings <- SomeSettings
  Messages <- SomeMessages
  Asked = {{"CD"}}
  MaxCalls = 3
  DEBOUNCE_TIME_MS = 1
  LONG_PRESS_TIME_MS = 3
  TickWrap = 16
  FirstTick = 13
  MaxTicks = 8
  MaxEdges = 3
  Nets = {n1, n2}
  Refusing = {n2}
  Posts = {p1}
  FAIL_LIMIT = 2
  MaxFaults = 2
  MaxCMs = 2
  MaxNaps = 3
  MaxLinkFaults = 2
  MaxReloads = 1
  Scripts = {r1, r2}
  Under = {"hidden", "hwfp"}
  OnDisk = {"own"}
  Target = "code"
  Dats = {"hwfp"}
  MaxDiskFaults = 2
INVARIANTS ProgramsTypeOK RefsAccounted  LinesCounted
PROPERTIES SetTermiosAgrees OneThingPerPress DoneMeansRepaired WifiReturns CellularReturns
CHECK_DEADLOCK FALSE

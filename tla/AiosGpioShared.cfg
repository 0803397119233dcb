SPECIFICATION HistorySpec
CONSTANTS
  NGpios = 1
  Lossy = FALSE
  ErrorFrames = {}
  Callers = {c1, c2}
  c1 = c1
  c2 = c2
  Probe = probe
  None = none
  Uses <- SharedLines
  Operations <- SetAndGet
  InitRetries = 1
  Rounds = 1
  Unbind = FALSE
  Prompt = TRUE
  WireCap = 2
  DoneMax = 1
PROPERTIES GetReturnsALevelSeen
CHECK_DEADLOCK FALSE

SPECIFICATION FairSpec
CONSTANTS
  NGpios = 1
  Lossy = TRUE
  ErrorFrames = {}
  Callers = {c1, c2}
  c1 = c1
  c2 = c2
  Probe = probe
  None = none
  Uses <- SharedLines
  Operations <- Set
  InitRetries = 1
  Rounds = 2
  Unbind = FALSE
  Prompt = FALSE
  WireCap = 2
  DoneMax = 1
INVARIANTS RegisteredMeansReady
PROPERTIES CallsReturn
CHECK_DEADLOCK FALSE

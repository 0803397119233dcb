SPECIFICATION Spec
CONSTANTS
  NGpios = 2
  Lossy = FALSE
  ErrorFrames = {}
  Callers = {c1}
  c1 = c1
  c2 = c2
  Probe = probe
  None = none
  Uses <- SharedLines
  Operations <- Get
  CmdRetries = 1
  InitRetries = 1
  Leftover = {}
  Unbind = FALSE
  Prompt = FALSE
  WireCap = 2
  DoneMax = 1
INVARIANTS MatchedSuccess
CHECK_DEADLOCK FALSE

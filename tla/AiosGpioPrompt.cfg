SPECIFICATION Spec
CONSTANTS
  NGpios = 2
  Lossy = TRUE
  ErrorFrames = {}
  Callers = {c1, c2}
  c1 = c1
  c2 = c2
  Probe = probe
  None = none
  Uses <- OwnLines
  Operations <- SetAndConfigure
  InitRetries = 2
  Rounds = 2
  Unbind = FALSE
  Prompt = TRUE
  WireCap = 2
  DoneMax = 1
INVARIANTS OneOutstanding
PROPERTIES ImplementsLines
CHECK_DEADLOCK FALSE

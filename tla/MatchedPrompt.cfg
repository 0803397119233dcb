SPECIFICATION Spec
CONSTANTS
  NGpios = 2
  Lossy = TRUE
  ErrorFrames = {"refuse"}
  Callers = {c1, c2}
  c1 = c1
  c2 = c2
  Probe = probe
  None = none
  Uses <- OwnLines
  Operations <- SetAndConfigure
  CmdRetries = 2
  InitRetries = 1
  Leftover <- OldAnswers
  Unbind = FALSE
  Prompt = TRUE
  WireCap = 2
  DoneMax = 1
INVARIANTS CacheFilled NoEarlyComplete
PROPERTIES ImplementsLines
CHECK_DEADLOCK FALSE

SPECIFICATION Spec
CONSTANTS
  NGpios = 1
  Lossy = TRUE
  ErrorFrames = {"refuse", "status"}
  Callers = {c1}
  c1 = c1
  c2 = c2
  Probe = probe
  None = none
  Uses <- SharedLines
  Operations <- Inquire
  CmdRetries = 2
  InitRetries = 1
  Leftover = {}
  Unbind = TRUE
  Prompt = FALSE
  WireCap = 2
  DoneMax = 1
INVARIANTS MatchedTypeOK
CHECK_DEADLOCK FALSE

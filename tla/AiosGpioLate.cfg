SPECIFICATION Spec
CONSTANTS
  NGpios = 1
  Lossy = TRUE
  ErrorFrames = {"refuse", "status"}
  Callers = {c1, c2}
  c1 = c1
  c2 = c2
  Probe = probe
  None = none
  Uses <- SharedLines
  Operations <- Inquire
  InitRetries = 1
  Rounds = 1
  Unbind = TRUE
  Prompt = FALSE
  WireCap = 2
  DoneMax = 1
INVARIANTS TypeOK LockHeld SuccessHeard
CHECK_DEADLOCK FALSE

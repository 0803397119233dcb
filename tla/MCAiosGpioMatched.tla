--------------------------- MODULE MCAiosGpioMatched ---------------------------
(* Instances of AiosGpioMatched for TLC.                                    *)
EXTENDS AiosGpioMatched, TLC

CONSTANTS c1, c2

\* Each caller has requested lines of its own, as gpiolib's consumers do.
OwnLines == c1 :> {0} @@ c2 :> {1}

\* Both callers work on every line, as threads that share one request do.
SharedLines == [c \in Callers |-> Lines]

\* Answers to operations of a driver bound before.
OldAnswers == {f \in Frames : f.cmd \notin {"E", "i"} /\ f.val < 2}

\* The operations of the callers.
SetAndConfigure ==
  c1 :> {"direction_input"} @@ c2 :> {"get", "set", "direction_output"}
Inquire == [c \in Callers |-> {"get_direction", "set_config"}]
Get == [c \in Callers |-> {"get"}]
==============================================================================

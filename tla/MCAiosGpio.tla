------------------------------ MODULE MCAiosGpio ------------------------------
(* Instances of AiosGpio for TLC.                                           *)
EXTENDS AiosGpio, TLC

CONSTANTS c1, c2

\* Each caller has requested lines of its own, as gpiolib's consumers do.
OwnLines == c1 :> {0} @@ c2 :> {1}

\* Both callers work on every line, as threads that share one request do.
SharedLines == [c \in Callers |-> Lines]

\* The operations of the callers.
SetAndConfigure ==
  c1 :> {"get", "set", "direction_output"}
  @@ c2 :> {"get_direction", "direction_input", "set_config"}
Inquire == [c \in Callers |-> {"get_direction"}]
Set == [c \in Callers |-> {"set"}]
==============================================================================

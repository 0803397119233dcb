-------------------------- MODULE MCAiosGpioHistory --------------------------
(* Instances of AiosGpioHistory for TLC.                                    *)
EXTENDS AiosGpioHistory, TLC

CONSTANTS c1, c2

SharedLines == [c \in Callers |-> Lines]

\* Both callers set and get.
SetAndGet == [c \in Callers |-> {"set", "get"}]
==============================================================================

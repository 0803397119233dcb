--------------------------- MODULE AiosGpioHistory ---------------------------
(***************************************************************************)
(* AiosGpio with a history variable: the levels a line has had since the   *)
(* get that is under way was called.                                       *)
(***************************************************************************)
EXTENDS AiosGpio

VARIABLE seen   \* history: levels of the line each pending get is about

historyVars == <<vars, seen>>

HistoryInit == Init /\ seen = [c \in Callers |-> {}]

HistoryNext ==
  /\ Next
  /\ seen' = [c \in Callers |->
       IF cur'[c].op # "get" THEN {}
       ELSE seen[c] \cup {pin'[cur'[c].line]}]

HistorySpec == HistoryInit /\ [][HistoryNext]_historyVars

\* gpiochip.get "gets the GPIO's value" (aios_gpio.c:374): what it returns is a
\* level the output line had at some time during the call.
GetReturnsALevelSeen ==
  [][\A c \in Callers :
       FinishGet(c) /\ dir[cur[c].line] = DirOut => values[cur[c].line] \in seen[c]]_historyVars
==============================================================================

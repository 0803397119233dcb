------------------------------ MODULE GpioLines ------------------------------
(***************************************************************************)
(* What gpiolib expects of an expander driver, whatever the bus: an        *)
(* operation takes effect at the expander between its call and its return, *)
(* and one that succeeds returns what the line was when it took effect.    *)
(* An operation that fails may or may not have taken effect.               *)
(*                                                                         *)
(* direction_output is two operations, the direction and then the value,   *)
(* and succeeds when the first does: the value is then not promised.       *)
(***************************************************************************)
EXTENDS Naturals

CONSTANTS
  Users,   \* threads that call the gpiochip
  Pins     \* its lines

VARIABLES
  pin,      \* level of each line
  dir,      \* direction of each line: 1 in, 2 out
  call,     \* the operation each user waits for; op is "none" between calls
  outcome,  \* what that operation found when it took effect
  result    \* what the last operation of each user returned

lineVars == <<pin, dir, call, outcome, result>>

NotYet == [known |-> FALSE, val |-> 0]
Found(v) == [known |-> TRUE, val |-> v]
Failed == [ok |-> FALSE, val |-> 0]

TypeInvariant ==
  /\ pin \in [Pins -> {0, 1}]
  /\ dir \in [Pins -> {1, 2}]
  /\ outcome \in [Users -> [known : BOOLEAN, val : 0..2]]
  /\ result \in [Users -> [ok : BOOLEAN, val : 0..2]]

LinesInit ==
  /\ pin \in [Pins -> {0, 1}]
  /\ dir \in [Pins -> {1, 2}]
  /\ \A u \in Users : call[u].op = "none" /\ outcome[u] = NotYet /\ result[u] = Failed

\* A user calls an operation on one of the lines.
Start(u) ==
  /\ call[u].op = "none"
  /\ call'[u].op # "none"
  /\ call'[u].line \in Pins
  /\ call' = [call EXCEPT ![u] = call'[u]]
  /\ result' = [result EXCEPT ![u] = Failed]
  /\ UNCHANGED <<pin, dir, outcome>>

\* What the operation of u does to the line, and what it finds there.
Does(u) ==
  LET o == call[u] IN
  /\ pin' = IF o.op \in {"set", "output_value"} THEN [pin EXCEPT ![o.line] = o.val] ELSE pin
  /\ dir' = CASE o.op = "direction_input" -> [dir EXCEPT ![o.line] = 1]
              [] o.op = "direction_output" -> [dir EXCEPT ![o.line] = 2]
              [] o.op = "set_config" -> [dir EXCEPT ![o.line] = o.val]
              [] OTHER -> dir

Finds(u) ==
  LET o == call[u] IN
  CASE o.op = "get" -> pin[o.line]
    [] o.op = "get_direction" -> dir[o.line]
    [] OTHER -> 0

TakesEffect(u) ==
  /\ call[u].op # "none"
  /\ ~outcome[u].known
  /\ Does(u)
  /\ outcome' = [outcome EXCEPT ![u] = Found(Finds(u))]
  /\ UNCHANGED <<call, result>>

\* It takes effect and nobody hears of it: the operation can only fail.
TakesEffectUnseen(u) ==
  /\ call[u].op # "none"
  /\ ~outcome[u].known
  /\ Does(u)
  /\ UNCHANGED <<call, outcome, result>>

\* direction_output: the direction is set, now the value.
SecondHalf(u) ==
  /\ call[u].op = "direction_output"
  /\ outcome[u].known
  /\ call' = [call EXCEPT ![u].op = "output_value"]
  /\ outcome' = [outcome EXCEPT ![u] = NotYet]
  /\ UNCHANGED <<pin, dir, result>>

\* get_direction answers in gpiolib's terms: 1 in, 0 out.
Returned(u) ==
  IF call[u].op = "get_direction" THEN 2 - outcome[u].val ELSE outcome[u].val

Succeed(u) ==
  /\ \/ outcome[u].known /\ call[u].op \notin {"none", "direction_output"}
     \/ call[u].op = "output_value"
  /\ result' = [result EXCEPT ![u] = [ok |-> TRUE, val |-> Returned(u)]]
  /\ call' = [call EXCEPT ![u] = call'[u]]
  /\ call'[u].op = "none"
  /\ outcome' = [outcome EXCEPT ![u] = NotYet]
  /\ UNCHANGED <<pin, dir>>

Fail(u) ==
  /\ call[u].op \notin {"none", "output_value"}
  /\ result' = [result EXCEPT ![u] = Failed]
  /\ call' = [call EXCEPT ![u] = call'[u]]
  /\ call'[u].op = "none"
  /\ outcome' = [outcome EXCEPT ![u] = NotYet]
  /\ UNCHANGED <<pin, dir>>

\* The outside world drives an input line.
Driven(l) ==
  /\ dir[l] = 1
  /\ pin' = [pin EXCEPT ![l] = 1 - @]
  /\ UNCHANGED <<dir, call, outcome, result>>

LinesNext ==
  \/ \E u \in Users :
       \/ Start(u) \/ TakesEffect(u) \/ TakesEffectUnseen(u)
       \/ SecondHalf(u) \/ Succeed(u) \/ Fail(u)
  \/ \E l \in Pins : Driven(l)

LinesSpec == LinesInit /\ [][LinesNext]_lineVars
==============================================================================

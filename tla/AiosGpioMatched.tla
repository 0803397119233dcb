---------------------------- MODULE AiosGpioMatched ----------------------------
(***************************************************************************)
(* The January driver of the AIOS expander, 20260124/aios_gpio.c.  Unlike  *)
(* AiosGpio's it tells the answer it waits for from the other frames by    *)
(* command and line, sends a request again after an E frame or a timeout,  *)
(* and answers get_direction from its cache.                               *)
(*                                                                         *)
(* The receive callback updates the cache, matches the frame and only then *)
(* completes whoever waits: two steps here, since it holds no lock.        *)
(***************************************************************************)
EXTENDS AiosLink

CONSTANTS
  Callers,      \* threads that use the gpiochip
  Probe,        \* the thread that binds and unbinds the driver
  None,         \* no actor holds xfer_lock
  Uses,         \* the lines each caller works on
  Operations,   \* the gpiochip operations each caller uses
  CmdRetries,   \* AIOS_CMD_RETRY_MAX
  InitRetries,  \* AIOS_INIT_RETRY_MAX
  Leftover,     \* frames that may be on the line when the driver is bound
  Unbind,       \* the driver may be unbound while it is in use
  Prompt,       \* an answer that arrives at all arrives before the timeout
  WireCap,      \* bound: frames on the line after a request is written
  DoneMax       \* bound: where the completion's counter saturates

AllOperations ==
  {"get_direction", "get", "set", "direction_input", "direction_output", "set_config"}

ASSUME MatchedAssumption ==
  /\ Probe \notin Callers
  /\ None \notin Callers \cup {Probe}
  /\ Uses \in [Callers -> SUBSET Lines]
  /\ Operations \in [Callers -> SUBSET AllOperations]
  /\ CmdRetries \in Nat \ {0}
  /\ InitRetries \in Nat \ {0}
  /\ Leftover \subseteq Frames
  /\ Unbind \in BOOLEAN
  /\ Prompt \in BOOLEAN
  /\ WireCap \in Nat
  /\ DoneMax \in Nat \ {0}

VARIABLES
  chip,        \* life of the gpiochip
  open,        \* the serdev port is open
  serdev,      \* priv->serdev is not NULL
  lock,        \* holder of priv->xfer_lock
  done,        \* priv->completion.done
  expected,    \* expected_cmd and expected_offset; cmd is "none" for 0
  rxCmd,       \* rx_buffer[1]; "none" when rx_len is 0
  values,      \* priv->gpio_values
  directions,  \* priv->gpio_directions
  recv,        \* the receive callback: "idle", "complete", or "crashed"
  pc,          \* where each actor is in aios_gpio_write_retry
  cur,         \* the operation each actor is carrying out
  tries,       \* attempts of each actor's request so far
  ret,         \* what the last attempt returned
  result,      \* what the last operation of each caller returned
  heard        \* history: what was matched for the holder: an answer, or only an E

matchedVars ==
  <<chip, open, serdev, lock, done, expected, rxCmd, values, directions, recv, pc,
    cur, tries, ret, result, heard>>

vars == <<linkVars, matchedVars>>

Actors == Callers \cup {Probe}
DirUnknown == 0

Operation ==
  {o \in [op : AllOperations \cup {"output_value", "init", "query", "none"},
          line : Lines, val : 0..2] :
     o.val \in IF o.op = "set_config" THEN Directions ELSE Levels}
NoOperation == [op |-> "none", line |-> 0, val |-> 0]
Nothing == [ok |-> FALSE, val |-> 0]
Success(v) == [ok |-> TRUE, val |-> v]
NoneExpected == [cmd |-> "none", line |-> 0]

\* The command byte each operation sends.
CommandOf(op) ==
  CASE op \in {"get_direction", "query"} -> "D"
    [] op = "get" -> "R"
    [] op \in {"set", "output_value"} -> "O"
    [] op = "init" -> "i"
    [] OTHER -> "C"

\* The request: the configuration frames fix the direction byte, set_config's
\* to output whatever the parameter is.
Request(o) ==
  [cmd |-> CommandOf(o.op), line |-> o.line,
   val |-> CASE o.op \in {"direction_output", "set_config"} -> DirOut
             [] o.op = "direction_input" -> DirIn
             [] OTHER -> o.val]

\* aios_tx_has_offset: the commands whose answers carry the line.
HasOffset(cmd) == cmd \in {"D", "R", "O"}

MatchedTypeOK ==
  /\ LinkTypeOK
  /\ chip \in {"unbound", "opened", "probing", "registered", "closed", "cleared",
               "removed", "failed"}
  /\ open \in BOOLEAN
  /\ serdev \in BOOLEAN
  /\ lock \in Actors \cup {None}
  /\ done \in 0..DoneMax
  /\ expected \in [cmd : Commands \cup {"none"}, line : Lines]
  /\ rxCmd \in Commands \cup {"E", "none"}
  /\ values \in [Lines -> Levels]
  /\ directions \in [Lines -> 0..2]
  /\ recv \in {"idle", "complete", "crashed"}
  /\ pc \in [Actors -> {"idle", "enter", "lock", "write", "wait", "check", "unlock",
                        "retry", "post", "oops"}]
  /\ cur \in [Actors -> Operation]
  /\ \A c \in Callers : tries[c] \in 0..(CmdRetries - 1)
  /\ tries[Probe] \in 0..(InitRetries - 1)
  /\ ret \in [Actors -> {"ok", "error", "timeout", "again"}]
  /\ result \in [Callers -> [ok : BOOLEAN, val : 0..2]]
  /\ heard \in {"nothing", "answer", "error"}

Init ==
  /\ pin \in [Lines -> Levels]
  /\ dir \in [Lines -> Directions]
  /\ ready = FALSE
  /\ toModule = << >>
  /\ toHost \in {<< >>} \cup {<< f >> : f \in Leftover}
  /\ chip = "unbound"
  /\ open = FALSE
  /\ serdev = FALSE
  /\ lock = None
  /\ done = 0
  /\ expected = NoneExpected
  /\ rxCmd = "none"
  /\ values = [l \in Lines |-> 0]
  /\ directions = [l \in Lines |-> DirUnknown]
  /\ recv = "idle"
  /\ pc = [a \in Actors |-> "idle"]
  /\ cur = [a \in Actors |-> NoOperation]
  /\ tries = [a \in Actors |-> 0]
  /\ ret = [a \in Actors |-> "ok"]
  /\ result = [c \in Callers |-> Nothing]
  /\ heard = "nothing"

-----------------------------------------------------------------------------
(* aios_gpio_write: one transaction of actor a.                            *)

Moves(a, from, to) == pc[a] = from /\ pc' = [pc EXCEPT ![a] = to]

\* The test of priv->serdev, made before the mutex is taken.
Enter(a) ==
  /\ \/ serdev /\ Moves(a, "enter", "lock") /\ UNCHANGED ret
     \/ ~serdev /\ Moves(a, "enter", "post") /\ ret' = [ret EXCEPT ![a] = "error"]
  /\ UNCHANGED <<linkVars, chip, open, serdev, lock, done, expected, rxCmd, values,
                 directions, recv, cur, tries, result, heard>>

\* mutex_lock; what is expected is noted, the completion reinitialised.
Lock(a) ==
  /\ Moves(a, "lock", "write")
  /\ lock = None
  /\ lock' = a
  /\ expected' = [cmd |-> CommandOf(cur[a].op),
                  line |-> IF HasOffset(CommandOf(cur[a].op)) THEN cur[a].line ELSE 0]
  /\ rxCmd' = "none"
  /\ done' = 0
  /\ heard' = "nothing"
  /\ UNCHANGED <<linkVars, chip, open, serdev, values, directions, recv, cur, tries,
                 ret, result>>

\* serdev_device_write sends the request, or only a part of it, which the
\* expander drops and the driver does not notice; with priv->serdev NULL the
\* thread dies here, mutex held.
Write(a) ==
  /\ \/ /\ serdev /\ open
        /\ Len(toModule) + Len(toHost) < WireCap
        /\ Moves(a, "write", "wait")
        /\ toModule' = Append(toModule, Request(cur[a]))
     \/ /\ serdev
        /\ Lossy
        /\ Moves(a, "write", "wait")
        /\ UNCHANGED toModule
     \/ /\ ~serdev
        /\ Moves(a, "write", "oops")
        /\ UNCHANGED toModule
  /\ UNCHANGED <<pin, dir, ready, toHost, chip, open, serdev, lock, done, expected,
                 rxCmd, values, directions, recv, cur, tries, ret, result, heard>>

WriteFails(a) ==
  /\ serdev
  /\ Moves(a, "write", "unlock")
  /\ \E r \in {"error", "timeout"} : ret' = [ret EXCEPT ![a] = r]
  /\ UNCHANGED <<linkVars, chip, open, serdev, lock, done, expected, rxCmd, values,
                 directions, recv, cur, tries, result, heard>>

Wake(a) ==
  /\ done > 0
  /\ Moves(a, "wait", "check")
  /\ done' = done - 1
  /\ UNCHANGED <<linkVars, chip, open, serdev, lock, expected, rxCmd, values,
                 directions, recv, cur, tries, ret, result, heard>>

\* On a prompt link the time is over only when nothing is on the way any more.
Late == Prompt /\ open => toModule = << >> /\ toHost = << >> /\ recv # "complete"

Timeout(a) ==
  /\ done = 0
  /\ Late
  /\ Moves(a, "wait", "unlock")
  /\ ret' = [ret EXCEPT ![a] = "timeout"]
  /\ UNCHANGED <<linkVars, chip, open, serdev, lock, done, expected, rxCmd, values,
                 directions, recv, cur, tries, result, heard>>

\* Mutant of Check: an E frame counts as an answer.
CheckNot(a) ==
  /\ Moves(a, "check", "unlock")
  /\ ret' = [ret EXCEPT ![a] = "ok"]
  /\ UNCHANGED <<linkVars, chip, open, serdev, lock, done, expected, rxCmd, values,
                 directions, recv, cur, tries, result, heard>>

\* Was it an E frame?  The buffer looked at is that of the last frame received.
Check(a) ==
  /\ Moves(a, "check", "unlock")
  /\ ret' = [ret EXCEPT ![a] = IF rxCmd = "E" THEN "again" ELSE "ok"]
  /\ UNCHANGED <<linkVars, chip, open, serdev, lock, done, expected, rxCmd, values,
                 directions, recv, cur, tries, result, heard>>

Unlock(a) ==
  /\ Moves(a, "unlock", IF ret[a] \in {"again", "timeout"} THEN "retry" ELSE "post")
  /\ lock' = None
  /\ heard' = "nothing"
  /\ UNCHANGED <<linkVars, chip, open, serdev, done, expected, rxCmd, values,
                 directions, recv, cur, tries, ret, result>>

\* aios_gpio_write_retry's loop: at most RetryMax attempts, and a message that
\* dereferences priv->serdev after each that failed.
RetryMax(a) == IF a = Probe THEN InitRetries ELSE CmdRetries

\* Mutant of Retry: one attempt more.
RetryOneMore(a) ==
  /\ \/ ~serdev /\ Moves(a, "retry", "oops") /\ UNCHANGED tries
     \/ /\ serdev
        /\ tries[a] < RetryMax(a)
        /\ Moves(a, "retry", "enter")
        /\ tries' = [tries EXCEPT ![a] = @ + 1]
     \/ /\ serdev
        /\ tries[a] = RetryMax(a)
        /\ Moves(a, "retry", "post")
        /\ UNCHANGED tries
  /\ UNCHANGED <<linkVars, chip, open, serdev, lock, done, expected, rxCmd, values,
                 directions, recv, cur, ret, result, heard>>

Retry(a) ==
  /\ \/ ~serdev /\ Moves(a, "retry", "oops") /\ UNCHANGED tries
     \/ /\ serdev
        /\ tries[a] + 1 < RetryMax(a)
        /\ Moves(a, "retry", "enter")
        /\ tries' = [tries EXCEPT ![a] = @ + 1]
     \/ /\ serdev
        /\ tries[a] + 1 = RetryMax(a)
        /\ Moves(a, "retry", "post")
        /\ UNCHANGED tries
  /\ UNCHANGED <<linkVars, chip, open, serdev, lock, done, expected, rxCmd, values,
                 directions, recv, cur, ret, result, heard>>

-----------------------------------------------------------------------------
(* aios_gpio_recv: the cache takes every frame, the completion only one    *)
(* that matches, or an E frame.                                            *)

\* Mutant of Matches: the command is not compared.
MatchesAnyCommand(f) ==
  \/ f.cmd \in {"E", "i", "C"}
  \/ HasOffset(f.cmd) /\ f.line = expected.line

\* aios_match_response.  An answer to C or i carries no line to compare.
Matches(f) ==
  \/ f.cmd = "E"
  \/ f.cmd = expected.cmd /\ (HasOffset(f.cmd) => f.line = expected.line)

RecvFrame ==
  LET f == Head(toHost) IN
  /\ open
  /\ recv = "idle"
  /\ toHost # << >>
  /\ toHost' = Tail(toHost)
  /\ rxCmd' = f.cmd
  /\ directions' = IF f.cmd = "D" THEN [directions EXCEPT ![f.line] = f.val] ELSE directions
  /\ values' = IF f.cmd \in {"R", "O"} THEN [values EXCEPT ![f.line] = f.val] ELSE values
  /\ recv' = IF Matches(f) THEN "complete" ELSE "idle"
  /\ heard' = CASE lock = None \/ ~Matches(f) -> heard
                [] f.cmd # "E" -> "answer"
                [] pc[lock] \in {"write", "wait"} /\ heard = "nothing" -> "error"
                [] OTHER -> heard
  /\ UNCHANGED <<pin, dir, ready, toModule, chip, open, serdev, lock, done, expected,
                 pc, cur, tries, ret, result>>

\* complete(): before the probe has initialised the completion, its list of
\* waiters is a null pointer and the callback dies.
RecvComplete ==
  /\ recv = "complete"
  /\ IF chip = "opened"
       THEN recv' = "crashed" /\ UNCHANGED done
       ELSE recv' = "idle" /\ done' = IF done < DoneMax THEN done + 1 ELSE done
  /\ UNCHANGED <<linkVars, chip, open, serdev, lock, expected, rxCmd, values,
                 directions, pc, cur, tries, ret, result, heard>>

-----------------------------------------------------------------------------
(* The gpiochip operations.                                                *)

\* The arguments the callers give: set_config's is the direction its parameter
\* asks for, PIN_CONFIG_OUTPUT or PIN_CONFIG_INPUT_ENABLE.
Arguments(op) ==
  CASE op = "set_config" -> Directions
    [] op \in {"set", "direction_output"} -> Levels
    [] OTHER -> {0}

Callable == chip \in {"registered", "closed", "cleared"}

\* An operation that needs the expander begins, or dies at its first message.
\* get_direction needs it only when the cache has no direction.
Call(c) ==
  /\ Callable
  /\ \E op \in Operations[c], l \in Uses[c] : \E v \in Arguments(op) :
       /\ op = "get_direction" => directions[l] \notin Directions
       /\ cur' = [cur EXCEPT ![c] = [op |-> op, line |-> l, val |-> v]]
  /\ Moves(c, "idle", IF serdev THEN "enter" ELSE "oops")
  /\ result' = [result EXCEPT ![c] = Nothing]
  /\ UNCHANGED <<linkVars, chip, open, serdev, lock, done, expected, rxCmd, values,
                 directions, recv, tries, ret, heard>>

\* get_direction from the cache: the value returned is the protocol's, 1 or 2.
GetDirectionCached(c) ==
  /\ Callable
  /\ serdev
  /\ "get_direction" \in Operations[c]
  /\ pc[c] = "idle"
  /\ \E l \in Uses[c] :
       /\ directions[l] \in Directions
       /\ result' = [result EXCEPT ![c] = Success(directions[l])]
  /\ UNCHANGED <<linkVars, chip, open, serdev, lock, done, expected, rxCmd, values,
                 directions, recv, pc, cur, tries, ret, heard>>

\* The end of an operation; its locals are dead.
Return(c, r) ==
  /\ Moves(c, "post", "idle")
  /\ result' = [result EXCEPT ![c] = r]
  /\ cur' = [cur EXCEPT ![c] = NoOperation]
  /\ ret' = [ret EXCEPT ![c] = "ok"]
  /\ tries' = [tries EXCEPT ![c] = 0]

\* set returns nothing: result notes that it was not confirmed.
FinishFailed(c) ==
  /\ ret[c] # "ok"
  /\ Return(c, IF cur[c].op = "output_value" THEN Success(0) ELSE Nothing)
  /\ UNCHANGED <<linkVars, chip, open, serdev, lock, done, expected, rxCmd, values,
                 directions, recv, heard>>

FinishGetDirection(c) ==
  /\ ret[c] = "ok"
  /\ cur[c].op = "get_direction"
  /\ LET d == directions[cur[c].line] IN
       Return(c, IF d \in Directions THEN Success(d) ELSE Nothing)
  /\ UNCHANGED <<linkVars, chip, open, serdev, lock, done, expected, rxCmd, values,
                 directions, recv, heard>>

FinishGet(c) ==
  /\ ret[c] = "ok"
  /\ cur[c].op = "get"
  /\ Return(c, Success(values[cur[c].line]))
  /\ UNCHANGED <<linkVars, chip, open, serdev, lock, done, expected, rxCmd, values,
                 directions, recv, heard>>

\* set, and the second half of direction_output.
FinishSet(c) ==
  /\ ret[c] = "ok"
  /\ cur[c].op \in {"set", "output_value"}
  /\ values' = [values EXCEPT ![cur[c].line] = cur[c].val]
  /\ Return(c, Success(0))
  /\ UNCHANGED <<linkVars, chip, open, serdev, lock, done, expected, rxCmd,
                 directions, recv, heard>>

\* direction_input and set_config return what the transaction returned: the
\* cached direction stays.
FinishConfig(c) ==
  /\ ret[c] = "ok"
  /\ cur[c].op \in {"direction_input", "set_config"}
  /\ Return(c, Success(0))
  /\ UNCHANGED <<linkVars, chip, open, serdev, lock, done, expected, rxCmd, values,
                 directions, recv, heard>>

\* direction_output goes on with aios_gpio_gpio_set_value.
OutputValue(c) ==
  /\ ret[c] = "ok"
  /\ cur[c].op = "direction_output"
  /\ Moves(c, "post", IF serdev THEN "enter" ELSE "oops")
  /\ cur' = [cur EXCEPT ![c].op = "output_value"]
  /\ tries' = [tries EXCEPT ![c] = 0]
  /\ UNCHANGED <<linkVars, chip, open, serdev, lock, done, expected, rxCmd, values,
                 directions, recv, ret, result, heard>>

-----------------------------------------------------------------------------
(* aios_gpio_probe, aios_init and aios_gpio_remove, by the thread Probe.   *)

ProbeRequest(op, l, from) ==
  /\ Moves(Probe, from, "enter")
  /\ cur' = [cur EXCEPT ![Probe] = [op |-> op, line |-> l, val |-> 0]]
  /\ tries' = [tries EXCEPT ![Probe] = 0]

ProbeDone ==
  /\ pc' = [pc EXCEPT ![Probe] = "idle"]
  /\ cur' = [cur EXCEPT ![Probe] = NoOperation]
  /\ tries' = [tries EXCEPT ![Probe] = 0]
  /\ ret' = [ret EXCEPT ![Probe] = "ok"]

\* The port is opened with the callback in place.
ProbeOpen ==
  /\ chip = "unbound"
  /\ \/ chip' = "opened" /\ open' = TRUE /\ serdev' = TRUE
     \/ chip' = "failed" /\ UNCHANGED <<open, serdev>>
  /\ UNCHANGED <<linkVars, lock, done, expected, rxCmd, values, directions, recv, pc,
                 cur, tries, ret, result, heard>>

\* Then the completion, the mutex and the cache are initialised, and aios_init
\* sends INIT.
ProbeSetup ==
  /\ chip = "opened"
  /\ chip' = "probing"
  /\ done' = 0
  /\ expected' = NoneExpected
  /\ rxCmd' = "none"
  /\ values' = [l \in Lines |-> 0]
  /\ directions' = [l \in Lines |-> DirUnknown]
  /\ ProbeRequest("init", 0, "idle")
  /\ UNCHANGED <<linkVars, open, serdev, lock, recv, ret, result, heard>>

\* The direction of the first line is queried, and of each line after one.
QueryNext ==
  /\ ret[Probe] = "ok"
  /\ \/ cur[Probe].op = "init" /\ ProbeRequest("query", 0, "post")
     \/ /\ cur[Probe].op = "query"
        /\ cur[Probe].line + 1 < NGpios
        /\ ProbeRequest("query", cur[Probe].line + 1, "post")
  /\ UNCHANGED <<linkVars, chip, open, serdev, lock, done, expected, rxCmd, values,
                 directions, recv, ret, result, heard>>

\* aios_init failed, at INIT or at any query: err_close.
InitFails ==
  /\ pc[Probe] = "post"
  /\ ret[Probe] # "ok"
  /\ open' = FALSE
  /\ chip' = "failed"
  /\ ProbeDone
  /\ UNCHANGED <<linkVars, serdev, lock, done, expected, rxCmd, values, directions,
                 recv, result, heard>>

Register ==
  /\ pc[Probe] = "post"
  /\ ret[Probe] = "ok"
  /\ cur[Probe].op = "query"
  /\ cur[Probe].line + 1 = NGpios
  /\ \/ chip' = "registered" /\ UNCHANGED open
     \/ chip' = "failed" /\ open' = FALSE
  /\ ProbeDone
  /\ UNCHANGED <<linkVars, serdev, lock, done, expected, rxCmd, values, directions,
                 recv, result, heard>>

\* aios_gpio_remove sends a last frame that nobody answers, closes the port and
\* forgets it; devm takes the gpiochip away after it returned.
RemoveClose ==
  /\ Unbind
  /\ chip = "registered"
  /\ open' = FALSE
  /\ chip' = "closed"
  /\ UNCHANGED <<linkVars, serdev, lock, done, expected, rxCmd, values, directions,
                 recv, pc, cur, tries, ret, result, heard>>

RemoveClear ==
  /\ chip = "closed"
  /\ serdev' = FALSE
  /\ chip' = "cleared"
  /\ UNCHANGED <<linkVars, open, lock, done, expected, rxCmd, values, directions,
                 recv, pc, cur, tries, ret, result, heard>>

GpiochipRemoved ==
  /\ chip = "cleared"
  /\ chip' = "removed"
  /\ UNCHANGED <<linkVars, open, serdev, lock, done, expected, rxCmd, values,
                 directions, recv, pc, cur, tries, ret, result, heard>>

-----------------------------------------------------------------------------

Transaction(a) ==
  \/ Enter(a)
  \/ Lock(a)
  \/ Write(a)
  \/ WriteFails(a)
  \/ Wake(a)
  \/ Timeout(a)
  \/ Check(a)
  \/ Unlock(a)
  \/ Retry(a)

Finish(c) ==
  \/ FinishFailed(c)
  \/ FinishGetDirection(c)
  \/ FinishGet(c)
  \/ FinishSet(c)
  \/ FinishConfig(c)
  \/ OutputValue(c)

ProbeStep ==
  \/ ProbeOpen
  \/ ProbeSetup
  \/ QueryNext
  \/ InitFails
  \/ Register

Remove ==
  \/ RemoveClose
  \/ RemoveClear
  \/ GpiochipRemoved

Link == LinkNext /\ UNCHANGED matchedVars

Next ==
  \/ \E a \in Actors : Transaction(a)
  \/ \E c \in Callers : Call(c) \/ GetDirectionCached(c) \/ Finish(c)
  \/ ProbeStep
  \/ Remove
  \/ RecvFrame
  \/ RecvComplete
  \/ Link

Spec == Init /\ [][Next]_vars

-----------------------------------------------------------------------------
(* Properties                                                              *)

\* The probe leaves no line without a cached direction (604-617), which is what
\* lets get_direction answer from the cache, although refusals, lost answers
\* and repeated queries come in between; E frames and answers to INIT meant for
\* the driver bound before do not.
CacheFilled ==
  Prompt /\ "status" \notin ErrorFrames /\ (\A f \in Leftover : f.cmd \notin {"E", "i"}) =>
    (chip = "registered" => \A l \in Lines : directions[l] # DirUnknown)

\* The callback is in place before the completion is initialised (649-681): an
\* expander that sends no E frame of its own cannot make it complete that, not
\* even with an answer, refusals apart, meant for the driver bound before.
NoEarlyComplete ==
  "status" \notin ErrorFrames /\ (\A f \in Leftover : f.cmd # "E") => recv # "crashed"

\* A transaction succeeds only by a frame matched to what it expects: the
\* expected_ fields are "the response the current transaction expects"
\* (aios_gpio.h:66).
MatchedSuccess ==
  \A a \in Actors : pc[a] = "unlock" /\ ret[a] = "ok" => heard # "nothing"

\* What a caller's transaction found, for the abstract specification.
Cached(c) == IF CommandOf(cur[c].op) = "R" THEN values[cur[c].line] ELSE 0

Outcome(c) ==
  CASE pc[c] = "wait" /\ toHost # << >> /\ Head(toHost).cmd # "E" ->
         [known |-> TRUE, val |-> IF Head(toHost).cmd = "R" THEN Head(toHost).val ELSE 0]
    [] \/ pc[c] = "wait" /\ (recv = "complete" \/ done > 0) /\ rxCmd # "E"
       \/ pc[c] = "check" /\ rxCmd # "E"
       \/ pc[c] \in {"unlock", "post"} /\ ret[c] = "ok" ->
         [known |-> TRUE, val |-> Cached(c)]
    [] OTHER -> [known |-> FALSE, val |-> 0]

Abstract == INSTANCE GpioLines WITH
  Users <- Callers,
  Pins <- Lines,
  call <- [c \in Callers |-> cur[c]],
  outcome <- [c \in Callers |-> Outcome(c)]

\* On a prompt link where the firmware may refuse requests, and when no two
\* callers use the same line, get, set, direction_input and direction_output
\* keep gpiolib's promise, attempts repeated after E frames included.  The two
\* other operations do not: set_config makes the line an output when it is
\* asked for an input (434-457), and get_direction answers from a cache that
\* nothing refreshes, in values that are not gpiolib's (402-409).
ImplementsLines == Abstract!LinesSpec
==============================================================================

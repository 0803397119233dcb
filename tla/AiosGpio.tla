------------------------------- MODULE AiosGpio -------------------------------
(***************************************************************************)
(* The AIOS GPIO expander driver, 20260630/aios_gpio.c: one mutex, one     *)
(* completion and a cache of the lines' values and directions.  Callers    *)
(* (gpiolib) and the probing thread send one request at a time and wait    *)
(* for the completion; the receive callback runs beside them, outside the  *)
(* mutex, and completes whoever waits, whatever frame it was given.        *)
(*                                                                         *)
(* Frames are whole here; AiosFrame models how bytes become frames.        *)
(***************************************************************************)
EXTENDS AiosLink

CONSTANTS
  Callers,      \* threads that use the gpiochip
  Probe,        \* the thread that binds and unbinds the driver
  None,         \* no actor holds the mutex
  Uses,         \* the lines each caller works on
  Operations,   \* the gpiochip operations each caller uses
  InitRetries,  \* AIOS_INIT_RETRIES
  Rounds,       \* 1 when current-speed is AIOS_FALLBACK_BAUDRATE, else 2
  Unbind,       \* the driver may be unbound while it is in use
  Prompt,       \* an answer that arrives at all arrives before the timeout
  WireCap,      \* bound: frames on the line after a request is written
  DoneMax       \* bound: where the completion's counter saturates

AllOperations ==
  {"get_direction", "get", "set", "direction_input", "direction_output", "set_config"}

ASSUME GpioAssumption ==
  /\ Probe \notin Callers
  /\ None \notin Callers \cup {Probe}
  /\ Uses \in [Callers -> SUBSET Lines]
  /\ Operations \in [Callers -> SUBSET AllOperations]
  /\ InitRetries \in Nat \ {0}
  /\ Rounds \in {1, 2}
  /\ Unbind \in BOOLEAN
  /\ Prompt \in BOOLEAN
  /\ WireCap \in Nat
  /\ DoneMax \in Nat \ {0}

VARIABLES
  chip,        \* life of the gpiochip
  open,        \* the serdev port is open
  serdev,      \* priv->serdev is not NULL
  lock,        \* holder of priv->lock
  done,        \* priv->completion.done
  values,      \* priv->gpio_values
  directions,  \* priv->gpio_directions
  pc,          \* where each actor is in aios_gpio_write_timeout
  cur,         \* the operation each actor is carrying out
  ret,         \* what aios_gpio_write_timeout returned
  result,      \* what the last operation of each caller returned
  tries,       \* attempts of aios_init's loop so far
  round,       \* 1 at current-speed, 2 at the fallback baud rate
  heard        \* history: a frame was handled since the holder took the mutex

gpioVars ==
  <<chip, open, serdev, lock, done, values, directions, pc, cur, ret, result,
    tries, round, heard>>

vars == <<linkVars, gpioVars>>

Actors == Callers \cup {Probe}
DirUnknown == 0

\* The operations an actor carries out, "output_value" being the second half
\* of direction_output and "init" and "query" the transactions of aios_init.
Operation ==
  {o \in [op : AllOperations \cup {"output_value", "init", "query", "none"},
          line : Lines, val : 0..2] :
     o.val \in IF o.op = "set_config" THEN Directions ELSE Levels}
NoOperation == [op |-> "none", line |-> 0, val |-> 0]
Results == [ok : BOOLEAN, val : 0..2]
Nothing == [ok |-> FALSE, val |-> 0]

\* The command byte each operation sends.
CommandOf(op) ==
  CASE op \in {"get_direction", "query"} -> "D"
    [] op = "get" -> "R"
    [] op \in {"set", "output_value"} -> "O"
    [] op = "init" -> "i"
    [] OTHER -> "C"

\* The request: direction_input and direction_output fix the direction byte.
Request(o) ==
  [cmd |-> CommandOf(o.op), line |-> o.line,
   val |-> CASE o.op = "direction_output" -> DirOut
             [] o.op = "direction_input" -> DirIn
             [] OTHER -> o.val]

TypeOK ==
  /\ LinkTypeOK
  /\ chip \in {"unbound", "probing", "registered", "closed", "cleared", "removed", "failed"}
  /\ open \in BOOLEAN
  /\ serdev \in BOOLEAN
  /\ lock \in Actors \cup {None}
  /\ done \in 0..DoneMax
  /\ values \in [Lines -> Levels]
  /\ directions \in [Lines -> 0..2]
  /\ pc \in [Actors -> {"idle", "enter", "lock", "write", "wait", "unlock", "post", "oops"}]
  /\ cur \in [Actors -> Operation]
  /\ ret \in [Actors -> {"ok", "error", "timeout"}]
  /\ result \in [Callers -> Results]
  /\ tries \in 0..(InitRetries - 1)
  /\ round \in {1, 2}
  /\ heard \in BOOLEAN

Init ==
  /\ LinkInit
  /\ chip = "unbound"
  /\ open = FALSE
  /\ serdev = FALSE
  /\ lock = None
  /\ done = 0
  /\ values = [l \in Lines |-> 0]
  /\ directions = [l \in Lines |-> DirUnknown]
  /\ pc = [a \in Actors |-> "idle"]
  /\ cur = [a \in Actors |-> NoOperation]
  /\ ret = [a \in Actors |-> "ok"]
  /\ result = [c \in Callers |-> Nothing]
  /\ tries = 0
  /\ round = 1
  /\ heard = FALSE

-----------------------------------------------------------------------------
(* aios_gpio_write_timeout: one transaction of actor a.                    *)

\* The test of priv->serdev, made before the mutex is taken.
Enter(a) ==
  /\ pc[a] = "enter"
  /\ IF serdev
       THEN pc' = [pc EXCEPT ![a] = "lock"] /\ UNCHANGED ret
       ELSE pc' = [pc EXCEPT ![a] = "post"] /\ ret' = [ret EXCEPT ![a] = "error"]
  /\ UNCHANGED <<linkVars, chip, open, serdev, lock, done, values, directions, cur,
                 result, tries, round, heard>>

\* Mutant of Lock: no reinit_completion.
LockNoReinit(a) ==
  /\ pc[a] = "lock"
  /\ lock = None
  /\ lock' = a
  /\ heard' = FALSE
  /\ pc' = [pc EXCEPT ![a] = "write"]
  /\ UNCHANGED <<linkVars, chip, open, serdev, done, values, directions, cur, ret, result,
                 tries, round>>

\* Mutant of Lock: no mutex.
LockShared(a) ==
  /\ pc[a] = "lock"
  /\ lock' = a
  /\ done' = 0
  /\ heard' = FALSE
  /\ pc' = [pc EXCEPT ![a] = "write"]
  /\ UNCHANGED <<linkVars, chip, open, serdev, values, directions, cur, ret, result,
                 tries, round>>

\* mutex_lock and reinit_completion.
Lock(a) ==
  /\ pc[a] = "lock"
  /\ lock = None
  /\ lock' = a
  /\ done' = 0
  /\ heard' = FALSE
  /\ pc' = [pc EXCEPT ![a] = "write"]
  /\ UNCHANGED <<linkVars, chip, open, serdev, values, directions, cur, ret, result,
                 tries, round>>

\* serdev_device_write sends the whole request; with priv->serdev NULL the
\* thread dies here, mutex held.
Write(a) ==
  /\ pc[a] = "write"
  /\ \/ /\ serdev
        /\ open
        /\ Len(toModule) + Len(toHost) < WireCap
        /\ toModule' = Append(toModule, Request(cur[a]))
        /\ pc' = [pc EXCEPT ![a] = "wait"]
     \/ /\ ~serdev
        /\ pc' = [pc EXCEPT ![a] = "oops"]
        /\ UNCHANGED toModule
  /\ UNCHANGED <<pin, dir, ready, toHost, chip, open, serdev, lock, done, values,
                 directions, cur, ret, result, tries, round, heard>>

\* A negative return or a short write: the expander drops the partial frame.
WriteFails(a) ==
  /\ pc[a] = "write"
  /\ serdev
  /\ ret' = [ret EXCEPT ![a] = "error"]
  /\ pc' = [pc EXCEPT ![a] = "unlock"]
  /\ UNCHANGED <<linkVars, chip, open, serdev, lock, done, values, directions, cur,
                 result, tries, round, heard>>

\* wait_for_completion_timeout returns because of a completion.
Wake(a) ==
  /\ pc[a] = "wait"
  /\ done > 0
  /\ done' = done - 1
  /\ ret' = [ret EXCEPT ![a] = "ok"]
  /\ pc' = [pc EXCEPT ![a] = "unlock"]
  /\ UNCHANGED <<linkVars, chip, open, serdev, lock, values, directions, cur, result,
                 tries, round, heard>>

\* Mutant of Timeout: returns without goto out_unlock.
TimeoutLocked(a) ==
  /\ pc[a] = "wait"
  /\ done = 0
  /\ Prompt /\ open => toModule = << >> /\ toHost = << >>
  /\ ret' = [ret EXCEPT ![a] = "timeout"]
  /\ pc' = [pc EXCEPT ![a] = "post"]
  /\ UNCHANGED <<linkVars, chip, open, serdev, lock, done, values, directions, cur,
                 result, tries, round, heard>>

\* It returns because the time is over.  On a prompt link that means that
\* nothing is on the way any more.
Timeout(a) ==
  /\ pc[a] = "wait"
  /\ done = 0
  /\ Prompt /\ open => toModule = << >> /\ toHost = << >>
  /\ ret' = [ret EXCEPT ![a] = "timeout"]
  /\ pc' = [pc EXCEPT ![a] = "unlock"]
  /\ UNCHANGED <<linkVars, chip, open, serdev, lock, done, values, directions, cur,
                 result, tries, round, heard>>

Unlock(a) ==
  /\ pc[a] = "unlock"
  /\ lock' = None
  /\ heard' = FALSE
  /\ pc' = [pc EXCEPT ![a] = "post"]
  /\ UNCHANGED <<linkVars, chip, open, serdev, done, values, directions, cur, ret,
                 result, tries, round>>

-----------------------------------------------------------------------------
(* aios_gpio_recv and aios_gpio_handle_frame: no mutex, no matching.       *)

\* Mutant of HandleFrame: an R answer does not reach the cache.
HandleFrameNoValue ==
  LET f == Head(toHost) IN
  /\ open
  /\ toHost # << >>
  /\ toHost' = Tail(toHost)
  /\ directions' = IF f.cmd = "D" THEN [directions EXCEPT ![f.line] = f.val] ELSE directions
  /\ values' = IF f.cmd = "O" THEN [values EXCEPT ![f.line] = f.val] ELSE values
  /\ done' = IF done < DoneMax THEN done + 1 ELSE done
  /\ heard' = (lock # None)
  /\ UNCHANGED <<pin, dir, ready, toModule, chip, open, serdev, lock, pc, cur, ret,
                 result, tries, round>>

\* Mutant of HandleFrame: nor does a D answer.
HandleFrameNoDirection ==
  LET f == Head(toHost) IN
  /\ open
  /\ toHost # << >>
  /\ toHost' = Tail(toHost)
  /\ values' = IF f.cmd \in {"R", "O"} THEN [values EXCEPT ![f.line] = f.val] ELSE values
  /\ done' = IF done < DoneMax THEN done + 1 ELSE done
  /\ heard' = (lock # None)
  /\ UNCHANGED <<pin, dir, ready, toModule, chip, open, serdev, lock, directions, pc, cur, ret,
                 result, tries, round>>

\* One step: nothing here tells the update of the cache from complete().
HandleFrame ==
  LET f == Head(toHost) IN
  /\ open
  /\ toHost # << >>
  /\ toHost' = Tail(toHost)
  /\ directions' = IF f.cmd = "D" THEN [directions EXCEPT ![f.line] = f.val] ELSE directions
  /\ values' = IF f.cmd \in {"R", "O"} THEN [values EXCEPT ![f.line] = f.val] ELSE values
  /\ done' = IF done < DoneMax THEN done + 1 ELSE done
  /\ heard' = (lock # None)
  /\ UNCHANGED <<pin, dir, ready, toModule, chip, open, serdev, lock, pc, cur, ret,
                 result, tries, round>>

-----------------------------------------------------------------------------
(* The gpiochip operations.                                                *)

\* The arguments the callers give to each operation; of set_config's parameters those
\* that send a frame (the others return at 319-334 and change nothing).
Arguments(op) ==
  CASE op = "set_config" -> Directions
    [] op \in {"set", "direction_output"} -> Levels
    [] OTHER -> {0}

\* gpiolib calls an operation while the chip is registered.  Each operation
\* begins with dev_info(&priv->serdev->dev).
Call(c) ==
  /\ pc[c] = "idle"
  /\ chip \in {"registered", "closed", "cleared"}
  /\ \E op \in Operations[c], l \in Uses[c] : \E v \in Arguments(op) :
       cur' = [cur EXCEPT ![c] = [op |-> op, line |-> l, val |-> v]]
  /\ pc' = [pc EXCEPT ![c] = IF serdev THEN "enter" ELSE "oops"]
  /\ result' = [result EXCEPT ![c] = Nothing]
  /\ UNCHANGED <<linkVars, chip, open, serdev, lock, done, values, directions, ret,
                 tries, round, heard>>

\* The end of an operation: what it returns, from the cache as it is now.  Its
\* locals are dead.
Return(c, r) ==
  /\ result' = [result EXCEPT ![c] = r]
  /\ pc' = [pc EXCEPT ![c] = "idle"]
  /\ cur' = [cur EXCEPT ![c] = NoOperation]
  /\ ret' = [ret EXCEPT ![c] = "ok"]

Success(v) == [ok |-> TRUE, val |-> v]

\* aios_gpio_fw_direction_to_gpio: GPIO_LINE_DIRECTION_IN is 1, _OUT is 0.
FwDirectionToGpio(d) ==
  CASE d = DirIn -> Success(1)
    [] d = DirOut -> Success(0)
    [] OTHER -> Nothing

\* set returns nothing to gpiolib: result notes that it was not confirmed.
FinishFailed(c) ==
  /\ pc[c] = "post"
  /\ ret[c] # "ok"
  /\ Return(c, IF cur[c].op = "output_value" THEN Success(0) ELSE Nothing)
  /\ UNCHANGED <<linkVars, chip, open, serdev, lock, done, values, directions,
                 tries, round, heard>>

FinishGetDirection(c) ==
  /\ pc[c] = "post"
  /\ ret[c] = "ok"
  /\ cur[c].op = "get_direction"
  /\ Return(c, FwDirectionToGpio(directions[cur[c].line]))
  /\ UNCHANGED <<linkVars, chip, open, serdev, lock, done, values, directions,
                 tries, round, heard>>

FinishGet(c) ==
  /\ pc[c] = "post"
  /\ ret[c] = "ok"
  /\ cur[c].op = "get"
  /\ Return(c, Success(values[cur[c].line]))
  /\ UNCHANGED <<linkVars, chip, open, serdev, lock, done, values, directions,
                 tries, round, heard>>

\* set, and the second half of direction_output.
FinishSet(c) ==
  /\ pc[c] = "post"
  /\ ret[c] = "ok"
  /\ cur[c].op \in {"set", "output_value"}
  /\ values' = [values EXCEPT ![cur[c].line] = cur[c].val]
  /\ Return(c, Success(0))
  /\ UNCHANGED <<linkVars, chip, open, serdev, lock, done, directions,
                 tries, round, heard>>

\* direction_input and set_config.
FinishConfig(c) ==
  /\ pc[c] = "post"
  /\ ret[c] = "ok"
  /\ cur[c].op \in {"direction_input", "set_config"}
  /\ directions' = [directions EXCEPT ![cur[c].line] = Request(cur[c]).val]
  /\ Return(c, Success(0))
  /\ UNCHANGED <<linkVars, chip, open, serdev, lock, done, values,
                 tries, round, heard>>

\* direction_output has the direction and goes on to write the value, which
\* dereferences priv->serdev again.
OutputValue(c) ==
  /\ pc[c] = "post"
  /\ ret[c] = "ok"
  /\ cur[c].op = "direction_output"
  /\ directions' = [directions EXCEPT ![cur[c].line] = DirOut]
  /\ cur' = [cur EXCEPT ![c].op = "output_value"]
  /\ pc' = [pc EXCEPT ![c] = IF serdev THEN "enter" ELSE "oops"]
  /\ UNCHANGED <<linkVars, chip, open, serdev, lock, done, values, ret, result,
                 tries, round, heard>>

-----------------------------------------------------------------------------
(* aios_gpio_probe, aios_init and aios_gpio_remove, by the thread Probe.   *)

ProbeRequest(op, l) ==
  /\ cur' = [cur EXCEPT ![Probe] = [op |-> op, line |-> l, val |-> 0]]
  /\ pc' = [pc EXCEPT ![Probe] = "enter"]

\* aios_init and the probe are over, and their locals dead.
ProbeDone ==
  /\ cur' = [cur EXCEPT ![Probe] = NoOperation]
  /\ pc' = [pc EXCEPT ![Probe] = "idle"]
  /\ ret' = [ret EXCEPT ![Probe] = "ok"]
  /\ tries' = 0
  /\ round' = 1

\* serdev_device_open succeeds and aios_init sends its first INIT.
ProbeOpen ==
  /\ chip = "unbound"
  /\ open' = TRUE
  /\ serdev' = TRUE
  /\ chip' = "probing"
  /\ tries' = 0
  /\ ProbeRequest("init", 0)
  /\ UNCHANGED <<linkVars, lock, done, values, directions, ret, result, round, heard>>

ProbeOpenFails ==
  /\ chip = "unbound"
  /\ chip' = "failed"
  /\ UNCHANGED <<linkVars, open, serdev, lock, done, values, directions, pc, cur, ret,
                 result, tries, round, heard>>

\* INIT was completed: query the direction of the first line.
InitDone ==
  /\ pc[Probe] = "post"
  /\ cur[Probe].op = "init"
  /\ ret[Probe] = "ok"
  /\ ProbeRequest("query", 0)
  /\ UNCHANGED <<linkVars, chip, open, serdev, lock, done, values, directions, ret,
                 result, tries, round, heard>>

\* Mutant of InitRetry: i <= AIOS_INIT_RETRIES.
InitRetryOneMore ==
  /\ pc[Probe] = "post"
  /\ cur[Probe].op = "init"
  /\ ret[Probe] # "ok"
  /\ tries + 1 <= InitRetries
  /\ tries' = tries + 1
  /\ ProbeRequest("init", 0)
  /\ UNCHANGED <<linkVars, chip, open, serdev, lock, done, values, directions, ret,
                 result, round, heard>>

\* The next of AIOS_INIT_RETRIES attempts.
InitRetry ==
  /\ pc[Probe] = "post"
  /\ cur[Probe].op = "init"
  /\ ret[Probe] # "ok"
  /\ tries + 1 < InitRetries
  /\ tries' = tries + 1
  /\ ProbeRequest("init", 0)
  /\ UNCHANGED <<linkVars, chip, open, serdev, lock, done, values, directions, ret,
                 result, round, heard>>

\* All attempts failed at this rate: once more at the fallback rate.
InitFallback ==
  /\ pc[Probe] = "post"
  /\ cur[Probe].op = "init"
  /\ ret[Probe] # "ok"
  /\ tries + 1 = InitRetries
  /\ round < Rounds
  /\ round' = round + 1
  /\ tries' = 0
  /\ ProbeRequest("init", 0)
  /\ UNCHANGED <<linkVars, chip, open, serdev, lock, done, values, directions, ret,
                 result, heard>>

\* Mutant of InitFails: the error of aios_init's loop is not returned.
InitFailsIgnored ==
  /\ pc[Probe] = "post"
  /\ cur[Probe].op = "init"
  /\ ret[Probe] # "ok"
  /\ tries + 1 = InitRetries
  /\ round = Rounds
  /\ ProbeRequest("query", 0)
  /\ UNCHANGED <<linkVars, chip, open, serdev, lock, done, values, directions, ret,
                 result, tries, round, heard>>

\* err_close.
InitFails ==
  /\ pc[Probe] = "post"
  /\ cur[Probe].op = "init"
  /\ ret[Probe] # "ok"
  /\ tries + 1 = InitRetries
  /\ round = Rounds
  /\ open' = FALSE
  /\ chip' = "failed"
  /\ ProbeDone
  /\ UNCHANGED <<linkVars, serdev, lock, done, values, directions, result, heard>>

\* A line whose direction could not be had is left UNKNOWN.
QueryNext ==
  /\ pc[Probe] = "post"
  /\ cur[Probe].op = "query"
  /\ directions' = IF ret[Probe] = "ok" THEN directions
                   ELSE [directions EXCEPT ![cur[Probe].line] = DirUnknown]
  /\ cur[Probe].line + 1 < NGpios
  /\ ProbeRequest("query", cur[Probe].line + 1)
  /\ UNCHANGED <<linkVars, chip, open, serdev, lock, done, values, ret, result, tries,
                 round, heard>>

\* After the last line devm_gpiochip_add_data registers the chip, or fails.  That
\* gpiolib itself asks for directions meanwhile is left out.
Register ==
  /\ pc[Probe] = "post"
  /\ cur[Probe].op = "query"
  /\ cur[Probe].line + 1 = NGpios
  /\ directions' = IF ret[Probe] = "ok" THEN directions
                   ELSE [directions EXCEPT ![cur[Probe].line] = DirUnknown]
  /\ \/ chip' = "registered" /\ UNCHANGED open
     \/ chip' = "failed" /\ open' = FALSE
  /\ ProbeDone
  /\ UNCHANGED <<linkVars, serdev, lock, done, values, result, heard>>

\* aios_gpio_remove closes the port, then forgets it; devm takes the gpiochip
\* away only after it returned.
RemoveClose ==
  /\ Unbind
  /\ chip = "registered"
  /\ open' = FALSE
  /\ chip' = "closed"
  /\ UNCHANGED <<linkVars, serdev, lock, done, values, directions, pc, cur, ret, result,
                 tries, round, heard>>

RemoveClear ==
  /\ chip = "closed"
  /\ serdev' = FALSE
  /\ chip' = "cleared"
  /\ UNCHANGED <<linkVars, open, lock, done, values, directions, pc, cur, ret, result,
                 tries, round, heard>>

GpiochipRemoved ==
  /\ chip = "cleared"
  /\ chip' = "removed"
  /\ UNCHANGED <<linkVars, open, serdev, lock, done, values, directions, pc, cur, ret,
                 result, tries, round, heard>>

-----------------------------------------------------------------------------

Transaction(a) ==
  \/ Enter(a)
  \/ Lock(a)
  \/ Write(a)
  \/ WriteFails(a)
  \/ Wake(a)
  \/ Timeout(a)
  \/ Unlock(a)

Finish(c) ==
  \/ FinishFailed(c)
  \/ FinishGetDirection(c)
  \/ FinishGet(c)
  \/ FinishSet(c)
  \/ FinishConfig(c)
  \/ OutputValue(c)

ProbeStep ==
  \/ ProbeOpen
  \/ ProbeOpenFails
  \/ InitDone
  \/ InitRetry
  \/ InitFallback
  \/ InitFails
  \/ QueryNext
  \/ Register

Remove ==
  \/ RemoveClose
  \/ RemoveClear
  \/ GpiochipRemoved

Link == LinkNext /\ UNCHANGED gpioVars

Next ==
  \/ \E a \in Actors : Transaction(a)
  \/ \E c \in Callers : Call(c) \/ Finish(c)
  \/ ProbeStep
  \/ Remove
  \/ HandleFrame
  \/ Link

Spec == Init /\ [][Next]_vars

-----------------------------------------------------------------------------
(* Fairness: the threads run, the receive work runs, the firmware answers  *)
(* or loses each request, and the kernel mutex does not starve a waiter.   *)

Fairness ==
  /\ \A a \in Actors :
       /\ WF_vars(Enter(a) \/ Write(a) \/ WriteFails(a) \/ Wake(a) \/ Timeout(a) \/ Unlock(a))
       /\ SF_vars(Lock(a))
  /\ \A c \in Callers : WF_vars(Finish(c))
  /\ WF_vars(ProbeStep)
  /\ WF_vars(HandleFrame)
  /\ WF_vars((ModuleServes \/ AnswerLost \/ RequestLost \/ ModuleRefuses)
             /\ UNCHANGED gpioVars)

FairSpec == Spec /\ Fairness

-----------------------------------------------------------------------------
(* Properties                                                              *)

\* Actors inside the mutex.
Inside(a) == pc[a] \in {"write", "wait", "unlock"}

\* The mutex serves one transaction at a time, and the holder is the actor
\* inside it or one that died there (aios_gpio.c:233-264).
LockHeld ==
  /\ \A a \in Actors : Inside(a) => lock = a
  /\ lock # None => Inside(lock) \/ pc[lock] = "oops"

\* A transaction never succeeds on a completion left over from before it took
\* the mutex: aios_gpio_handle_frame has run since the reinit (236, 255).
SuccessHeard ==
  \A a \in Actors : pc[a] = "unlock" /\ ret[a] = "ok" => heard

\* While the firmware only answers what it is asked, the chip is registered
\* only after it has executed INIT, late answers included (491-504, 648).
RegisteredMeansReady ==
  ErrorFrames = {} => (chip = "registered" => ready)

\* On a prompt link whose firmware never sends E, what is on the line or
\* completed belongs to the transaction that waits: at most one request,
\* answer or completion, and it is the holder's.
OneOutstanding ==
  Prompt /\ ErrorFrames = {} /\ ~Unbind =>
    /\ Len(toModule) + Len(toHost) + done <= 1
    /\ Len(toModule) + Len(toHost) + done = 1 => lock # None /\ pc[lock] = "wait"
    /\ toModule # << >> => Head(toModule) = Request(cur[lock])
    /\ toHost # << >> => /\ Head(toHost).cmd = Request(cur[lock]).cmd
                         /\ Head(toHost).line = Request(cur[lock]).line

\* Every operation and the probe come to an end, whatever frames are lost:
\* no error path leaves the mutex locked (233-265).
CallsReturn ==
  \A a \in Actors : pc[a] # "idle" ~> pc[a] = "idle"

\* What a caller's transaction found, for the abstract specification: the
\* answer on its way, then the cache it was stored in.
Cached(c) ==
  IF CommandOf(cur[c].op) = "D" THEN directions[cur[c].line]
  ELSE IF CommandOf(cur[c].op) = "R" THEN values[cur[c].line] ELSE 0

Outcome(c) ==
  CASE pc[c] = "wait" /\ toHost # << >> ->
         [known |-> TRUE,
          val |-> IF Head(toHost).cmd \in {"D", "R"} THEN Head(toHost).val ELSE 0]
    [] \/ pc[c] = "wait" /\ done > 0
       \/ pc[c] \in {"unlock", "post"} /\ ret[c] = "ok" ->
         [known |-> TRUE, val |-> Cached(c)]
    [] OTHER -> [known |-> FALSE, val |-> 0]

Abstract == INSTANCE GpioLines WITH
  Users <- Callers,
  Pins <- Lines,
  call <- [c \in Callers |-> cur[c]],
  outcome <- [c \in Callers |-> Outcome(c)]

\* On a prompt link without E frames, and when no two callers use the same
\* line, the driver keeps gpiolib's promise: get and get_direction return what
\* the expander had during the call, and a set that succeeds was carried out.
ImplementsLines == Abstract!LinesSpec
==============================================================================

---------------------------- MODULE AiosGpioProofs ----------------------------
(***************************************************************************)
(* Proofs about AiosGpio, for any number of callers and lines and for every *)
(* behaviour of the link the constants allow.                              *)
(***************************************************************************)
EXTENDS AiosGpio, TLAPS

\* The line that INIT frames and idle actors carry is a line.
LEMMA LineZero == 0 \in Lines
  BY LinkAssumption DEF LinkAssumption, Lines

\* The invariant that makes TypeOK inductive: an actor that is not idle has an
\* operation, whose request is then a frame.
BusyActor == \A a \in Actors : pc[a] # "idle" => cur[a].op # "none"

TypeInv == TypeOK /\ BusyActor

\* A request built from an operation is a frame.
LEMMA RequestType ==
  ASSUME NEW o \in Operation, o.op # "none"
  PROVE  Request(o) \in Frames
<1>1. /\ o.op \in AllOperations \cup {"output_value", "init", "query"}
      /\ o.line \in Lines
      /\ o.val \in IF o.op = "set_config" THEN Directions ELSE Levels
  BY DEF Operation
<1> DEFINE cmd == CommandOf(o.op)
           val == CASE o.op = "direction_output" -> DirOut
                    [] o.op = "direction_input" -> DirIn
                    [] OTHER -> o.val
<1>2. cmd \in Commands
  BY DEF CommandOf, Commands
<1>3. /\ val \in 0..2
      /\ cmd \in {"R", "O"} => val \in Levels
      /\ cmd = "C" => val \in Directions
  BY <1>1 DEF CommandOf, AllOperations, Levels, Directions, DirIn, DirOut
<1>4. Request(o) = [cmd |-> cmd, line |-> o.line, val |-> val]
  BY DEF Request
<1> HIDE DEF cmd, val
<1> QED
  BY <1>1, <1>2, <1>3, <1>4 DEF Frames

\* The answer to a frame is a frame.
LEMMA AnswerType ==
  ASSUME LinkTypeOK, NEW f \in Frames
  PROVE  Answer(f) \in Frames
  BY DEF LinkTypeOK, Answer, Frames, Levels, Directions, DirIn, DirOut

\* Carrying out a request keeps the types of the expander's state.
LEMMA ExecuteType ==
  ASSUME LinkTypeOK, NEW f \in Frames, Execute(f)
  PROVE  pin' \in [Lines -> Levels] /\ dir' \in [Lines -> Directions] /\ ready' \in BOOLEAN
  BY DEF LinkTypeOK, Execute, Frames

\* Every step of the line and the firmware keeps the link's types.
LEMMA LinkStepType ==
  ASSUME LinkTypeOK, LinkNext
  PROVE  LinkTypeOK'
<1>1. ASSUME toModule # << >>
      PROVE  Head(toModule) \in Frames /\ Tail(toModule) \in Seq(Frames)
  BY <1>1 DEF LinkTypeOK
<1>2. ASSUME NEW f \in Frames
      PROVE  Append(toHost, f) \in Seq(Frames)
  BY DEF LinkTypeOK
<1>3. ErrorFrame \in Frames
  BY LineZero DEF ErrorFrame, Frames
<1>4. CASE ModuleServes
  <2>1. Answer(Head(toModule)) \in Frames
    BY <1>1, <1>4, AnswerType DEF ModuleServes
  <2>2. pin' \in [Lines -> Levels] /\ dir' \in [Lines -> Directions] /\ ready' \in BOOLEAN
    BY <1>1, <1>4, ExecuteType DEF ModuleServes
  <2> QED
    BY <1>1, <1>2, <1>4, <2>1, <2>2 DEF ModuleServes, LinkTypeOK
<1>5. CASE AnswerLost
  <2>1. pin' \in [Lines -> Levels] /\ dir' \in [Lines -> Directions] /\ ready' \in BOOLEAN
    BY <1>1, <1>5, ExecuteType DEF AnswerLost
  <2> QED
    BY <1>1, <1>5, <2>1 DEF AnswerLost, LinkTypeOK
<1>6. CASE RequestLost
  BY <1>1, <1>6 DEF RequestLost, LinkTypeOK
<1>7. CASE ModuleRefuses
  BY <1>1, <1>2, <1>3, <1>7 DEF ModuleRefuses, LinkTypeOK
<1>8. CASE ModuleStatus
  BY <1>2, <1>3, <1>8 DEF ModuleStatus, LinkTypeOK
<1>9. CASE \E l \in Lines : PinChanges(l)
  BY <1>9 DEF PinChanges, LinkTypeOK, Levels
<1> QED
  BY <1>4, <1>5, <1>6, <1>7, <1>8, <1>9 DEF LinkNext

\* Starting an operation of the probe, and ending one, keep the types.
LEMMA ProbeType ==
  ASSUME TypeInv, NEW op \in {"init", "query"}, NEW l \in Lines, ProbeRequest(op, l)
  PROVE  /\ cur' \in [Actors -> Operation]
         /\ pc' \in [Actors -> {"idle", "enter", "lock", "write", "wait", "unlock", "post", "oops"}]
         /\ BusyActor'
<1>1. [op |-> op, line |-> l, val |-> 0] \in Operation
  BY DEF Operation, Levels
<1> QED
  BY <1>1 DEF TypeInv, TypeOK, BusyActor, ProbeRequest, Actors

\* What an idle actor has in cur is an operation.
LEMMA NoOperationType == NoOperation \in Operation
  BY LineZero DEF NoOperation, Operation, Levels

\* Returning from an operation leaves the four variables it writes well typed.
LEMMA ReturnType ==
  ASSUME TypeInv, NEW c \in Callers, NEW r \in Results, Return(c, r)
  PROVE  /\ result' \in [Callers -> Results]
         /\ cur' \in [Actors -> Operation]
         /\ pc' \in [Actors -> {"idle", "enter", "lock", "write", "wait", "unlock", "post", "oops"}]
         /\ ret' \in [Actors -> {"ok", "error", "timeout"}]
         /\ BusyActor'
  BY NoOperationType DEF TypeInv, TypeOK, BusyActor, Return, Actors

\* A transaction of aios_gpio_write_timeout keeps the types.
LEMMA TransactionType ==
  ASSUME TypeInv, NEW a \in Actors, Transaction(a)
  PROVE  TypeInv'
<1> USE DEF TypeInv, TypeOK, BusyActor, linkVars, LinkTypeOK
<1>1. CASE Enter(a)
  BY <1>1 DEF Enter
<1>2. CASE Lock(a)
  <2>1. done' \in 0..DoneMax
    BY <1>2, GpioAssumption DEF Lock, GpioAssumption
  <2> QED
    BY <1>2, <2>1 DEF Lock
<1>3. CASE Write(a)
  <2>1. Request(cur[a]) \in Frames
    <3>1. cur[a] \in Operation /\ cur[a].op # "none"
      BY <1>3 DEF Write
    <3> QED
      BY <3>1, RequestType
  <2>2. toModule' \in Seq(Frames)
    <3>1. toModule' = Append(toModule, Request(cur[a])) \/ toModule' = toModule
      BY <1>3 DEF Write
    <3>2. toModule \in Seq(Frames)
      OBVIOUS
    <3> HIDE DEF TypeInv
    <3> QED
      BY <2>1, <3>1, <3>2
  <2>3. /\ pc' \in [Actors -> {"idle", "enter", "lock", "write", "wait", "unlock", "post", "oops"}]
        /\ BusyActor'
    BY <1>3 DEF Write
  <2>4. UNCHANGED <<pin, dir, ready, toHost, chip, open, serdev, lock, done, values,
                    directions, cur, ret, result, tries, round, heard>>
    BY <1>3 DEF Write
  <2> QED
    BY <2>2, <2>3, <2>4
<1>4. CASE WriteFails(a)
  BY <1>4 DEF WriteFails
<1>5. CASE Wake(a)
  BY <1>5, GpioAssumption DEF Wake, GpioAssumption
<1>6. CASE Timeout(a)
  BY <1>6 DEF Timeout
<1>7. CASE Unlock(a)
  BY <1>7 DEF Unlock
<1> QED
  BY <1>1, <1>2, <1>3, <1>4, <1>5, <1>6, <1>7 DEF Transaction

\* The receive callback keeps the types.
LEMMA HandleFrameType ==
  ASSUME TypeInv, HandleFrame
  PROVE  TypeInv'
<1> USE DEF TypeInv, TypeOK, BusyActor, LinkTypeOK
<1>1. Head(toHost) \in Frames /\ Tail(toHost) \in Seq(Frames)
  BY DEF HandleFrame
<1>2. values' \in [Lines -> Levels] /\ directions' \in [Lines -> 0..2]
  BY <1>1 DEF HandleFrame, Frames
<1>3. done' \in 0..DoneMax
  BY GpioAssumption DEF HandleFrame, GpioAssumption
<1> QED
  BY <1>1, <1>2, <1>3 DEF HandleFrame

\* An operation's call and its end keep the types.
LEMMA CallerType ==
  ASSUME TypeInv, NEW c \in Callers, Call(c) \/ Finish(c)
  PROVE  TypeInv'
<1> USE DEF TypeInv, linkVars, LinkTypeOK
<1>1. CASE Call(c)
  <2>1. PICK op \in Operations[c], l \in Uses[c] : \E v \in Arguments(op) :
          cur' = [cur EXCEPT ![c] = [op |-> op, line |-> l, val |-> v]]
    BY <1>1 DEF Call
  <2>2. PICK v \in Arguments(op) :
          cur' = [cur EXCEPT ![c] = [op |-> op, line |-> l, val |-> v]]
    BY <2>1
  <2>3. op \in AllOperations /\ l \in Lines
    BY GpioAssumption DEF GpioAssumption
  <2>4. [op |-> op, line |-> l, val |-> v] \in Operation
    BY <2>3 DEF Arguments, Operation, AllOperations, Levels, Directions, DirIn, DirOut
  <2>5. op # "none"
    BY <2>3 DEF AllOperations
  <2> QED
    BY <1>1, <2>2, <2>4, <2>5 DEF Call, TypeOK, BusyActor, Actors, Results, Nothing
<1>2. CASE FinishFailed(c)
  <2>1. (IF cur[c].op = "output_value" THEN Success(0) ELSE Nothing) \in Results
    BY DEF Success, Nothing, Results
  <2> QED
    BY <1>2, <2>1, ReturnType DEF FinishFailed, TypeOK
<1>3. CASE FinishGetDirection(c)
  <2>1. FwDirectionToGpio(directions[cur[c].line]) \in Results
    BY DEF FwDirectionToGpio, Success, Nothing, Results
  <2> QED
    BY <1>3, <2>1, ReturnType DEF FinishGetDirection, TypeOK
<1>4. CASE FinishGet(c)
  <2>1. Success(values[cur[c].line]) \in Results
    BY DEF Success, Results, TypeOK, Actors, Operation, Levels
  <2> QED
    BY <1>4, <2>1, ReturnType DEF FinishGet, TypeOK
<1>5. CASE FinishSet(c)
  <2>1. Success(0) \in Results
    BY DEF Success, Results
  <2>2. values' \in [Lines -> Levels]
    BY <1>5 DEF FinishSet, TypeOK, Actors, Operation
  <2> QED
    BY <1>5, <2>1, <2>2, ReturnType DEF FinishSet, TypeOK
<1>6. CASE FinishConfig(c)
  <2>1. Success(0) \in Results
    BY DEF Success, Results
  <2>2. cur[c] \in Operation
    BY DEF TypeOK, Actors
  <2>3. cur[c].op # "none"
    BY <1>6 DEF FinishConfig
  <2>4. Request(cur[c]).val \in 0..2
    BY <2>2, <2>3, RequestType DEF Frames
  <2>5. directions' \in [Lines -> 0..2]
    BY <1>6, <2>4 DEF FinishConfig, TypeOK
  <2> QED
    BY <1>6, <2>1, <2>5, ReturnType DEF FinishConfig, TypeOK
<1>7. CASE OutputValue(c)
  <2>1. cur[c] \in Operation
    BY DEF TypeOK, Actors
  <2>2. [cur[c] EXCEPT !.op = "output_value"] \in Operation
    BY <1>7, <2>1 DEF OutputValue, Operation, Levels
  <2>3. directions' \in [Lines -> 0..2]
    <3>1. directions' = [directions EXCEPT ![cur[c].line] = DirOut] /\ DirOut \in 0..2
      BY <1>7 DEF OutputValue, DirOut
    <3> QED
      BY <3>1 DEF TypeOK
  <2> QED
    BY <1>7, <2>1, <2>2, <2>3 DEF OutputValue, TypeOK, BusyActor, Actors
<1> QED
  BY <1>1, <1>2, <1>3, <1>4, <1>5, <1>6, <1>7 DEF Finish

\* The probe keeps the types: aios_init's loop never counts past its bound.
LEMMA ProbeStepType ==
  ASSUME TypeInv, ProbeStep
  PROVE  TypeInv'
<1> USE DEF linkVars
<1> DEFINE NextPc == pc' \in [Actors -> {"idle", "enter", "lock", "write", "wait",
                                         "unlock", "post", "oops"}]
<1>1. ASSUME ProbeDone
      PROVE  /\ cur' \in [Actors -> Operation] /\ NextPc /\ BusyActor'
             /\ ret' \in [Actors -> {"ok", "error", "timeout"}]
             /\ tries' \in 0..(InitRetries - 1)
             /\ round' \in {1, 2}
  BY <1>1, NoOperationType, GpioAssumption
  DEF ProbeDone, TypeInv, TypeOK, BusyActor, Actors, GpioAssumption
<1>2. CASE ProbeOpen
  <2>1. tries' \in 0..(InitRetries - 1)
    BY <1>2, GpioAssumption DEF ProbeOpen, GpioAssumption
  <2>2. cur' \in [Actors -> Operation] /\ NextPc /\ BusyActor'
    BY <1>2, ProbeType, LineZero DEF ProbeOpen
  <2> QED
    BY <1>2, <2>1, <2>2 DEF ProbeOpen, TypeInv, TypeOK, LinkTypeOK
<1>3. CASE ProbeOpenFails
  BY <1>3 DEF ProbeOpenFails, TypeInv, TypeOK, LinkTypeOK, BusyActor
<1>4. CASE InitDone
  <2>1. cur' \in [Actors -> Operation] /\ NextPc /\ BusyActor'
    BY <1>4, ProbeType, LineZero DEF InitDone
  <2> QED
    BY <1>4, <2>1 DEF InitDone, TypeInv, TypeOK, LinkTypeOK
<1>5. CASE InitRetry
  <2>1. tries' \in 0..(InitRetries - 1)
    BY <1>5, GpioAssumption DEF InitRetry, GpioAssumption, TypeInv, TypeOK
  <2>2. cur' \in [Actors -> Operation] /\ NextPc /\ BusyActor'
    BY <1>5, ProbeType, LineZero DEF InitRetry
  <2> QED
    BY <1>5, <2>1, <2>2 DEF InitRetry, TypeInv, TypeOK, LinkTypeOK
<1>6. CASE InitFallback
  <2>1. tries' \in 0..(InitRetries - 1) /\ round' \in {1, 2}
    BY <1>6, GpioAssumption DEF InitFallback, GpioAssumption, TypeInv, TypeOK
  <2>2. cur' \in [Actors -> Operation] /\ NextPc /\ BusyActor'
    BY <1>6, ProbeType, LineZero DEF InitFallback
  <2> QED
    BY <1>6, <2>1, <2>2 DEF InitFallback, TypeInv, TypeOK, LinkTypeOK
<1>7. CASE InitFails
  BY <1>1, <1>7 DEF InitFails, TypeInv, TypeOK, LinkTypeOK
<1>8. ASSUME \/ directions' = directions
             \/ directions' = [directions EXCEPT ![cur[Probe].line] = DirUnknown]
      PROVE  directions' \in [Lines -> 0..2]
  BY <1>8 DEF TypeInv, TypeOK, DirUnknown
<1>9. CASE QueryNext
  <2>1. cur[Probe].line + 1 \in Lines
    BY <1>9, LinkAssumption
    DEF QueryNext, TypeInv, TypeOK, Actors, Operation, Lines, LinkAssumption
  <2>2. cur' \in [Actors -> Operation] /\ NextPc /\ BusyActor'
    BY <1>9, <2>1, ProbeType DEF QueryNext
  <2>3. directions' \in [Lines -> 0..2]
    BY <1>8, <1>9 DEF QueryNext
  <2> QED
    BY <1>9, <2>2, <2>3 DEF QueryNext, TypeInv, TypeOK, LinkTypeOK
<1>10. CASE Register
  <2>1. directions' \in [Lines -> 0..2]
    BY <1>8, <1>10 DEF Register
  <2> QED
    BY <1>1, <1>10, <2>1 DEF Register, TypeInv, TypeOK, LinkTypeOK
<1> QED
  BY <1>2, <1>3, <1>4, <1>5, <1>6, <1>7, <1>9, <1>10 DEF ProbeStep

\* TypeInv holds initially.
LEMMA InitType == Init => TypeInv
<1> SUFFICES ASSUME Init PROVE TypeInv
  OBVIOUS
<1>1. LinkTypeOK
  <2>1. << >> \in Seq(Frames)
    OBVIOUS
  <2>2. /\ pin \in [Lines -> Levels] /\ dir \in [Lines -> Directions]
        /\ ready = FALSE /\ toModule = << >> /\ toHost = << >>
    BY DEF Init, LinkInit
  <2> QED
    BY <2>1, <2>2 DEF LinkTypeOK
<1>2. 0 \in 0..DoneMax /\ 0 \in 0..(InitRetries - 1)
  BY GpioAssumption DEF GpioAssumption
<1>3. result \in [Callers -> Results]
  BY DEF Init, Results, Nothing
<1>4. /\ cur \in [Actors -> Operation]
      /\ pc \in [Actors -> {"idle", "enter", "lock", "write", "wait", "unlock", "post", "oops"}]
      /\ ret \in [Actors -> {"ok", "error", "timeout"}]
      /\ BusyActor
  <2>1. cur = [a \in Actors |-> NoOperation] /\ pc = [a \in Actors |-> "idle"]
        /\ ret = [a \in Actors |-> "ok"]
    BY DEF Init
  <2> QED
    BY <2>1, NoOperationType DEF BusyActor
<1>5. values \in [Lines -> Levels] /\ directions \in [Lines -> 0..2]
  BY DEF Init, Levels, DirUnknown
<1> QED
  BY <1>1, <1>2, <1>3, <1>4, <1>5 DEF Init, TypeInv, TypeOK

\* Every step keeps TypeInv.
LEMMA StepType == TypeInv /\ [Next]_vars => TypeInv'
<1> SUFFICES ASSUME TypeInv, [Next]_vars PROVE TypeInv'
  OBVIOUS
<1>1. CASE Remove
  BY <1>1 DEF Remove, RemoveClose, RemoveClear, GpiochipRemoved, TypeInv, TypeOK,
              BusyActor, LinkTypeOK, linkVars
<1>2. CASE Link
  <2>1. LinkTypeOK'
    BY <1>2, LinkStepType DEF Link, TypeInv, TypeOK
  <2> QED
    BY <1>2, <2>1 DEF Link, gpioVars, TypeInv, TypeOK, BusyActor
<1>3. CASE UNCHANGED vars
  BY <1>3 DEF vars, linkVars, gpioVars, TypeInv, TypeOK, BusyActor, LinkTypeOK
<1> QED
  BY <1>1, <1>2, <1>3, TransactionType, CallerType, HandleFrameType, ProbeStepType DEF Next

\* The driver's state keeps its types for ever, whatever the link does.
THEOREM TypeCorrect == Spec => []TypeOK
<1>1. TypeInv => TypeOK
  BY DEF TypeInv
<1> QED
  BY <1>1, InitType, StepType, PTL DEF Spec

-----------------------------------------------------------------------------
(* The mutex and the completion.                                           *)

\* What SuccessHeard rests on: inside the mutex, a completion that is pending
\* came from a frame handled inside it.
Fresh ==
  \A a \in Actors :
    /\ pc[a] \in {"write", "wait"} /\ done > 0 => heard
    /\ pc[a] = "unlock" /\ ret[a] = "ok" => heard

\* Nobody is at work before the probe opens the port.
NobodyYet == chip = "unbound" => pc[Probe] = "idle"

MutexInv == LockHeld /\ Fresh /\ NobodyYet

\* A step of aios_gpio_write_timeout keeps the mutex's invariant.
LEMMA MutexTransaction ==
  ASSUME TypeInv, MutexInv, NEW a \in Actors, Transaction(a)
  PROVE  MutexInv'
<1>0. NobodyYet'
  <2>1. chip' = chip /\ pc[a] # "idle"
    BY DEF Transaction, Enter, Lock, Write, WriteFails, Wake, Timeout, Unlock
  <2>2. \A b \in Actors : b # a => pc'[b] = pc[b]
    BY DEF TypeInv, TypeOK, Transaction, Enter, Lock, Write, WriteFails, Wake, Timeout, Unlock
  <2> QED
    BY <2>1, <2>2 DEF MutexInv, NobodyYet, Actors
<1> USE DEF MutexInv, LockHeld, Inside, Fresh
<1>1. /\ pc \in [Actors -> {"idle", "enter", "lock", "write", "wait", "unlock", "post", "oops"}]
      /\ ret \in [Actors -> {"ok", "error", "timeout"}]
      /\ done \in Nat
      /\ lock \in Actors \cup {None}
      /\ None \notin Actors
  BY GpioAssumption DEF TypeInv, TypeOK, GpioAssumption, Actors
<1>2. CASE Enter(a)
  BY <1>0, <1>1, <1>2 DEF Enter
<1>3. CASE Lock(a)
  BY <1>0, <1>1, <1>3 DEF Lock
<1>4. CASE Write(a)
  BY <1>0, <1>1, <1>4 DEF Write
<1>5. CASE WriteFails(a)
  BY <1>0, <1>1, <1>5 DEF WriteFails
<1>6. CASE Wake(a)
  BY <1>0, <1>1, <1>6 DEF Wake
<1>7. CASE Timeout(a)
  BY <1>0, <1>1, <1>7 DEF Timeout
<1>8. CASE Unlock(a)
  BY <1>0, <1>1, <1>8 DEF Unlock
<1> QED
  BY <1>2, <1>3, <1>4, <1>5, <1>6, <1>7, <1>8 DEF Transaction

\* Outside aios_gpio_write_timeout and the receive callback, no step touches
\* the mutex or the completion, or moves an actor that is inside.
LEMMA MutexUntouched ==
  ASSUME TypeInv, MutexInv, UNCHANGED <<lock, done, heard>>,
         \A a \in Actors : pc[a] \in {"write", "wait", "unlock", "oops"} =>
                             pc'[a] = pc[a] /\ ret'[a] = ret[a],
         \A a \in Actors : pc'[a] \in {"write", "wait", "unlock"} => pc'[a] = pc[a],
         NobodyYet'
  PROVE  MutexInv'
  BY DEF TypeInv, TypeOK, MutexInv, LockHeld, Inside, Fresh

\* Every step keeps the mutex's invariant.
LEMMA MutexStep == TypeInv /\ MutexInv /\ [Next]_vars => MutexInv'
<1> SUFFICES ASSUME TypeInv, MutexInv, [Next]_vars PROVE MutexInv'
  OBVIOUS
<1> USE DEF TypeInv, TypeOK
<1>1. ASSUME NEW c \in Callers, Call(c) \/ Finish(c)
      PROVE  MutexInv'
  BY <1>1, MutexUntouched, GpioAssumption
  DEF Call, Finish, FinishFailed, FinishGetDirection, FinishGet, FinishSet, FinishConfig,
      OutputValue, Return, Actors, MutexInv, NobodyYet, GpioAssumption
<1>2. CASE ProbeStep
  <2>1. (pc[Probe] = "idle" \/ pc[Probe] = "post") /\ NobodyYet'
    BY <1>2 DEF MutexInv, NobodyYet, ProbeStep, ProbeOpen, ProbeOpenFails, InitDone, InitRetry, InitFallback,
                InitFails, QueryNext, Register, ProbeRequest, ProbeDone, Actors
  <2> QED
    BY <1>2, <2>1, MutexUntouched
    DEF ProbeStep, ProbeOpen, ProbeOpenFails, InitDone, InitRetry, InitFallback, InitFails,
        QueryNext, Register, ProbeRequest, ProbeDone, Actors
<1>3. CASE HandleFrame
  BY <1>3, GpioAssumption
  DEF HandleFrame, MutexInv, LockHeld, Inside, Fresh, NobodyYet, Actors, GpioAssumption
<1>4. CASE Remove \/ Link \/ UNCHANGED vars
  BY <1>4, MutexUntouched
  DEF Remove, RemoveClose, RemoveClear, GpiochipRemoved, Link, vars, gpioVars, MutexInv,
      NobodyYet
<1> QED
  BY <1>1, <1>2, <1>3, <1>4, MutexTransaction DEF Next

\* The mutex's invariant holds initially.
LEMMA MutexInit == Init => MutexInv
<1> SUFFICES ASSUME Init PROVE MutexInv
  OBVIOUS
<1>1. \A a \in Actors : pc[a] = "idle"
  BY DEF Init
<1> QED
  BY <1>1 DEF Init, MutexInv, LockHeld, Inside, Fresh, NobodyYet, Actors

\* One transaction at a time holds the mutex, and no path leaves it locked.
THEOREM MutexCorrect == Spec => []LockHeld
<1>1. MutexInv => LockHeld
  BY DEF MutexInv
<1> QED
  BY <1>1, InitType, StepType, MutexInit, MutexStep, PTL DEF Spec

\* No transaction succeeds on a completion from before its own reinit.
THEOREM NoStaleCompletion == Spec => []SuccessHeard
<1>1. MutexInv => SuccessHeard
  BY DEF MutexInv, Fresh, SuccessHeard
<1> QED
  BY <1>1, InitType, StepType, MutexInit, MutexStep, PTL DEF Spec

-----------------------------------------------------------------------------
(* Initialisation.                                                         *)

\* While the firmware has not executed INIT, only INITs have been sent, none of
\* them has been answered, and the probe has not got past INIT.
InitPending ==
  ErrorFrames = {} /\ ~ready =>
    /\ toHost = << >>
    /\ \A i \in 1..Len(toModule) : toModule[i].cmd = "i"
    /\ done = 0
    /\ chip \in {"unbound", "probing", "failed"}
    /\ \A c \in Callers : pc[c] = "idle"
    /\ cur[Probe].op \in {"none", "init"}
    /\ pc[Probe] \in {"unlock", "post"} => ret[Probe] # "ok"

\* InitPending holds initially.
LEMMA InitPendingInit == Init => InitPending
<1> SUFFICES ASSUME Init PROVE InitPending
  OBVIOUS
<1>1. /\ toHost = << >> /\ toModule = << >> /\ done = 0 /\ chip = "unbound"
      /\ \A a \in Actors : pc[a] = "idle"
      /\ cur[Probe].op = "none"
  BY DEF Init, LinkInit, NoOperation, Actors
<1> QED
  BY <1>1 DEF InitPending, Actors

\* A transaction keeps InitPending: nothing but INIT is sent while it is pending.
LEMMA InitPendingTransaction ==
  ASSUME TypeInv, MutexInv, InitPending, NEW a \in Actors, Transaction(a)
  PROVE  InitPending'
<1> SUFFICES ASSUME ErrorFrames = {}, ~ready, ready' = ready
             PROVE  InitPending'
  BY DEF InitPending, Transaction, Enter, Lock, Write, WriteFails, Wake, Timeout, Unlock,
         linkVars
<1>1. /\ toHost = << >> /\ done = 0 /\ chip \in {"unbound", "probing", "failed"}
      /\ \A i \in 1..Len(toModule) : toModule[i].cmd = "i"
      /\ \A c \in Callers : pc[c] = "idle"
      /\ cur[Probe].op \in {"none", "init"}
      /\ pc[Probe] \in {"unlock", "post"} => ret[Probe] # "ok"
  BY DEF InitPending
<1>2. a = Probe
  BY <1>1 DEF Actors, Transaction, Enter, Lock, Write, WriteFails, Wake, Timeout, Unlock
<1>3. /\ pc \in [Actors -> {"idle", "enter", "lock", "write", "wait", "unlock", "post", "oops"}]
      /\ ret \in [Actors -> {"ok", "error", "timeout"}]
      /\ toModule \in Seq(Frames)
      /\ Probe \in Actors /\ Probe \notin Callers
      /\ Callers \subseteq Actors
  BY GpioAssumption DEF TypeInv, TypeOK, LinkTypeOK, Actors, GpioAssumption
<1>4. CASE Enter(a)
  BY <1>1, <1>2, <1>3, <1>4 DEF Enter, InitPending, linkVars
<1>5. CASE Lock(a)
  BY <1>1, <1>2, <1>3, <1>5 DEF Lock, InitPending, linkVars
<1>6. CASE Write(a)
  <2>1. cur[Probe].op # "none"
    BY <1>2, <1>3, <1>6 DEF Write, TypeInv, BusyActor
  <2>2. Request(cur[Probe]).cmd = "i"
    BY <1>1, <2>1 DEF Request, CommandOf
  <2>3. toModule' = Append(toModule, Request(cur[Probe])) \/ toModule' = toModule
    BY <1>2, <1>6 DEF Write
  <2>4. \A i \in 1..Len(toModule') : toModule'[i].cmd = "i"
    BY <1>1, <1>3, <2>2, <2>3
  <2> QED
    BY <1>1, <1>2, <1>3, <1>6, <2>4 DEF Write, InitPending
<1>7. CASE WriteFails(a)
  BY <1>1, <1>2, <1>3, <1>7 DEF WriteFails, InitPending, linkVars
<1>8. CASE Wake(a)
  BY <1>1, <1>8 DEF Wake
<1>9. CASE Timeout(a)
  BY <1>1, <1>2, <1>3, <1>9 DEF Timeout, InitPending, linkVars
<1>10. CASE Unlock(a)
  BY <1>1, <1>2, <1>3, <1>10 DEF Unlock, InitPending, linkVars
<1> QED
  BY <1>4, <1>5, <1>6, <1>7, <1>8, <1>9, <1>10 DEF Transaction

\* The link keeps InitPending: while INIT is pending the firmware answers nothing.
LEMMA InitPendingLink ==
  ASSUME TypeInv, InitPending, Link
  PROVE  InitPending'
<1>0. ready => ready'
  BY DEF Link, LinkNext, ModuleServes, AnswerLost, RequestLost, ModuleRefuses, ModuleStatus,
         PinChanges, Execute
<1> SUFFICES ASSUME ErrorFrames = {}, ~ready, ~ready'
             PROVE  InitPending'
  BY <1>0 DEF InitPending
<1>1. /\ toHost = << >>
      /\ \A i \in 1..Len(toModule) : toModule[i].cmd = "i"
  BY DEF InitPending
<1>2. toModule \in Seq(Frames)
  BY DEF TypeInv, TypeOK, LinkTypeOK
<1>3. ASSUME toModule # << >>
      PROVE  /\ Head(toModule).cmd = "i"
             /\ \A i \in 1..Len(Tail(toModule)) : Tail(toModule)[i].cmd = "i"
  <2>1. Len(toModule) \in Nat \ {0} /\ Head(toModule) = toModule[1]
    BY <1>2, <1>3
  <2>2. /\ Len(Tail(toModule)) = Len(toModule) - 1
        /\ \A i \in 1..Len(Tail(toModule)) : Tail(toModule)[i] = toModule[i + 1]
    BY <1>2, <1>3
  <2> QED
    BY <1>1, <2>1, <2>2
<1>4. \/ UNCHANGED <<toModule, toHost>>
      \/ toModule # << >> /\ toModule' = Tail(toModule) /\ UNCHANGED toHost
  BY <1>3 DEF Link, LinkNext, ModuleServes, AnswerLost, RequestLost, ModuleRefuses,
              ModuleStatus, PinChanges, Execute
<1>5. toHost' = << >> /\ \A i \in 1..Len(toModule') : toModule'[i].cmd = "i"
  BY <1>1, <1>3, <1>4
<1> QED
  BY <1>5 DEF InitPending, Link, gpioVars

\* Every step keeps InitPending.
LEMMA InitPendingStep ==
  TypeInv /\ MutexInv /\ InitPending /\ [Next]_vars => InitPending'
<1> SUFFICES ASSUME TypeInv, MutexInv, InitPending, [Next]_vars PROVE InitPending'
  OBVIOUS
<1>1. CASE ~(ErrorFrames = {} /\ ~ready')
  BY <1>1 DEF InitPending
<1>2. ASSUME ErrorFrames = {}, ~ready, UNCHANGED linkVars,
             \/ \E c \in Callers : Call(c) \/ Finish(c)
             \/ ProbeStep
             \/ Remove
             \/ HandleFrame
             \/ UNCHANGED vars
      PROVE  InitPending'
  <2>1. /\ toHost = << >> /\ done = 0 /\ chip \in {"unbound", "probing", "failed"}
        /\ \A c \in Callers : pc[c] = "idle"
        /\ cur[Probe].op \in {"none", "init"}
        /\ pc[Probe] \in {"unlock", "post"} => ret[Probe] # "ok"
    BY <1>2 DEF InitPending
  <2>2. (~HandleFrame /\ ~Remove) \/ chip = "closed" \/ chip = "cleared"
    BY <2>1 DEF HandleFrame, Remove, RemoveClose, RemoveClear, GpiochipRemoved
  <2>3. ~\E c \in Callers : Call(c) \/ Finish(c)
    BY <2>1 DEF Call, Finish, FinishFailed, FinishGetDirection, FinishGet, FinishSet,
                FinishConfig, OutputValue
  <2>4. CASE ProbeStep
    <3>1. /\ pc \in [Actors -> {"idle", "enter", "lock", "write", "wait", "unlock", "post", "oops"}]
          /\ cur \in [Actors -> Operation]
          /\ Probe \in Actors /\ Probe \notin Callers /\ Callers \subseteq Actors
      BY GpioAssumption DEF TypeInv, TypeOK, Actors, GpioAssumption
    <3>2. ~InitDone /\ ~QueryNext /\ ~Register
      BY <2>1 DEF InitDone, QueryNext, Register
    <3>3. pc'[Probe] \in {"idle", "enter"} /\ cur'[Probe].op \in {"none", "init"}
      <4>1. CASE ProbeOpenFails
        BY <2>1, <4>1 DEF ProbeOpenFails, MutexInv, NobodyYet
      <4>2. CASE ProbeOpen \/ InitRetry \/ InitFallback
        BY <3>1, <4>2 DEF ProbeOpen, InitRetry, InitFallback, ProbeRequest
      <4>3. CASE InitFails
        BY <3>1, <4>3 DEF InitFails, ProbeDone, NoOperation
      <4> QED
        BY <2>4, <3>2, <4>1, <4>2, <4>3 DEF ProbeStep
    <3>4. /\ done' = done /\ chip' \in {"unbound", "probing", "failed"}
          /\ \A c \in Callers : pc'[c] = pc[c]
      BY <2>1, <2>4, <3>1, <3>2
      DEF ProbeStep, ProbeOpen, ProbeOpenFails, InitRetry, InitFallback, InitFails,
          ProbeRequest, ProbeDone
    <3> QED
      BY <1>2, <2>1, <3>3, <3>4 DEF InitPending, linkVars
  <2> QED
    BY <1>2, <2>1, <2>2, <2>3, <2>4 DEF InitPending, vars, linkVars, gpioVars
<1>3. ASSUME ErrorFrames = {}, ~ready', ~Link, ~\E a \in Actors : Transaction(a)
      PROVE  InitPending'
  <2>1. CASE HandleFrame
    BY <1>3, <2>1 DEF HandleFrame, InitPending
  <2>2. CASE ~HandleFrame
    <3>1. UNCHANGED linkVars
      BY <1>3, <2>2
      DEF Next, vars, Call, Finish, FinishFailed, FinishGetDirection, FinishGet, FinishSet,
          FinishConfig, OutputValue, ProbeStep, ProbeOpen, ProbeOpenFails, InitDone, InitRetry,
          InitFallback, InitFails, QueryNext, Register, Remove, RemoveClose, RemoveClear,
          GpiochipRemoved
    <3> QED
      BY <1>2, <1>3, <3>1 DEF Next, linkVars
  <2> QED
    BY <2>1, <2>2
<1> QED
  BY <1>1, <1>3, InitPendingTransaction, InitPendingLink

\* With a firmware that only answers what it is asked, a registered chip has been
\* initialised, however late the answers come.
THEOREM RegisteredIsReady == Spec => []RegisteredMeansReady
<1>1. InitPending => RegisteredMeansReady
  BY DEF InitPending, RegisteredMeansReady
<1> QED
  BY <1>1, InitType, StepType, MutexInit, MutexStep, InitPendingInit, InitPendingStep, PTL
  DEF Spec

-----------------------------------------------------------------------------
(* What is outstanding on a prompt link.                                   *)

Quiet == Prompt /\ ErrorFrames = {} /\ ~Unbind

\* The chip's life decides who may be at work, and the port is open meanwhile.
Life ==
  Quiet =>
    /\ chip \in {"unbound", "probing", "registered", "failed"}
    /\ chip \in {"probing", "registered"} => open /\ serdev
    /\ chip # "registered" => \A c \in Callers : pc[c] = "idle"
    /\ chip # "probing" => pc[Probe] = "idle"

Waiting == lock # None /\ pc[lock] = "wait"

\* The request of the waiting actor is on its way, or its answer is, or the
\* answer was handled, or one of them was lost; otherwise the line is empty.
Outstanding ==
  Quiet =>
    IF Waiting
      THEN \/ toModule = << >> /\ toHost = << >> /\ done \in {0, 1}
           \/ /\ toModule = << Request(cur[lock]) >>
              /\ toHost = << >> /\ done = 0
           \/ /\ toModule = << >> /\ done = 0
              /\ \E f \in Frames : /\ toHost = << f >>
                                   /\ f.cmd = Request(cur[lock]).cmd
                                   /\ f.line = Request(cur[lock]).line
      ELSE toModule = << >> /\ toHost = << >> /\ done = 0

QuietInv == Life /\ Outstanding

\* QuietInv holds initially.
LEMMA QuietInit == Init => QuietInv
<1> SUFFICES ASSUME Init PROVE QuietInv
  OBVIOUS
<1>1. /\ toHost = << >> /\ toModule = << >> /\ done = 0 /\ chip = "unbound" /\ lock = None
      /\ \A a \in Actors : pc[a] = "idle"
  BY DEF Init, LinkInit
<1> QED
  BY <1>1 DEF QuietInv, Life, Outstanding, Waiting, Actors

\* The chip's life under every step.
LEMMA LifeStep == TypeInv /\ MutexInv /\ Life /\ [Next]_vars => Life'
<1> SUFFICES ASSUME TypeInv, MutexInv, Life, [Next]_vars, Quiet PROVE Life'
  BY DEF Life, Quiet
<1>1. /\ pc \in [Actors -> {"idle", "enter", "lock", "write", "wait", "unlock", "post", "oops"}]
      /\ Probe \in Actors /\ Probe \notin Callers /\ Callers \subseteq Actors
      /\ Actors = Callers \cup {Probe}
  BY GpioAssumption DEF TypeInv, TypeOK, Actors, GpioAssumption
<1>2. /\ chip \in {"unbound", "probing", "registered", "failed"}
      /\ chip \in {"probing", "registered"} => open /\ serdev
      /\ chip # "registered" => \A c \in Callers : pc[c] = "idle"
      /\ chip # "probing" => pc[Probe] = "idle"
  BY DEF Life
<1>3. ASSUME NEW a \in Actors, Transaction(a)
      PROVE  Life'
  <2>1. pc[a] # "idle" /\ UNCHANGED <<chip, open, serdev>>
    BY <1>3 DEF Transaction, Enter, Lock, Write, WriteFails, Wake, Timeout, Unlock
  <2>2. \A b \in Actors : b # a => pc'[b] = pc[b]
    BY <1>1, <1>3 DEF Transaction, Enter, Lock, Write, WriteFails, Wake, Timeout, Unlock
  <2> QED
    BY <1>1, <1>2, <2>1, <2>2 DEF Life
<1>4. ASSUME NEW c \in Callers, Call(c) \/ Finish(c)
      PROVE  Life'
  <2>1. UNCHANGED <<chip, open, serdev>> /\ pc'[Probe] = pc[Probe]
    BY <1>1, <1>4 DEF Call, Finish, FinishFailed, FinishGetDirection, FinishGet, FinishSet,
      FinishConfig, OutputValue, Return
  <2>2. chip = "registered"
    BY <1>2, <1>4 DEF Call, Finish, FinishFailed, FinishGetDirection, FinishGet, FinishSet,
      FinishConfig, OutputValue
  <2> QED
    BY <1>2, <2>1, <2>2 DEF Life
<1>5. CASE ProbeStep
  BY <1>1, <1>2, <1>5
  DEF Life, ProbeStep, ProbeOpen, ProbeOpenFails, InitDone, InitRetry, InitFallback, InitFails,
      QueryNext, Register, ProbeRequest, ProbeDone
<1>6. CASE HandleFrame \/ Link \/ UNCHANGED vars
  BY <1>2, <1>6 DEF Life, HandleFrame, Link, vars, gpioVars
<1>7. ~Remove
  BY <1>2 DEF Quiet, Remove, RemoveClose, RemoveClear, GpiochipRemoved
<1> QED
  BY <1>3, <1>4, <1>5, <1>6, <1>7 DEF Next

\* A transaction's steps: a request goes out on an empty line only, and a
\* transaction ends with an empty one.
LEMMA OutstandingTransaction ==
  ASSUME TypeInv, MutexInv, QuietInv, NEW a \in Actors, Transaction(a)
  PROVE  Outstanding'
<1> SUFFICES ASSUME Quiet PROVE Outstanding'
  BY DEF Outstanding, Quiet
<1>1. /\ pc \in [Actors -> {"idle", "enter", "lock", "write", "wait", "unlock", "post", "oops"}]
      /\ lock \in Actors \cup {None}
      /\ None \notin Actors
      /\ done \in Nat
      /\ toModule \in Seq(Frames)
      /\ Inside(a) => lock = a
  BY GpioAssumption
  DEF TypeInv, TypeOK, LinkTypeOK, Actors, GpioAssumption, MutexInv, LockHeld
<1>2. pc[a] # "idle" => open /\ serdev
  BY DEF QuietInv, Life, Actors
<1>3. ~Waiting => toModule = << >> /\ toHost = << >> /\ done = 0
  BY DEF QuietInv, Outstanding
<1>4. CASE Enter(a) \/ WriteFails(a) \/ Unlock(a) \/ Lock(a)
  <2>1. /\ UNCHANGED <<toModule, toHost, cur>>
        /\ done' = done \/ done' = 0
        /\ lock' \in {lock, None, a}
        /\ \A b \in Actors : pc'[b] = "wait" <=> pc[b] = "wait"
    BY <1>1, <1>4 DEF Enter, WriteFails, Unlock, Lock, linkVars
  <2>2. Waiting <=> Waiting'
    BY <1>1, <1>4, <2>1 DEF Waiting, Enter, WriteFails, Unlock, Lock, Inside
  <2>3. Waiting => lock' = lock /\ done' = done
    BY <1>1, <1>4 DEF Waiting, Enter, WriteFails, Unlock, Lock, Inside
  <2> QED
    BY <1>3, <2>1, <2>2, <2>3 DEF QuietInv, Outstanding, Request, CommandOf
<1>5. CASE Write(a)
  <2>1. lock = a /\ ~Waiting /\ open /\ serdev
    BY <1>1, <1>2, <1>5 DEF Write, Inside, Waiting
  <2>2. toModule' = Append(toModule, Request(cur[a])) /\ cur' = cur /\ lock' = a
        /\ toHost' = << >> /\ done' = 0 /\ pc'[a] = "wait"
    BY <1>1, <1>3, <1>5, <2>1 DEF Write
  <2>3. toModule' = << Request(cur'[lock']) >>
    BY <1>3, <2>1, <2>2
  <2>4. Request(cur[lock])' = Request(cur'[lock'])
    BY DEF Request, CommandOf
  <2> QED
    BY <1>1, <2>1, <2>2, <2>3, <2>4 DEF Outstanding, Waiting
<1>6. CASE Wake(a)
  <2>1. Waiting /\ lock = a /\ lock' = lock
    BY <1>1, <1>6 DEF Wake, Inside, Waiting
  <2>2. toModule = << >> /\ toHost = << >> /\ done = 1
    BY <1>1, <1>6, <2>1 DEF QuietInv, Outstanding, Wake
  <2>3. toModule' = << >> /\ toHost' = << >> /\ done' = 0 /\ ~Waiting'
    BY <1>1, <1>6, <2>1, <2>2 DEF Wake, Waiting, linkVars
  <2> QED
    BY <2>3 DEF Outstanding
<1>7. CASE Timeout(a)
  <2>1. /\ toModule' = << >> /\ toHost' = << >> /\ done' = 0
        /\ lock' = a /\ pc'[a] = "unlock"
    BY <1>1, <1>2, <1>7 DEF Timeout, linkVars, Quiet, Inside
  <2> QED
    BY <2>1 DEF Outstanding, Waiting
<1> QED
  BY <1>4, <1>5, <1>6, <1>7 DEF Transaction

\* The firmware and the receive callback move what is outstanding along.
LEMMA OutstandingLink ==
  ASSUME TypeInv, QuietInv, Link \/ HandleFrame
  PROVE  Outstanding'
<1> SUFFICES ASSUME Quiet PROVE Outstanding'
  BY DEF Outstanding, Quiet
<1>1. UNCHANGED <<lock, pc, cur>> /\ (Waiting' <=> Waiting)
  BY DEF Link, gpioVars, HandleFrame, Waiting
<1>2. Request(cur[lock])' = Request(cur[lock])
  BY <1>1 DEF Request, CommandOf
<1>3. CASE UNCHANGED <<toModule, toHost, done>>
  BY <1>1, <1>2, <1>3 DEF QuietInv, Outstanding
<1>4. CASE toModule # << >>
  <2>1. Waiting /\ toModule = << Request(cur[lock]) >> /\ toHost = << >> /\ done = 0
    BY <1>4 DEF QuietInv, Outstanding
  <2> DEFINE f == Request(cur[lock])
  <2>2. Head(toModule) = f /\ Tail(toModule) = << >> /\ f \in Frames
    BY <2>1 DEF TypeInv, TypeOK, LinkTypeOK
  <2>3. Answer(f) \in Frames /\ Answer(f).cmd = f.cmd /\ Answer(f).line = f.line
    BY <2>2, AnswerType DEF TypeInv, TypeOK, Answer, Frames
  <2>4. ~HandleFrame
    BY <2>1 DEF HandleFrame
  <2>5. done' = 0 /\ LinkNext
    BY <2>1, <2>4 DEF Link, gpioVars
  <2>6. CASE ModuleServes
    <3>1. toModule' = << >> /\ toHost' = << Answer(f) >>
      BY <2>1, <2>2, <2>6 DEF ModuleServes
    <3> QED
      BY <1>1, <1>2, <2>1, <2>3, <2>5, <3>1 DEF Outstanding
  <2>7. CASE AnswerLost \/ RequestLost
    <3>1. toModule' = << >> /\ toHost' = << >>
      BY <2>1, <2>2, <2>7 DEF AnswerLost, RequestLost
    <3> QED
      BY <1>1, <2>1, <2>5, <3>1 DEF Outstanding
  <2>8. CASE \E l \in Lines : PinChanges(l)
    BY <1>3, <2>1, <2>5, <2>8 DEF PinChanges
  <2>9. ~ModuleRefuses /\ ~ModuleStatus
    BY DEF Quiet, ModuleRefuses, ModuleStatus
  <2> QED
    BY <2>5, <2>6, <2>7, <2>8, <2>9 DEF LinkNext
<1>5. CASE toModule = << >> /\ HandleFrame
  <2>1. PICK f \in Frames : Waiting /\ toHost = << f >> /\ done = 0
    BY <1>5 DEF QuietInv, Outstanding, HandleFrame
  <2>2. toHost' = << >> /\ toModule' = << >> /\ done' = 1
    BY <1>5, <2>1, GpioAssumption DEF HandleFrame, GpioAssumption
  <2> QED
    BY <1>1, <2>1, <2>2 DEF Outstanding
<1>6. CASE toModule = << >> /\ ~HandleFrame
  BY <1>3, <1>6
  DEF Link, gpioVars, LinkNext, ModuleServes, AnswerLost, RequestLost, ModuleRefuses,
      ModuleStatus, PinChanges, Quiet
<1> QED
  BY <1>4, <1>5, <1>6

\* Every step keeps QuietInv.
LEMMA QuietStep == TypeInv /\ MutexInv /\ QuietInv /\ [Next]_vars => QuietInv'
<1> SUFFICES ASSUME TypeInv, MutexInv, QuietInv, [Next]_vars PROVE Outstanding'
  BY LifeStep DEF QuietInv
<1> SUFFICES ASSUME Quiet PROVE Outstanding'
  BY DEF Outstanding, Quiet
<1>1. /\ pc \in [Actors -> {"idle", "enter", "lock", "write", "wait", "unlock", "post", "oops"}]
      /\ lock \in Actors \cup {None}
      /\ Probe \in Actors /\ Probe \notin Callers /\ Callers \subseteq Actors
  BY GpioAssumption DEF TypeInv, TypeOK, Actors, GpioAssumption
<1>2. ASSUME UNCHANGED <<toModule, toHost, done, lock>>,
             lock # None => pc'[lock] = pc[lock] /\ cur'[lock] = cur[lock]
      PROVE  Outstanding'
  <2>1. Waiting' <=> Waiting
    BY <1>2 DEF Waiting
  <2>2. Waiting => Request(cur[lock])' = Request(cur[lock])
    BY <1>2 DEF Request, CommandOf, Waiting
  <2> QED
    BY <1>2, <2>1, <2>2 DEF QuietInv, Outstanding
<1>3. lock # None => pc[lock] \in {"write", "wait", "unlock", "oops"}
  BY DEF MutexInv, LockHeld, Inside
<1>4. ASSUME NEW c \in Callers, Call(c) \/ Finish(c)
      PROVE  Outstanding'
  <2>1. pc[c] \in {"idle", "post"} /\ UNCHANGED <<toModule, toHost, done, lock>>
    BY <1>4 DEF Call, Finish, FinishFailed, FinishGetDirection, FinishGet, FinishSet,
      FinishConfig, OutputValue, linkVars
  <2>2. \A b \in Actors : b # c => pc'[b] = pc[b] /\ cur'[b] = cur[b]
    BY <1>1, <1>4 DEF Call, Finish, FinishFailed, FinishGetDirection, FinishGet, FinishSet,
      FinishConfig, OutputValue, Return, TypeInv, TypeOK
  <2> QED
    BY <1>1, <1>2, <1>3, <2>1, <2>2
<1>5. CASE ProbeStep
  <2>1. pc[Probe] \in {"idle", "post"}
    BY <1>5 DEF ProbeStep, ProbeOpen, ProbeOpenFails, InitDone, InitRetry, InitFallback,
      InitFails, QueryNext, Register, MutexInv, NobodyYet
  <2>2. UNCHANGED <<toModule, toHost, done, lock>>
    BY <1>5 DEF ProbeStep, ProbeOpen, ProbeOpenFails, InitDone, InitRetry, InitFallback,
      InitFails, QueryNext, Register, linkVars
  <2>3. \A b \in Actors : b # Probe => pc'[b] = pc[b] /\ cur'[b] = cur[b]
    BY <1>1, <1>5 DEF ProbeStep, ProbeOpen, ProbeOpenFails, InitDone, InitRetry, InitFallback,
      InitFails, QueryNext, Register, ProbeRequest, ProbeDone, TypeInv, TypeOK
  <2> QED
    BY <1>1, <1>2, <1>3, <2>1, <2>2, <2>3
<1>6. ~Remove
  BY DEF Quiet, Remove, RemoveClose, RemoveClear, GpiochipRemoved, QuietInv, Life
<1>7. CASE UNCHANGED vars
  BY <1>2, <1>7 DEF vars, linkVars, gpioVars
<1> QED
  BY <1>4, <1>5, <1>6, <1>7, OutstandingTransaction, OutstandingLink DEF Next

\* On a prompt link without E frames, at most one request, answer or completion
\* exists at a time, and it is that of the actor that waits.
THEOREM OnlyTheWaiter == Spec => []OneOutstanding
<1>1. TypeInv /\ QuietInv => OneOutstanding
  <2> SUFFICES ASSUME TypeInv, QuietInv, Prompt, ErrorFrames = {}, ~Unbind
               PROVE  /\ Len(toModule) + Len(toHost) + done <= 1
                      /\ Len(toModule) + Len(toHost) + done = 1 =>
                           lock # None /\ pc[lock] = "wait"
                      /\ toModule # << >> => Head(toModule) = Request(cur[lock])
                      /\ toHost # << >> => /\ Head(toHost).cmd = Request(cur[lock]).cmd
                                           /\ Head(toHost).line = Request(cur[lock]).line
    BY DEF OneOutstanding
  <2>1. CASE toModule = << >> /\ toHost = << >>
    <3>1. Len(toModule) = 0 /\ Len(toHost) = 0
      BY <2>1
    <3>2. done \in {0, 1} /\ (done = 1 => Waiting)
      BY <2>1 DEF QuietInv, Outstanding, Quiet
    <3> QED
      BY <2>1, <3>1, <3>2 DEF Waiting
  <2>2. CASE toModule # << >>
    <3>1. Waiting /\ toModule = << Request(cur[lock]) >> /\ toHost = << >> /\ done = 0
      BY <2>2 DEF QuietInv, Outstanding, Quiet
    <3>2. Len(toModule) = 1 /\ Len(toHost) = 0 /\ Head(toModule) = Request(cur[lock])
      BY <3>1
    <3> QED
      BY <3>1, <3>2 DEF Waiting
  <2>3. CASE toModule = << >> /\ toHost # << >>
    <3>1. Waiting /\ done = 0
      BY <2>3 DEF QuietInv, Outstanding, Quiet
    <3>2. PICK f \in Frames : /\ toHost = << f >>
                             /\ f.cmd = Request(cur[lock]).cmd
                             /\ f.line = Request(cur[lock]).line
      BY <2>3 DEF QuietInv, Outstanding, Quiet
    <3>3. Len(toModule) = 0 /\ Len(toHost) = 1 /\ Head(toHost) = f
      BY <2>3, <3>2
    <3> QED
      BY <2>3, <3>1, <3>2, <3>3 DEF Waiting
  <2> QED
    BY <2>1, <2>2, <2>3
<1> QED
  BY <1>1, InitType, StepType, MutexInit, MutexStep, QuietInit, QuietStep, PTL DEF Spec

-----------------------------------------------------------------------------
(* The driver implements GpioLines.                                        *)

\* The lines of two callers are different lines.
Separate == \A c, d \in Callers : c # d => Uses[c] \cap Uses[d] = {}

\* What each actor is at: a caller with one of gpiolib's operations on a line it
\* uses, the probe with INIT or a direction query.
Work ==
  /\ \A c \in Callers :
       IF pc[c] = "idle" THEN cur[c].op = "none"
       ELSE /\ cur[c].op \in AllOperations \cup {"output_value"}
            /\ cur[c].line \in Uses[c]
  /\ pc[Probe] # "idle" => cur[Probe].op \in {"init", "query"}

\* Work holds initially.
LEMMA WorkInit == Init => Work
  BY DEF Init, Work, NoOperation, Actors

\* Every step keeps Work.
LEMMA WorkStep == TypeInv /\ Work /\ [Next]_vars => Work'
<1> SUFFICES ASSUME TypeInv, Work, [Next]_vars PROVE Work'
  OBVIOUS
<1>1. /\ pc \in [Actors -> {"idle", "enter", "lock", "write", "wait", "unlock", "post", "oops"}]
      /\ cur \in [Actors -> Operation]
      /\ Probe \in Actors /\ Probe \notin Callers /\ Callers \subseteq Actors
      /\ Uses \in [Callers -> SUBSET Lines]
      /\ Operations \in [Callers -> SUBSET AllOperations]
  BY GpioAssumption DEF TypeInv, TypeOK, Actors, GpioAssumption
<1>2. ASSUME NEW a \in Actors, Transaction(a)
      PROVE  Work'
  <2>1. cur' = cur /\ pc[a] # "idle" /\ pc'[a] # "idle"
    BY <1>1, <1>2 DEF Transaction, Enter, Lock, Write, WriteFails, Wake, Timeout, Unlock
  <2>2. \A b \in Actors : b # a => pc'[b] = pc[b]
    BY <1>1, <1>2 DEF Transaction, Enter, Lock, Write, WriteFails, Wake, Timeout, Unlock
  <2> QED
    BY <2>1, <2>2 DEF Work, Actors
<1>3. ASSUME NEW c \in Callers, Call(c) \/ Finish(c)
      PROVE  Work'
  <2>1. \A b \in Actors : b # c => pc'[b] = pc[b] /\ cur'[b] = cur[b]
    BY <1>1, <1>3 DEF Call, Finish, FinishFailed, FinishGetDirection, FinishGet, FinishSet,
      FinishConfig, OutputValue, Return
  <2>2. CASE Call(c)
    <3>1. PICK op \in Operations[c], l \in Uses[c] : \E v \in Arguments(op) :
            cur' = [cur EXCEPT ![c] = [op |-> op, line |-> l, val |-> v]]
      BY <2>2 DEF Call
    <3>2. cur'[c].op \in AllOperations /\ cur'[c].line \in Uses[c]
      BY <1>1, <3>1
    <3>3. pc'[c] # "idle"
      BY <1>1, <2>2 DEF Call
    <3> QED
      BY <1>1, <2>1, <3>2, <3>3 DEF Work
  <2>3. CASE OutputValue(c)
    <3>1. pc'[c] # "idle" /\ cur'[c].op = "output_value" /\ cur'[c].line = cur[c].line
          /\ pc[c] = "post"
      BY <1>1, <2>3 DEF OutputValue
    <3> QED
      BY <1>1, <2>1, <3>1 DEF Work
  <2>4. CASE pc'[c] = "idle" /\ cur'[c] = NoOperation
    BY <1>1, <2>1, <2>4 DEF Work, NoOperation
  <2> QED
    BY <1>1, <1>3, <2>2, <2>3, <2>4
    DEF Finish, FinishFailed, FinishGetDirection, FinishGet, FinishSet, FinishConfig, Return
<1>4. CASE ProbeStep
  <2>1. \A b \in Actors : b # Probe => pc'[b] = pc[b] /\ cur'[b] = cur[b]
    BY <1>1, <1>4 DEF ProbeStep, ProbeOpen, ProbeOpenFails, InitDone, InitRetry, InitFallback,
      InitFails, QueryNext, Register, ProbeRequest, ProbeDone
  <2>2. pc'[Probe] # "idle" => cur'[Probe].op \in {"init", "query"}
    BY <1>1, <1>4 DEF ProbeStep, ProbeOpen, ProbeOpenFails, InitDone, InitRetry, InitFallback,
      InitFails, QueryNext, Register, ProbeRequest, ProbeDone, Work
  <2> QED
    BY <1>1, <2>1, <2>2 DEF Work
<1>5. CASE HandleFrame \/ Link \/ Remove \/ UNCHANGED vars
  BY <1>5 DEF HandleFrame, Link, gpioVars, Remove, RemoveClose, RemoveClear, GpiochipRemoved,
    vars, Work
<1> QED
  BY <1>2, <1>3, <1>4, <1>5 DEF Next

\* What the driver knows of a caller's operation changes only with that caller's
\* transaction, the cache of its line, or an answer it waits for.
LEMMA Bystander ==
  ASSUME NEW c \in Callers,
         pc'[c] = pc[c], cur'[c] = cur[c], ret'[c] = ret[c],
         pc[c] # "idle" => /\ directions'[cur[c].line] = directions[cur[c].line]
                           /\ values'[cur[c].line] = values[cur[c].line],
         pc[c] = "wait" => toHost' = toHost /\ done' = done
  PROVE  Outcome(c)' = Outcome(c)
<1>1. pc[c] # "idle" => Cached(c)' = Cached(c)
  BY DEF Cached
<1> QED
  BY <1>1 DEF Outcome

\* Before its request is answered an operation has found nothing.
LEMMA NothingFound ==
  ASSUME NEW c \in Callers, pc[c] \in {"idle", "enter", "lock", "write", "oops"}
  PROVE  Outcome(c) = Abstract!NotYet
  BY DEF Outcome, Abstract!NotYet

\* The state the refinement rests on.
Known == TypeInv /\ MutexInv /\ QuietInv /\ Work

\* The facts of Known that the steps use.
LEMMA KnownFacts ==
  ASSUME Known, Quiet
  PROVE  /\ pc \in [Actors -> {"idle", "enter", "lock", "write", "wait", "unlock", "post", "oops"}]
         /\ cur \in [Actors -> Operation]
         /\ ret \in [Actors -> {"ok", "error", "timeout"}]
         /\ result \in [Callers -> Results]
         /\ values \in [Lines -> Levels]
         /\ directions \in [Lines -> 0..2]
         /\ pin \in [Lines -> Levels]
         /\ dir \in [Lines -> Directions]
         /\ lock \in Actors \cup {None}
         /\ None \notin Actors
         /\ Probe \in Actors /\ Probe \notin Callers /\ Callers \subseteq Actors
         /\ Actors = Callers \cup {Probe}
         /\ Uses \in [Callers -> SUBSET Lines]
         /\ \A a \in Actors : pc[a] \in {"write", "wait", "unlock"} => lock = a
         /\ pc[Probe] # "idle" => /\ \A c \in Callers : pc[c] = "idle"
                                  /\ cur[Probe].op \in {"init", "query"}
         /\ \A c \in Callers : pc[c] = "idle" => cur[c].op = "none"
         /\ \A c \in Callers : pc[c] # "idle" =>
               /\ cur[c].op \in AllOperations \cup {"output_value"}
               /\ cur[c].line \in Uses[c] /\ cur[c].line \in Lines
               /\ pc[Probe] = "idle"
  BY GpioAssumption DEF Known, TypeInv, TypeOK, LinkTypeOK, MutexInv, LockHeld, Inside,
     QuietInv, Life, Work, Actors, GpioAssumption

\* With nothing of the callers changed the abstract state is unchanged.
LEMMA Stutters ==
  ASSUME UNCHANGED <<pin, dir, result>>,
         \A c \in Callers : cur'[c] = cur[c] /\ Outcome(c)' = Outcome(c)
  PROVE  UNCHANGED Abstract!lineVars
  BY DEF Abstract!lineVars

\* With one caller's operation changed, the abstract functions change there only.
LEMMA OneChanges ==
  ASSUME NEW u \in Callers,
         \A c \in Callers : c # u => cur'[c] = cur[c] /\ Outcome(c)' = Outcome(c)
  PROVE  /\ [c \in Callers |-> cur'[c]] = [[c \in Callers |-> cur[c]] EXCEPT ![u] = cur'[u]]
         /\ [c \in Callers |-> Outcome(c)'] =
              [[c \in Callers |-> Outcome(c)] EXCEPT ![u] = Outcome(u)']
  OBVIOUS

\* A transaction's steps are invisible to the caller's side of the promise.
LEMMA TransactionStutters ==
  ASSUME Known, Quiet, NEW a \in Actors, Transaction(a)
  PROVE  UNCHANGED Abstract!lineVars
<1>1. UNCHANGED <<pin, dir, result, cur, values, directions, toHost>>
  BY DEF Transaction, Enter, Lock, Write, WriteFails, Wake, Timeout, Unlock, linkVars
<1>2. \A b \in Actors : b # a => pc'[b] = pc[b] /\ ret'[b] = ret[b]
  BY KnownFacts DEF Transaction, Enter, Lock, Write, WriteFails, Wake, Timeout, Unlock
<1>3. \A b \in Actors : b # a /\ pc[b] = "wait" => done' = done
  BY KnownFacts DEF Transaction, Enter, Lock, Write, WriteFails, Wake, Timeout, Unlock
<1>4. ASSUME NEW c \in Callers, c # a
      PROVE  Outcome(c)' = Outcome(c)
  BY <1>1, <1>2, <1>3, <1>4, KnownFacts, Bystander
<1>5. ASSUME a \in Callers
      PROVE  Outcome(a)' = Outcome(a)
  <2>1. CASE Enter(a) \/ Lock(a) \/ WriteFails(a)
    <3>1. Outcome(a) = Abstract!NotYet
      BY <1>5, <2>1, NothingFound DEF Enter, Lock, WriteFails
    <3>2. \/ pc'[a] \in {"lock", "write"}
          \/ pc'[a] \in {"post", "unlock"} /\ ret'[a] = "error"
      BY <2>1, KnownFacts DEF Enter, Lock, WriteFails
    <3> QED
      BY <3>1, <3>2 DEF Outcome, Abstract!NotYet
  <2>2. CASE Write(a)
    <3>1. Outcome(a) = Abstract!NotYet
      BY <1>5, <2>2, NothingFound DEF Write
    <3>2. lock = a /\ toHost = << >> /\ done = 0
      BY <2>2, KnownFacts DEF Write, Known, QuietInv, Outstanding, Waiting
    <3>3. toHost' = << >> /\ done' = 0 /\ pc'[a] \in {"wait", "oops"}
      BY <2>2, <3>2, KnownFacts DEF Write
    <3> QED
      BY <3>1, <3>3 DEF Outcome, Abstract!NotYet
  <2>3. CASE Wake(a)
    <3>1. lock = a /\ pc[a] = "wait" /\ done > 0
      BY <2>3, KnownFacts DEF Wake
    <3>2. toHost = << >>
      BY <3>1, KnownFacts DEF Known, QuietInv, Outstanding, Waiting
    <3>3. pc'[a] = "unlock" /\ ret'[a] = "ok"
      BY <2>3, KnownFacts DEF Wake
    <3>4. Cached(a)' = Cached(a)
      BY <1>1 DEF Cached
    <3> QED
      BY <3>1, <3>2, <3>3, <3>4 DEF Outcome
  <2>4. CASE Timeout(a)
    <3>1. lock = a /\ pc[a] = "wait" /\ done = 0 /\ open
      BY <1>5, <2>4, KnownFacts DEF Timeout, Known, QuietInv, Life
    <3>2. toHost = << >>
      BY <2>4, <3>1 DEF Timeout, Quiet
    <3>3. pc'[a] = "unlock" /\ ret'[a] = "timeout"
      BY <2>4, KnownFacts DEF Timeout
    <3> QED
      BY <3>1, <3>2, <3>3 DEF Outcome
  <2>5. CASE Unlock(a)
    <3>1. pc[a] = "unlock" /\ pc'[a] = "post" /\ ret'[a] = ret[a]
      BY <2>5, KnownFacts DEF Unlock
    <3>2. Cached(a)' = Cached(a)
      BY <1>1 DEF Cached
    <3> QED
      BY <3>1, <3>2 DEF Outcome
  <2> QED
    BY <2>1, <2>2, <2>3, <2>4, <2>5 DEF Transaction
<1> QED
  BY <1>1, <1>4, <1>5, Stutters

\* The probe is at work only while no caller is.
LEMMA ProbeStutters ==
  ASSUME Known, Quiet, ProbeStep
  PROVE  UNCHANGED Abstract!lineVars
<1>1. UNCHANGED <<pin, dir, result>>
  BY DEF ProbeStep, ProbeOpen, ProbeOpenFails, InitDone, InitRetry, InitFallback,
    InitFails, QueryNext, Register, ProbeRequest, ProbeDone, linkVars
<1>2. \A c \in Callers : pc'[c] = pc[c] /\ cur'[c] = cur[c] /\ ret'[c] = ret[c]
  BY KnownFacts DEF ProbeStep, ProbeOpen, ProbeOpenFails, InitDone, InitRetry, InitFallback,
    InitFails, QueryNext, Register, ProbeRequest, ProbeDone
<1>3. \A c \in Callers : pc[c] = "idle"
  BY KnownFacts DEF ProbeStep, ProbeOpen, ProbeOpenFails, InitDone, InitRetry, InitFallback,
    InitFails, QueryNext, Register, Known, QuietInv, Life
<1> QED
  BY <1>1, <1>2, <1>3, Bystander, Stutters

\* An operation begins.
LEMMA CallStarts ==
  ASSUME Known, Quiet, NEW c \in Callers, Call(c)
  PROVE  Abstract!Start(c)
<1>1. UNCHANGED <<pin, dir, values, directions, toHost, done, ret>>
  BY DEF Call, linkVars
<1>2. \A d \in Callers : d # c => pc'[d] = pc[d] /\ cur'[d] = cur[d]
  BY KnownFacts DEF Call
<1>3. \A d \in Callers : d # c => Outcome(d)' = Outcome(d)
  BY <1>1, <1>2, Bystander
<1>4. cur[c].op = "none" /\ pc[c] = "idle" /\ pc'[c] \in {"enter", "oops"}
  BY KnownFacts DEF Call
<1>5. cur'[c].op # "none" /\ cur'[c].line \in Lines
  <2>1. PICK op \in Operations[c], l \in Uses[c] : \E v \in Arguments(op) :
          cur' = [cur EXCEPT ![c] = [op |-> op, line |-> l, val |-> v]]
    BY DEF Call
  <2>2. op \in AllOperations /\ l \in Lines
    BY GpioAssumption DEF GpioAssumption
  <2> QED
    BY <2>1, <2>2, KnownFacts DEF AllOperations
<1>6. Outcome(c) = Abstract!NotYet
  BY <1>4, NothingFound
<1>7. Outcome(c)' = Outcome(c)
  BY <1>4, <1>6 DEF Outcome, Abstract!NotYet
<1>8. result' = [result EXCEPT ![c] = Abstract!Failed]
  BY DEF Call, Nothing, Abstract!Failed
<1>9. [d \in Callers |-> cur'[d]] = [[d \in Callers |-> cur[d]] EXCEPT ![c] = cur'[c]]
      /\ [d \in Callers |-> Outcome(d)'] = [d \in Callers |-> Outcome(d)]
  BY <1>2, <1>3, <1>7, OneChanges
<1> QED
  BY <1>1, <1>4, <1>5, <1>8, <1>9 DEF Abstract!Start

\* The end of an operation concerns its own line and its own caller.
LEMMA FinishFrame ==
  ASSUME Known, Quiet, Separate, NEW c \in Callers, Finish(c)
  PROVE  /\ UNCHANGED <<pin, dir>>
         /\ \A d \in Callers : d # c => cur'[d] = cur[d] /\ Outcome(d)' = Outcome(d)
         /\ Outcome(c)' = Abstract!NotYet
         /\ pc[c] = "post"
<1>1. UNCHANGED <<pin, dir, toHost, done>> /\ pc[c] = "post"
  BY DEF Finish, FinishFailed, FinishGetDirection, FinishGet, FinishSet, FinishConfig,
     OutputValue, linkVars
<1>2. \A d \in Callers : d # c => pc'[d] = pc[d] /\ cur'[d] = cur[d] /\ ret'[d] = ret[d]
  BY KnownFacts DEF Finish, FinishFailed, FinishGetDirection, FinishGet, FinishSet,
     FinishConfig, OutputValue, Return
<1>3. \A l \in Lines : l # cur[c].line => /\ directions'[l] = directions[l]
                                          /\ values'[l] = values[l]
  BY KnownFacts DEF Finish, FinishFailed, FinishGetDirection, FinishGet, FinishSet,
     FinishConfig, OutputValue
<1>4. \A d \in Callers : d # c /\ pc[d] # "idle" => cur[d].line \in Lines
                                                    /\ cur[d].line # cur[c].line
  BY <1>1, KnownFacts DEF Separate
<1>5. \A d \in Callers : d # c => Outcome(d)' = Outcome(d)
  BY <1>1, <1>2, <1>3, <1>4, Bystander
<1>6. pc'[c] \in {"idle", "enter", "oops"}
  BY KnownFacts DEF Finish, FinishFailed, FinishGetDirection, FinishGet, FinishSet,
     FinishConfig, OutputValue, Return
<1>7. Outcome(c)' = Abstract!NotYet
  BY <1>6 DEF Outcome, Abstract!NotYet
<1> QED
  BY <1>1, <1>2, <1>5, <1>7

\* An operation returns what it found, or an error; direction_output goes on.
LEMMA FinishImplements ==
  ASSUME Known, Quiet, Separate, NEW c \in Callers, Finish(c)
  PROVE  Abstract!Succeed(c) \/ Abstract!Fail(c) \/ Abstract!SecondHalf(c)
<1>1. /\ UNCHANGED <<pin, dir>>
      /\ \A d \in Callers : d # c => cur'[d] = cur[d] /\ Outcome(d)' = Outcome(d)
      /\ Outcome(c)' = Abstract!NotYet
      /\ pc[c] = "post"
  BY FinishFrame
<1>2. /\ [d \in Callers |-> cur'[d]] = [[d \in Callers |-> cur[d]] EXCEPT ![c] = cur'[c]]
      /\ [d \in Callers |-> Outcome(d)'] =
           [[d \in Callers |-> Outcome(d)] EXCEPT ![c] = Abstract!NotYet]
  BY <1>1, OneChanges
<1>3. ret[c] = "ok" => Outcome(c) = [known |-> TRUE, val |-> Cached(c)]
  BY <1>1 DEF Outcome
<1>4. ret[c] # "ok" => Outcome(c) = Abstract!NotYet
  BY <1>1 DEF Outcome, Abstract!NotYet
<1>5. cur[c].op \in AllOperations \cup {"output_value"} /\ cur[c].line \in Lines
  BY <1>1, KnownFacts
<1>6. ASSUME NEW r, Return(c, r)
      PROVE  result' = [result EXCEPT ![c] = r] /\ cur'[c].op = "none"
  BY <1>6, KnownFacts DEF Return, NoOperation
<1>7. CASE FinishFailed(c)
  <2>1. CASE cur[c].op = "output_value"
    <3>1. Return(c, [ok |-> TRUE, val |-> 0])
      BY <1>7, <2>1 DEF FinishFailed, Success
    <3>2. Outcome(c).val = 0
      BY <1>4, <1>7 DEF FinishFailed, Abstract!NotYet
    <3> QED
      BY <1>1, <1>2, <1>6, <2>1, <3>1, <3>2 DEF Abstract!Succeed, Abstract!Returned
  <2>2. CASE cur[c].op # "output_value"
    <3>1. Return(c, Abstract!Failed)
      BY <1>7, <2>2 DEF FinishFailed, Nothing, Abstract!Failed
    <3>2. cur[c].op # "none"
      BY <1>5 DEF AllOperations
    <3> QED
      BY <1>1, <1>2, <1>6, <2>2, <3>1, <3>2 DEF Abstract!Fail
  <2> QED
    BY <2>1, <2>2
<1>8. CASE FinishGetDirection(c)
  <2> DEFINE d == directions[cur[c].line]
  <2>1. d \in 0..2 /\ Cached(c) = d
    BY <1>5, <1>8, KnownFacts DEF FinishGetDirection, Cached, CommandOf
  <2>2. CASE d \in {1, 2}
    <3>1. FwDirectionToGpio(d) = [ok |-> TRUE, val |-> 2 - d]
      <4>1. CASE d = 1
        BY <4>1 DEF FwDirectionToGpio, DirIn, DirOut, Success
      <4>2. CASE d = 2
        BY <4>2 DEF FwDirectionToGpio, DirIn, DirOut, Success
      <4> QED
        BY <2>2, <4>1, <4>2
    <3>2. result' = [result EXCEPT ![c] = [ok |-> TRUE, val |-> 2 - d]] /\ cur'[c].op = "none"
      <4>1. Return(c, FwDirectionToGpio(d))
        BY <1>8 DEF FinishGetDirection
      <4> QED
        BY <1>6, <3>1, <4>1
    <3>3. Outcome(c).known /\ Outcome(c).val = d
      BY <1>3, <1>8, <2>1 DEF FinishGetDirection
    <3> QED
      BY <1>1, <1>2, <1>8, <3>2, <3>3
      DEF FinishGetDirection, Abstract!Succeed, Abstract!Returned
  <2>3. CASE d = 0
    <3>1. FwDirectionToGpio(d) = Abstract!Failed
      BY <2>3 DEF FwDirectionToGpio, DirIn, DirOut, Nothing, Abstract!Failed
    <3>2. Return(c, Abstract!Failed)
      BY <1>8, <3>1 DEF FinishGetDirection
    <3> QED
      BY <1>1, <1>2, <1>6, <1>8, <3>2 DEF FinishGetDirection, Abstract!Fail
  <2> QED
    BY <2>1, <2>2, <2>3
<1>9. CASE FinishGet(c)
  <2>1. Cached(c) = values[cur[c].line] /\ values[cur[c].line] \in 0..2
    BY <1>5, <1>9, KnownFacts DEF FinishGet, Cached, CommandOf, Levels
  <2>2. Return(c, [ok |-> TRUE, val |-> Cached(c)])
    BY <1>9, <2>1 DEF FinishGet, Success
  <2>3. Outcome(c).known /\ Outcome(c).val = Cached(c)
    BY <1>3, <1>9 DEF FinishGet
  <2> QED
    BY <1>1, <1>2, <1>6, <1>9, <2>2, <2>3 DEF FinishGet, Abstract!Succeed, Abstract!Returned
<1>10. CASE FinishSet(c) \/ FinishConfig(c)
  <2>1. Cached(c) = 0 /\ ret[c] = "ok"
        /\ cur[c].op \in {"set", "output_value", "direction_input", "set_config"}
    BY <1>10 DEF FinishSet, FinishConfig, Cached, CommandOf
  <2>2. Return(c, [ok |-> TRUE, val |-> 0])
    BY <1>10 DEF FinishSet, FinishConfig, Success
  <2>3. Outcome(c).known /\ Outcome(c).val = 0
    BY <1>3, <2>1
  <2> QED
    BY <1>1, <1>2, <1>6, <2>1, <2>2, <2>3 DEF Abstract!Succeed, Abstract!Returned
<1>11. CASE OutputValue(c)
  <2>1. cur' = [cur EXCEPT ![c].op = "output_value"] /\ result' = result
        /\ ret[c] = "ok" /\ cur[c].op = "direction_output"
    BY <1>11 DEF OutputValue
  <2>2. cur'[c] = [cur[c] EXCEPT !.op = "output_value"]
    BY <2>1, KnownFacts
  <2>3. Outcome(c).known
    BY <1>3, <2>1
  <2> QED
    BY <1>1, <1>2, <2>1, <2>2, <2>3 DEF Abstract!SecondHalf
<1> QED
  BY <1>7, <1>8, <1>9, <1>10, <1>11 DEF Finish

\* The receive callback stores for the waiting caller what its answer said, and
\* touches the lines of no other caller.
LEMMA HandleFrameStutters ==
  ASSUME Known, Quiet, Separate, HandleFrame
  PROVE  UNCHANGED Abstract!lineVars
<1>1. UNCHANGED <<pin, dir, result, pc, cur, ret, lock>>
  BY DEF HandleFrame
<1>2. PICK f \in Frames : /\ Waiting /\ toHost = << f >> /\ done = 0 /\ toModule = << >>
                          /\ f.cmd = Request(cur[lock]).cmd
                          /\ f.line = Request(cur[lock]).line
  BY DEF HandleFrame, Known, QuietInv, Outstanding
<1>3. /\ lock \in Actors /\ pc[lock] = "wait"
      /\ f.cmd = CommandOf(cur[lock].op) /\ f.line = cur[lock].line
      /\ f.line \in Lines
  BY <1>2, KnownFacts DEF Waiting, Request, Frames
<1>4. /\ toHost' = << >> /\ done' = 1
      /\ directions' = IF f.cmd = "D" THEN [directions EXCEPT ![f.line] = f.val] ELSE directions
      /\ values' = IF f.cmd \in {"R", "O"} THEN [values EXCEPT ![f.line] = f.val] ELSE values
  <2>1. Head(toHost) = f /\ Tail(toHost) = << >>
    BY <1>2
  <2>2. done' = 1
    BY <1>2, GpioAssumption DEF HandleFrame, GpioAssumption
  <2> QED
    BY <2>1, <2>2 DEF HandleFrame
<1>5. ASSUME NEW c \in Callers, c # lock
      PROVE  Outcome(c)' = Outcome(c)
  <2>1. CASE pc[c] = "idle"
    BY <1>1, <2>1, Bystander
  <2>2. CASE pc[c] # "idle"
    <3>1. pc[Probe] = "idle" /\ cur[c].line \in Uses[c] /\ cur[c].line \in Lines
      BY <2>2, KnownFacts
    <3>2. lock \in Callers
      BY <1>3, <3>1, KnownFacts
    <3>3. f.line \in Uses[lock]
      BY <1>3, <3>2, KnownFacts
    <3>4. cur[c].line # f.line
      BY <1>5, <3>1, <3>2, <3>3 DEF Separate
    <3>5. /\ directions'[cur[c].line] = directions[cur[c].line]
          /\ values'[cur[c].line] = values[cur[c].line]
      BY <1>3, <1>4, <3>1, <3>4, KnownFacts
    <3>6. pc[c] # "wait"
      BY <1>5, KnownFacts
    <3> QED
      BY <1>1, <3>5, <3>6, Bystander
  <2> QED
    BY <2>1, <2>2
<1>6. ASSUME NEW c \in Callers, c = lock
      PROVE  Outcome(c)' = Outcome(c)
  <2> DEFINE v == IF f.cmd \in {"D", "R"} THEN f.val ELSE 0
  <2>1. toHost # << >> /\ Head(toHost) = f
    BY <1>2
  <2>2. Outcome(c) = [known |-> TRUE, val |-> v]
    <3>1. pc[c] = "wait" /\ done = 0
      BY <1>2, <1>3, <1>6
    <3>2. Outcome(c) = [known |-> TRUE,
                        val |-> IF Head(toHost).cmd \in {"D", "R"} THEN Head(toHost).val ELSE 0]
      BY <2>1, <3>1 DEF Outcome
    <3> QED
      BY <2>1, <3>2
  <2>3. Outcome(c)' = [known |-> TRUE, val |-> Cached(c)']
    BY <1>1, <1>3, <1>4, <1>6 DEF Outcome
  <2>4. Cached(c)' = v
    BY <1>1, <1>3, <1>4, <1>6, KnownFacts DEF Cached
  <2> QED
    BY <2>2, <2>3, <2>4
<1>7. \A c \in Callers : cur'[c] = cur[c] /\ Outcome(c)' = Outcome(c)
  BY <1>1, <1>5, <1>6
<1> QED
  BY <1>1, <1>7, Stutters

\* The firmware carries out the request of the caller that waits, and the answer
\* reports what it found.
LEMMA ServedTakesEffect ==
  ASSUME Known, Quiet, Waiting, NEW u \in Callers, lock = u,
         toModule = << Request(cur[u]) >>,
         toHost = << >>, done = 0, Link, ModuleServes \/ AnswerLost
  PROVE  Abstract!TakesEffect(u) \/ Abstract!TakesEffectUnseen(u)
<1> DEFINE o == cur[u]
           f == Request(o)
<1>1. UNCHANGED <<result, pc, cur, ret, lock, done, values, directions>>
  BY DEF Link, gpioVars
<1>2. pc[u] = "wait" /\ o \in Operation /\ o.line \in Lines
      /\ o.op \in AllOperations \cup {"output_value"}
  BY KnownFacts DEF Waiting
<1>3. Head(toModule) = f
  OBVIOUS
<1>4. \A c \in Callers : c # u => pc[c] # "wait"
  BY KnownFacts
<1>5. \A c \in Callers : c # u => Outcome(c)' = Outcome(c)
  BY <1>1, <1>4, Bystander
<1>6. Outcome(u) = Abstract!NotYet
  BY <1>2 DEF Outcome, Abstract!NotYet
<1>7. Execute(f)
  BY <1>3 DEF ModuleServes, AnswerLost
<1>8. /\ f.cmd = CommandOf(o.op) /\ f.line = o.line
      /\ f.val = CASE o.op = "direction_output" -> DirOut
                   [] o.op = "direction_input" -> DirIn
                   [] OTHER -> o.val
  BY DEF Request
<1> HIDE DEF f
<1>9. Abstract!Does(u)
  <2>1. pin' = IF o.op \in {"set", "output_value"} THEN [pin EXCEPT ![o.line] = o.val] ELSE pin
    <3>1. f.cmd = "O" <=> o.op \in {"set", "output_value"}
      BY <1>2, <1>8, Zenon DEF CommandOf, AllOperations
    <3>2. o.op \in {"set", "output_value"} => f.val = o.val
      BY <1>8
    <3> QED
      BY <1>7, <1>8, <3>1, <3>2 DEF Execute
  <2>2. dir' = CASE o.op = "direction_input" -> [dir EXCEPT ![o.line] = 1]
                 [] o.op = "direction_output" -> [dir EXCEPT ![o.line] = 2]
                 [] o.op = "set_config" -> [dir EXCEPT ![o.line] = o.val]
                 [] OTHER -> dir
    <3>1. f.cmd = "C" <=> o.op \in {"direction_input", "direction_output", "set_config"}
      BY <1>2, <1>8 DEF CommandOf, AllOperations
    <3>2. /\ o.op = "direction_input" => f.val = 1
          /\ o.op = "direction_output" => f.val = 2
          /\ o.op = "set_config" => f.val = o.val
      BY <1>8 DEF DirIn, DirOut
    <3> QED
      BY <1>7, <1>8, <3>1, <3>2 DEF Execute
  <2> QED
    BY <2>1, <2>2 DEF Abstract!Does
<1>10. o.op # "none"
  BY <1>2 DEF AllOperations
<1>11. CASE AnswerLost
  <2>1. toHost' = << >>
    BY <1>11 DEF AnswerLost
  <2>2. Outcome(u)' = Outcome(u)
    BY <1>1, <1>2, <1>6, <2>1 DEF Outcome, Abstract!NotYet
  <2>3. [c \in Callers |-> Outcome(c)'] = [c \in Callers |-> Outcome(c)]
    BY <1>5, <2>2
  <2> QED
    BY <1>1, <1>6, <1>9, <1>10, <2>3 DEF Abstract!TakesEffectUnseen, Abstract!NotYet
<1>12. CASE ModuleServes
  <2>1. toHost' = << Answer(f) >>
    BY <1>3, <1>12 DEF ModuleServes
  <2>2. /\ Answer(f).cmd = f.cmd
        /\ f.cmd = "D" => Answer(f).val = dir[o.line]
        /\ f.cmd = "R" => Answer(f).val = pin[o.line]
    BY <1>8 DEF Answer, Request, f
  <2>3. Outcome(u)' = [known |-> TRUE,
                          val |-> IF f.cmd \in {"D", "R"} THEN Answer(f).val ELSE 0]
    <3>1. toHost' # << >> /\ Head(toHost') = Answer(f)
      BY <2>1
    <3> QED
      <4>1. pc'[u] = "wait" /\ done' = 0
        BY <1>1, <1>2
      <4>2. Outcome(u)' =
              [known |-> TRUE,
               val |-> IF Head(toHost').cmd \in {"D", "R"} THEN Head(toHost').val ELSE 0]
        BY <3>1, <4>1 DEF Outcome
      <4> QED
        BY <2>2, <3>1, <4>2
  <2>4. /\ f.cmd = "D" <=> o.op = "get_direction"
        /\ f.cmd = "R" <=> o.op = "get"
    BY <1>2, <1>8 DEF CommandOf, AllOperations
  <2>5. Outcome(u)' = Abstract!Found(Abstract!Finds(u))
    BY <2>2, <2>3, <2>4 DEF Abstract!Found, Abstract!Finds
  <2>6. [c \in Callers |-> Outcome(c)'] =
          [[c \in Callers |-> Outcome(c)] EXCEPT ![u] = Abstract!Found(Abstract!Finds(u))]
    BY <1>5, <2>5
  <2> QED
    BY <1>1, <1>6, <1>9, <1>10, <2>6 DEF Abstract!TakesEffect, Abstract!NotYet
<1> QED
  BY <1>11, <1>12

\* What happens at the other end of the line.
LEMMA LinkImplements ==
  ASSUME Known, Quiet, Link
  PROVE  \/ \E u \in Callers : Abstract!TakesEffect(u) \/ Abstract!TakesEffectUnseen(u)
         \/ \E l \in Lines : Abstract!Driven(l)
         \/ UNCHANGED Abstract!lineVars
<1>1. UNCHANGED <<result, pc, cur, ret, lock, done, values, directions>> /\ LinkNext
  BY DEF Link, gpioVars
<1>2. ~ModuleRefuses /\ ~ModuleStatus
  BY DEF Quiet, ModuleRefuses, ModuleStatus
<1>3. ASSUME UNCHANGED toHost
      PROVE  \A c \in Callers : cur'[c] = cur[c] /\ Outcome(c)' = Outcome(c)
  BY <1>1, <1>3, Bystander
<1>4. CASE \E l \in Lines : PinChanges(l)
  <2>1. PICK l \in Lines : PinChanges(l)
    BY <1>4
  <2>2. [c \in Callers |-> cur'[c]] = [c \in Callers |-> cur[c]]
        /\ [c \in Callers |-> Outcome(c)'] = [c \in Callers |-> Outcome(c)]
    BY <1>3, <2>1 DEF PinChanges
  <2> QED
    BY <1>1, <2>1, <2>2 DEF PinChanges, DirIn, Abstract!Driven
<1>5. CASE RequestLost
  BY <1>1, <1>3, <1>5, Stutters DEF RequestLost
<1>6. CASE ModuleServes \/ AnswerLost
  <2>1. Waiting /\ toModule = << Request(cur[lock]) >> /\ toHost = << >> /\ done = 0
    BY <1>6 DEF ModuleServes, AnswerLost, Known, QuietInv, Outstanding
  <2>2. lock \in Actors
    BY <2>1, KnownFacts DEF Waiting
  <2>3. CASE lock \in Callers
    BY <1>6, <2>1, <2>3, ServedTakesEffect DEF Waiting
  <2>4. CASE lock = Probe
    <3>1. cur[Probe].op \in {"init", "query"} /\ \A c \in Callers : pc[c] = "idle"
      BY <2>1, <2>4, KnownFacts DEF Waiting
    <3>2. UNCHANGED <<pin, dir>>
      BY <1>6, <2>1, <2>4, <3>1 DEF ModuleServes, AnswerLost, Execute, Request, CommandOf
    <3>3. \A c \in Callers : Outcome(c)' = Outcome(c)
      BY <1>1, <3>1, Bystander
    <3> QED
      BY <1>1, <3>2, <3>3, Stutters
  <2> QED
    BY <2>2, <2>3, <2>4, KnownFacts
<1> QED
  BY <1>1, <1>2, <1>4, <1>5, <1>6 DEF LinkNext

\* Every step of the driver on such a link is a step of the abstract expander,
\* or leaves it alone.
LEMMA StepImplements ==
  ASSUME Known, Quiet, Separate, [Next]_vars
  PROVE  [Abstract!LinesNext]_(Abstract!lineVars)
<1>1. CASE \E a \in Actors : Transaction(a)
  BY <1>1, TransactionStutters
<1>2. CASE \E c \in Callers : Call(c)
  BY <1>2, CallStarts DEF Abstract!LinesNext
<1>3. CASE \E c \in Callers : Finish(c)
  BY <1>3, FinishImplements DEF Abstract!LinesNext
<1>4. CASE ProbeStep
  BY <1>4, ProbeStutters
<1>5. CASE HandleFrame
  BY <1>5, HandleFrameStutters
<1>6. CASE Link
  BY <1>6, LinkImplements DEF Abstract!LinesNext
<1>7. ~Remove
  BY DEF Quiet, Remove, RemoveClose, RemoveClear, GpiochipRemoved, Known, QuietInv, Life
<1>8. CASE UNCHANGED vars
  BY <1>8, Stutters, Bystander DEF vars, linkVars, gpioVars
<1> QED
  BY <1>1, <1>2, <1>3, <1>4, <1>5, <1>6, <1>7, <1>8 DEF Next

\* The initial states are initial states of the abstract expander.
LEMMA InitImplements == Init => Abstract!LinesInit
<1> SUFFICES ASSUME Init PROVE Abstract!LinesInit
  OBVIOUS
<1>1. \A c \in Callers : pc[c] = "idle" /\ cur[c].op = "none" /\ result[c] = Abstract!Failed
  BY DEF Init, Actors, NoOperation, Nothing, Abstract!Failed
<1>2. \A c \in Callers : Outcome(c) = Abstract!NotYet
  BY <1>1, NothingFound
<1>3. pin \in [Lines -> {0, 1}] /\ dir \in [Lines -> {1, 2}]
  BY DEF Init, LinkInit, Levels, Directions, DirIn, DirOut
<1> QED
  BY <1>1, <1>2, <1>3 DEF Abstract!LinesInit

\* On a prompt link without E frames, with a driver that stays bound and callers
\* that keep to lines of their own, the driver keeps gpiolib's promise: get and
\* get_direction return what the expander had during the call, and a set that
\* succeeds was carried out.
THEOREM LinesImplemented ==
  ASSUME Quiet, Separate
  PROVE  Spec => ImplementsLines
<1>1. Init => Known
  BY InitType, MutexInit, QuietInit, WorkInit DEF Known
<1>2. Known /\ [Next]_vars => Known'
  BY StepType, MutexStep, QuietStep, WorkStep DEF Known
<1>3. Known /\ [Next]_vars => [Abstract!LinesNext]_(Abstract!lineVars)
  BY StepImplements
<1> QED
  BY <1>1, <1>2, <1>3, InitImplements, PTL DEF Spec, ImplementsLines, Abstract!LinesSpec
==============================================================================

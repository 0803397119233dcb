------------------------ MODULE AiosGpioMatchedProofs ------------------------
(***************************************************************************)
(* Proofs about AiosGpioMatched, for any number of callers, lines, retries *)
(* and leftover frames.                                                    *)
(***************************************************************************)
EXTENDS AiosGpioMatched, SequenceTheorems, TLAPS

\* The line that INIT frames and idle actors carry is a line.
LEMMA LineZero == 0 \in Lines
  BY LinkAssumption DEF LinkAssumption, Lines

\* Appending to a sequence of one element gives a sequence of two.
LEMMA AppendToOne ==
  ASSUME NEW S, NEW x \in S, NEW y \in S
  PROVE  Append(<< x >>, y) = << x, y >>
<1> DEFINE s == Append(<< x >>, y)
           t == << x, y >>
<1>1. << x >> \in Seq(S) /\ Len(<< x >>) = 1 /\ << x >>[1] = x
  OBVIOUS
<1>2. t \in Seq(S) /\ Len(t) = 2 /\ t[1] = x /\ t[2] = y
  OBVIOUS
<1>3. /\ s \in Seq(S) /\ Len(s) = Len(<< x >>) + 1 /\ s[Len(<< x >>) + 1] = y
      /\ \A i \in 1..Len(<< x >>) : s[i] = << x >>[i]
  BY <1>1, AppendProperties
<1> HIDE DEF s, t
<1>4. Len(s) = 2 /\ \A i \in 1..Len(s) : s[i] = t[i]
  BY <1>1, <1>2, <1>3
<1>5. s = t
  BY <1>2, <1>3, <1>4, SeqEqual
<1> QED
  BY <1>5 DEF s, t

\* The answer to a frame is a frame.
LEMMA AnswerType ==
  ASSUME LinkTypeOK, NEW f \in Frames
  PROVE  Answer(f) \in Frames
  BY DEF LinkTypeOK, Answer, Frames, Levels, Directions, DirIn, DirOut

\* Carrying out a request keeps the types of the expander's state.
LEMMA ExecuteType ==
  ASSUME LinkTypeOK, NEW f \in Frames, Execute(f)
  PROVE  pin' \in [Lines -> Levels] /\ dir' \in [Lines -> Directions] /\ ready' \in BOOLEAN
  BY DEF LinkTypeOK, Execute, Frames

\* Every step of the line and the firmware keeps the link's types.
LEMMA LinkStepType ==
  ASSUME LinkTypeOK, LinkNext
  PROVE  LinkTypeOK'
<1>1. ASSUME toModule # << >>
      PROVE  Head(toModule) \in Frames /\ Tail(toModule) \in Seq(Frames)
  BY <1>1 DEF LinkTypeOK
<1>2. ASSUME NEW f \in Frames
      PROVE  Append(toHost, f) \in Seq(Frames)
  BY DEF LinkTypeOK
<1>3. ErrorFrame \in Frames
  BY LineZero DEF ErrorFrame, Frames
<1>4. CASE ModuleServes
  <2>1. Answer(Head(toModule)) \in Frames
    BY <1>1, <1>4, AnswerType DEF ModuleServes
  <2>2. pin' \in [Lines -> Levels] /\ dir' \in [Lines -> Directions] /\ ready' \in BOOLEAN
    BY <1>1, <1>4, ExecuteType DEF ModuleServes
  <2> QED
    BY <1>1, <1>2, <1>4, <2>1, <2>2 DEF ModuleServes, LinkTypeOK
<1>5. CASE AnswerLost
  <2>1. pin' \in [Lines -> Levels] /\ dir' \in [Lines -> Directions] /\ ready' \in BOOLEAN
    BY <1>1, <1>5, ExecuteType DEF AnswerLost
  <2> QED
    BY <1>1, <1>5, <2>1 DEF AnswerLost, LinkTypeOK
<1>6. CASE RequestLost
  BY <1>1, <1>6 DEF RequestLost, LinkTypeOK
<1>7. CASE ModuleRefuses
  BY <1>1, <1>2, <1>3, <1>7 DEF ModuleRefuses, LinkTypeOK
<1>8. CASE ModuleStatus
  BY <1>2, <1>3, <1>8 DEF ModuleStatus, LinkTypeOK
<1>9. CASE \E l \in Lines : PinChanges(l)
  BY <1>9 DEF PinChanges, LinkTypeOK, Levels
<1> QED
  BY <1>4, <1>5, <1>6, <1>7, <1>8, <1>9 DEF LinkNext

\* The inductive invariant of the types: an actor at work has an operation, whose
\* request is then a frame.
BusyActor == \A a \in Actors : pc[a] # "idle" => cur[a].op # "none"

TypeInv == MatchedTypeOK /\ BusyActor /\ tries \in [Actors -> Nat]

\* A request built from an operation is a frame.
LEMMA RequestType ==
  ASSUME NEW o \in Operation, o.op # "none"
  PROVE  Request(o) \in Frames
<1>1. /\ o.op \in AllOperations \cup {"output_value", "init", "query"}
      /\ o.line \in Lines
      /\ o.val \in IF o.op = "set_config" THEN Directions ELSE Levels
  BY DEF Operation
<1> DEFINE cmd == CommandOf(o.op)
           val == CASE o.op \in {"direction_output", "set_config"} -> DirOut
                    [] o.op = "direction_input" -> DirIn
                    [] OTHER -> o.val
<1>2. cmd \in Commands
  BY DEF CommandOf, Commands
<1>3. /\ val \in 0..2
      /\ cmd \in {"R", "O"} => val \in Levels
      /\ cmd = "C" => val \in Directions
  BY <1>1 DEF CommandOf, AllOperations, Levels, Directions, DirIn, DirOut
<1>4. Request(o) = [cmd |-> cmd, line |-> o.line, val |-> val]
  BY DEF Request
<1> HIDE DEF cmd, val
<1> QED
  BY <1>1, <1>2, <1>3, <1>4 DEF Frames

\* What an idle actor has in cur is an operation.
LEMMA NoOperationType == NoOperation \in Operation
  BY LineZero DEF NoOperation, Operation, Levels

Places == {"idle", "enter", "lock", "write", "wait", "check", "unlock", "retry", "post", "oops"}
Returns == {"ok", "error", "timeout", "again"}
Results == [ok : BOOLEAN, val : 0..2]

\* The bound of every actor's attempts.
Attempts(a) == 0..(RetryMax(a) - 1)

\* TypeInv, with the attempts of callers and of the probe in one formula.
Types ==
  /\ LinkTypeOK
  /\ chip \in {"unbound", "opened", "probing", "registered", "closed", "cleared",
               "removed", "failed"}
  /\ open \in BOOLEAN
  /\ serdev \in BOOLEAN
  /\ lock \in Actors \cup {None}
  /\ done \in 0..DoneMax
  /\ expected \in [cmd : Commands \cup {"none"}, line : Lines]
  /\ rxCmd \in Commands \cup {"E", "none"}
  /\ values \in [Lines -> Levels]
  /\ directions \in [Lines -> 0..2]
  /\ recv \in {"idle", "complete", "crashed"}
  /\ pc \in [Actors -> Places]
  /\ cur \in [Actors -> Operation]
  /\ tries \in [Actors -> Nat]
  /\ \A a \in Actors : tries[a] \in Attempts(a)
  /\ ret \in [Actors -> Returns]
  /\ result \in [Callers -> Results]
  /\ heard \in {"nothing", "answer", "error"}
  /\ BusyActor

\* The two say the same.
LEMMA TypesAre == TypeInv <=> Types
  BY MatchedAssumption DEF TypeInv, MatchedTypeOK, Types, Places, Returns, Results, Attempts,
     RetryMax, Actors, MatchedAssumption

\* So after a step.
LEMMA TypeBack == Types' => TypeInv'
  BY TypesAre, PTL

\* TypeInv holds initially.
LEMMA InitType == Init => TypeInv
<1> SUFFICES ASSUME Init PROVE TypeInv
  OBVIOUS
<1>1. LinkTypeOK
  <2>1. toHost \in Seq(Frames)
    <3>1. toHost = << >> \/ \E f \in Frames : toHost = << f >>
      BY MatchedAssumption DEF Init, MatchedAssumption
    <3>2. ASSUME NEW f \in Frames PROVE << f >> \in Seq(Frames)
      OBVIOUS
    <3>3. << >> \in Seq(Frames)
      OBVIOUS
    <3> QED
      BY <3>1, <3>2, <3>3
  <2>2. /\ pin \in [Lines -> Levels] /\ dir \in [Lines -> Directions]
        /\ ready = FALSE /\ toModule = << >> /\ << >> \in Seq(Frames)
    BY DEF Init
  <2> QED
    BY <2>1, <2>2 DEF LinkTypeOK
<1>2. 0 \in 0..DoneMax /\ \A a \in Actors : 0 \in Attempts(a)
  BY MatchedAssumption DEF MatchedAssumption, Attempts, RetryMax
<1>3. result \in [Callers -> Results]
  BY DEF Init, Results, Nothing
<1>4. /\ cur \in [Actors -> Operation]
      /\ pc \in [Actors -> Places]
      /\ ret \in [Actors -> Returns]
      /\ tries \in [Actors -> Nat]
      /\ \A a \in Actors : tries[a] \in Attempts(a)
      /\ BusyActor
  <2>1. /\ cur = [a \in Actors |-> NoOperation] /\ pc = [a \in Actors |-> "idle"]
        /\ ret = [a \in Actors |-> "ok"] /\ tries = [a \in Actors |-> 0]
    BY DEF Init
  <2> QED
    BY <1>2, <2>1, NoOperationType DEF BusyActor, Places, Returns
<1>5. values \in [Lines -> Levels] /\ directions \in [Lines -> 0..2]
  BY DEF Init, Levels, DirUnknown
<1>6. expected \in [cmd : Commands \cup {"none"}, line : Lines]
  BY LineZero DEF Init, NoneExpected
<1> QED
  BY <1>1, <1>2, <1>3, <1>4, <1>5, <1>6, TypesAre DEF Init, Types

\* A transaction keeps the types, and its attempts within their bound.
LEMMA TransactionType ==
  ASSUME TypeInv, NEW a \in Actors, Transaction(a)
  PROVE  TypeInv'
<1> SUFFICES Types'
  BY TypeBack
<1> USE DEF Types
<1>0. Types
  BY TypesAre
<1>1. /\ pc' \in [Actors -> Places]
      /\ BusyActor'
  BY <1>0 DEF Transaction, Enter, Lock, Write, WriteFails, Wake, Timeout, Check, Unlock,
     Retry, Moves, Places, BusyActor
<1>2. ret' \in [Actors -> Returns] /\ UNCHANGED <<cur, chip, open, serdev, values, directions,
                                                recv, result, pin, dir, ready, toHost>>
  BY <1>0 DEF Transaction, Enter, Lock, Write, WriteFails, Wake, Timeout, Check, Unlock,
     Retry, Returns, linkVars
<1>3. lock' \in Actors \cup {None} /\ heard' \in {"nothing", "answer", "error"}
  BY <1>0 DEF Transaction, Enter, Lock, Write, WriteFails, Wake, Timeout, Check, Unlock,
     Retry
<1>4. done' \in 0..DoneMax
  BY <1>0, MatchedAssumption
  DEF Transaction, Enter, Lock, Write, WriteFails, Wake, Timeout, Check, Unlock, Retry,
      MatchedAssumption
<1>5. tries' \in [Actors -> Nat] /\ \A b \in Actors : tries'[b] \in Attempts(b)
  <2>1. CASE Retry(a)
    <3>1. RetryMax(a) \in Nat
      BY MatchedAssumption DEF RetryMax, MatchedAssumption
    <3> QED
      BY <2>1, <3>1, <1>0 DEF Retry, Attempts
  <2>2. CASE ~Retry(a)
    <3>1. UNCHANGED tries
      BY <2>2 DEF Transaction, Enter, Lock, Write, WriteFails, Wake, Timeout, Check, Unlock
    <3> QED
      BY <3>1, <1>0
  <2> QED
    BY <2>1, <2>2
<1>6. expected' \in [cmd : Commands \cup {"none"}, line : Lines]
      /\ rxCmd' \in Commands \cup {"E", "none"}
  <2>1. CASE Lock(a)
    <3>1. cur[a].line \in Lines /\ CommandOf(cur[a].op) \in Commands
      BY <1>0 DEF Operation, CommandOf, Commands
    <3> QED
      BY <2>1, <3>1, LineZero DEF Lock
  <2>2. CASE ~Lock(a)
    <3>1. UNCHANGED <<expected, rxCmd>>
      BY <2>2 DEF Transaction, Enter, Write, WriteFails, Wake, Timeout, Check, Unlock, Retry
    <3> QED
      BY <3>1, <1>0
  <2> QED
    BY <2>1, <2>2
<1>7. toModule' \in Seq(Frames)
  <2>1. toModule \in Seq(Frames)
    BY <1>0 DEF LinkTypeOK
  <2>2. \/ toModule' = toModule
        \/ Write(a) /\ toModule' = Append(toModule, Request(cur[a]))
    BY DEF Transaction, Enter, Lock, Write, WriteFails, Wake, Timeout, Check, Unlock, Retry,
       linkVars
  <2>3. ASSUME Write(a) PROVE Request(cur[a]) \in Frames
    <3>1. cur[a] \in Operation /\ cur[a].op # "none"
      BY <2>3, <1>0 DEF Write, Moves, BusyActor
    <3> QED
      BY <3>1, RequestType
  <2> QED
    BY <2>1, <2>2, <2>3
<1>8. LinkTypeOK'
  BY <1>2, <1>7, <1>0 DEF LinkTypeOK
<1> QED
  BY <1>1, <1>2, <1>3, <1>4, <1>5, <1>0, <1>6, <1>8

\* The receive callback keeps the types.
LEMMA ReceiveType ==
  ASSUME TypeInv, RecvFrame \/ RecvComplete
  PROVE  TypeInv'
<1> SUFFICES Types'
  BY TypeBack
<1>0. Types
  BY TypesAre
<1>1. CASE RecvFrame
  <2>1. Head(toHost) \in Frames /\ Tail(toHost) \in Seq(Frames)
    BY <1>0, <1>1 DEF RecvFrame, Types, LinkTypeOK
  <2>2. values' \in [Lines -> Levels] /\ directions' \in [Lines -> 0..2]
    BY <1>0, <1>1, <2>1 DEF RecvFrame, Types, Frames
  <2>3. rxCmd' \in Commands \cup {"E", "none"} /\ recv' \in {"idle", "complete", "crashed"}
    BY <1>1, <2>1 DEF RecvFrame, Frames
  <2>4. heard' \in {"nothing", "answer", "error"}
    BY <1>0, <1>1 DEF RecvFrame, Types
  <2>5. /\ LinkTypeOK'
        /\ UNCHANGED <<chip, open, serdev, lock, done, expected, pc, cur, tries, ret, result>>
    BY <1>0, <1>1, <2>1 DEF RecvFrame, Types, LinkTypeOK
  <2> QED
    BY <1>0, <2>2, <2>3, <2>4, <2>5 DEF Types, BusyActor
<1>2. CASE RecvComplete
  <2>1. done' \in 0..DoneMax
    BY <1>0, <1>2, MatchedAssumption DEF RecvComplete, Types, MatchedAssumption
  <2> QED
    BY <1>0, <1>2, <2>1 DEF RecvComplete, Types, LinkTypeOK, linkVars, BusyActor
<1> QED
  BY <1>1, <1>2

\* Returning from an operation leaves what it writes well typed.
LEMMA ReturnType ==
  ASSUME Types, NEW c \in Callers, NEW r \in Results, Return(c, r)
  PROVE  /\ result' \in [Callers -> Results]
         /\ cur' \in [Actors -> Operation]
         /\ pc' \in [Actors -> Places]
         /\ ret' \in [Actors -> Returns]
         /\ tries' \in [Actors -> Nat]
         /\ \A a \in Actors : tries'[a] \in Attempts(a)
         /\ BusyActor'
<1>1. 0 \in Attempts(c)
  BY MatchedAssumption DEF MatchedAssumption, Attempts, RetryMax
<1> QED
  BY <1>1, NoOperationType DEF Types, BusyActor, Return, Moves, Actors, Places, Returns

\* An operation's call and its end keep the types.
LEMMA CallerType ==
  ASSUME TypeInv, NEW c \in Callers, Call(c) \/ GetDirectionCached(c) \/ Finish(c)
  PROVE  TypeInv'
<1> SUFFICES Types'
  BY TypeBack
<1>0. Types /\ c \in Actors /\ cur[c] \in Operation
  BY TypesAre DEF Types, Actors
<1>1. CASE Call(c)
  <2>1. PICK op \in Operations[c], l \in Uses[c] : \E v \in Arguments(op) :
          cur' = [cur EXCEPT ![c] = [op |-> op, line |-> l, val |-> v]]
    BY <1>1 DEF Call
  <2>2. PICK v \in Arguments(op) :
          cur' = [cur EXCEPT ![c] = [op |-> op, line |-> l, val |-> v]]
    BY <2>1
  <2>3. op \in AllOperations /\ l \in Lines
    BY MatchedAssumption DEF MatchedAssumption
  <2>4. [op |-> op, line |-> l, val |-> v] \in Operation
    BY <2>3 DEF Arguments, Operation, AllOperations, Levels, Directions, DirIn, DirOut
  <2>5. op # "none"
    BY <2>3 DEF AllOperations
  <2>6. UNCHANGED linkVars
    BY <1>1 DEF Call
  <2>7. /\ cur' \in [Actors -> Operation] /\ pc' \in [Actors -> Places] /\ BusyActor'
        /\ result' \in [Callers -> Results]
    BY <1>0, <1>1, <2>2, <2>4, <2>5 DEF Call, Types, BusyActor, Moves, Places, Results, Nothing
  <2> QED
    BY <1>0, <1>1, <2>6, <2>7 DEF Call, Types, LinkTypeOK, linkVars
<1>2. CASE GetDirectionCached(c)
  <2>1. result' \in [Callers -> Results]
    BY <1>0, <1>2 DEF GetDirectionCached, Types, Results, Success, Directions, DirIn, DirOut
  <2> QED
    BY <1>0, <1>2, <2>1 DEF GetDirectionCached, Types, LinkTypeOK, linkVars, BusyActor
<1>3. ASSUME UNCHANGED linkVars,
             UNCHANGED <<chip, open, serdev, lock, done, expected, rxCmd, directions, recv, heard>>,
             values' \in [Lines -> Levels],
             NEW r \in Results, Return(c, r)
      PROVE  Types'
  BY <1>0, <1>3, ReturnType DEF Types, LinkTypeOK, linkVars
<1>4. \A v \in 0..2 : Success(v) \in Results
  BY DEF Success, Results
<1>5. Nothing \in Results
  BY DEF Nothing, Results
<1>6. CASE FinishFailed(c)
  BY <1>0, <1>3, <1>4, <1>5, <1>6 DEF FinishFailed, Types
<1>7. CASE FinishGetDirection(c)
  <2>1. (IF directions[cur[c].line] \in Directions THEN Success(directions[cur[c].line])
         ELSE Nothing) \in Results
    BY <1>4, <1>5 DEF Directions, DirIn, DirOut
  <2> QED
    BY <1>0, <1>3, <1>7, <2>1 DEF FinishGetDirection, Types
<1>8. CASE FinishGet(c)
  <2>1. Success(values[cur[c].line]) \in Results
    BY <1>0, <1>4 DEF Types, Operation, Levels
  <2> QED
    BY <1>0, <1>3, <1>8, <2>1 DEF FinishGet, Types
<1>9. CASE FinishSet(c)
  <2>1. values' \in [Lines -> Levels]
    BY <1>0, <1>9 DEF FinishSet, Types, Operation
  <2> QED
    BY <1>0, <1>3, <1>4, <1>9, <2>1 DEF FinishSet
<1>10. CASE FinishConfig(c)
  BY <1>0, <1>3, <1>4, <1>10 DEF FinishConfig, Types
<1>11. CASE OutputValue(c)
  <2>1. [cur[c] EXCEPT !.op = "output_value"] \in Operation
    BY <1>0, <1>11 DEF OutputValue, Operation, Levels
  <2>2. 0 \in Attempts(c)
    BY MatchedAssumption DEF MatchedAssumption, Attempts, RetryMax
  <2>3. /\ cur' \in [Actors -> Operation] /\ pc' \in [Actors -> Places] /\ BusyActor'
        /\ tries' \in [Actors -> Nat] /\ \A a \in Actors : tries'[a] \in Attempts(a)
    BY <1>0, <1>11, <2>1, <2>2 DEF OutputValue, Types, BusyActor, Moves, Places
  <2> QED
    BY <1>0, <1>11, <2>3 DEF OutputValue, Types, LinkTypeOK, linkVars
<1> QED
  BY <1>1, <1>2, <1>6, <1>7, <1>8, <1>9, <1>10, <1>11 DEF Finish

\* The probe keeps the types.
LEMMA ProbeStepType ==
  ASSUME TypeInv, ProbeStep
  PROVE  TypeInv'
<1> SUFFICES Types'
  BY TypeBack
<1>0. Types /\ Probe \in Actors
  BY TypesAre DEF Actors
<1>1. 0 \in Attempts(Probe)
  BY MatchedAssumption DEF MatchedAssumption, Attempts, RetryMax
<1> DEFINE Mine == /\ cur' \in [Actors -> Operation] /\ pc' \in [Actors -> Places]
                   /\ BusyActor'
                   /\ tries' \in [Actors -> Nat]
                   /\ \A a \in Actors : tries'[a] \in Attempts(a)
                   /\ ret' \in [Actors -> Returns]
<1>2. ASSUME NEW op \in {"init", "query"}, NEW l \in Lines, NEW from, UNCHANGED ret,
             ProbeRequest(op, l, from)
      PROVE  Mine
  <2>1. [op |-> op, line |-> l, val |-> 0] \in Operation
    BY DEF Operation, Levels
  <2> QED
    BY <1>0, <1>1, <1>2, <2>1 DEF Types, BusyActor, ProbeRequest, Moves, Places
<1>3. ASSUME ProbeDone
      PROVE  Mine
  BY <1>0, <1>1, <1>3, NoOperationType DEF ProbeDone, Types, BusyActor, Places, Returns
<1>4. CASE ProbeOpen
  BY <1>0, <1>4 DEF ProbeOpen, Types, LinkTypeOK, linkVars, BusyActor
<1>5. CASE ProbeSetup
  <2>1. Mine
    BY <1>2, <1>5, LineZero DEF ProbeSetup
  <2>2. /\ values' \in [Lines -> Levels] /\ directions' \in [Lines -> 0..2]
        /\ expected' \in [cmd : Commands \cup {"none"}, line : Lines]
        /\ done' \in 0..DoneMax
    BY <1>5, LineZero, MatchedAssumption
    DEF ProbeSetup, Levels, DirUnknown, NoneExpected, MatchedAssumption
  <2> QED
    BY <1>0, <1>5, <2>1, <2>2 DEF ProbeSetup, Types, LinkTypeOK, linkVars
<1>6. CASE QueryNext
  <2>1. Mine
    <3>1. CASE cur[Probe].op = "init" /\ ProbeRequest("query", 0, "post")
      BY <1>2, <1>6, <3>1, LineZero DEF QueryNext
    <3>2. CASE cur[Probe].line + 1 < NGpios /\ ProbeRequest("query", cur[Probe].line + 1, "post")
      <4>1. cur[Probe].line + 1 \in Lines
        BY <1>0, <3>2, LinkAssumption DEF Types, Operation, Lines, LinkAssumption
      <4> QED
        BY <1>2, <1>6, <3>2, <4>1 DEF QueryNext
    <3> QED
      BY <1>6, <3>1, <3>2 DEF QueryNext
  <2> QED
    BY <1>0, <1>6, <2>1 DEF QueryNext, Types, LinkTypeOK, linkVars
<1>7. CASE InitFails \/ Register
  <2>1. Mine
    BY <1>3, <1>7 DEF InitFails, Register
  <2> QED
    BY <1>0, <1>7, <2>1 DEF InitFails, Register, Types, LinkTypeOK, linkVars
<1> QED
  BY <1>4, <1>5, <1>6, <1>7 DEF ProbeStep

\* Every step keeps TypeInv.
LEMMA StepType == TypeInv /\ [Next]_vars => TypeInv'
<1> SUFFICES ASSUME TypeInv, [Next]_vars PROVE TypeInv'
  OBVIOUS
<1>0. Types
  BY TypesAre
<1>1. CASE Remove
  <2>1. Types'
    BY <1>0, <1>1 DEF Remove, RemoveClose, RemoveClear, GpiochipRemoved, Types, BusyActor,
       LinkTypeOK, linkVars
  <2> QED
    BY <2>1, TypeBack
<1>2. CASE Link
  <2>1. LinkTypeOK'
    BY <1>0, <1>2, LinkStepType DEF Link, Types
  <2>2. Types'
    BY <1>0, <1>2, <2>1 DEF Link, matchedVars, Types, BusyActor
  <2> QED
    BY <2>2, TypeBack
<1>3. CASE UNCHANGED vars
  <2>1. Types'
    BY <1>0, <1>3 DEF vars, linkVars, matchedVars, Types, BusyActor, LinkTypeOK
  <2> QED
    BY <2>1, TypeBack
<1> QED
  BY <1>1, <1>2, <1>3, TransactionType, CallerType, ReceiveType, ProbeStepType DEF Next

\* The January driver's state keeps its types for ever, whatever the link does:
\* no request is sent more often than the retry loop's bound.
THEOREM MatchedTypes == Spec => []MatchedTypeOK
<1>1. TypeInv => MatchedTypeOK
  BY DEF TypeInv
<1> QED
  BY <1>1, InitType, StepType, PTL DEF Spec

-----------------------------------------------------------------------------
(* The callback before the probe is ready for it.                          *)

\* No E frame comes that answers no request of this driver.
NoStatus == "status" \notin ErrorFrames /\ \A f \in Leftover : f.cmd # "E"

\* Until the probe has set up what the callback uses, only what was on the line
\* before can arrive, and it matches nothing.
Early ==
  NoStatus =>
    /\ recv # "crashed"
    /\ chip \in {"unbound", "opened"} =>
         /\ \A a \in Actors : pc[a] = "idle"
         /\ toModule = << >>
         /\ toHost = << >> \/ \E f \in Leftover : toHost = << f >>
         /\ expected = NoneExpected
         /\ recv = "idle"

\* Early holds initially.
LEMMA EarlyInit == Init => Early
<1> SUFFICES ASSUME Init PROVE Early
  OBVIOUS
<1>1. /\ recv = "idle" /\ toModule = << >> /\ expected = NoneExpected
      /\ toHost \in {<< >>} \cup {<< f >> : f \in Leftover}
      /\ \A a \in Actors : pc[a] = "idle"
  BY DEF Init
<1> QED
  BY <1>1 DEF Early

\* A frame from before the driver was bound matches nothing the driver expects.
LEMMA OldMatchesNothing ==
  ASSUME NoStatus, NEW f \in Leftover, expected = NoneExpected
  PROVE  ~Matches(f)
  BY MatchedAssumption DEF Matches, NoStatus, NoneExpected, MatchedAssumption, Frames, Commands

\* Every step keeps Early.
LEMMA EarlyStep == TypeInv /\ Early /\ [Next]_vars => Early'
<1> SUFFICES ASSUME TypeInv, Early, [Next]_vars, NoStatus PROVE Early'
  BY DEF Early, NoStatus
<1>1. Types
  BY TypesAre
<1> DEFINE Before == chip \in {"unbound", "opened"}
<1>2. recv' # "crashed"
  <2>1. CASE RecvComplete
    BY <2>1 DEF Early, RecvComplete
  <2>2. CASE ~RecvComplete
    <3>1. recv' = recv \/ RecvFrame
      BY <2>2 DEF Next, Transaction, Enter, Lock, Write, WriteFails, Wake, Timeout, Check, Unlock,
        Retry, Call, GetDirectionCached, Finish, FinishFailed, FinishGetDirection, FinishGet,
        FinishSet, FinishConfig, OutputValue, ProbeStep, ProbeOpen, ProbeSetup, QueryNext,
        InitFails, Register, Remove, RemoveClose, RemoveClear, GpiochipRemoved, Link,
        matchedVars, vars
    <3> QED
      BY <3>1 DEF Early, RecvFrame
  <2> QED
    BY <2>1, <2>2
<1>3. ASSUME Before
      PROVE  \/ ProbeOpen \/ ProbeSetup \/ RecvFrame
             \/ Link /\ (\E l \in Lines : PinChanges(l))
             \/ UNCHANGED vars
  <2>1. \A a \in Actors : pc[a] = "idle"
    BY <1>3 DEF Early
  <2>2. ~\E a \in Actors : Transaction(a)
    BY <2>1 DEF Transaction, Enter, Lock, Write, WriteFails, Wake, Timeout, Check, Unlock, Retry,
      Moves
  <2>3. ~\E c \in Callers : Call(c) \/ GetDirectionCached(c) \/ Finish(c)
    BY <1>3, <2>1 DEF Call, GetDirectionCached, Callable, Finish, FinishFailed,
      FinishGetDirection, FinishGet, FinishSet, FinishConfig, OutputValue, Return, Moves, Actors
  <2>4. ProbeStep => ProbeOpen \/ ProbeSetup
    BY <2>1 DEF ProbeStep, QueryNext, InitFails, Register, ProbeRequest, Moves, Actors
  <2>5. ~Remove
    BY <1>3 DEF Remove, RemoveClose, RemoveClear, GpiochipRemoved
  <2>6. ~RecvComplete
    BY <1>3 DEF RecvComplete, Early
  <2>7. Link => \E l \in Lines : PinChanges(l)
    BY <1>3 DEF Link, LinkNext, ModuleServes, AnswerLost, RequestLost, ModuleRefuses,
      ModuleStatus, Early, NoStatus
  <2> QED
    BY <2>2, <2>3, <2>4, <2>5, <2>6, <2>7 DEF Next
<1>4. ~Before => ~Before'
  BY <1>1 DEF Next, Transaction, Enter, Lock, Write, WriteFails, Wake, Timeout, Check, Unlock,
    Retry, Call, GetDirectionCached, Finish, FinishFailed, FinishGetDirection, FinishGet,
    FinishSet, FinishConfig, OutputValue, ProbeStep, ProbeOpen, ProbeSetup, QueryNext,
    InitFails, Register, Remove, RemoveClose, RemoveClear, GpiochipRemoved, Link,
    RecvFrame, RecvComplete, matchedVars, vars
<1>5. ASSUME Before, RecvFrame
      PROVE  Early'
  <2>1. PICK f \in Leftover : toHost = << f >>
    BY <1>5 DEF Early, RecvFrame
  <2>2. Head(toHost) = f /\ Tail(toHost) = << >>
    BY <2>1
  <2>3. ~Matches(f)
    BY <1>5, OldMatchesNothing DEF Early
  <2> QED
    BY <1>2, <1>5, <2>2, <2>3 DEF Early, RecvFrame
<1>6. ASSUME Before, Link, \E l \in Lines : PinChanges(l)
      PROVE  Early'
  BY <1>2, <1>6 DEF Early, Link, matchedVars, PinChanges
<1>7. ASSUME Before, ProbeOpen \/ ProbeSetup
      PROVE  Early'
  BY <1>2, <1>7 DEF Early, ProbeOpen, ProbeSetup, linkVars
<1>8. ASSUME Before, UNCHANGED vars
      PROVE  Early'
  BY <1>2, <1>8 DEF Early, vars, linkVars, matchedVars
<1>9. ASSUME ~Before
      PROVE  Early'
  BY <1>2, <1>4, <1>9 DEF Early
<1> QED
  BY <1>3, <1>5, <1>6, <1>7, <1>8, <1>9

\* The callback, in place before the completion is initialised, never completes
\* it while it is not, if the expander sends no E frame but to refuse a request
\* and none was left on the line.
THEOREM NeverTooEarly == Spec => []NoEarlyComplete
<1>1. Early => NoEarlyComplete
  BY DEF Early, NoStatus, NoEarlyComplete
<1> QED
  BY <1>1, InitType, StepType, EarlyInit, EarlyStep, PTL DEF Spec

-----------------------------------------------------------------------------
(* What is outstanding, and the cache.                                     *)

\* What a caller and the probe are at, and why an attempt is repeated.
Work ==
  /\ \A c \in Callers :
       IF pc[c] = "idle" THEN cur[c].op = "none"
       ELSE /\ cur[c].op \in Operations[c] \cup {"output_value"}
            /\ cur[c].line \in Uses[c]
  /\ pc[Probe] # "idle" => chip = "probing" /\ cur[Probe].op \in {"init", "query"}
  /\ \A a \in Actors : pc[a] = "retry" => ret[a] \in {"again", "timeout"}

\* A prompt link whose firmware never sends E of its own accord, and where no E
\* frame and no answer to INIT is left from a driver bound before.
Clean ==
  /\ Prompt
  /\ "status" \notin ErrorFrames
  /\ \A f \in Leftover : f.cmd \notin {"E", "i"}

\* The driver has not begun to be unbound.
Up == chip \in {"unbound", "opened", "probing", "registered", "failed"}

Life ==
  /\ open <=> chip \in {"opened", "probing", "registered"}
  /\ open => serdev
  /\ chip # "registered" => \A c \in Callers : pc[c] = "idle"
  /\ chip = "probing" => pc[Probe] # "idle"
  /\ chip \in {"unbound", "opened"} => expected = NoneExpected

\* The mutex is held by the actor inside it.
Inside(a) == pc[a] \in {"write", "wait", "check", "unlock"}

Holder ==
  /\ \A a \in Actors : Inside(a) => lock = a
  /\ lock # None => Inside(lock) \/ pc[lock] = "oops"

\* What the transaction inside the mutex expects, and what is expected during INIT.
Expects ==
  /\ lock # None /\ pc[lock] \in {"write", "wait"} =>
       expected = [cmd |-> CommandOf(cur[lock].op),
                   line |-> IF HasOffset(CommandOf(cur[lock].op)) THEN cur[lock].line ELSE 0]
  /\ chip = "probing" /\ cur[Probe].op = "init" => expected.cmd \in {"none", "i"}

\* The frame left from before is gone: an answer to INIT has come behind it.
OldGone ==
  \/ chip = "registered"
  \/ /\ chip = "probing"
     /\ \/ cur[Probe].op = "query"
        \/ pc[Probe] = "check"
        \/ pc[Probe] \in {"unlock", "post"} /\ ret[Probe] = "ok"

Old(s) ==
  \/ s = << >>
  \/ ~OldGone /\ \E f \in Leftover : s = << f >>

\* g answers the request of a, or refuses it.
Answers(g, a) ==
  \/ g.cmd = "E"
  \/ /\ g.cmd = Request(cur[a]).cmd
     /\ g.line = Request(cur[a]).line
     /\ g.cmd = "D" => g.val \in Directions

OldThenAnswer(s, a) ==
  \E g \in Frames :
    /\ Answers(g, a)
    /\ \/ s = << g >>
       \/ ~OldGone /\ \E f \in Leftover : s = << f, g >>

\* The last frame received was the answer, or a refusal.
Received(a) ==
  \/ rxCmd = "E"
  \/ /\ rxCmd = CommandOf(cur[a].op)
     /\ cur[a].op = "query" => directions[cur[a].line] # DirUnknown

Waiting == lock # None /\ pc[lock] = "wait"
Checking == lock # None /\ pc[lock] = "check"

\* Where the one request, answer or completion of the transaction that waits is.
Outstanding ==
  \/ /\ ~Checking
     /\ toModule = << >> /\ Old(toHost) /\ recv = "idle" /\ done = 0
  \/ /\ Checking
     /\ toModule = << >> /\ toHost = << >> /\ recv = "idle" /\ done = 0
     /\ Received(lock)
  \/ /\ Waiting
     /\ \/ /\ toModule = << Request(cur[lock]) >>
           /\ Old(toHost) /\ recv = "idle" /\ done = 0
        \/ /\ toModule = << >> /\ OldThenAnswer(toHost, lock)
           /\ recv = "idle" /\ done = 0
        \/ /\ toModule = << >> /\ toHost = << >>
           /\ \/ recv = "complete" /\ done = 0
              \/ recv = "idle" /\ done = 1
           /\ Received(lock)

\* The cache fills up line by line.
Filled ==
  /\ chip = "probing" /\ cur[Probe].op = "query" =>
       /\ \A l \in Lines : l < cur[Probe].line => directions[l] # DirUnknown
       /\ pc[Probe] \in {"unlock", "post"} /\ ret[Probe] = "ok" =>
            directions[cur[Probe].line] # DirUnknown
  /\ chip = "registered" => \A l \in Lines : directions[l] # DirUnknown

QuietInv == Clean /\ Up => Life /\ Expects /\ Outstanding /\ Filled

\* Holder and Work hold initially.
LEMMA HolderInit == Init => Holder /\ Work
<1> SUFFICES ASSUME Init PROVE Holder /\ Work
  OBVIOUS
<1>1. /\ pc = [a \in Actors |-> "idle"] /\ cur = [a \in Actors |-> NoOperation] /\ lock = None
  BY DEF Init
<1> QED
  BY <1>1 DEF Holder, Work, Inside, Actors, NoOperation

\* What the steps outside aios_gpio_write_retry leave alone.
LEMMA OutsideFrame ==
  ASSUME Types, [Next]_vars, ~\E a \in Actors : Transaction(a)
  PROVE  /\ lock' = lock
         /\ \A a \in Actors : pc[a] \notin {"idle", "post"} =>
              pc'[a] = pc[a] /\ cur'[a] = cur[a] /\ ret'[a] = ret[a]
         /\ \A a \in Actors : pc'[a] # pc[a] => pc'[a] \in {"idle", "enter", "oops"}
<1>1. /\ pc \in [Actors -> Places] /\ cur \in [Actors -> Operation] /\ ret \in [Actors -> Returns]
      /\ Callers \subseteq Actors /\ Probe \in Actors
  BY DEF Types, Actors
<1>2. CASE \E c \in Callers : Call(c) \/ GetDirectionCached(c) \/ Finish(c)
  BY <1>1, <1>2 DEF Call, GetDirectionCached, Finish, FinishFailed, FinishGetDirection,
    FinishGet, FinishSet, FinishConfig, OutputValue, Return, Moves
<1>3. CASE ProbeStep
  <2>1. pc[Probe] \in {"idle", "post"} \/ UNCHANGED <<pc, cur, ret>>
    BY <1>1, <1>3 DEF ProbeStep, ProbeOpen, ProbeSetup, QueryNext, InitFails, Register,
      ProbeRequest, Moves
  <2> QED
    BY <1>1, <1>3, <2>1 DEF ProbeStep, ProbeOpen, ProbeSetup, QueryNext, InitFails, Register,
      ProbeRequest, ProbeDone, Moves
<1>4. CASE Remove \/ RecvFrame \/ RecvComplete \/ Link \/ UNCHANGED vars
  BY <1>4 DEF Remove, RemoveClose, RemoveClear, GpiochipRemoved, RecvFrame, RecvComplete, Link,
    matchedVars, vars
<1> QED
  BY <1>2, <1>3, <1>4 DEF Next

\* What a transaction's step leaves alone.
LEMMA TransactionFrame ==
  ASSUME Types, NEW a \in Actors, Transaction(a)
  PROVE  /\ UNCHANGED <<cur, chip, open, serdev, values, directions, recv, result, toHost,
                        pin, dir>>
         /\ \A b \in Actors : b # a => pc'[b] = pc[b] /\ ret'[b] = ret[b]
         /\ pc[a] \in Places \ {"idle", "oops", "post"}
         /\ pc'[a] \in Places \ {"idle"}
<1>1. /\ pc \in [Actors -> Places] /\ ret \in [Actors -> Returns]
  BY DEF Types
<1> QED
  BY <1>1 DEF Transaction, Enter, Lock, Write, WriteFails, Wake, Timeout, Check, Unlock,
    Retry, Moves, Places, linkVars

\* Every step keeps the mutex's invariant.
LEMMA HolderStep == TypeInv /\ Holder /\ [Next]_vars => Holder'
<1> SUFFICES ASSUME TypeInv, Holder, [Next]_vars PROVE Holder'
  OBVIOUS
<1>1. Types /\ None \notin Actors
  BY TypesAre, MatchedAssumption DEF MatchedAssumption, Actors
<1>2. ASSUME NEW a \in Actors, Transaction(a)
      PROVE  Holder'
  <2>1. /\ pc \in [Actors -> Places] /\ lock \in Actors \cup {None}
        /\ \A b \in Actors : b # a => pc'[b] = pc[b]
    BY <1>1, <1>2, TransactionFrame DEF Types
  <2>2. CASE Enter(a) \/ Retry(a)
    BY <1>1, <2>1, <2>2 DEF Enter, Retry, Moves, Holder, Inside
  <2>3. CASE Lock(a)
    BY <1>1, <2>1, <2>3 DEF Lock, Moves, Holder, Inside
  <2>4. CASE Write(a) \/ WriteFails(a) \/ Wake(a) \/ Timeout(a) \/ Check(a)
    BY <1>1, <2>1, <2>4 DEF Write, WriteFails, Wake, Timeout, Check, Moves, Holder, Inside
  <2>5. CASE Unlock(a)
    BY <1>1, <2>1, <2>5 DEF Unlock, Moves, Holder, Inside
  <2> QED
    BY <1>2, <2>2, <2>3, <2>4, <2>5 DEF Transaction
<1>3. CASE ~\E a \in Actors : Transaction(a)
  <2>1. lock' = lock /\ lock \in Actors \cup {None}
    BY <1>1, <1>3, OutsideFrame DEF Types
  <2>2. \A a \in Actors : pc[a] \notin {"idle", "post"} => pc'[a] = pc[a]
    BY <1>1, <1>3, OutsideFrame
  <2>3. \A a \in Actors : pc'[a] # pc[a] => pc'[a] \in {"idle", "enter", "oops"}
    BY <1>1, <1>3, OutsideFrame
  <2> QED
    BY <2>1, <2>2, <2>3 DEF Holder, Inside
<1> QED
  BY <1>2, <1>3

\* Every step keeps Work.
LEMMA WorkStep == TypeInv /\ Work /\ [Next]_vars => Work'
<1> SUFFICES ASSUME TypeInv, Work, [Next]_vars PROVE Work'
  OBVIOUS
<1>1. /\ Types /\ pc \in [Actors -> Places] /\ cur \in [Actors -> Operation]
      /\ ret \in [Actors -> Returns]
      /\ Callers \subseteq Actors /\ Probe \in Actors /\ Probe \notin Callers
      /\ Actors = Callers \cup {Probe}
  BY TypesAre, MatchedAssumption DEF Types, MatchedAssumption, Actors
<1>2. ASSUME NEW a \in Actors, Transaction(a)
      PROVE  Work'
  <2>1. /\ UNCHANGED <<cur, chip>> /\ pc[a] # "idle" /\ pc'[a] # "idle"
        /\ \A b \in Actors : b # a => pc'[b] = pc[b] /\ ret'[b] = ret[b]
    BY <1>1, <1>2, TransactionFrame
  <2>2. pc'[a] = "retry" => ret'[a] \in {"again", "timeout"}
    BY <1>1, <1>2 DEF Transaction, Enter, Lock, Write, WriteFails, Wake, Timeout, Check, Unlock,
      Retry, Moves
  <2> QED
    BY <1>1, <2>1, <2>2 DEF Work
<1>3. ASSUME NEW c \in Callers, Call(c) \/ GetDirectionCached(c) \/ Finish(c)
      PROVE  Work'
  <2>1. /\ chip' = chip
        /\ \A b \in Actors : b # c => pc'[b] = pc[b] /\ cur'[b] = cur[b] /\ ret'[b] = ret[b]
    BY <1>1, <1>3 DEF Call, GetDirectionCached, Finish, FinishFailed, FinishGetDirection,
      FinishGet, FinishSet, FinishConfig, OutputValue, Return, Moves
  <2>2. CASE Call(c)
    <3>1. PICK op \in Operations[c], l \in Uses[c] : \E v \in Arguments(op) :
            cur' = [cur EXCEPT ![c] = [op |-> op, line |-> l, val |-> v]]
      BY <2>2 DEF Call
    <3>2. cur'[c].op \in Operations[c] /\ cur'[c].line \in Uses[c]
      BY <1>1, <3>1
    <3>3. pc'[c] \in {"enter", "oops"}
      BY <1>1, <2>2 DEF Call, Moves
    <3> QED
      BY <1>1, <2>1, <3>2, <3>3 DEF Work
  <2>3. CASE GetDirectionCached(c)
    BY <2>3 DEF GetDirectionCached, Work
  <2>4. CASE OutputValue(c)
    <3>1. pc'[c] \in {"enter", "oops"} /\ cur'[c].op = "output_value"
          /\ cur'[c].line = cur[c].line /\ pc[c] = "post"
      BY <1>1, <2>4 DEF OutputValue, Moves
    <3> QED
      BY <1>1, <2>1, <3>1 DEF Work
  <2>5. CASE pc'[c] = "idle" /\ cur'[c] = NoOperation
    BY <1>1, <2>1, <2>5 DEF Work, NoOperation
  <2>6. Finish(c) => OutputValue(c) \/ (pc'[c] = "idle" /\ cur'[c] = NoOperation)
    BY <1>1 DEF Finish, FinishFailed, FinishGetDirection, FinishGet, FinishSet, FinishConfig,
      Return, Moves
  <2> QED
    BY <1>3, <2>2, <2>3, <2>4, <2>5, <2>6
<1>4. CASE ProbeStep
  <2>1. \A b \in Actors : b # Probe => pc'[b] = pc[b] /\ cur'[b] = cur[b] /\ ret'[b] = ret[b]
    BY <1>1, <1>4 DEF ProbeStep, ProbeOpen, ProbeSetup, QueryNext, InitFails, Register,
      ProbeRequest, ProbeDone, Moves
  <2>2. \/ pc'[Probe] \in {"idle"}
        \/ /\ pc'[Probe] = "enter" /\ cur'[Probe].op \in {"init", "query"}
           /\ chip' = "probing"
        \/ UNCHANGED <<pc, cur, ret>> /\ chip = "unbound" /\ pc[Probe] = "idle"
    BY <1>1, <1>4 DEF Work, ProbeStep, ProbeOpen, ProbeSetup, QueryNext, InitFails, Register,
      ProbeRequest, ProbeDone, Moves
  <2> QED
    BY <1>1, <2>1, <2>2 DEF Work
<1>5. CASE Remove
  BY <1>5 DEF Remove, RemoveClose, RemoveClear, GpiochipRemoved, Work
<1>6. CASE RecvFrame \/ RecvComplete \/ Link \/ UNCHANGED vars
  BY <1>6 DEF RecvFrame, RecvComplete, Link, matchedVars, vars, Work
<1> QED
  BY <1>2, <1>3, <1>4, <1>5, <1>6 DEF Next

\* What the steps use of the invariant.
Known == TypeInv /\ Holder /\ Work /\ QuietInv

\* The parts of it that are cited again and again.
LEMMA KnownFacts ==
  ASSUME Known, Clean, Up
  PROVE  /\ Types /\ Life /\ Expects /\ Outstanding /\ Filled
         /\ pc \in [Actors -> Places]
         /\ cur \in [Actors -> Operation]
         /\ ret \in [Actors -> Returns]
         /\ directions \in [Lines -> 0..2]
         /\ done \in 0..DoneMax
         /\ lock \in Actors \cup {None}
         /\ None \notin Actors
         /\ Probe \in Actors /\ Probe \notin Callers /\ Callers \subseteq Actors
         /\ Actors = Callers \cup {Probe}
         /\ \A a \in Actors : Inside(a) => lock = a
         /\ lock # None => Inside(lock) \/ pc[lock] = "oops"
         /\ \A a \in Actors : pc[a] # "idle" => chip \in {"probing", "registered"}
         /\ pc[Probe] # "idle" => chip = "probing" /\ \A c \in Callers : pc[c] = "idle"
         /\ \A c \in Callers : pc[c] # "idle" => chip = "registered"
         /\ chip = "probing" => cur[Probe].op \in {"init", "query"}
         /\ \A a \in Actors : cur[a].line \in Lines
  BY TypesAre, MatchedAssumption
  DEF Known, QuietInv, Holder, Work, Life, Types, MatchedAssumption, Actors, Operation

\* Once the driver is being unbound it does not come back.
LEMMA UpBefore == TypeInv /\ Work /\ [Next]_vars /\ Up' => Up
<1> SUFFICES ASSUME Types, Work, [Next]_vars, ~Up PROVE ~Up'
  BY TypesAre
<1>1. chip \in {"closed", "cleared", "removed"}
  BY DEF Types, Up
<1>2. pc[Probe] = "idle"
  BY <1>1 DEF Work
<1>3. CASE ProbeStep
  BY <1>1, <1>2, <1>3 DEF ProbeStep, ProbeOpen, ProbeSetup, QueryNext, InitFails, Register,
    ProbeRequest, Moves, Up
<1>4. CASE Remove
  BY <1>4 DEF Remove, RemoveClose, RemoveClear, GpiochipRemoved, Up
<1>5. CASE ~ProbeStep /\ ~Remove
  <2>1. chip' = chip
    BY <1>5 DEF Next, Transaction, Enter, Lock, Write, WriteFails, Wake, Timeout, Check, Unlock,
      Retry, Call, GetDirectionCached, Finish, FinishFailed, FinishGetDirection, FinishGet,
      FinishSet, FinishConfig, OutputValue, Link, RecvFrame, RecvComplete, matchedVars, vars
  <2> QED
    BY <2>1 DEF Up
<1> QED
  BY <1>3, <1>4, <1>5

\* QuietInv holds initially.
LEMMA QuietInit == Init => QuietInv
<1> SUFFICES ASSUME Init PROVE QuietInv
  OBVIOUS
<1>1. /\ chip = "unbound" /\ open = FALSE /\ lock = None /\ done = 0 /\ recv = "idle"
      /\ expected = NoneExpected /\ toModule = << >>
      /\ toHost \in {<< >>} \cup {<< f >> : f \in Leftover}
      /\ \A a \in Actors : pc[a] = "idle"
  BY DEF Init
<1>2. Life /\ Expects /\ Filled
  BY <1>1 DEF Life, Expects, Filled, Actors
<1>3. Outstanding
  BY <1>1 DEF Outstanding, Checking, Old, OldGone
<1> QED
  BY <1>2, <1>3 DEF QuietInv

\* What is outstanding stays so when a step touches neither the line, nor the
\* callback, nor the actor that holds the mutex.
LEMMA OutstandingKept ==
  ASSUME Outstanding, UNCHANGED <<toModule, toHost, recv, done, rxCmd, lock>>,
         lock # None => pc'[lock] = pc[lock] /\ cur'[lock] = cur[lock],
         \A l \in Lines : directions[l] # DirUnknown => directions'[l] # DirUnknown,
         lock # None => cur[lock].line \in Lines,
         toHost # << >> => (OldGone' => OldGone)
  PROVE  Outstanding'
<1>1. (Waiting' <=> Waiting) /\ (Checking' <=> Checking)
  BY DEF Waiting, Checking
<1>2. lock # None => Request(cur[lock])' = Request(cur[lock])
  BY DEF Request, CommandOf
<1>3. lock # None /\ Received(lock) => Received(lock)'
  BY DEF Received, CommandOf
<1>4. Old(toHost) => Old(toHost)'
  BY DEF Old
<1>5. lock # None /\ OldThenAnswer(toHost, lock) => OldThenAnswer(toHost, lock)'
  <2> SUFFICES ASSUME lock # None, OldThenAnswer(toHost, lock)
               PROVE  OldThenAnswer(toHost, lock)'
    OBVIOUS
  <2>1. PICK g \in Frames :
          /\ Answers(g, lock)
          /\ \/ toHost = << g >>
             \/ ~OldGone /\ \E f \in Leftover : toHost = << f, g >>
    BY DEF OldThenAnswer
  <2>2. Answers(g, lock)'
    BY <1>2, <2>1 DEF Answers
  <2>3. toHost # << >>
    <3>1. ASSUME NEW f PROVE << g >> # << >> /\ << f, g >> # << >>
      OBVIOUS
    <3> QED
      BY <2>1, <3>1
  <2> QED
    BY <2>1, <2>2, <2>3 DEF OldThenAnswer
<1>6. CASE ~Checking /\ toModule = << >> /\ Old(toHost) /\ recv = "idle" /\ done = 0
  BY <1>1, <1>4, <1>6 DEF Outstanding
<1>7. CASE Checking /\ toModule = << >> /\ toHost = << >> /\ recv = "idle" /\ done = 0
           /\ Received(lock)
  BY <1>1, <1>3, <1>7 DEF Outstanding, Checking
<1>8. CASE Waiting /\ toModule = << Request(cur[lock]) >> /\ Old(toHost) /\ recv = "idle"
           /\ done = 0
  BY <1>1, <1>2, <1>4, <1>8 DEF Outstanding, Waiting
<1>9. CASE Waiting /\ toModule = << >> /\ OldThenAnswer(toHost, lock) /\ recv = "idle"
           /\ done = 0
  BY <1>1, <1>5, <1>9 DEF Outstanding, Waiting
<1>10. CASE /\ Waiting /\ toModule = << >> /\ toHost = << >> /\ Received(lock)
            /\ \/ recv = "complete" /\ done = 0
               \/ recv = "idle" /\ done = 1
  BY <1>1, <1>3, <1>10 DEF Outstanding, Waiting
<1> QED
  BY <1>6, <1>7, <1>8, <1>9, <1>10 DEF Outstanding

\* The chip's life under every step.
LEMMA LifeStep ==
  ASSUME Known, Clean, Up, Up', [Next]_vars
  PROVE  Life'
<1>1. Types /\ Life /\ pc \in [Actors -> Places]
      /\ Probe \in Actors /\ Probe \notin Callers /\ Callers \subseteq Actors
      /\ Actors = Callers \cup {Probe}
  BY KnownFacts
<1>2. ASSUME NEW a \in Actors, Transaction(a)
      PROVE  Life'
  <2>1. /\ UNCHANGED <<chip, open, serdev>> /\ pc[a] # "idle" /\ pc'[a] # "idle"
        /\ \A b \in Actors : b # a => pc'[b] = pc[b]
    BY <1>1, <1>2, TransactionFrame
  <2>2. chip \in {"probing", "registered"} /\ (a \in Callers => chip = "registered")
    BY <2>1, KnownFacts
  <2> QED
    BY <1>1, <2>1, <2>2 DEF Life
<1>3. ASSUME NEW c \in Callers, Call(c) \/ GetDirectionCached(c) \/ Finish(c)
      PROVE  Life'
  <2>1. UNCHANGED <<chip, open, serdev, expected>>
    BY <1>3 DEF Call, GetDirectionCached, Finish, FinishFailed, FinishGetDirection,
      FinishGet, FinishSet, FinishConfig, OutputValue
  <2>2. chip = "registered"
    <3>1. Callable \/ pc[c] = "post"
      BY <1>3 DEF Call, GetDirectionCached, Finish, FinishFailed, FinishGetDirection,
        FinishGet, FinishSet, FinishConfig, OutputValue, Return, Moves
    <3> QED
      BY <3>1, KnownFacts DEF Callable, Up
  <2> QED
    BY <1>1, <2>1, <2>2 DEF Life
<1>4. CASE ProbeStep
  BY <1>1, <1>4, KnownFacts
  DEF Life, ProbeStep, ProbeOpen, ProbeSetup, QueryNext, InitFails, Register, ProbeRequest,
      ProbeDone, Moves
<1>5. CASE RecvFrame \/ RecvComplete \/ Link \/ UNCHANGED vars
  BY <1>1, <1>5 DEF Life, RecvFrame, RecvComplete, Link, matchedVars, vars
<1>6. ~Remove
  BY DEF Up, Remove, RemoveClose, RemoveClear, GpiochipRemoved
<1> QED
  BY <1>2, <1>3, <1>4, <1>5, <1>6 DEF Next

\* What is expected is what the request asked for.
LEMMA ExpectsStep ==
  ASSUME Known, Clean, Up, Up', [Next]_vars
  PROVE  Expects'
<1>1. /\ Types /\ Expects /\ pc \in [Actors -> Places] /\ cur \in [Actors -> Operation]
      /\ Probe \in Actors /\ Probe \notin Callers /\ Callers \subseteq Actors
      /\ lock \in Actors \cup {None} /\ None \notin Actors
  BY KnownFacts
<1>2. ASSUME NEW a \in Actors, Transaction(a)
      PROVE  Expects'
  <2>1. /\ UNCHANGED <<chip, cur>>
        /\ \A b \in Actors : b # a => pc'[b] = pc[b]
    BY <1>1, <1>2, TransactionFrame
  <2>2. CASE Lock(a)
    <3>1. /\ lock' = a
          /\ expected' = [cmd |-> CommandOf(cur[a].op),
                          line |-> IF HasOffset(CommandOf(cur[a].op)) THEN cur[a].line ELSE 0]
      BY <2>2 DEF Lock
    <3>2. a # Probe => chip = "registered"
      BY <1>1, <2>2, KnownFacts DEF Lock, Moves
    <3>3. expected'.cmd = CommandOf(cur[a].op)
      BY <3>1
    <3>4. chip' = "probing" /\ cur'[Probe].op = "init" => expected'.cmd \in {"none", "i"}
      BY <2>1, <3>2, <3>3 DEF CommandOf
    <3> QED
      BY <2>1, <3>1, <3>4 DEF Expects
  <2>3. CASE Unlock(a)
    BY <1>1, <2>1, <2>3 DEF Unlock, Expects
  <2>4. CASE Enter(a) \/ Retry(a)
    <3>1. lock' = lock /\ expected' = expected
          /\ pc'[a] \notin {"write", "wait"}
      BY <1>1, <2>4 DEF Enter, Retry, Moves
    <3> QED
      BY <1>1, <2>1, <3>1 DEF Expects
  <2>5. CASE Write(a) \/ WriteFails(a) \/ Wake(a) \/ Timeout(a) \/ Check(a)
    <3>1. lock' = lock /\ expected' = expected
          /\ (pc'[a] \in {"write", "wait"} => pc[a] \in {"write", "wait"})
      BY <1>1, <2>5 DEF Write, WriteFails, Wake, Timeout, Check, Moves
    <3> QED
      BY <1>1, <2>1, <3>1 DEF Expects
  <2> QED
    BY <1>2, <2>2, <2>3, <2>4, <2>5 DEF Transaction
<1>3. ASSUME ~\E a \in Actors : Transaction(a)
      PROVE  Expects'
  <2>1. /\ lock' = lock
        /\ \A a \in Actors : pc[a] \notin {"idle", "post"} => pc'[a] = pc[a] /\ cur'[a] = cur[a]
        /\ \A a \in Actors : pc'[a] # pc[a] => pc'[a] \in {"idle", "enter", "oops"}
    BY <1>1, <1>3, OutsideFrame
  <2>2. CASE ProbeSetup
    <3>1. \A a \in Actors : pc[a] = "idle"
      BY <2>2, KnownFacts DEF ProbeSetup
    <3>2. expected'.cmd = "none" /\ \A a \in Actors : pc'[a] \in {"idle", "enter"}
      BY <1>1, <2>2, <3>1 DEF ProbeSetup, NoneExpected, ProbeRequest, Moves
    <3> QED
      BY <1>1, <2>1, <3>2 DEF Expects
  <2>3. CASE ~ProbeSetup
    <3>1. expected' = expected
      BY <1>3, <2>3 DEF Next, Call, GetDirectionCached, Finish, FinishFailed,
        FinishGetDirection, FinishGet, FinishSet, FinishConfig, OutputValue, ProbeStep,
        ProbeOpen, QueryNext, InitFails, Register, Remove, RemoveClose, RemoveClear,
        GpiochipRemoved, Link, RecvFrame, RecvComplete, matchedVars, vars
    <3>2. chip' = "probing" /\ cur'[Probe].op = "init" =>
            chip = "probing" /\ cur[Probe].op = "init"
      <4>1. CASE ProbeStep
        BY <1>1, <2>3, <4>1 DEF ProbeStep, ProbeOpen, QueryNext, InitFails, Register,
          ProbeRequest
      <4>2. CASE ~ProbeStep
        BY <1>1, <1>3, <4>2 DEF Next, Call, GetDirectionCached, Finish, FinishFailed,
          FinishGetDirection, FinishGet, FinishSet, FinishConfig, OutputValue, Return,
          Remove, RemoveClose, RemoveClear, GpiochipRemoved, Link, RecvFrame, RecvComplete,
          matchedVars, vars
      <4> QED
        BY <4>1, <4>2
    <3> QED
      BY <1>1, <2>1, <3>1, <3>2 DEF Expects
  <2> QED
    BY <2>2, <2>3
<1> QED
  BY <1>2, <1>3

\* Nothing makes the leftover frame look gone but an answer to INIT.
LEMMA OldGoneOnly ==
  ASSUME Known, Clean, Up, Up', [Next]_vars, OldGone', ~OldGone
  PROVE  Wake(Probe)
<1>1. /\ Types /\ Work /\ pc \in [Actors -> Places] /\ cur \in [Actors -> Operation]
      /\ ret \in [Actors -> Returns]
      /\ Probe \in Actors /\ Probe \notin Callers /\ Callers \subseteq Actors
  BY KnownFacts DEF Known
<1>2. ASSUME NEW a \in Actors, Transaction(a)
      PROVE  Wake(Probe)
  <2>1. /\ UNCHANGED <<chip, cur>>
        /\ \A b \in Actors : b # a => pc'[b] = pc[b] /\ ret'[b] = ret[b]
    BY <1>1, <1>2, TransactionFrame
  <2>2. a = Probe /\ chip = "probing"
    BY <1>1, <2>1 DEF OldGone
  <2>3. serdev
    BY <2>2, KnownFacts DEF Life
  <2> QED
    BY <1>1, <1>2, <2>1, <2>2, <2>3 DEF Transaction, Enter, Lock, Write, WriteFails, Timeout,
      Check, Unlock, Retry, Moves, OldGone, Work
<1>3. ASSUME NEW c \in Callers, Call(c) \/ GetDirectionCached(c) \/ Finish(c)
      PROVE  FALSE
  BY <1>1, <1>3 DEF Call, GetDirectionCached, Finish, FinishFailed, FinishGetDirection,
    FinishGet, FinishSet, FinishConfig, OutputValue, Return, Moves, OldGone
<1>4. CASE ProbeStep
  BY <1>1, <1>4 DEF ProbeStep, ProbeOpen, ProbeSetup, QueryNext, InitFails, Register,
    ProbeRequest, ProbeDone, Moves, OldGone, Work
<1>5. CASE RecvFrame \/ RecvComplete \/ Link \/ UNCHANGED vars
  BY <1>5 DEF OldGone, RecvFrame, RecvComplete, Link, matchedVars, vars
<1>6. ~Remove
  BY DEF Up, Remove, RemoveClose, RemoveClear, GpiochipRemoved
<1> QED
  BY <1>2, <1>3, <1>4, <1>5, <1>6 DEF Next

\* A frame left from before matches nothing.
LEMMA OldUnmatched ==
  ASSUME Known, Clean, Up, open, ~OldGone, NEW f \in Leftover
  PROVE  ~Matches(f)
<1>1. /\ f.cmd \notin {"E", "i", "none"}
  BY MatchedAssumption DEF Clean, MatchedAssumption, Frames, Commands
<1>2. chip \in {"opened", "probing"}
  BY KnownFacts DEF Life, OldGone
<1>3. chip = "opened" => expected.cmd = "none"
  BY KnownFacts DEF Life, NoneExpected
<1>4. chip = "probing" => expected.cmd \in {"none", "i"}
  BY KnownFacts DEF Expects, OldGone
<1> QED
  BY <1>1, <1>2, <1>3, <1>4 DEF Matches

\* An answer to the request matches.
LEMMA AnswerMatches ==
  ASSUME Known, Clean, Up, Waiting, NEW g \in Frames, Answers(g, lock)
  PROVE  Matches(g)
<1>1. expected = [cmd |-> CommandOf(cur[lock].op),
                  line |-> IF HasOffset(CommandOf(cur[lock].op)) THEN cur[lock].line ELSE 0]
  BY KnownFacts DEF Waiting, Expects
<1>2. Request(cur[lock]).cmd = CommandOf(cur[lock].op) /\ Request(cur[lock]).line = cur[lock].line
  BY DEF Request
<1> QED
  BY <1>1, <1>2 DEF Matches, Answers

\* The frames the callback can be given: the one left from before, or the answer.
LEMMA Receives ==
  ASSUME Known, Clean, Up, RecvFrame
  PROVE  \/ /\ ~OldGone /\ ~Matches(Head(toHost)) /\ ~Checking
            /\ \/ /\ Tail(toHost) = << >>
                  /\ \/ toModule = << >>
                     \/ Waiting /\ toModule = << Request(cur[lock]) >>
               \/ /\ Waiting /\ toModule = << >>
                  /\ \E g \in Frames : Answers(g, lock) /\ Tail(toHost) = << g >>
         \/ /\ Waiting /\ toModule = << >>
            /\ Answers(Head(toHost), lock) /\ Matches(Head(toHost)) /\ Tail(toHost) = << >>
<1>1. open /\ toHost # << >> /\ recv = "idle"
  BY DEF RecvFrame
<1>2. ASSUME NEW f, NEW g PROVE /\ Head(<< f >>) = f /\ Tail(<< f >>) = << >>
                                /\ Head(<< f, g >>) = f /\ Tail(<< f, g >>) = << g >>
  OBVIOUS
<1>3. Outstanding
  BY KnownFacts
<1>4. CASE Old(toHost) /\ ~Checking
           /\ (toModule = << >> \/ (Waiting /\ toModule = << Request(cur[lock]) >>))
  <2>1. PICK f \in Leftover : toHost = << f >> /\ ~OldGone
    BY <1>1, <1>4 DEF Old
  <2>2. Head(toHost) = f /\ Tail(toHost) = << >>
    BY <2>1
  <2>3. ~Matches(f)
    BY <1>1, <2>1, OldUnmatched
  <2> QED
    BY <1>4, <2>1, <2>2, <2>3
<1>5. CASE Waiting /\ toModule = << >> /\ OldThenAnswer(toHost, lock)
  <2>1. PICK g \in Frames :
          /\ Answers(g, lock)
          /\ \/ toHost = << g >>
             \/ ~OldGone /\ \E f \in Leftover : toHost = << f, g >>
    BY <1>5 DEF OldThenAnswer
  <2>2. CASE toHost = << g >>
    BY <1>2, <1>5, <2>1, <2>2, AnswerMatches
  <2>3. CASE ~OldGone /\ \E f \in Leftover : toHost = << f, g >>
    <3>1. PICK f \in Leftover : toHost = << f, g >>
      BY <2>3
    <3>2. ~Checking
      BY <1>5 DEF Waiting, Checking
    <3> QED
      BY <1>1, <1>2, <1>5, <2>1, <2>3, <3>1, <3>2, OldUnmatched
  <2> QED
    BY <2>1, <2>2, <2>3
<1>6. Waiting => ~Checking
  BY DEF Waiting, Checking
<1> QED
  BY <1>1, <1>3, <1>4, <1>5, <1>6 DEF Outstanding

\* A step loses no cached direction while it matters.
LEMMA DirectionsKept ==
  ASSUME Known, Clean, Up, [Next]_vars, OldGone
  PROVE  \A l \in Lines : directions[l] # DirUnknown => directions'[l] # DirUnknown
<1>1. directions \in [Lines -> 0..2] /\ Types
  BY KnownFacts
<1>2. CASE RecvFrame
  <2>1. Answers(Head(toHost), lock)
    BY <1>2, Receives
  <2>2. Head(toHost).cmd = "D" => Head(toHost).val \in Directions
    BY <2>1 DEF Answers
  <2>3. directions' = IF Head(toHost).cmd = "D"
                      THEN [directions EXCEPT ![Head(toHost).line] = Head(toHost).val]
                      ELSE directions
    BY <1>2 DEF RecvFrame
  <2> QED
    BY <1>1, <2>2, <2>3 DEF Directions, DirIn, DirOut, DirUnknown
<1>3. CASE ~RecvFrame
  <2>1. ~ProbeSetup
    BY DEF ProbeSetup, OldGone
  <2>2. UNCHANGED directions
    BY <1>3, <2>1 DEF Next, Transaction, Enter, Lock, Write, WriteFails, Wake, Timeout, Check,
      Unlock, Retry, Call, GetDirectionCached, Finish, FinishFailed, FinishGetDirection,
      FinishGet, FinishSet, FinishConfig, OutputValue, ProbeStep, ProbeOpen, QueryNext,
      InitFails, Register, Remove, RemoveClose, RemoveClear, GpiochipRemoved, Link,
      RecvComplete, matchedVars, vars
  <2> QED
    BY <2>2
<1> QED
  BY <1>2, <1>3

\* The probe's cache fills up.
LEMMA FilledStep ==
  ASSUME Known, Clean, Up, Up', [Next]_vars
  PROVE  Filled'
<1>1. /\ Types /\ Filled /\ pc \in [Actors -> Places] /\ cur \in [Actors -> Operation]
      /\ ret \in [Actors -> Returns] /\ directions \in [Lines -> 0..2]
      /\ Probe \in Actors /\ Probe \notin Callers /\ Callers \subseteq Actors
      /\ cur[Probe].line \in Lines
  BY KnownFacts
<1>2. OldGone => \A l \in Lines : directions[l] # DirUnknown => directions'[l] # DirUnknown
  BY DirectionsKept
<1>3. ASSUME chip' = chip, cur'[Probe] = cur[Probe],
             chip = "probing" => \/ pc'[Probe] = pc[Probe] /\ ret'[Probe] = ret[Probe]
                                 \/ pc'[Probe] \notin {"unlock", "post"}
                                 \/ ret'[Probe] # "ok"
                                 \/ cur[Probe].op = "query" =>
                                      directions[cur[Probe].line] # DirUnknown
      PROVE  Filled'
  BY <1>1, <1>2, <1>3 DEF Filled, OldGone
<1>4. ASSUME NEW a \in Actors, Transaction(a)
      PROVE  Filled'
  <2>1. /\ UNCHANGED <<chip, cur>>
        /\ \A b \in Actors : b # a => pc'[b] = pc[b] /\ ret'[b] = ret[b]
    BY <1>1, <1>4, TransactionFrame
  <2>2. CASE a # Probe
    BY <1>1, <1>3, <2>1, <2>2
  <2>3. CASE Check(Probe)
    <3>1. CASE rxCmd = "E"
      <4>1. ret'[Probe] # "ok"
        BY <1>1, <2>3, <3>1 DEF Check
      <4> QED
        BY <1>3, <2>1, <4>1
    <3>2. CASE rxCmd # "E"
      <4>1. Checking /\ lock = Probe
        BY <1>1, <2>3, KnownFacts DEF Check, Moves, Inside, Checking
      <4>2. Received(Probe)
        BY <4>1, KnownFacts DEF Outstanding, Checking, Waiting
      <4>3. cur[Probe].op = "query" => directions[cur[Probe].line] # DirUnknown
        BY <3>2, <4>2 DEF Received
      <4> QED
        BY <1>3, <2>1, <4>3
    <3> QED
      BY <3>1, <3>2
  <2>4. CASE Enter(Probe) \/ Lock(Probe) \/ Write(Probe) \/ WriteFails(Probe) \/ Wake(Probe)
             \/ Timeout(Probe) \/ Retry(Probe)
    <3>1. serdev
      BY <2>4, KnownFacts DEF Life, Enter, Lock, Write, WriteFails, Wake, Timeout, Retry, Moves
    <3>2. \/ pc'[Probe] \notin {"unlock", "post"}
          \/ ret'[Probe] # "ok"
      BY <1>1, <2>4, <3>1 DEF Enter, Lock, Write, WriteFails, Wake, Timeout, Retry, Moves,
        Known, Work
    <3> QED
      BY <1>3, <2>1, <3>2
  <2>5. CASE Unlock(Probe)
    <3>1. pc[Probe] = "unlock" /\ ret' = ret
      BY <2>5 DEF Unlock, Moves
    <3>2. chip = "probing" /\ cur[Probe].op = "query" /\ ret[Probe] = "ok" =>
            directions[cur[Probe].line] # DirUnknown
      BY <1>1, <3>1 DEF Filled
    <3> QED
      BY <1>3, <2>1, <3>1, <3>2
  <2> QED
    BY <1>4, <2>2, <2>3, <2>4, <2>5 DEF Transaction
<1>5. ASSUME NEW c \in Callers, Call(c) \/ GetDirectionCached(c) \/ Finish(c)
      PROVE  Filled'
  <2>1. chip' = chip /\ cur'[Probe] = cur[Probe] /\ pc'[Probe] = pc[Probe]
        /\ ret'[Probe] = ret[Probe]
    BY <1>1, <1>5 DEF Call, GetDirectionCached, Finish, FinishFailed, FinishGetDirection,
      FinishGet, FinishSet, FinishConfig, OutputValue, Return, Moves
  <2> QED
    BY <1>3, <2>1
<1>6. CASE RecvFrame \/ RecvComplete \/ Link \/ UNCHANGED vars
  <2>1. UNCHANGED <<chip, cur, pc, ret>>
    BY <1>6 DEF RecvFrame, RecvComplete, Link, matchedVars, vars
  <2> QED
    BY <1>3, <2>1
<1>7. ~Remove
  BY DEF Up, Remove, RemoveClose, RemoveClear, GpiochipRemoved
<1>8. CASE ProbeStep
  <2>1. CASE ProbeOpen \/ InitFails
    BY <2>1 DEF ProbeOpen, InitFails, Filled
  <2>2. CASE ProbeSetup
    <3>1. cur'[Probe].op = "init" /\ chip' = "probing"
      BY <1>1, <2>2 DEF ProbeSetup, ProbeRequest
    <3> QED
      BY <3>1 DEF Filled
  <2>3. CASE QueryNext
    <3>1. /\ directions' = directions /\ chip' = chip /\ pc[Probe] = "post" /\ ret[Probe] = "ok"
          /\ pc'[Probe] = "enter" /\ cur[Probe].op \in {"init", "query"}
          /\ cur[Probe].op = "init" => cur'[Probe].line = 0
          /\ cur[Probe].op = "query" => cur'[Probe].line = cur[Probe].line + 1
      BY <1>1, <2>3 DEF QueryNext, ProbeRequest, Moves
    <3>2. chip = "probing"
      BY <3>1, KnownFacts
    <3>3. ASSUME NEW l \in Lines, l < cur'[Probe].line PROVE directions[l] # DirUnknown
      <4>1. l \in Nat /\ cur[Probe].line \in Nat
        BY <1>1, LinkAssumption DEF Lines, LinkAssumption
      <4>2. cur[Probe].op = "query" /\ (l < cur[Probe].line \/ l = cur[Probe].line)
        BY <3>1, <3>3, <4>1
      <4> QED
        BY <1>1, <3>1, <3>2, <4>2 DEF Filled
    <3> QED
      BY <3>1, <3>2, <3>3 DEF Filled
  <2>4. CASE Register
    <3>1. /\ directions' = directions /\ pc[Probe] = "post" /\ ret[Probe] = "ok"
          /\ cur[Probe].op = "query" /\ cur[Probe].line + 1 = NGpios
          /\ chip' \in {"registered", "failed"}
      BY <2>4 DEF Register
    <3>2. chip = "probing"
      BY <3>1, KnownFacts
    <3>3. ASSUME NEW l \in Lines PROVE directions[l] # DirUnknown
      <4>1. l \in Nat /\ cur[Probe].line \in Nat /\ l <= NGpios - 1 /\ NGpios \in Nat
        BY <1>1, LinkAssumption DEF Lines, LinkAssumption
      <4>2. l < cur[Probe].line \/ l = cur[Probe].line
        BY <3>1, <4>1
      <4> QED
        BY <1>1, <3>1, <3>2, <4>2 DEF Filled
    <3> QED
      BY <3>1, <3>3 DEF Filled
  <2> QED
    BY <1>8, <2>1, <2>2, <2>3, <2>4 DEF ProbeStep
<1> QED
  BY <1>4, <1>5, <1>6, <1>7, <1>8 DEF Next

\* A transaction's steps: a request goes out on a line that carries at most the
\* leftover frame, and a transaction ends with such a line.
LEMMA OutstandingTransaction ==
  ASSUME Known, Clean, Up, Up', NEW a \in Actors, Transaction(a)
  PROVE  Outstanding'
<1>1. /\ Types /\ Outstanding /\ pc \in [Actors -> Places] /\ done \in Nat
      /\ lock \in Actors \cup {None} /\ None \notin Actors
      /\ Inside(a) => lock = a
      /\ lock # None => Inside(lock) \/ pc[lock] = "oops"
      /\ cur[a].line \in Lines
  BY KnownFacts
<1>2. /\ UNCHANGED <<cur, chip, open, serdev, directions, recv, toHost>>
      /\ \A b \in Actors : b # a => pc'[b] = pc[b] /\ ret'[b] = ret[b]
      /\ pc[a] \in Places \ {"idle", "oops", "post"}
  BY <1>1, TransactionFrame
<1>3. serdev /\ open
  BY <1>2, KnownFacts DEF Life
<1>4. ~Wake(a) => (OldGone' => OldGone)
  <2>1. ASSUME ~Wake(a), Wake(Probe) PROVE FALSE
    <3>1. pc'[Probe] = "check" /\ pc[Probe] = "wait"
      BY <1>1, <2>1, KnownFacts DEF Wake, Moves
    <3>2. a = Probe
      BY <1>2, <3>1, KnownFacts
    <3> QED
      BY <2>1, <3>2
  <2> QED
    BY <2>1, OldGoneOnly DEF Next
<1>5. ~Waiting /\ ~Checking => toModule = << >> /\ Old(toHost) /\ recv = "idle" /\ done = 0
  BY <1>1 DEF Outstanding
<1>6. ASSUME ~Wake(a), Old(toHost) PROVE Old(toHost)'
  BY <1>2, <1>4, <1>6 DEF Old
<1>7. CASE Enter(a) \/ Retry(a)
  <2>1. lock # a /\ UNCHANGED <<toModule, toHost, recv, done, rxCmd, lock>> /\ ~Wake(a)
    BY <1>1, <1>7 DEF Enter, Retry, Wake, Moves, Inside, linkVars
  <2>2. lock # None => pc'[lock] = pc[lock] /\ cur'[lock] = cur[lock] /\ cur[lock].line \in Lines
    BY <1>1, <1>2, <2>1, KnownFacts
  <2> QED
    BY <1>1, <1>2, <1>4, <2>1, <2>2, OutstandingKept
<1>8. CASE Lock(a) \/ WriteFails(a) \/ Unlock(a) \/ Check(a) \/ Timeout(a)
  <2>1. toModule = << >> /\ Old(toHost) /\ recv = "idle"
    <3>1. CASE Lock(a) \/ WriteFails(a) \/ Unlock(a)
      <4>1. ~Waiting /\ ~Checking
        BY <1>1, <3>1 DEF Lock, WriteFails, Unlock, Moves, Inside, Waiting, Checking
      <4> QED
        BY <1>5, <4>1
    <3>2. CASE Check(a)
      <4>1. Checking
        BY <1>1, <3>2 DEF Check, Moves, Inside, Checking
      <4> QED
        BY <1>1, <4>1 DEF Outstanding, Old, Checking, Waiting
    <3>3. CASE Timeout(a)
      <4>1. toModule = << >> /\ toHost = << >> /\ recv # "complete"
        BY <1>3, <3>3 DEF Timeout, Late, Clean
      <4> QED
        BY <1>1, <4>1 DEF Outstanding, Old
    <3> QED
      BY <1>8, <3>1, <3>2, <3>3
  <2>2. done' = 0
    <3>1. CASE Lock(a) \/ Timeout(a)
      BY <3>1 DEF Lock, Timeout
    <3>2. CASE WriteFails(a) \/ Unlock(a)
      <4>1. ~Waiting /\ ~Checking
        BY <1>1, <3>2 DEF WriteFails, Unlock, Moves, Inside, Waiting, Checking
      <4> QED
        BY <1>5, <3>2, <4>1 DEF WriteFails, Unlock
    <3>3. CASE Check(a)
      <4>1. Checking
        BY <1>1, <3>3 DEF Check, Moves, Inside, Checking
      <4> QED
        BY <1>1, <3>3, <4>1 DEF Check, Outstanding, Checking, Waiting
    <3> QED
      BY <1>8, <3>1, <3>2, <3>3
  <2>3. ~Checking' /\ ~Wake(a) /\ toModule' = toModule
    BY <1>1, <1>8 DEF Lock, WriteFails, Unlock, Check, Timeout, Wake, Moves, Inside, Checking,
      linkVars
  <2> QED
    BY <1>2, <1>6, <2>1, <2>2, <2>3 DEF Outstanding
<1>9. CASE Write(a)
  <2>1. /\ lock = a /\ ~Waiting /\ ~Checking /\ pc'[a] = "wait" /\ lock' = lock
        /\ UNCHANGED <<done, rxCmd>> /\ ~Wake(a)
    BY <1>1, <1>3, <1>9 DEF Write, Wake, Moves, Inside, Waiting, Checking
  <2>2. toModule = << >> /\ Old(toHost) /\ recv = "idle" /\ done = 0
    BY <1>5, <2>1
  <2>3. Waiting' /\ ~Checking'
    BY <1>1, <2>1 DEF Waiting, Checking
  <2>4. Request(cur[lock])' = Request(cur[a])
    BY <1>2, <2>1 DEF Request, CommandOf
  <2>5. toModule' = << Request(cur[a]) >> \/ toModule' = << >>
    BY <1>3, <1>9, <2>2 DEF Write
  <2> QED
    BY <1>2, <1>6, <2>1, <2>2, <2>3, <2>4, <2>5 DEF Outstanding
<1>10. CASE Wake(a)
  <2>1. Waiting /\ lock = a /\ done > 0 /\ ~Checking
    BY <1>1, <1>10 DEF Wake, Moves, Inside, Waiting, Checking
  <2>2. toModule = << >> /\ toHost = << >> /\ recv = "idle" /\ done = 1 /\ Received(lock)
    BY <1>1, <2>1 DEF Outstanding
  <2>3. /\ lock' = lock /\ done' = 0 /\ pc'[a] = "check"
        /\ UNCHANGED <<toModule, rxCmd>>
    BY <1>1, <1>10, <2>2 DEF Wake, Moves, linkVars
  <2>4. Received(lock)'
    BY <1>2, <2>2, <2>3 DEF Received, CommandOf
  <2>5. Checking'
    BY <1>1, <2>1, <2>3 DEF Checking
  <2> QED
    BY <1>2, <2>2, <2>3, <2>4, <2>5 DEF Outstanding
<1> QED
  BY <1>7, <1>8, <1>9, <1>10 DEF Transaction

\* The firmware moves the request along.
LEMMA OutstandingLink ==
  ASSUME Known, Clean, Up, Link
  PROVE  Outstanding'
<1>1. /\ Types /\ Outstanding /\ LinkTypeOK
      /\ UNCHANGED <<lock, pc, cur, rxCmd, directions, recv, done, chip, ret>>
      /\ lock # None => cur[lock].line \in Lines
  BY KnownFacts DEF Link, matchedVars, Types
<1>2. OldGone' <=> OldGone
  BY <1>1 DEF OldGone
<1>3. CASE UNCHANGED <<toModule, toHost>>
  BY <1>1, <1>2, <1>3, OutstandingKept
<1>4. CASE toModule # << >>
  <2>1. Waiting /\ toModule = << Request(cur[lock]) >> /\ Old(toHost) /\ recv = "idle"
        /\ done = 0
    BY <1>1, <1>4 DEF Outstanding
  <2> DEFINE f == Request(cur[lock])
  <2>2. Head(toModule) = f /\ Tail(toModule) = << >> /\ f \in Frames
    BY <1>1, <2>1 DEF LinkTypeOK
  <2>3. Waiting' /\ ~Checking' /\ f' = f
    BY <1>1, <2>1 DEF Waiting, Checking, Request, CommandOf
  <2>4. ASSUME NEW g \in Frames, Answers(g, lock), toHost' = Append(toHost, g),
               toModule' = << >>
        PROVE  Outstanding'
    <3>1. Answers(g, lock)'
      BY <2>3, <2>4 DEF Answers
    <3>2. CASE toHost = << >>
      <4>1. toHost' = << g >>
        BY <2>4, <3>2
      <4> QED
        BY <1>1, <2>1, <2>3, <2>4, <3>1, <4>1 DEF Outstanding, OldThenAnswer
    <3>3. CASE ~OldGone /\ \E h \in Leftover : toHost = << h >>
      <4>1. PICK h \in Leftover : toHost = << h >>
        BY <3>3
      <4>2. toHost' = << h, g >>
        <5>1. toHost' = Append(<< h >>, g)
          BY <2>4, <4>1
        <5>2. h \in Frames
          BY <4>1, MatchedAssumption DEF MatchedAssumption
        <5>3. Append(<< h >>, g) = << h, g >>
          BY <2>4, <5>2, AppendToOne
        <5> QED
          BY <5>1, <5>3
      <4> QED
        BY <1>1, <1>2, <2>1, <2>3, <2>4, <3>1, <3>3, <4>2 DEF Outstanding, OldThenAnswer
    <3> QED
      BY <2>1, <3>2, <3>3 DEF Old
  <2>5. CASE ModuleServes
    <3>1. Answer(f) \in Frames
      BY <1>1, <2>2, AnswerType
    <3>2. Answer(f).cmd = f.cmd /\ Answer(f).line = f.line
          /\ (f.cmd = "D" => Answer(f).val = dir[f.line] /\ f.line \in Lines)
      BY <2>2 DEF Answer, Frames
    <3>3. Answers(Answer(f), lock)
      BY <1>1, <3>2 DEF Answers, LinkTypeOK
    <3>4. toHost' = Append(toHost, Answer(f)) /\ toModule' = << >>
      BY <2>2, <2>5 DEF ModuleServes
    <3> QED
      BY <2>4, <3>1, <3>3, <3>4
  <2>6. CASE ModuleRefuses
    <3>1. ErrorFrame \in Frames /\ Answers(ErrorFrame, lock)
      BY LineZero DEF ErrorFrame, Frames, Answers
    <3>2. toHost' = Append(toHost, ErrorFrame) /\ toModule' = << >>
      BY <2>2, <2>6 DEF ModuleRefuses
    <3> QED
      BY <2>4, <3>1, <3>2
  <2>7. CASE AnswerLost \/ RequestLost
    <3>1. toModule' = << >> /\ toHost' = toHost
      BY <2>2, <2>7 DEF AnswerLost, RequestLost
    <3>2. Old(toHost)'
      BY <1>2, <2>1, <3>1 DEF Old
    <3> QED
      BY <1>1, <2>1, <2>3, <3>1, <3>2 DEF Outstanding
  <2>8. CASE \E l \in Lines : PinChanges(l)
    BY <1>3, <2>8 DEF PinChanges
  <2>9. ~ModuleStatus
    BY DEF Clean, ModuleStatus
  <2> QED
    BY <2>5, <2>6, <2>7, <2>8, <2>9 DEF Link, LinkNext
<1>5. CASE toModule = << >>
  BY <1>3, <1>5
  DEF Link, LinkNext, ModuleServes, AnswerLost, RequestLost, ModuleRefuses, ModuleStatus,
      PinChanges, Clean
<1> QED
  BY <1>4, <1>5

\* The receive callback takes the answer off the line and completes.
LEMMA OutstandingReceive ==
  ASSUME Known, Clean, Up, RecvFrame \/ RecvComplete
  PROVE  Outstanding'
<1>1. /\ Types /\ Outstanding /\ Life /\ DoneMax \in Nat \ {0}
      /\ UNCHANGED <<lock, pc, cur, toModule, chip, ret>>
      /\ directions \in [Lines -> 0..2]
      /\ lock # None => cur[lock].line \in Lines
  BY KnownFacts, MatchedAssumption DEF RecvFrame, RecvComplete, linkVars, MatchedAssumption
<1>2. (OldGone' <=> OldGone) /\ (Waiting' <=> Waiting) /\ (Checking' <=> Checking)
  BY <1>1 DEF OldGone, Waiting, Checking
<1>3. Waiting => Request(cur[lock])' = Request(cur[lock])
  BY <1>1 DEF Request, CommandOf
<1>4. CASE RecvComplete
  <2>1. Waiting /\ toModule = << >> /\ toHost = << >> /\ done = 0 /\ Received(lock)
    BY <1>1, <1>4 DEF Outstanding, RecvComplete
  <2>2. chip # "opened"
    BY <2>1, KnownFacts DEF Waiting
  <2>3. recv' = "idle" /\ done' = 1 /\ toHost' = << >> /\ UNCHANGED <<rxCmd, directions>>
    BY <1>1, <1>4, <2>1, <2>2 DEF RecvComplete, linkVars
  <2>4. Received(lock)'
    BY <1>1, <2>1, <2>3 DEF Received, CommandOf
  <2> QED
    BY <1>1, <1>2, <2>1, <2>3, <2>4 DEF Outstanding
<1>5. CASE RecvFrame
  <2> DEFINE f == Head(toHost)
  <2>1. /\ toHost' = Tail(toHost) /\ rxCmd' = f.cmd /\ done' = done
        /\ recv' = IF Matches(f) THEN "complete" ELSE "idle"
        /\ directions' = IF f.cmd = "D" THEN [directions EXCEPT ![f.line] = f.val]
                         ELSE directions
        /\ toHost # << >> /\ recv = "idle"
    BY <1>5 DEF RecvFrame
  <2>2. done = 0
    BY <1>1, <2>1 DEF Outstanding
  <2>3. CASE ~OldGone /\ ~Matches(f) /\ ~Checking
    <3>1. recv' = "idle" /\ done' = 0
      BY <2>1, <2>2, <2>3
    <3>2. CASE /\ Tail(toHost) = << >>
               /\ \/ toModule = << >>
                  \/ Waiting /\ toModule = << Request(cur[lock]) >>
      <4>1. toHost' = << >>
        BY <2>1, <3>2
      <4> QED
        BY <1>1, <1>2, <1>3, <2>3, <3>1, <3>2, <4>1 DEF Outstanding, Old
    <3>3. CASE /\ Waiting /\ toModule = << >>
               /\ \E g \in Frames : Answers(g, lock) /\ Tail(toHost) = << g >>
      <4>1. PICK g \in Frames : Answers(g, lock) /\ toHost' = << g >>
        BY <2>1, <3>3
      <4>2. Answers(g, lock)'
        BY <1>3, <3>3, <4>1 DEF Answers
      <4> QED
        BY <1>1, <1>2, <2>3, <3>1, <3>3, <4>1, <4>2 DEF Outstanding, OldThenAnswer
    <3>4. \/ /\ Tail(toHost) = << >>
             /\ \/ toModule = << >>
                \/ Waiting /\ toModule = << Request(cur[lock]) >>
          \/ /\ Waiting /\ toModule = << >>
             /\ \E g \in Frames : Answers(g, lock) /\ Tail(toHost) = << g >>
          \/ Matches(f)
      BY <1>5, Receives
    <3> QED
      BY <2>3, <3>2, <3>3, <3>4
  <2>4. CASE /\ Waiting /\ toModule = << >>
             /\ Answers(f, lock) /\ Matches(f) /\ Tail(toHost) = << >>
    <3>1. recv' = "complete" /\ done' = 0 /\ toHost' = << >>
      BY <2>1, <2>2, <2>4
    <3>2. lock # None
      BY <2>4 DEF Waiting
    <3>3. Received(lock)'
      <4>1. CASE f.cmd = "E"
        BY <2>1, <4>1 DEF Received
      <4>2. CASE f.cmd # "E"
        <5>1. f.cmd = CommandOf(cur[lock].op) /\ f.line = cur[lock].line
              /\ (f.cmd = "D" => f.val \in Directions)
          BY <2>4, <4>2 DEF Answers, Request
        <5>2. rxCmd' = CommandOf(cur[lock].op)
          BY <2>1, <5>1
        <5>3. cur[lock].op = "query" => f.cmd = "D"
          BY <5>1 DEF CommandOf
        <5>4. cur[lock].op = "query" => directions'[cur[lock].line] # DirUnknown
          BY <1>1, <2>1, <3>2, <5>1, <5>3 DEF Directions, DirIn, DirOut, DirUnknown
        <5> QED
          BY <1>1, <5>2, <5>4 DEF Received, CommandOf
      <4> QED
        BY <4>1, <4>2
    <3> QED
      BY <1>1, <1>2, <2>4, <3>1, <3>3 DEF Outstanding
  <2> QED
    BY <1>5, <2>3, <2>4, Receives
<1> QED
  BY <1>4, <1>5

\* Every step keeps QuietInv.
LEMMA QuietStep == Known /\ [Next]_vars => QuietInv'
<1> SUFFICES ASSUME Known, [Next]_vars, Clean, Up' PROVE Outstanding'
  BY LifeStep, ExpectsStep, FilledStep, UpBefore DEF QuietInv, Known, Clean
<1>1. Up
  BY UpBefore DEF Known
<1>2. /\ Types /\ Outstanding /\ lock \in Actors \cup {None} /\ None \notin Actors
      /\ lock # None => Inside(lock) \/ pc[lock] = "oops"
      /\ Probe \in Actors /\ Probe \notin Callers /\ Callers \subseteq Actors
      /\ pc \in [Actors -> Places] /\ cur \in [Actors -> Operation]
  BY <1>1, KnownFacts
<1>3. ~Remove
  BY <1>1 DEF Up, Remove, RemoveClose, RemoveClear, GpiochipRemoved
<1>4. ASSUME ~\E a \in Actors : Transaction(a), ~RecvFrame, ~RecvComplete, ~Link
      PROVE  Outstanding'
  <2>1. lock' = lock /\ (lock # None => pc'[lock] = pc[lock] /\ cur'[lock] = cur[lock])
    BY <1>2, <1>4, OutsideFrame DEF Inside
  <2>2. OldGone' => OldGone
    <3>1. ~Wake(Probe)
      BY <1>2, <1>4 DEF Transaction
    <3> QED
      BY <1>1, <3>1, OldGoneOnly
  <2>3. lock # None => cur[lock].line \in Lines
    BY <1>1, <1>2, KnownFacts
  <2>4. UNCHANGED <<toModule, toHost, recv>>
    BY <1>3, <1>4 DEF Next, Call, GetDirectionCached, Finish, FinishFailed, FinishGetDirection,
      FinishGet, FinishSet, FinishConfig, OutputValue, ProbeStep, ProbeOpen, ProbeSetup,
      QueryNext, InitFails, Register, linkVars, matchedVars, vars
  <2>5. CASE ProbeSetup
    <3>1. \A a \in Actors : pc[a] = "idle"
      BY <1>1, <2>5, KnownFacts DEF ProbeSetup
    <3>2. lock = None /\ done' = 0
      BY <1>2, <2>5, <3>1 DEF ProbeSetup, Inside
    <3>3. toModule = << >> /\ Old(toHost) /\ recv = "idle"
      BY <1>2, <3>2 DEF Outstanding, Checking, Waiting
    <3>4. Old(toHost)'
      BY <2>2, <2>4, <3>3 DEF Old
    <3> QED
      BY <2>1, <2>4, <3>2, <3>3, <3>4 DEF Outstanding, Checking
  <2>6. CASE ~ProbeSetup
    <3>1. UNCHANGED <<done, rxCmd, directions>>
      BY <1>3, <1>4, <2>6 DEF Next, Call, GetDirectionCached, Finish, FinishFailed,
        FinishGetDirection, FinishGet, FinishSet, FinishConfig, OutputValue, ProbeStep,
        ProbeOpen, QueryNext, InitFails, Register, matchedVars, vars
    <3> QED
      BY <1>2, <2>1, <2>2, <2>3, <2>4, <3>1, OutstandingKept
  <2> QED
    BY <2>5, <2>6
<1> QED
  BY <1>1, <1>4, OutstandingTransaction, OutstandingLink, OutstandingReceive

\* On a prompt link without status frames the probe leaves no line without a
\* cached direction, whatever is refused, lost, repeated or left from before.
THEOREM ProbeFillsCache == Spec => []CacheFilled
<1>1. QuietInv => CacheFilled
  BY DEF QuietInv, Filled, Clean, Up, CacheFilled
<1>2. Init => Known
  BY InitType, HolderInit, QuietInit DEF Known
<1>3. Known /\ [Next]_vars => Known'
  BY StepType, HolderStep, WorkStep, QuietStep DEF Known
<1> QED
  BY <1>1, <1>2, <1>3, PTL DEF Spec, Known
==============================================================================

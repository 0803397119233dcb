------------------------------- MODULE AiosLink -------------------------------
(***************************************************************************)
(* The serial line and the firmware of the AIOS GPIO expander, as the host *)
(* drivers aios_gpio.c (20260124 and 20260630) use them.  The firmware is  *)
(* not in the repository: what it answers is taken from the frames the     *)
(* drivers send and from how they read the frames that come back.          *)
(*                                                                         *)
(* A frame is [cmd, line, val].  The line is first in, first out in each   *)
(* direction.  A request may be lost, its answer may be lost, and, when    *)
(* ErrorFrames says so, the firmware may refuse a request with an E frame  *)
(* or send an E frame of its own accord.                                   *)
(***************************************************************************)
EXTENDS Naturals, Sequences, FiniteSets

CONSTANTS
  NGpios,        \* number of lines of the expander (device tree "ngpios")
  Lossy,         \* requests and answers may be lost on the line
  ErrorFrames    \* which E frames the firmware sends: SUBSET {"refuse", "status"}

ASSUME LinkAssumption ==
  /\ NGpios \in 1..16
  /\ Lossy \in BOOLEAN
  /\ ErrorFrames \subseteq {"refuse", "status"}

VARIABLES
  pin,       \* level of each line, at the expander
  dir,       \* direction of each line, at the expander
  ready,     \* the firmware has executed an INIT command
  toModule,  \* requests on the line, oldest first
  toHost     \* answers on the line, oldest first

linkVars == <<pin, dir, ready, toModule, toHost>>

Lines == 0..(NGpios - 1)
Levels == {0, 1}
DirIn == 1
DirOut == 2
Directions == {DirIn, DirOut}

\* D direction query, C configure, R read, O output, i initialise, E error or status.
Commands == {"D", "C", "R", "O", "i"}
Frames ==
  {f \in [cmd : Commands \cup {"E"}, line : Lines, val : 0..2] :
     /\ f.cmd \in {"R", "O"} => f.val \in Levels
     /\ f.cmd = "C" => f.val \in Directions}

ErrorFrame == [cmd |-> "E", line |-> 0, val |-> 0]

LinkTypeOK ==
  /\ pin \in [Lines -> Levels]
  /\ dir \in [Lines -> Directions]
  /\ ready \in BOOLEAN
  /\ toModule \in Seq(Frames)
  /\ toHost \in Seq(Frames)

LinkInit ==
  /\ pin \in [Lines -> Levels]
  /\ dir \in [Lines -> Directions]
  /\ ready = FALSE
  /\ toModule = << >>
  /\ toHost = << >>

\* The answer to request f: D and R report the line, the others echo the request.
Answer(f) ==
  [f EXCEPT !.val = IF f.cmd = "D" THEN dir[f.line]
                    ELSE IF f.cmd = "R" THEN pin[f.line] ELSE f.val]

\* The firmware carries out request f.
Execute(f) ==
  /\ pin' = IF f.cmd = "O" THEN [pin EXCEPT ![f.line] = f.val] ELSE pin
  /\ dir' = IF f.cmd = "C" THEN [dir EXCEPT ![f.line] = f.val] ELSE dir
  /\ ready' = (ready \/ f.cmd = "i")

ModuleServes ==
  /\ toModule # << >>
  /\ Execute(Head(toModule))
  /\ toModule' = Tail(toModule)
  /\ toHost' = Append(toHost, Answer(Head(toModule)))

\* Carried out, but the answer does not arrive.
AnswerLost ==
  /\ Lossy
  /\ toModule # << >>
  /\ Execute(Head(toModule))
  /\ toModule' = Tail(toModule)
  /\ UNCHANGED toHost

RequestLost ==
  /\ Lossy
  /\ toModule # << >>
  /\ toModule' = Tail(toModule)
  /\ UNCHANGED <<pin, dir, ready, toHost>>

ModuleRefuses ==
  /\ "refuse" \in ErrorFrames
  /\ toModule # << >>
  /\ toModule' = Tail(toModule)
  /\ toHost' = Append(toHost, ErrorFrame)
  /\ UNCHANGED <<pin, dir, ready>>

\* A status frame nobody asked for: at most one on the line at a time.
ModuleStatus ==
  /\ "status" \in ErrorFrames
  /\ ErrorFrame \notin {toHost[i] : i \in 1..Len(toHost)}
  /\ toHost' = Append(toHost, ErrorFrame)
  /\ UNCHANGED <<pin, dir, ready, toModule>>

\* The outside world drives an input line.
PinChanges(l) ==
  /\ dir[l] = DirIn
  /\ pin' = [pin EXCEPT ![l] = 1 - @]
  /\ UNCHANGED <<dir, ready, toModule, toHost>>

LinkNext ==
  \/ ModuleServes
  \/ AnswerLost
  \/ RequestLost
  \/ ModuleRefuses
  \/ ModuleStatus
  \/ \E l \in Lines : PinChanges(l)
==============================================================================

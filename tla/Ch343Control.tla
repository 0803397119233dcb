------------------------------ MODULE Ch343Control ------------------------------
(***************************************************************************)
(* The control side of 20260630/ch343.c: which chip it is, the speed and   *)
(* format of the line, DTR, RTS and automatic flow control, the modem      *)
(* lines the device reports, and TIOCMIWAIT.                               *)
(*                                                                         *)
(* set_termios sleeps in its transfers, with no lock of the driver's; the  *)
(* open of a further file of the tty calls it too, outside termios_rwsem.  *)
(* TIOCMSET, and the tty core raising and dropping DTR, may come between.  *)
(***************************************************************************)
EXTENDS Integers, Sequences, FiniteSets

CONSTANTS
  Ids,       \* product number, and what the chip answers to CMD_C6
  Settings,  \* what userspace may set a termios to
  Messages,  \* what the interrupt endpoint may deliver
  Asked,     \* the sets of lines a TIOCMIWAIT may wait for
  MaxCalls   \* bound: calls and status messages

\* A termios with its rate, a speed_t; a message reports modem lines.
ASSUME ControlAssumption ==
  /\ \A t \in Settings :
       /\ t = [rate |-> t.rate, format |-> t.format, crtscts |-> t.crtscts,
               clocal |-> t.clocal]
       /\ t.rate \in Nat
  /\ \A m \in Messages : m.lines \subseteq {"CTS", "DSR", "RI", "CD"}
  /\ MaxCalls \in Nat

VARIABLES
  chip,     \* chiptype, "unknown" before configure, num_ports and iosupport
  termios,  \* tty->termios: rate (0 is B0), format, crtscts, clocal
  ctl,      \* of struct ch343: ctrlout, ctrlin, iocount, oldcount, errors, clocal, rate,
            \* and pending, the errors of a message that are still to be counted
  unit,     \* the device: divisor, format, outputs, breaking
  job,      \* for each thread that sets something, how far it is
  waiter,   \* a thread in TIOCMIWAIT
  hup,      \* a hangup is on its way
  gone,     \* ch343->disconnected
  calls     \* calls and messages so far

controlVars == <<chip, termios, ctl, unit, job, waiter, hup, gone, calls>>

Modem == {"CTS", "DSR", "RI", "CD"}      \* lines in, CH343_CTI_ST
Outputs == {"DTR", "RTS", "AUTO"}        \* CH343_CTO_D, _R and _A
Setters == {"open", "tcset"}
Jobs == Setters \cup {"tiocmset", "port"}
NoOld == -1

\* alone and fine are history: nobody else set anything meanwhile, and every transfer
\* since this call began, or one before that left the device different, went well.
resting == [at |-> "idle", alone |-> TRUE, fine |-> TRUE, b0 |-> FALSE, send |-> {},
            rate |-> 0, was |-> NoOld, div |-> <<0, 0>>]

ControlInit ==
  /\ chip = [type |-> "unknown", ports |-> 0, io |-> FALSE]
  /\ termios = [rate |-> 9600, format |-> "8N1", crtscts |-> FALSE, clocal |-> FALSE]
  /\ ctl = [ctrlout |-> {}, ctrlin |-> {}, iocount |-> [l \in Modem |-> 0],
            oldcount |-> [l \in Modem |-> 0],
            errors |-> [e \in {"brk", "overrun", "frame", "parity"} |-> 0],
            clocal |-> FALSE, rate |-> 9600, pending |-> <<>>]
  /\ unit = [divisor |-> <<0, 0>>, format |-> "8N1", outputs |-> {}, breaking |-> FALSE]
  /\ job = [j \in Jobs |-> resting]
  /\ waiter = [at |-> "idle", asked |-> {}]
  /\ hup = FALSE
  /\ gone = FALSE
  /\ calls = 0

------------------------------------------------------------------------------
(* ch343_configure *)

chiptype(id) ==
  CASE id.product = \h55D2 -> IF id.type = \h41 THEN "CH342K" ELSE "CH342F"
    [] id.product = \h55D3 -> CASE id.type = \h02 -> "CH343J"
                                [] id.type = \h01 -> "CH343K"
                                [] id.type = \h18 -> "CH343G_AUTOBAUD"
                                [] OTHER -> "CH343GP"
    [] id.product = \h55D4 -> IF id.type = \h09 THEN "CH9102X" ELSE "CH9102F"
    [] id.product = \h55D5 -> IF id.type # \hC0 THEN "CH344Q"
                              ELSE IF id.ver \in \h40..\h4F THEN "CH344L" ELSE "CH344L_V2"
    [] id.product = \h55D7 -> "CH9103M"
    [] id.product = \h55D8 -> IF id.type = \h0A THEN "CH9101RY" ELSE "CH9101UH"
    [] id.product \in {\h55DB, \h55DD, \h55DA, \h55DE} -> "CH347TF"
    [] id.product = \h55E7 -> "CH339W"
    [] id.product = \h55DF -> "CH9104L"
    [] id.product = \h55E9 -> "CH9111L_M0"
    [] id.product = \h55EA -> "CH9111L_M1"
    [] id.product = \h55E8 -> CASE id.type2 = \h48 -> "CH9114L"
                                [] id.type2 = \h49 -> "CH9114W"
                                [] id.type2 = \h4A -> "CH9114F"
                                [] OTHER -> "CH342F"
    [] id.product = \h55EB -> IF id.mode % 2 = 1 THEN "CH346C_M1" ELSE "CH346C_M0"
    [] id.product = \h55EC -> "CH346C_M2"
    [] OTHER -> "CH342F"

\* A CH9143 is left without ports, with the type 0.
num_ports(id) ==
  CASE id.product \in {\h55D5, \h55DF, \h55E8} -> 4
    [] id.product \in {\h55D2, \h55D7, \h55DA, \h55DE, \h55EC} -> 2
    [] id.product \in {\h55D3, \h55D4, \h55D8, \h55DB, \h55DD, \h55E7, \h55E9, \h55EA, \h55EB} -> 1
    [] OTHER -> 0

iosupport(id) ==
  /\ id.product \notin {\h55D3, \h55E7}
  /\ id.product = \h55D2 => id.type = \h48 /\ id.ver >= \h45

\* An answer of no bytes leaves the chip's type 0, a CH342F.
ch343_configure ==
  /\ chip.type = "unknown"
  /\ \/ \E id \in Ids : chip' = [type |-> chiptype(id), ports |-> num_ports(id),
                                 io |-> iosupport(id)]
     \/ chip' = [type |-> "CH342F", ports |-> 0, io |-> FALSE]
  /\ UNCHANGED <<termios, ctl, unit, job, waiter, hup, gone, calls>>

Clocked == {"CH9114L", "CH9114F", "CH9114W", "CH346C_M2"}
Fast == Clocked \cup {"CH9111L_M0", "CH9111L_M1", "CH346C_M0", "CH346C_M1"}

------------------------------------------------------------------------------
(* ch343_get: the divisor for a rate *)

Base(b) == IF b = 0 THEN 11719 ELSE IF b = 1 THEN 93750 ELSE IF b = 2 THEN 750000
           ELSE IF b = 3 THEN 6000000 ELSE 12000000

Prescaler(bval) ==
  IF bval \in {6000000, 4000000, 2400000, 921600, 307200, 256000} THEN 7
  ELSE IF bval > 6000000 \div 255 THEN 3
  ELSE IF bval > 750000 \div 255 THEN 2
  ELSE IF bval > 93750 \div 255 THEN 1 ELSE 0

\* fct and dvs, or no way to have the rate.  fct, dvs and a are bytes, and the
\* difference that decides on rounding is unsigned: a negative one rounds nothing.
Divisor(type, bval) ==
  LET b == Prescaler(bval)
      c == Base(b)
      a == (c \div bval) % 256
      below == c \div (a + 1)
      near == IF below <= bval /\ c \div a - bval > bval - below THEN a + 1 ELSE a
  IN  IF type \in Fast /\ bval > 13000000
      THEN {<<((bval + 500000) \div 1000000 - 13) % 256, 255>>}
      ELSE IF \/ type \in Fast /\ bval >= 2000000
              \/ type = "CH347TF" /\ bval > 358400
      THEN {<<(bval \div 200) % 256, ((bval \div 200) \div 256) % 256>>}
      ELSE IF a \in {0, 255} THEN {} ELSE {<<(256 - near) % 256, b>>}

\* No divisor, but a failed transfer or the wrong clock.
Failed == <<-1, -1>>

\* Mutant: one off.
ch343_get_one_off(type, bval) ==
  {<<(d[1] + 255) % 256, d[2]>> : d \in Divisor(type, bval)}

\* Mutant: the low byte is not cut.
ch343_get_uncut(type, bval) ==
  {IF d[2] > 7 THEN <<bval \div 200, d[2]>> ELSE d : d \in Divisor(type, bval)}

\* A chip with a clock is asked for it, told to change it once when the rate cannot be
\* had from it, and asked again: then it cannot, or a transfer fails.
ch343_get(type, bval) ==
  IF type \in Clocked THEN Divisor(type, bval) \cup {Failed} ELSE Divisor(type, bval)

\* External: the speed of a device with this divisor.
Speed(d) ==
  IF d[2] \in {0, 1, 2, 3, 7} THEN Base(d[2]) \div (256 - d[1])
  ELSE IF d[2] = 255 THEN (d[1] + 13) * 1000000
  ELSE (d[1] + 256 * d[2]) * 200

------------------------------------------------------------------------------
(* set_termios *)

Calling == chip.type # "unknown" /\ ~gone /\ calls < MaxCalls /\ calls' = calls + 1

\* Whoever is at a job is not alone any more.
Disturbed == [k \in Jobs |-> [job[k] EXCEPT !.alone = job[k].at = "idle"]]

\* Thread j starts a job.
StartJob(j, r) ==
  job' = [Disturbed EXCEPT ![j] =
            [r EXCEPT !.alone = \A o \in Jobs \ {j} : job[o].at = "idle",
                      !.fine = unit.outputs = ctl.ctrlout]]

\* tty_termios_hw_change.
hw_change(new) == \/ new.rate # termios.rate
                  \/ new.format # termios.format
                  \/ new.crtscts # termios.crtscts

\* TCSETS of nothing but CLOCAL: the driver returns at once.
TcsetSoft ==
  /\ Calling
  /\ job["tcset"].at = "idle"
  /\ \E new \in Settings : ~hw_change(new) /\ termios' = new
  /\ UNCHANGED <<chip, ctl, unit, job, waiter, hup, gone>>

\* What is sent for a termios with this rate and divisor.
LineJob(j, bval, d) ==
  [resting EXCEPT !.at = "line", !.send = ctl.ctrlout, !.rate = bval, !.div = d,
                  !.was = IF j = "open" THEN NoOld ELSE termios.rate]

\* ctrlout is read, and ch343_get done, before anything else.
GetsDivisor(j, new) ==
  LET bval == IF new.rate = 0 THEN 9600 ELSE new.rate
      got == ch343_get(chip.type, bval)
  IN  \/ (got = {} \/ Failed \in got) /\ job' = Disturbed
      \/ \E d \in got \ {Failed} : StartJob(j, LineJob(j, bval, d))

BeginTermios(j, new) ==
  /\ Calling
  /\ job[j].at = "idle"
  /\ termios' = new
  /\ GetsDivisor(j, new)
  /\ UNCHANGED <<chip, ctl, unit, waiter, hup, gone>>

TtyOpen == BeginTermios("open", termios)
Tcset == \E new \in Settings : hw_change(new) /\ BeginTermios("tcset", new)

\* B0 drops DTR and RTS; the rate that is set is 9600, and the one reported the last.
\* Whether the transfer of CMD_C1 succeeds is not looked at.
TransferLine(j) ==
  LET t == job[j]
      b0 == termios.rate = 0
      pair == {"DTR", "RTS"}
  IN  /\ t.at = "line"
      /\ ctl' = [ctl EXCEPT !.clocal = termios.clocal]
      /\ \E ok \in {TRUE, FALSE} \ {gone} :
           /\ unit' = IF ok THEN [unit EXCEPT !.divisor = t.div, !.format = termios.format]
                      ELSE unit
           /\ job' = [job EXCEPT ![j] =
                [t EXCEPT !.at = "control", !.fine = t.fine /\ ok, !.b0 = b0,
                          !.rate = IF b0 THEN ctl.rate ELSE t.rate,
                          !.send = IF b0 THEN t.send \ pair
                                   ELSE IF t.was = 0 THEN t.send \cup pair ELSE t.send]]
      /\ UNCHANGED <<chip, termios, waiter, hup, gone, calls>>

SetLine(j) ==
  LET t == job[j]
      newctrl == IF termios.crtscts THEN t.send \cup {"AUTO", "RTS"} ELSE t.send \ {"AUTO"}
  IN  /\ t.at = "control"
      /\ ctl' = [ctl EXCEPT !.rate = t.rate, !.ctrlout = newctrl]
      /\ job' = [job EXCEPT ![j] =
           [t EXCEPT !.send = newctrl, !.at = IF newctrl = ctl.ctrlout THEN "encode" ELSE "send"]]
      /\ UNCHANGED <<chip, termios, unit, waiter, hup, gone, calls>>

\* ch343_set_control, after ctrlout was set, with the value that it was set to.
ch343_set_control(j) ==
  /\ job[j].at = "send"
  /\ \E ok \in {TRUE, FALSE} \ {gone} :
       /\ unit' = IF ok THEN [unit EXCEPT !.outputs = job[j].send] ELSE unit
       /\ job' = [job EXCEPT ![j] =
                    IF j \in Setters THEN [job[j] EXCEPT !.at = "encode", !.fine = @ /\ ok]
                    ELSE resting]
  /\ UNCHANGED <<chip, termios, ctl, waiter, hup, gone, calls>>

\* tty_encode_baud_rate.
EncodeRate(j) ==
  /\ job[j].at = "encode"
  /\ termios' = [termios EXCEPT !.rate = job[j].rate]
  /\ job' = [job EXCEPT ![j] = resting]
  /\ UNCHANGED <<chip, ctl, unit, waiter, hup, gone, calls>>

------------------------------------------------------------------------------
(* The modem lines *)

SetOutputs(j, newctrl) ==
  /\ StartJob(j, [resting EXCEPT !.at = "send", !.send = newctrl])
  /\ ctl' = [ctl EXCEPT !.ctrlout = newctrl]

tiocmset ==
  /\ Calling
  /\ job["tiocmset"].at = "idle"
  /\ \E set, clear \in SUBSET {"DTR", "RTS"} :
       LET newctrl == (ctl.ctrlout \ clear) \cup set
       IN  newctrl # ctl.ctrlout /\ SetOutputs("tiocmset", newctrl)
  /\ UNCHANGED <<chip, termios, unit, waiter, hup, gone>>

\* The tty core raises DTR and RTS for an open and drops them with the last close or a
\* hangup.
port_dtr_rts ==
  /\ Calling
  /\ job["port"].at = "idle"
  /\ \E raise \in BOOLEAN :
       /\ SetOutputs("port", IF raise THEN ctl.ctrlout \cup {"DTR", "RTS"}
                                      ELSE ctl.ctrlout \ {"DTR", "RTS"})
       /\ hup' = (hup /\ raise)
  /\ UNCHANGED <<chip, termios, unit, waiter, gone>>

break_ctl ==
  /\ Calling
  /\ \E state \in BOOLEAN : unit' = [unit EXCEPT !.breaking = state]
  /\ UNCHANGED <<chip, termios, ctl, job, waiter, hup, gone>>

tiocmget == (ctl.ctrlout \cap {"DTR", "RTS"}) \cup ctl.ctrlin

------------------------------------------------------------------------------
(* Status messages and TIOCMIWAIT *)

Rise(count, lines) == [l \in DOMAIN count |-> count[l] + IF l \in lines THEN 1 ELSE 0]

\* The lines a message reports and the errors.  A CH344L's message is for nobody when
\* its first byte is not 0, and a CH344L has only CTS.
Reported(m) == IF chip.type \in {"CH344L", "CH344L_V2"} THEN m.lines \cap {"CTS"} ELSE m.lines
Errors(m) == {e \in {"brk", "overrun"} : e \in m.type}
             \cup (IF {"parity", "frame"} \subseteq m.type THEN {"frame"}
                   ELSE m.type \cap {"parity"})

\* Mutant: only lines that rise are counted.
Changed_rising(m) == IF "lines" \in m.type THEN Reported(m) \ ctl.ctrlin ELSE {}

Changed(m) ==
  IF "lines" \in m.type
  THEN (Reported(m) \ ctl.ctrlin) \cup (ctl.ctrlin \ Reported(m)) ELSE {}

\* A message's part on the lines.  Every part copies iocount to oldcount before it
\* counts, and locks for itself; the next message comes when all are done.
update_status(m) ==
  LET lines == "lines" \in m.type
  IN  /\ Calling
      /\ ctl.pending = <<>>
      /\ chip.type = "CH344L" => m.first = 0
      /\ ctl' = [ctl EXCEPT
           !.ctrlin = IF lines THEN Reported(m) ELSE ctl.ctrlin,
           !.oldcount = IF lines THEN ctl.iocount ELSE ctl.oldcount,
           !.iocount = Rise(ctl.iocount, Changed(m)),
           !.pending = SelectSeq(<<"brk", "overrun", "frame", "parity">>,
                                 LAMBDA e : e \in Errors(m))]
      /\ hup' = (hup \/ (lines /\ ~ctl.clocal /\ "CD" \in ctl.ctrlin \cap Reported(m)))
      /\ waiter' = IF waiter.at = "asleep" /\ Changed(m) # {}
                   THEN [waiter EXCEPT !.at = "woken"] ELSE waiter
      /\ UNCHANGED <<chip, termios, unit, job, gone>>

\* Its next part, on an error: nobody is woken, and what the waiters have not seen of
\* the lines is taken from them.
CountError ==
  /\ ctl.pending # <<>>
  /\ ctl' = [ctl EXCEPT !.oldcount = ctl.iocount,
                        !.errors = Rise(ctl.errors, {Head(ctl.pending)}),
                        !.pending = Tail(ctl.pending)]
  /\ UNCHANGED <<chip, termios, unit, job, waiter, hup, gone, calls>>

MiWait ==
  /\ Calling
  /\ waiter.at = "idle"
  /\ \E a \in Asked : waiter' = [at |-> "look", asked |-> a]
  /\ UNCHANGED <<chip, termios, ctl, unit, job, hup, gone>>

\* What changed since anybody last looked is taken, whoever waits for it.
WaitLook ==
  /\ waiter.at = "look"
  /\ ctl' = [ctl EXCEPT !.oldcount = ctl.iocount]
  /\ waiter' = [waiter EXCEPT !.at =
       IF \E l \in waiter.asked : ctl.oldcount[l] # ctl.iocount[l] THEN "idle" ELSE "queue"]
  /\ UNCHANGED <<chip, termios, unit, job, hup, gone, calls>>

\* It goes to sleep without another look.
WaitSleep ==
  /\ waiter.at = "queue"
  /\ waiter' = [waiter EXCEPT !.at = "asleep"]
  /\ UNCHANGED <<chip, termios, ctl, unit, job, hup, gone, calls>>

\* Woken by a change, by disconnect, or by a signal.
WaitWoken ==
  /\ \/ waiter.at = "woken"
     \/ waiter.at = "asleep" /\ ~gone
  /\ waiter' = [waiter EXCEPT !.at = IF gone \/ waiter.at = "asleep" THEN "idle" ELSE "look"]
  /\ UNCHANGED <<chip, termios, ctl, unit, job, hup, gone, calls>>

\* reset_resume hangs up a tty that is open.
reset_resume ==
  /\ Calling
  /\ hup' = TRUE
  /\ UNCHANGED <<chip, termios, ctl, unit, job, waiter, gone>>

Unplugging ==
  /\ chip.type # "unknown" /\ ~gone
  /\ gone' = TRUE
  /\ waiter' = IF waiter.at = "asleep" THEN [waiter EXCEPT !.at = "woken"] ELSE waiter
  /\ UNCHANGED <<chip, termios, ctl, unit, job, hup, calls>>

ControlNext ==
  \/ ch343_configure \/ TtyOpen \/ TcsetSoft \/ Tcset
  \/ \E j \in Setters : TransferLine(j) \/ SetLine(j) \/ EncodeRate(j)
  \/ \E j \in Jobs : ch343_set_control(j)
  \/ tiocmset \/ port_dtr_rts \/ break_ctl
  \/ \E m \in Messages : update_status(m)
  \/ CountError
  \/ MiWait \/ WaitLook \/ WaitSleep \/ WaitWoken
  \/ reset_resume \/ Unplugging

ControlSpec == ControlInit /\ [][ControlNext]_controlVars

------------------------------------------------------------------------------
(* Properties *)

ControlTypeOK ==
  /\ termios.rate \in Nat
  /\ ctl.ctrlout \subseteq Outputs
  /\ ctl.ctrlin \subseteq Modem
  /\ unit.outputs \subseteq Outputs
  /\ unit.divisor \in (0..255) \X (0..255)
  /\ \A j \in Jobs : job[j].at \in {"idle", "line", "control", "send", "encode"}
  /\ waiter.at \in {"idle", "look", "queue", "asleep", "woken"}
  /\ calls \in 0..MaxCalls

\* However messages and waiters interleave, every change of a modem line is counted
\* once: a line is up exactly when it changed an odd number of times, which is what
\* TIOCMGET and TIOCGICOUNT show together; and what the waiters have not seen is at
\* most one change of each line, the last message's.
LinesCounted ==
  \A l \in Modem : /\ l \in tiocmget <=> ctl.iocount[l] % 2 = 1
                   /\ ctl.iocount[l] - ctl.oldcount[l] \in {0, 1}

\* When a set_termios ends that nobody else interfered with and no transfer of which
\* failed, the device has the speed the tty reports, within 5 % and up to 2 MBd, for the
\* rates that have a constant; its format and flow control and the outputs that ctrlout
\* says; B0 has dropped DTR.
SetTermiosAgrees ==
  [][\A j \in Setters :
       EncodeRate(j) /\ job[j].alone /\ job[j].fine =>
         /\ unit.format = termios.format
         /\ unit.outputs = ctl.ctrlout
         /\ termios.crtscts <=> "AUTO" \in unit.outputs
         /\ IF job[j].b0 THEN "DTR" \notin unit.outputs
            ELSE termios'.rate <= 2000000 =>
                   LET off == Speed(unit.divisor) - termios'.rate
                   IN  off * 20 \in -termios'.rate..termios'.rate]_controlVars
==============================================================================

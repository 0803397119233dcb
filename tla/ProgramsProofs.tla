----------------------------- MODULE ProgramsProofs -----------------------------
(***************************************************************************)
(* What Programs puts together, for any chips, messages, scripts, threads, *)
(* networks and numbers of calls, ticks and faults.                        *)
(***************************************************************************)
EXTENDS Programs, Ch343LifeProofs, TLAPS

------------------------------------------------------------------------------
(* The control side of the ch343 *)

ControlShape ==
  /\ ctl = [ctrlout |-> ctl.ctrlout, ctrlin |-> ctl.ctrlin, iocount |-> ctl.iocount,
            oldcount |-> ctl.oldcount, errors |-> ctl.errors, clocal |-> ctl.clocal,
            rate |-> ctl.rate, pending |-> ctl.pending]
  /\ ctl.iocount \in [Modem -> Nat]
  /\ ctl.oldcount \in [Modem -> Nat]

\* Level, changes counted and changes seen of one line.
Agree(up, count, old) == (up <=> count % 2 = 1) /\ count - old \in {0, 1}

ControlInv ==
  /\ ControlShape
  /\ \A l \in Modem : Agree(l \in ctl.ctrlin, ctl.iocount[l], ctl.oldcount[l])

\* The invariant is LinesCounted, said of ctrlin.
LEMMA Counted == ControlInv <=> ControlShape /\ LinesCounted
<1>1. \A l \in Modem : l \in tiocmget <=> l \in ctl.ctrlin
  BY DEF tiocmget, Modem
<1>2. QED
  BY <1>1 DEF ControlInv, LinesCounted, Agree

LEMMA ControlInitInv == ControlInit => ControlInv
<1> SUFFICES ASSUME ControlInit PROVE ControlInv
  OBVIOUS
<1>1. ControlShape /\ ctl.ctrlin = {}
  BY DEF ControlInit, ControlShape
<1>2. \A l \in Modem : ctl.iocount[l] = 0 /\ ctl.oldcount[l] = 0
  BY DEF ControlInit
<1>3. QED
  BY <1>1, <1>2 DEF ControlInv, Agree

\* One line under a message: it turns or not, and is copied or not.
LEMMA OneLine ==
  ASSUME NEW count \in Nat, NEW old \in Nat, NEW up \in BOOLEAN, NEW turns \in BOOLEAN,
         Agree(up, count, old)
  PROVE  LET c == count + (IF turns THEN 1 ELSE 0)
         IN  /\ (up # turns) <=> c % 2 = 1
             /\ c - c \in {0, 1} /\ c - count \in {0, 1}
             /\ ~turns => c - old \in {0, 1}
  BY DEF Agree

LEMMA UpdateStep == ASSUME ControlInv, NEW m \in Messages, update_status(m) PROVE ControlInv'
<1> DEFINE lines == "lines" \in m.type
           in == IF lines THEN Reported(m) ELSE ctl.ctrlin
           count == Rise(ctl.iocount, Changed(m))
           old == IF lines THEN ctl.iocount ELSE ctl.oldcount
<1>1. PICK rest : ctl' = [ctl EXCEPT !.ctrlin = in, !.oldcount = old, !.iocount = count,
                                     !.pending = rest]
  BY DEF update_status
<1>2. /\ count \in [Modem -> Nat]
      /\ \A l \in Modem : count[l] = ctl.iocount[l] + IF l \in Changed(m) THEN 1 ELSE 0
  BY DEF ControlInv, ControlShape, Rise
<1>3. old \in [Modem -> Nat]
  <2> HIDE DEF count
  <2>1. QED
    BY <1>2 DEF ControlInv, ControlShape
<1>4. ControlShape' /\ ctl'.ctrlin = in /\ ctl'.iocount = count /\ ctl'.oldcount = old
  <2> HIDE DEF in, count, old
  <2>1. QED
    BY <1>1, <1>2, <1>3 DEF ControlInv, ControlShape
<1>5. ASSUME NEW l \in Modem PROVE Agree(l \in in, count[l], old[l])
  <2>1. l \in in <=> ((l \in ctl.ctrlin) # (l \in Changed(m)))
    BY DEF Changed
  <2>2. ~lines => l \notin Changed(m)
    BY DEF Changed
  <2>3. old[l] = ctl.iocount[l] \/ (old[l] = ctl.oldcount[l] /\ ~lines)
    OBVIOUS
  <2>4. /\ ctl.iocount[l] \in Nat /\ ctl.oldcount[l] \in Nat
        /\ Agree(l \in ctl.ctrlin, ctl.iocount[l], ctl.oldcount[l])
    BY DEF ControlInv, ControlShape
  <2>5. count[l] = ctl.iocount[l] + IF l \in Changed(m) THEN 1 ELSE 0
    BY <1>2
  <2> HIDE DEF in, count, old, lines
  <2> DEFINE up == l \in ctl.ctrlin
             turns == l \in Changed(m)
  <2>6. up \in BOOLEAN /\ turns \in BOOLEAN
    OBVIOUS
  <2>7. /\ (up # turns) <=> count[l] % 2 = 1
        /\ count[l] - count[l] \in {0, 1} /\ count[l] - ctl.iocount[l] \in {0, 1}
        /\ ~turns => count[l] - ctl.oldcount[l] \in {0, 1}
    <3> HIDE DEF up, turns
    <3>1. Agree(up, ctl.iocount[l], ctl.oldcount[l])
      BY <2>4 DEF up
    <3>2. count[l] = ctl.iocount[l] + IF turns THEN 1 ELSE 0
      BY <2>5 DEF turns
    <3>3. QED
      BY <2>4, <2>6, <3>1, <3>2, OneLine
  <2>8. QED
    BY <2>1, <2>2, <2>3, <2>7 DEF Agree
<1>6. QED
  <2> HIDE DEF in, count, old
  <2>1. QED
    BY <1>4, <1>5 DEF ControlInv

LEMMA LookStep == ControlInv /\ (WaitLook \/ CountError) => ControlInv'
<1> SUFFICES ASSUME ControlInv, WaitLook \/ CountError PROVE ControlInv'
  OBVIOUS
<1>1. \/ ctl' = [ctl EXCEPT !.oldcount = ctl.iocount]
      \/ \E e, p : ctl' = [ctl EXCEPT !.oldcount = ctl.iocount, !.errors = e, !.pending = p]
  BY DEF WaitLook, CountError
<1>2. ControlShape' /\ ctl'.ctrlin = ctl.ctrlin /\ ctl'.iocount = ctl.iocount
      /\ ctl'.oldcount = ctl.iocount
  BY <1>1 DEF ControlInv, ControlShape
<1>3. QED
  BY <1>2 DEF ControlInv, ControlShape, Agree

\* The other steps leave the level and the counters alone.
LEMMA OthersKeep ==
  ASSUME ControlInv,
         \/ UNCHANGED ctl
         \/ \E b : ctl' = [ctl EXCEPT !.clocal = b]
         \/ \E r, out : ctl' = [ctl EXCEPT !.rate = r, !.ctrlout = out]
         \/ \E out : ctl' = [ctl EXCEPT !.ctrlout = out]
  PROVE  ControlInv'
<1>1. ControlShape' /\ ctl'.ctrlin = ctl.ctrlin /\ ctl'.iocount = ctl.iocount
      /\ ctl'.oldcount = ctl.oldcount
  BY DEF ControlInv, ControlShape
<1>2. QED
  BY <1>1 DEF ControlInv

LEMMA ControlStep == ControlInv /\ [ControlNext]_controlVars => ControlInv'
<1> SUFFICES ASSUME ControlInv, [ControlNext]_controlVars PROVE ControlInv'
  OBVIOUS
<1>1. CASE \/ ch343_configure \/ TtyOpen \/ TcsetSoft \/ Tcset \/ break_ctl \/ MiWait
           \/ WaitSleep \/ WaitWoken \/ reset_resume \/ Unplugging
           \/ (\E j \in Setters : EncodeRate(j)) \/ (\E j \in Jobs : ch343_set_control(j))
           \/ UNCHANGED controlVars
  <2>1. ASSUME NEW j, NEW new PROVE BeginTermios(j, new) => UNCHANGED ctl
    BY DEF BeginTermios
  <2>2. (TtyOpen \/ Tcset) => UNCHANGED ctl
    BY <2>1, Zenon DEF TtyOpen, Tcset
  <2>3. (\E j \in Setters : EncodeRate(j)) \/ (\E j \in Jobs : ch343_set_control(j))
        => UNCHANGED ctl
    BY Zenon DEF EncodeRate, ch343_set_control
  <2>4. ch343_configure \/ TcsetSoft \/ break_ctl \/ MiWait => UNCHANGED ctl
    BY Zenon DEF ch343_configure, TcsetSoft, break_ctl, MiWait
  <2>5. WaitSleep \/ WaitWoken \/ reset_resume \/ Unplugging \/ UNCHANGED controlVars
        => UNCHANGED ctl
    BY DEF WaitSleep, WaitWoken, reset_resume, Unplugging, controlVars
  <2>6. QED
    BY <1>1, <2>2, <2>3, <2>4, <2>5, OthersKeep
<1>2. ASSUME NEW j \in Setters, TransferLine(j) \/ SetLine(j) PROVE ControlInv'
  BY <1>2, OthersKeep DEF TransferLine, SetLine
<1>3. CASE tiocmset \/ port_dtr_rts
  BY <1>3, OthersKeep DEF tiocmset, port_dtr_rts, SetOutputs
<1>4. QED
  BY <1>1, <1>2, <1>3, UpdateStep, LookStep DEF ControlNext

\* Whatever messages come between whichever calls, TIOCMGET and TIOCGICOUNT agree on
\* every line, and waiters are behind by one change of it at most.
THEOREM ControlLines == ControlSpec => []LinesCounted
<1>1. ControlInv => LinesCounted
  BY Counted
<1>2. QED
  BY ControlInitInv, ControlStep, <1>1, PTL DEF ControlSpec

------------------------------------------------------------------------------
(* The disk script *)

\* The points of a run after the backup, and those of them after the mount.
AfterBackup == {"mount", "format", "mount again", "mounted"}
AfterRestore == {"install", "installed"}

RepairShape ==
  /\ repair \in [Scripts -> {"idle", "locked", "unmounted", "backup"}
                              \cup AfterBackup \cup AfterRestore]
  /\ disk = [fs |-> disk.fs, sound |-> disk.sound, files |-> disk.files]

\* A run that works has the lock, and there is one such run at most.
OneWorks ==
  /\ \A r \in Scripts : repair[r] # "idle" => lock
  /\ \A q, r \in Scripts : repair[q] # "idle" /\ repair[r] # "idle" => q = r

\* While a run saves the hidden files the disk is not mounted over them; later they are
\* in the backup, and later still on the disk that is mounted.
Reached(r) ==
  /\ repair[r] \in {"unmounted", "backup"} => mounted # "data2"
  /\ repair[r] \in AfterBackup => Under \subseteq bak
  /\ repair[r] \in {"mounted"} \cup AfterRestore => mounted = "data2"
  /\ repair[r] \in AfterRestore => Under \subseteq disk.files
  /\ repair[r] = "installed" => Target \in disk.files

RepairInv == RepairShape /\ OneWorks /\ \A r \in Scripts : Reached(r)


LEMMA RepairInitInv == RepairInit => RepairInv
  BY DEF RepairInit, RepairInv, RepairShape, OneWorks, Reached, AfterBackup, AfterRestore

\* Every step of one run keeps the invariant.
LEMMA RunStep ==
  ASSUME RepairInv, NEW r \in Scripts,
         \/ Lock(r) \/ Unmount(r) \/ BackupStart(r) \/ BackupCopies(r) \/ BackedUp(r)
         \/ Mount(r) \/ MountFails(r) \/ Format(r) \/ Restores(r) \/ Restored(r)
         \/ Install(r) \/ Done(r) \/ Dies(r) \/ Killed(r)
  PROVE  RepairInv'
<1> USE DEF RepairInv, RepairShape, OneWorks, Reached, AfterBackup, AfterRestore, Reaches
<1>1. CASE Lock(r)
  BY <1>1 DEF Lock
<1>2. CASE Unmount(r)
  BY <1>2 DEF Unmount
<1>3. CASE BackupStart(r)
  BY <1>3 DEF BackupStart, Ends
<1>4. CASE BackupCopies(r)
  BY <1>4 DEF BackupCopies
<1>5. CASE BackedUp(r)
  BY <1>5 DEF BackedUp, Ends, data2
<1>6. CASE Mount(r)
  BY <1>6 DEF Mount
<1>7. CASE MountFails(r)
  BY <1>7 DEF MountFails
<1>8. CASE Format(r)
  BY <1>8 DEF Format
<1>9. CASE Restores(r)
  BY <1>9 DEF Restores
<1>10. CASE Restored(r)
  BY <1>10 DEF Restored, data2
<1>11. CASE Install(r)
  <2>1. mounted = "data2" /\ UNCHANGED <<bak, mounted>>
    BY <1>11 DEF Install
  <2>2. CASE Reaches(r, "install", "installed") /\ UNCHANGED lock
             /\ disk' = [disk EXCEPT !.files = @ \cup {Target}]
    <3>1. /\ disk' = [fs |-> disk'.fs, sound |-> disk'.sound, files |-> disk'.files]
          /\ disk'.files = disk.files \cup {Target}
      BY <2>2
    <3>2. QED
      BY <2>1, <2>2, <3>1
  <2>3. CASE Ends(r, "install") /\ UNCHANGED disk
    BY <2>1, <2>3 DEF Ends
  <2>4. QED
    BY <1>11, <2>2, <2>3 DEF Install
<1>12. CASE Done(r)
  BY <1>12 DEF Done, Ends
<1>13. CASE Dies(r)
  BY <1>13 DEF Dies, Ends
<1>14. CASE Killed(r)
  BY <1>14 DEF Killed
<1>15. QED
  BY <1>1, <1>2, <1>3, <1>4, <1>5, <1>6, <1>7, <1>8, <1>9, <1>10, <1>11, <1>12, <1>13, <1>14

LEMMA RepairStep == RepairInv /\ [RepairNext]_diskVars => RepairInv'
<1> SUFFICES ASSUME RepairInv, [RepairNext]_diskVars PROVE RepairInv'
  OBVIOUS
<1>1. CASE Reboots
  BY <1>1 DEF Reboots, RepairInv, RepairShape, OneWorks, Reached, AfterBackup, AfterRestore
<1>2. CASE UNCHANGED diskVars
  BY <1>2 DEF diskVars, RepairInv, RepairShape, OneWorks, Reached
<1>3. QED
  BY <1>1, <1>2, RunStep DEF RepairNext

\* The lock and the order of the steps are kept by every run, crash and error.
THEOREM RepairInvariant == RepairSpec => []RepairInv
  BY RepairInitInv, RepairStep, PTL DEF RepairSpec

\* When fix_data2_disk.sh exits with 0, the disk is on /data2 with all that was hidden
\* under it and the machine's .dat file, whatever happened before.
THEOREM RepairDone == RepairSpec => DoneMeansRepaired
<1>1. RepairInv => [\A r \in Scripts :
                     Done(r) => /\ mounted = "data2"
                                /\ Under \cup {Target} \subseteq disk.files]_diskVars
  BY DEF RepairInv, RepairShape, Reached, AfterBackup, AfterRestore, Done, Ends, Reaches
<1>2. QED
  BY <1>1, RepairInvariant, PTL DEF DoneMeansRepaired

------------------------------------------------------------------------------
(* The key *)

\* A tick stamp, and how it is made of what has passed.
Stamp(t) == (FirstTick + t) % TickWrap

\* Multiples of a modulus that are not 0 are not smaller than it.
LEMMA Multiples ==
  ASSUME NEW W \in Nat \ {0}, NEW k \in Int
  PROVE  /\ k >= 1 => W * k >= W
         /\ k <= -1 => W * k <= -W
         /\ k = 0 => W * k = 0
         /\ W * k \in Int
<1>1. W * k \in Int /\ (k = 0 => W * k = 0)
  OBVIOUS
<1>2. k >= 1 => W * k >= W
  <2>1. k - 1 \in Int /\ W * k = W * (k - 1) + W
    OBVIOUS
  <2>2. k >= 1 => W * (k - 1) >= 0
    OBVIOUS
  <2> QED
    BY <2>1, <2>2
<1>3. k <= -1 => W * k <= -W
  <2>1. k + 1 \in Int /\ W * k = W * (k + 1) - W
    OBVIOUS
  <2>2. k <= -1 => W * (k + 1) <= 0
    OBVIOUS
  <2> QED
    BY <2>1, <2>2
<1> QED
  BY <1>1, <1>2, <1>3

\* The difference of two stamps is no more than the time between them.
LEMMA SinceBound ==
  ASSUME NEW s \in Nat, NEW t \in Nat, s <= t
  PROVE  Since(Stamp(t), Stamp(s)) <= t - s
<1> DEFINE W == TickWrap
           a == FirstTick + t
           b == FirstTick + s
           x == a % W
           y == b % W
           k == (a \div W) - (b \div W)
<1>1. W \in Nat \ {0} /\ a \in Nat /\ b \in Nat /\ b <= a /\ t - s = a - b
  BY KeyAssumption DEF KeyAssumption
<1> HIDE DEF W, a, b
<1>2. /\ x \in 0..(W - 1) /\ y \in 0..(W - 1) /\ k \in Int
      /\ a \div W \in Int /\ b \div W \in Int
      /\ a = W * (a \div W) + x /\ b = W * (b \div W) + y
  BY <1>1
<1>3. W * k = W * (a \div W) - W * (b \div W)
  BY <1>1, <1>2
<1>4. (x - y) % W = IF x >= y THEN x - y ELSE x - y + W
  <2>1. ASSUME NEW d \in Int, d >= 0, d < W PROVE d % W = d
    BY <1>1, <2>1
  <2>2. ASSUME NEW d \in Int, d < 0, d > -W PROVE d % W = d + W
    BY <1>1, <2>2
  <2> QED
    BY <1>1, <1>2, <2>1, <2>2
<1>5. a - b = (x - y) + W * k /\ W * k \in Int
  BY <1>1, <1>2, <1>3
<1>6. (x - y) % W <= a - b
  <2>1. /\ k >= 1 => W * k >= W
        /\ k <= -1 => W * k <= -W
        /\ k = 0 => W * k = 0
    BY <1>1, <1>2, Multiples
  <2> HIDE DEF k, x, y
  <2> QED
    BY <1>1, <1>2, <1>4, <1>5, <2>1
<1> QED
  BY <1>1, <1>6 DEF Since, Stamp, a, b, x, y, W

\* The key's fields.
Keys == [state : {"IDLE", "DEBOUNCE", "PRESSED", "LONG_DONE"}, down : Int,
         debounce : Int, pwr : BOOLEAN, bl : BOOLEAN, irq : BOOLEAN]

\* The key's state, and what the task has read.
KeyShape ==
  /\ key \in Keys
  /\ tick \in 0..MaxTicks
  /\ edges \in 0..MaxEdges
  /\ task.at \in {"out", "in"}
  /\ task.at = "in" => /\ task.begun \in 0..tick
                       /\ task.now = Stamp(task.begun)
  /\ hold = [since |-> hold.since, switched |-> hold.switched]
  /\ hold.switched \in BOOLEAN

\* What the task acts on has been pressed since hold.since; the long press is measured
\* from a later look at the key, and switches the power in one state only.
Held ==
  /\ hold.since # NotHeld => /\ hold.since \in 0..tick
                             /\ task.at = "in" => hold.since <= task.begun
  /\ hold.switched => key.state = "LONG_DONE"
  /\ key.state = "PRESSED" =>
       /\ hold.since # NotHeld
       /\ \E d \in hold.since..tick : /\ key.down = Stamp(d)
                                      /\ task.at = "in" => d <= task.begun

KeyInv == KeyShape /\ Held

\* The power has been switched, or the backlight, as OneThingPerPress says.
OneThing ==
  /\ key'.pwr # key.pwr => /\ hold.since # NotHeld /\ ~hold.switched
                           /\ task.begun - hold.since >= LONG_PRESS_TIME_MS
  /\ key'.bl # key.bl => ~hold.switched

\* A stamp is a number.
LEMMA StampType == ASSUME NEW t \in Nat PROVE Stamp(t) \in Int
  BY KeyAssumption DEF KeyAssumption, Stamp

\* Ticks, edges and the task's reading change none of it.
LEMMA KeyOtherStep ==
  ASSUME KeyInv, Tick \/ Edge \/ KeyTaskReads
  PROVE  KeyInv' /\ OneThing
<1> USE DEF Keys
<1>1. CASE Tick
  <2>1. UNCHANGED <<key, pressed, task, edges, hold>> /\ tick' = tick + 1 /\ tick < MaxTicks
    BY <1>1 DEF Tick
  <2>2. KeyShape'
    BY <2>1, KeyAssumption DEF KeyInv, KeyShape, KeyAssumption
  <2>3. tick \in Nat /\ 0..tick \subseteq 0..tick'
    BY <2>1 DEF KeyInv, KeyShape
  <2>4. Held'
    <3>1. ASSUME key.state = "PRESSED"
          PROVE  \E d \in hold.since..tick' : /\ key.down = Stamp(d)
                                              /\ task.at = "in" => d <= task.begun
      <4>1. PICK d \in hold.since..tick : /\ key.down = Stamp(d)
                                          /\ task.at = "in" => d <= task.begun
        BY <3>1 DEF KeyInv, Held
      <4>2. hold.since \in 0..tick
        BY <3>1 DEF KeyInv, Held
      <4>3. d \in hold.since..tick'
        BY <2>1, <2>3, <4>2
      <4> QED
        BY <4>1, <4>3
    <3> QED
      BY <2>1, <2>3, <3>1 DEF KeyInv, Held, Stamp
  <2> QED
    BY <2>1, <2>2, <2>4 DEF KeyInv, OneThing
<1>2. CASE Edge
  <2>1. UNCHANGED <<task, tick, hold>> /\ key' = [key EXCEPT !.irq = TRUE]
        /\ edges < MaxEdges /\ edges' = edges + 1
    BY <1>2 DEF Edge
  <2>2. /\ key'.state = key.state /\ key'.down = key.down /\ key'.pwr = key.pwr
        /\ key'.bl = key.bl
    BY <2>1 DEF KeyInv, KeyShape
  <2>3. KeyShape'
    <3>1. key' \in Keys
      BY <2>1 DEF KeyInv, KeyShape
    <3>2. edges' \in 0..MaxEdges
      BY <2>1, KeyAssumption DEF KeyInv, KeyShape, KeyAssumption
    <3> QED
      BY <2>1, <3>1, <3>2 DEF KeyInv, KeyShape, Stamp
  <2>4. Held'
    BY <2>1, <2>2 DEF KeyInv, Held, Stamp
  <2> QED
    BY <2>2, <2>3, <2>4 DEF KeyInv, OneThing
<1>3. CASE KeyTaskReads
  <2>1. /\ UNCHANGED <<key, pressed, tick, edges, hold>>
        /\ task' = [at |-> "in", now |-> HAL_GetTick, level |-> pressed, begun |-> tick]
    BY <1>3 DEF KeyTaskReads
  <2>2. task'.at = "in" /\ task'.now = Stamp(tick) /\ task'.begun = tick
    BY <2>1 DEF HAL_GetTick, Stamp
  <2>3. tick \in Nat
    BY DEF KeyInv, KeyShape
  <2>4. KeyShape'
    BY <2>1, <2>2, <2>3 DEF KeyInv, KeyShape, Stamp
  <2>5. Held'
    <3>1. ASSUME key.state = "PRESSED"
          PROVE  \E d \in hold.since..tick : key.down = Stamp(d) /\ d <= tick
      BY <2>3, <3>1 DEF KeyInv, Held
    <3> QED
      BY <2>1, <2>2, <2>3, <3>1 DEF KeyInv, Held, Stamp
  <2> QED
    BY <2>1, <2>4, <2>5 DEF KeyInv, OneThing
<1> QED
  BY <1>1, <1>2, <1>3

\* The task's turn: one step for each way the switch can go.
LEMMA KeyActsStep ==
  ASSUME KeyInv, KeyTaskActs
  PROVE  KeyInv' /\ OneThing
<1> USE DEF Keys
<1> DEFINE now == task.now
           begun == task.begun
           seen == IF key.state = "IDLE" THEN task.level ELSE pressed
           since == IF hold.since = NotHeld THEN begun ELSE hold.since
<1>1. /\ task.at = "in" /\ task'.at = "out" /\ UNCHANGED <<pressed, tick, edges>>
      /\ key' = NextState(now, task.level)
      /\ hold' = IF ~seen THEN [since |-> NotHeld, switched |-> FALSE]
                 ELSE [since |-> since, switched |-> hold.switched \/ key'.pwr # key.pwr]
  BY DEF KeyTaskActs
<1>2. /\ begun \in Nat /\ begun <= tick /\ now = Stamp(begun) /\ now \in Int /\ tick \in Nat
      /\ since \in 0..begun /\ since # NotHeld
  <2>1. /\ begun \in Nat /\ begun <= tick /\ now = Stamp(begun) /\ tick \in Nat
    BY <1>1 DEF KeyInv, KeyShape
  <2>2. since \in 0..begun /\ since # NotHeld
    BY <1>1, <2>1 DEF KeyInv, Held, NotHeld
  <2> QED
    BY <2>1, <2>2, StampType
<1> HIDE DEF now, begun, since
<1>3. /\ key \in Keys
      /\ hold.switched => key.state = "LONG_DONE"
  BY DEF KeyInv, KeyShape, Held
\* All but the place of the stamp and the history follows from what the key becomes.
<1>4. ASSUME key' \in Keys,
             hold'.switched => key'.state = "LONG_DONE",
             key'.state = "PRESSED" =>
               /\ hold'.since # NotHeld
               /\ \E d \in hold'.since..tick : key'.down = Stamp(d)
      PROVE  KeyInv'
  <2>1. hold' = [since |-> hold'.since, switched |-> hold'.switched]
        /\ hold'.switched \in BOOLEAN /\ hold'.since \in {NotHeld, since}
    <3>1. CASE ~seen
      BY <1>1, <3>1
    <3>2. CASE seen
      <4>1. hold.switched \in BOOLEAN
        BY DEF KeyInv, KeyShape
      <4>2. hold' = [since |-> since, switched |-> hold.switched \/ key'.pwr # key.pwr]
        BY <1>1, <3>2
      <4>3. (hold.switched \/ key'.pwr # key.pwr) \in BOOLEAN
        OBVIOUS
      <4> QED
        BY <4>2, <4>3
    <3> QED
      BY <3>1, <3>2
  <2>2. KeyShape'
    BY <1>1, <1>2, <1>4, <2>1 DEF KeyInv, KeyShape
  <2>3. Held'
    BY <1>1, <1>2, <1>4, <2>1 DEF Held, Stamp
  <2> QED
    BY <2>2, <2>3 DEF KeyInv
<1>5. CASE key.state = "IDLE"
  <2>1. key' = IF ~key.irq THEN key
               ELSE IF task.level
               THEN [key EXCEPT !.irq = FALSE, !.debounce = now, !.state = "DEBOUNCE"]
               ELSE [key EXCEPT !.irq = FALSE]
    BY <1>1, <1>5 DEF NextState
  <2>2. /\ key'.pwr = key.pwr /\ key'.bl = key.bl /\ key'.state \in {"IDLE", "DEBOUNCE"}
        /\ key' \in Keys
    BY <1>2, <1>3, <1>5, <2>1
  <2>3. ~hold'.switched
    BY <1>1, <1>3, <1>5, <2>2
  <2> QED
    BY <1>4, <2>2, <2>3 DEF OneThing
<1>6. CASE key.state = "DEBOUNCE"
  <2>1. key' = IF Since(now, key.debounce) < DEBOUNCE_TIME_MS THEN key
               ELSE IF pressed THEN [key EXCEPT !.down = now, !.state = "PRESSED"]
               ELSE [key EXCEPT !.state = "IDLE"]
    BY <1>1, <1>6 DEF NextState
  <2>2. /\ key'.pwr = key.pwr /\ key'.bl = key.bl
        /\ key'.state \in {"IDLE", "DEBOUNCE", "PRESSED"}
        /\ key'.state = "PRESSED" => pressed /\ key'.down = Stamp(begun)
        /\ key' \in Keys
    BY <1>2, <1>3, <1>6, <2>1
  <2>3. ~hold'.switched
    BY <1>1, <1>3, <1>6, <2>2
  <2>4. ASSUME key'.state = "PRESSED"
        PROVE  hold'.since # NotHeld /\ \E d \in hold'.since..tick : key'.down = Stamp(d)
    <3>1. hold'.since = since
      BY <1>1, <1>6, <2>2, <2>4
    <3>2. begun \in since..tick
      BY <1>2
    <3> QED
      BY <1>2, <2>2, <2>4, <3>1, <3>2
  <2> QED
    BY <1>4, <2>2, <2>3, <2>4 DEF OneThing
<1>7. CASE key.state = "PRESSED"
  <2>1. key' = IF ~pressed THEN [key EXCEPT !.bl = ~key.bl, !.state = "IDLE"]
               ELSE IF Since(now, key.down) >= LONG_PRESS_TIME_MS
               THEN [key EXCEPT !.pwr = ~key.pwr, !.state = "LONG_DONE"]
               ELSE key
    BY <1>1, <1>7 DEF NextState
  <2>2. /\ ~hold.switched /\ hold.since # NotHeld /\ hold.since = since
    BY <1>3, <1>7 DEF KeyInv, Held, since
  <2>3. PICK d \in since..begun : key.down = Stamp(d)
    BY <1>1, <1>2, <1>7, <2>2 DEF KeyInv, Held, begun
  <2>4. CASE ~pressed
    <3>1. /\ key'.pwr = key.pwr /\ key'.state = "IDLE"
          /\ key' \in Keys
      BY <1>3, <2>1, <2>4
    <3>2. ~hold'.switched
      BY <1>1, <1>7, <2>4
    <3> QED
      BY <1>4, <2>2, <3>1, <3>2 DEF OneThing
  <2>5. CASE pressed /\ Since(now, key.down) >= LONG_PRESS_TIME_MS
    <3>1. /\ key'.bl = key.bl /\ key'.state = "LONG_DONE"
          /\ key' \in Keys
      BY <1>3, <2>1, <2>5
    <3>2. begun - hold.since >= LONG_PRESS_TIME_MS
      <4>1. d \in Nat /\ d <= begun /\ since <= d
        BY <1>2
      <4>2. Since(Stamp(begun), Stamp(d)) <= begun - d
        BY <1>2, <4>1, SinceBound
      <4>3. Since(Stamp(begun), Stamp(d)) \in Int
        BY <1>2, <4>1, StampType, KeyAssumption DEF Since, KeyAssumption
      <4>4. Since(Stamp(begun), Stamp(d)) >= LONG_PRESS_TIME_MS
        BY <1>2, <2>3, <2>5
      <4> QED
        BY <1>2, <2>2, <4>1, <4>2, <4>3, <4>4, KeyAssumption DEF KeyAssumption
    <3>3. OneThing
      BY <2>2, <3>1, <3>2 DEF OneThing, begun
    <3> QED
      BY <1>4, <3>1, <3>3
  <2>6. CASE pressed /\ ~(Since(now, key.down) >= LONG_PRESS_TIME_MS)
    <3>1. key' = key
      BY <2>1, <2>6
    <3>2. hold'.since = since /\ ~hold'.switched
      BY <1>1, <1>7, <2>2, <2>6, <3>1
    <3>3. d \in since..tick
      BY <1>2
    <3> QED
      BY <1>2, <1>3, <1>4, <2>3, <3>1, <3>2, <3>3 DEF OneThing
  <2> QED
    BY <2>4, <2>5, <2>6
<1>8. CASE key.state = "LONG_DONE"
  <2>1. key' = IF pressed THEN key ELSE [key EXCEPT !.state = "IDLE"]
    BY <1>1, <1>8 DEF NextState
  <2>2. /\ key'.pwr = key.pwr /\ key'.bl = key.bl /\ key'.state \in {"IDLE", "LONG_DONE"}
        /\ key'.state = "IDLE" => ~pressed
        /\ key' \in Keys
    BY <1>3, <1>8, <2>1
  <2>3. hold'.switched => key'.state = "LONG_DONE"
    BY <1>1, <1>8, <2>2
  <2> QED
    BY <1>4, <2>2, <2>3 DEF OneThing
<1> QED
  BY <1>3, <1>5, <1>6, <1>7, <1>8

\* At first nothing is held.
LEMMA KeyInitInv == KeyInit => KeyInv
  BY KeyAssumption DEF KeyInit, KeyInv, KeyShape, Keys, Held, KeyAssumption

\* Every step keeps the invariant, and switches as OneThingPerPress allows.
LEMMA KeyStep == KeyInv /\ [KeyNext]_keyVars => KeyInv' /\ [OneThing]_keyVars
<1> SUFFICES ASSUME KeyInv, [KeyNext]_keyVars PROVE KeyInv' /\ [OneThing]_keyVars
  OBVIOUS
<1>1. CASE UNCHANGED keyVars
  BY <1>1 DEF keyVars, KeyInv, KeyShape, Held, Stamp
<1> QED
  BY <1>1, KeyOtherStep, KeyActsStep DEF KeyNext

\* However the edges bounce between the task's looks at the pin, and over a wrap of the
\* tick, a press switches the power once at most, after it has lasted as long as a long
\* press, or else the backlight.
THEOREM KeyOneThing == KeySpec => OneThingPerPress
<1>1. KeySpec => []KeyInv
  BY KeyInitInv, KeyStep, PTL DEF KeySpec
<1>2. OneThingPerPress <=> [][OneThing]_keyVars
  BY DEF OneThingPerPress, OneThing
<1> QED
  BY <1>1, <1>2, KeyStep, PTL DEF KeySpec

------------------------------------------------------------------------------
(* Types of the control side *)

Bytes == 0..255
Termios(t) == t = [rate |-> t.rate, format |-> t.format, crtscts |-> t.crtscts,
                   clocal |-> t.clocal]
Unit(u) == u = [divisor |-> u.divisor, format |-> u.format, outputs |-> u.outputs,
                breaking |-> u.breaking]

\* What a thread that sets something carries.
Job == [at : {"idle", "line", "control", "send", "encode"}, alone : BOOLEAN, fine : BOOLEAN,
        b0 : BOOLEAN, send : SUBSET Outputs, rate : Nat, was : Int, div : Bytes \X Bytes]

\* The types with those of all that gets into them.
ControlTypes ==
  /\ Termios(termios) /\ termios.rate \in Nat
  /\ ctl.ctrlout \subseteq Outputs
  /\ ctl.ctrlin \subseteq Modem
  /\ ctl.rate \in Nat
  /\ Unit(unit) /\ unit.outputs \subseteq Outputs /\ unit.divisor \in Bytes \X Bytes
  /\ job \in [Jobs -> Job]
  /\ waiter = [at |-> waiter.at, asked |-> waiter.asked]
  /\ waiter.at \in {"idle", "look", "queue", "asleep", "woken"}
  /\ calls \in 0..MaxCalls

\* A divisor is two bytes for every rate but 0, which is never asked for.
LEMMA DivisorType ==
  ASSUME NEW type, NEW bval \in Nat \ {0}
  PROVE  Divisor(type, bval) \subseteq Bytes \X Bytes
<1> DEFINE b == Prescaler(bval)
           c == Base(b)
           a == (c \div bval) % 256
           below == c \div (a + 1)
           near == IF below <= bval /\ c \div a - bval > bval - below THEN a + 1 ELSE a
<1>1. b \in {0, 1, 2, 3, 7}
  BY DEF Prescaler
<1>2. c \in Nat
  BY <1>1 DEF Base
<1>3. ASSUME NEW x \in Int PROVE x % 256 \in Bytes
  BY DEF Bytes
<1>4. a \in Bytes
  <2>1. c \div bval \in Int
    BY <1>2
  <2>2. QED
    BY <1>3, <2>1
<1>5. near \in {a, a + 1}
  OBVIOUS
<1> HIDE DEF b, c, a, near
<1>6. (256 - near) % 256 \in Bytes
  <2>1. 256 - near \in Int
    BY <1>4, <1>5 DEF Bytes
  <2>2. QED
    BY <1>3, <2>1
<1>7. /\ ((bval + 500000) \div 1000000 - 13) % 256 \in Bytes
      /\ (bval \div 200) % 256 \in Bytes
      /\ ((bval \div 200) \div 256) % 256 \in Bytes
  BY <1>3
<1>8. 255 \in Bytes /\ b \in Bytes
  BY <1>1 DEF Bytes
<1>9. \/ Divisor(type, bval) = {<<((bval + 500000) \div 1000000 - 13) % 256, 255>>}
      \/ Divisor(type, bval) = {<<(bval \div 200) % 256, ((bval \div 200) \div 256) % 256>>}
      \/ Divisor(type, bval) \subseteq {<<(256 - near) % 256, b>>}
  BY SMT DEF Divisor, b, c, a, near
<1>10. QED
  BY <1>6, <1>7, <1>8, <1>9

LEMMA ControlInitTypes == ControlInit => ControlTypes
<1> SUFFICES ASSUME ControlInit PROVE ControlTypes
  OBVIOUS
<1>1. resting \in Job
  BY DEF resting, Job, Bytes, NoOld
<1>2. QED
  BY <1>1, ControlAssumption
     DEF ControlInit, ControlTypes, Termios, Unit, Bytes, ControlAssumption

\* A job that starts, or ends, or goes on, with what it carries.
LEMMA JobTypes ==
  ASSUME ControlTypes, NEW j \in Jobs, NEW t
  PROVE  /\ Disturbed \in [Jobs -> Job]
         /\ t \in Job /\ StartJob(j, t) => job' \in [Jobs -> Job]
         /\ t \in Job /\ job' = [job EXCEPT ![j] = t] => job' \in [Jobs -> Job]
         /\ resting \in Job
<1>1. Disturbed \in [Jobs -> Job]
  <2>1. ASSUME NEW k \in Jobs PROVE [job[k] EXCEPT !.alone = job[k].at = "idle"] \in Job
    <3>1. job[k] \in Job
      BY DEF ControlTypes
    <3>2. QED
      BY <3>1 DEF Job
  <2>2. QED
    BY <2>1 DEF Disturbed
<1>2. ASSUME t \in Job, StartJob(j, t) PROVE job' \in [Jobs -> Job]
  <2> DEFINE e == [t EXCEPT !.alone = \A o \in Jobs \ {j} : job[o].at = "idle",
                            !.fine = unit.outputs = ctl.ctrlout]
  <2>1. e \in Job
    <3>1. ASSUME NEW x \in BOOLEAN, NEW y \in BOOLEAN
          PROVE  [t EXCEPT !.alone = x, !.fine = y] \in Job
      BY <1>2 DEF Job
    <3>2. QED
      BY <3>1
  <2>2. job' = [Disturbed EXCEPT ![j] = e]
    BY <1>2 DEF StartJob
  <2> HIDE DEF e
  <2>3. QED
    BY <1>1, <2>1, <2>2
<1>3. ASSUME t \in Job, job' = [job EXCEPT ![j] = t] PROVE job' \in [Jobs -> Job]
  BY <1>3 DEF ControlTypes
<1>4. resting \in Job
  BY DEF resting, Job, Bytes, NoOld
<1>5. QED
  BY <1>1, <1>2, <1>3, <1>4

\* What a termios is set to, and a rate that is not 0 for its divisor.
LEMMA BeginTypes ==
  ASSUME ControlTypes, NEW j \in Jobs, NEW new, Termios(new), new.rate \in Nat,
         BeginTermios(j, new)
  PROVE  ControlTypes'
<1> DEFINE bval == IF new.rate = 0 THEN 9600 ELSE new.rate
           got == ch343_get(chip.type, bval)
<1>1. /\ termios' = new /\ GetsDivisor(j, new) /\ calls < MaxCalls /\ calls' = calls + 1
      /\ UNCHANGED <<ctl, unit, waiter>>
  BY DEF BeginTermios, Calling
<1>2. bval \in Nat \ {0}
  OBVIOUS
<1>3. ASSUME NEW d \in got \ {Failed} PROVE d \in Bytes \X Bytes
  BY <1>2, <1>3, DivisorType DEF ch343_get
<1>4. job' \in [Jobs -> Job]
  <2>1. job' = Disturbed \/ \E d \in got \ {Failed} : StartJob(j, LineJob(j, bval, d))
    BY <1>1 DEF GetsDivisor
  <2> DEFINE was == IF j = "open" THEN NoOld ELSE termios.rate
  <2>2. was \in Int /\ ctl.ctrlout \in SUBSET Outputs /\ resting \in Job
    BY JobTypes DEF NoOld, ControlTypes
  <2>3. ASSUME NEW d \in got \ {Failed} PROVE LineJob(j, bval, d) \in Job
    <3>1. bval \in Nat /\ d \in Bytes \X Bytes
      BY <1>2, <1>3
    <3>2. LineJob(j, bval, d) = [resting EXCEPT !.at = "line", !.send = ctl.ctrlout,
                                                !.rate = bval, !.div = d, !.was = was]
      BY DEF LineJob
    <3> HIDE DEF bval, got, was
    <3>3. QED
      BY <2>2, <3>1, <3>2 DEF Job
  <2>4. QED
    BY <2>1, <2>3, JobTypes
<1>5. calls' \in 0..MaxCalls
  BY <1>1, ControlAssumption DEF ControlTypes, ControlAssumption
<1>6. QED
  BY <1>1, <1>4, <1>5 DEF ControlTypes, Termios, Unit

\* A transfer that sets the outputs, or a job for it.
LEMMA OutputsTypes ==
  ASSUME ControlTypes, ControlShape, tiocmset \/ port_dtr_rts
  PROVE  ControlTypes'
<1>1. PICK j \in Jobs, new \in SUBSET Outputs : SetOutputs(j, new)
  <2>1. CASE tiocmset
    BY <2>1 DEF tiocmset, ControlTypes, Outputs, Jobs
  <2>2. CASE port_dtr_rts
    BY <2>2 DEF port_dtr_rts, ControlTypes, Outputs, Jobs
  <2>3. QED
    BY <2>1, <2>2
<1>2. ctl'.ctrlout = new /\ ctl'.ctrlin = ctl.ctrlin /\ ctl'.rate = ctl.rate
  BY <1>1 DEF SetOutputs, ControlShape
<1>3. job' \in [Jobs -> Job]
  <2> DEFINE t == [resting EXCEPT !.at = "send", !.send = new]
  <2>1. t \in Job
    <3>1. resting \in Job
      BY JobTypes
    <3>2. QED
      BY <3>1 DEF Job
  <2>2. StartJob(j, t)
    BY <1>1 DEF SetOutputs
  <2> HIDE DEF t
  <2>3. QED
    BY <2>1, <2>2, JobTypes
<1>4. calls' \in 0..MaxCalls /\ UNCHANGED <<termios, unit, waiter>>
  BY ControlAssumption DEF tiocmset, port_dtr_rts, Calling, ControlTypes, ControlAssumption
<1>5. QED
  BY <1>2, <1>3, <1>4 DEF ControlTypes, Termios, Unit

\* The transfers of a job.
LEMMA TransferTypes ==
  ASSUME ControlTypes, ControlShape, NEW j \in Jobs,
         TransferLine(j) \/ SetLine(j) \/ EncodeRate(j) \/ ch343_set_control(j)
  PROVE  ControlTypes'
<1>0. job[j] \in Job /\ job[j].rate \in Nat /\ job[j].send \subseteq Outputs
      /\ job[j].div \in Bytes \X Bytes /\ UNCHANGED <<waiter, calls>>
  BY DEF ControlTypes, Job, TransferLine, SetLine, EncodeRate, ch343_set_control
<1>1. CASE TransferLine(j)
  <2>1. PICK ok \in BOOLEAN, rate \in {ctl.rate, job[j].rate}, send \in SUBSET Outputs,
             b0 \in BOOLEAN :
          /\ unit' = IF ok THEN [unit EXCEPT !.divisor = job[j].div, !.format = termios.format]
                     ELSE unit
          /\ job' = [job EXCEPT ![j] = [job[j] EXCEPT !.at = "control", !.fine = job[j].fine /\ ok,
                                                      !.b0 = b0, !.rate = rate, !.send = send]]
    <3> DEFINE b0 == termios.rate = 0
               pair == {"DTR", "RTS"}
               rate == IF b0 THEN ctl.rate ELSE job[j].rate
               send == IF b0 THEN job[j].send \ pair
                       ELSE IF job[j].was = 0 THEN job[j].send \cup pair ELSE job[j].send
    <3>1. b0 \in BOOLEAN /\ rate \in {ctl.rate, job[j].rate} /\ send \in SUBSET Outputs
      BY <1>0 DEF Outputs
    <3>2. PICK ok \in {TRUE, FALSE} \ {gone} :
            /\ unit' = IF ok THEN [unit EXCEPT !.divisor = job[j].div, !.format = termios.format]
                       ELSE unit
            /\ job' = [job EXCEPT ![j] =
                         [job[j] EXCEPT !.at = "control", !.fine = job[j].fine /\ ok,
                                        !.b0 = b0, !.rate = rate, !.send = send]]
      BY <1>1 DEF TransferLine
    <3> HIDE DEF b0, rate, send
    <3>3. QED
      BY <3>1, <3>2
  <2>2. UNCHANGED termios /\ ctl' = [ctl EXCEPT !.clocal = termios.clocal]
    BY <1>1 DEF TransferLine
  <2>3. Unit(unit') /\ unit'.outputs = unit.outputs /\ unit'.divisor \in {unit.divisor, job[j].div}
    BY <2>1 DEF ControlTypes, Unit
  <2>4. ctl'.ctrlout = ctl.ctrlout /\ ctl'.ctrlin = ctl.ctrlin /\ ctl'.rate = ctl.rate
    BY <2>2 DEF ControlShape
  <2>5. job' \in [Jobs -> Job]
    <3> DEFINE t == [job[j] EXCEPT !.at = "control", !.fine = job[j].fine /\ ok,
                                   !.b0 = b0, !.rate = rate, !.send = send]
    <3>1. rate \in Nat /\ (job[j].fine /\ ok) \in BOOLEAN
      BY <1>0 DEF ControlTypes
    <3>2. t \in Job
      BY <1>0, <3>1 DEF Job
    <3> HIDE DEF t
    <3>3. QED
      BY <2>1, <3>2, JobTypes DEF t
  <2>6. QED
    BY <1>0, <2>2, <2>3, <2>4, <2>5 DEF ControlTypes, Termios, Unit
<1>2. CASE SetLine(j)
  <2>1. PICK new \in SUBSET Outputs, at \in {"encode", "send"} :
          /\ ctl' = [ctl EXCEPT !.rate = job[j].rate, !.ctrlout = new]
          /\ job' = [job EXCEPT ![j] = [job[j] EXCEPT !.send = new, !.at = at]]
          /\ UNCHANGED <<termios, unit>>
    <3> DEFINE new == IF termios.crtscts THEN job[j].send \cup {"AUTO", "RTS"}
                      ELSE job[j].send \ {"AUTO"}
               at == IF new = ctl.ctrlout THEN "encode" ELSE "send"
    <3>1. new \in SUBSET Outputs /\ at \in {"encode", "send"}
      BY <1>0 DEF Outputs
    <3>2. /\ ctl' = [ctl EXCEPT !.rate = job[j].rate, !.ctrlout = new]
          /\ job' = [job EXCEPT ![j] = [job[j] EXCEPT !.send = new, !.at = at]]
          /\ UNCHANGED <<termios, unit>>
      BY <1>2 DEF SetLine
    <3> HIDE DEF new, at
    <3>3. QED
      BY <3>1, <3>2
  <2>2. ctl'.ctrlout = new /\ ctl'.ctrlin = ctl.ctrlin /\ ctl'.rate = job[j].rate
    BY <2>1 DEF ControlShape
  <2>3. [job[j] EXCEPT !.send = new, !.at = at] \in Job
    BY <1>0 DEF Job
  <2>4. job' \in [Jobs -> Job]
    BY <2>1, <2>3, JobTypes
  <2>5. QED
    BY <1>0, <2>1, <2>2, <2>4 DEF ControlTypes, Termios, Unit
<1>3. CASE EncodeRate(j)
  <2>1. /\ termios' = [termios EXCEPT !.rate = job[j].rate]
        /\ job' = [job EXCEPT ![j] = resting]
        /\ UNCHANGED <<ctl, unit>>
    BY <1>3 DEF EncodeRate
  <2>2. Termios(termios') /\ termios'.rate = job[j].rate
    BY <2>1 DEF ControlTypes, Termios
  <2>3. job' \in [Jobs -> Job]
    BY <2>1, JobTypes
  <2>4. QED
    BY <1>0, <2>1, <2>2, <2>3 DEF ControlTypes, Termios, Unit
<1>4. CASE ch343_set_control(j)
  <2>1. PICK ok \in BOOLEAN :
          /\ unit' = IF ok THEN [unit EXCEPT !.outputs = job[j].send] ELSE unit
          /\ job' = [job EXCEPT ![j] =
                       IF j \in Setters THEN [job[j] EXCEPT !.at = "encode", !.fine = @ /\ ok]
                       ELSE resting]
          /\ UNCHANGED <<termios, ctl>>
    BY <1>4 DEF ch343_set_control
  <2>2. /\ Unit(unit') /\ unit'.divisor = unit.divisor
        /\ unit'.outputs \in {unit.outputs, job[j].send}
    BY <2>1 DEF ControlTypes, Unit
  <2>3. [job[j] EXCEPT !.at = "encode", !.fine = @ /\ ok] \in Job
    <3>1. (job[j].fine /\ ok) \in BOOLEAN
      OBVIOUS
    <3>2. QED
      BY <1>0, <3>1 DEF Job
  <2>4. job' \in [Jobs -> Job]
    BY <2>1, <2>3, JobTypes
  <2>5. QED
    BY <1>0, <2>1, <2>2, <2>4 DEF ControlTypes, Termios, Unit
<1>5. QED
  BY <1>1, <1>2, <1>3, <1>4

LEMMA ControlTypesStep ==
  ASSUME ControlTypes, ControlShape, [ControlNext]_controlVars
  PROVE  ControlTypes'
<1>1. CASE TtyOpen
  BY <1>1, BeginTypes DEF TtyOpen, ControlTypes, Jobs, Setters
<1>2. CASE Tcset
  BY <1>2, BeginTypes, ControlAssumption DEF Tcset, ControlAssumption, Termios, Jobs, Setters
<1>3. ASSUME NEW m \in Messages, update_status(m) PROVE ControlTypes'
  <2>1. /\ ctl'.ctrlin \in {Reported(m), ctl.ctrlin} /\ ctl'.ctrlout = ctl.ctrlout
        /\ ctl'.rate = ctl.rate
    BY <1>3 DEF update_status, ControlShape
  <2>2. Reported(m) \subseteq Modem
    BY ControlAssumption DEF Reported, Modem, ControlAssumption
  <2>3. waiter' \in {waiter, [waiter EXCEPT !.at = "woken"]}
    BY <1>3 DEF update_status
  <2>4. calls' \in 0..MaxCalls /\ UNCHANGED <<termios, unit, job>>
    BY <1>3, ControlAssumption DEF update_status, Calling, ControlTypes, ControlAssumption
  <2>5. QED
    BY <2>1, <2>2, <2>3, <2>4 DEF ControlTypes, Termios, Unit
<1>4. CASE TcsetSoft
  <2>1. /\ termios' \in Settings /\ UNCHANGED <<ctl, unit, job, waiter>>
        /\ calls < MaxCalls /\ calls' = calls + 1
    BY <1>4 DEF TcsetSoft, Calling
  <2>2. QED
    BY <2>1, ControlAssumption DEF ControlTypes, Termios, Unit, ControlAssumption
<1>5. CASE break_ctl
  <2>1. PICK state : unit' = [unit EXCEPT !.breaking = state]
    BY <1>5 DEF break_ctl
  <2>2. Unit(unit') /\ unit'.divisor = unit.divisor /\ unit'.outputs = unit.outputs
    BY <2>1 DEF ControlTypes, Unit
  <2>3. calls' \in 0..MaxCalls /\ UNCHANGED <<termios, ctl, job, waiter>>
    BY <1>5, ControlAssumption DEF break_ctl, Calling, ControlTypes, ControlAssumption
  <2>4. QED
    BY <2>2, <2>3 DEF ControlTypes, Termios, Unit
<1>6. CASE MiWait \/ WaitLook \/ WaitSleep \/ WaitWoken \/ Unplugging \/ CountError
  <2>1. \/ \E a, s : /\ s \in {"idle", "look", "queue", "asleep", "woken"}
                     /\ waiter' = [at |-> s, asked |-> a]
        \/ waiter' = waiter
    BY <1>6 DEF MiWait, WaitLook, WaitSleep, WaitWoken, Unplugging, CountError, ControlTypes
  <2>2. /\ ctl'.ctrlin = ctl.ctrlin /\ ctl'.ctrlout = ctl.ctrlout /\ ctl'.rate = ctl.rate
        /\ UNCHANGED <<termios, unit, job>>
    BY <1>6 DEF MiWait, WaitLook, WaitSleep, WaitWoken, Unplugging, CountError, ControlShape
  <2>3. calls' \in 0..MaxCalls
    BY <1>6, ControlAssumption DEF MiWait, WaitLook, WaitSleep, WaitWoken, Unplugging, CountError, Calling,
                                   ControlTypes, ControlAssumption
  <2>4. QED
    BY <2>1, <2>2, <2>3 DEF ControlTypes, Termios, Unit
<1>7. CASE ch343_configure \/ reset_resume \/ UNCHANGED controlVars
  <2>1. calls' \in 0..MaxCalls /\ UNCHANGED <<termios, ctl, unit, job, waiter>>
    BY <1>7, ControlAssumption
     DEF ch343_configure, reset_resume, Calling, ControlTypes, controlVars,
                                   ControlAssumption
  <2>2. QED
    BY <2>1 DEF ControlTypes, Termios, Unit
<1>8. QED
  BY <1>1, <1>2, <1>3, <1>4, <1>5, <1>6, <1>7, OutputsTypes, TransferTypes
     DEF ControlNext, Jobs

\* The types of the control side: the device has had two bytes for its divisor only.
LEMMA ControlKeepsTypes == ControlTypes => ControlTypeOK
  BY DEF ControlTypes, ControlTypeOK, Job, Bytes

------------------------------------------------------------------------------
(* The speed *)

\* Rates of a termios whose best divisor is within 5 %: those with a constant are among
\* them.  Below 46 the quotient is cut to a byte; above 600000 the quotients by small
\* numbers are far apart; and a CH347TF's pairs of bytes from 358401 to 409599 are also
\* those of a prescaler.
Rates ==
  {r \in Nat : \/ 46 <= r /\ r <= 358400
               \/ 409600 <= r /\ r <= 600000
               \/ r \in {921600, 1000000, 1152000, 1500000, 2000000}}
Near(speed, r) == (speed - r) * 20 \in -r..r

\* The quotients by a and by a + 1 lie on both sides of r.
LEMMA Quotients ==
  ASSUME NEW c \in Nat, NEW r \in Nat \ {0}, NEW a \in Nat \ {0}, a = c \div r
  PROVE  /\ c \div a \in Nat /\ c \div (a + 1) \in Nat
         /\ a * r <= c /\ c < a * r + r
         /\ a * (c \div a) <= c /\ c < a * (c \div a) + a
         /\ (a + 1) * (c \div (a + 1)) <= c
         /\ c < (a + 1) * (c \div (a + 1)) + (a + 1)
<1>1. ASSUME NEW n \in Nat \ {0} PROVE c \div n \in Nat /\ n * (c \div n) <= c /\ c < n * (c \div n) + n
  OBVIOUS
<1>2. r * (c \div r) <= c /\ c < r * (c \div r) + r
  BY <1>1
<1>3. a * r = r * (c \div r)
  OBVIOUS
<1>4. a + 1 \in Nat \ {0}
  OBVIOUS
<1>5. QED
  BY <1>1, <1>2, <1>3, <1>4

\* The quotients that ch343_get chooses from.
Choice(c, a, r) ==
  LET low == c \div (a + 1)
      high == c \div a
  IN  /\ low <= r /\ r <= high
      /\ (high - r) * 20 <= r \/ (r - low) * 20 <= r

\* One of them is within 5 % of r when a is not too small.
LEMMA Nearest ==
  ASSUME NEW c \in Nat, NEW r \in Nat \ {0}, NEW a \in Nat \ {0}, a = c \div r,
         \/ a >= 13 /\ r >= 46
         \/ a >= 10 /\ r >= 200
  PROVE  Choice(c, a, r)
<1> DEFINE low == c \div (a + 1)
           high == c \div a
<1>0. /\ low \in Nat /\ high \in Nat
      /\ a * r <= c /\ c < a * r + r
      /\ a * high <= c /\ c < a * high + a
      /\ (a + 1) * low <= c /\ c < (a + 1) * low + (a + 1)
  BY Quotients
<1> HIDE DEF low, high
<1>1. ASSUME NEW x \in Int, NEW y \in Int, x >= 1, y >= 1 PROVE x * y >= y
  <2>1. (x - 1) * y >= 0 /\ x * y = (x - 1) * y + y
    BY <1>1
  <2>2. QED
    BY <2>1
<1>2. r <= high
  <2>1. CASE r > high
    <3>1. a * (r - high) = a * r - a * high
      BY <1>0
    <3>2. a * (r - high) >= a
      BY <1>0, <1>1, <2>1
    <3>3. QED
      BY <1>0, <3>1, <3>2
  <2>2. QED
    BY <1>0, <2>1
<1>3. low <= r
  <2>1. CASE low > r
    <3>1. (a + 1) * low = (a + 1) * r + (a + 1) * (low - r) /\ (a + 1) * r = a * r + r
      BY <1>0
    <3>2. (a + 1) * (low - r) >= a + 1
      BY <1>0, <1>1, <2>1
    <3>3. QED
      BY <1>0, <3>1, <3>2
  <2>2. QED
    BY <1>0, <2>1
<1>4. (high - r) * 20 <= r \/ (r - low) * 20 <= r
  <2> SUFFICES ASSUME (high - r) * 20 > r, (r - low) * 20 > r PROVE FALSE
    BY <1>0
  <2> DEFINE p == high - r
             q == r - low
  <2>0. p \in Int /\ q \in Int /\ high = r + p /\ low = r - q /\ 20 * p >= r + 1 /\ 20 * q >= r + 1
    BY <1>0
  <2> HIDE DEF p, q
  <2>1. a * high = a * r + a * p
    BY <2>0
  <2>2. (a + 1) * low = a * r + r - a * q - q
    BY <2>0
  <2>3. a * p + a * q + q < r + a + 1
    BY <1>0, <2>0, <2>1, <2>2
  <2>4. a * (20 * p) >= a * (r + 1) /\ a * (20 * q) >= a * (r + 1)
    BY <2>0
  <2>5. a * (20 * p) = 20 * (a * p) /\ a * (20 * q) = 20 * (a * q) /\ a * (r + 1) = a * r + a
    BY <2>0
  <2>6. 2 * (a * r) + 2 * a + r + 1 < 20 * r + 20 * a + 20
    BY <2>0, <2>3, <2>4, <2>5
  <2>7. 2 * (a * r) >= 19 * r + 18 * a + 19
    <3>1. CASE a >= 13 /\ r >= 46
      <4>1. (a - 13) * (r - 46) >= 0
        BY <3>1
      <4>2. (a - 13) * (r - 46) = a * r - 46 * a - 13 * r + 598
        OBVIOUS
      <4>3. QED
        BY <3>1, <4>1, <4>2
    <3>2. CASE a >= 10 /\ r >= 200
      <4>1. (a - 10) * (r - 200) >= 0
        BY <3>2
      <4>2. (a - 10) * (r - 200) = a * r - 200 * a - 10 * r + 2000
        OBVIOUS
      <4>3. QED
        BY <3>2, <4>1, <4>2
    <3>3. QED
      BY <3>1, <3>2
  <2>8. QED
    BY <2>6, <2>7
<1>5. QED
  BY <1>2, <1>3, <1>4 DEF low, high, Choice

\* A quotient, from bounds of the divisor.
Bounded(c, x, y, m, n) == m * y <= c /\ c < (n + 1) * x

LEMMA QuotientBounds ==
  ASSUME NEW c \in Nat, NEW r \in Nat \ {0}, NEW x \in Nat, NEW y \in Nat, NEW m \in Nat, NEW n \in Nat,
         x <= r, r <= y, Bounded(c, x, y, m, n)
  PROVE  c \div r \in m..n
<1> USE DEF Bounded
<1> DEFINE a == c \div r
<1>1. a \in Nat /\ r * a <= c /\ c < r * a + r
  OBVIOUS
<1> HIDE DEF a
<1>2. ASSUME a < m PROVE FALSE
  <2>1. (m - a - 1) * r >= 0 /\ (y - r) * m >= 0
    BY <1>1, <1>2
  <2>2. (m - a - 1) * r = m * r - r * a - r /\ (y - r) * m = m * y - m * r
    BY <1>1
  <2>3. QED
    BY <1>1, <2>1, <2>2
<1>3. ASSUME a > n PROVE FALSE
  <2>1. (a - n - 1) * r >= 0 /\ (r - x) * (n + 1) >= 0
    BY <1>1, <1>3
  <2>2. (a - n - 1) * r = r * a - (n + 1) * r /\ (r - x) * (n + 1) = (n + 1) * r - (n + 1) * x
    BY <1>1
  <2>3. QED
    BY <1>1, <2>1, <2>2
<1>4. QED
  BY <1>1, <1>2, <1>3 DEF a

\* The divisor of a prescaler.
Plain(bval) ==
  LET b == Prescaler(bval)
      c == Base(b)
      a == (c \div bval) % 256
      below == c \div (a + 1)
      near == IF below <= bval /\ c \div a - bval > bval - below THEN a + 1 ELSE a
  IN  <<(256 - near) % 256, b>>

LEMMA Choices ==
  ASSUME NEW r \in Rates
  PROVE  LET b == Prescaler(r)
             a == Base(b) \div r
         IN  /\ b \in {0, 1, 2, 3, 7} /\ Base(b) \in Nat
             /\ a \in 3..254 /\ Choice(Base(b), a, r)
<1> DEFINE b == Prescaler(r)
           c == Base(b)
           a == c \div r
<1>1. r \in Nat \ {0} /\ r >= 46
  BY SMT DEF Rates
<1>2. SUFFICES b \in {0, 1, 2, 3, 7} /\ c \in Nat /\ a \in 3..254 /\ Choice(c, a, r)
  OBVIOUS
<1>3. CASE r <= 367
  <2>1. b = 0 /\ c = 11719
    BY <1>1, <1>3, SMT DEF Prescaler, Base
  <2>2. Bounded(11719, 46, 367, 31, 254)
    BY DEF Bounded
  <2>3. a \in 31..254
    <3>1. 11719 \div r \in 31..254
      BY <1>1, <1>3, <2>2, QuotientBounds, SMT
    <3>2. QED
      BY <2>1, <3>1, SMT
  <2> HIDE DEF b, c
  <2>4. QED
    BY <1>1, <1>3, <2>1, <2>3, Nearest, SMT
<1>4. CASE r >= 368 /\ r <= 2941
  <2>1. b = 1 /\ c = 93750
    BY <1>1, <1>4, SMT DEF Prescaler, Base
  <2>2. Bounded(93750, 368, 2941, 31, 254)
    BY DEF Bounded
  <2>3. a \in 31..254
    <3>1. 93750 \div r \in 31..254
      BY <1>1, <1>4, <2>2, QuotientBounds, SMT
    <3>2. QED
      BY <2>1, <3>1, SMT
  <2> HIDE DEF b, c
  <2>4. QED
    BY <1>1, <1>4, <2>1, <2>3, Nearest, SMT
<1>5. CASE r >= 2942 /\ r <= 23529
  <2>1. b = 2 /\ c = 750000
    BY <1>1, <1>5, SMT DEF Prescaler, Base
  <2>2. Bounded(750000, 2942, 23529, 31, 254)
    BY DEF Bounded
  <2>3. a \in 31..254
    <3>1. 750000 \div r \in 31..254
      BY <1>1, <1>5, <2>2, QuotientBounds, SMT
    <3>2. QED
      BY <2>1, <3>1, SMT
  <2> HIDE DEF b, c
  <2>4. QED
    BY <1>1, <1>5, <2>1, <2>3, Nearest, SMT
<1>6. CASE r >= 23530 /\ r <= 600000 /\ r \notin {256000, 307200}
  <2>1. b = 3 /\ c = 6000000
    BY <1>1, <1>6, SMT DEF Prescaler, Base
  <2>2. Bounded(6000000, 23530, 600000, 10, 254)
    BY DEF Bounded
  <2>3. a \in 10..254
    <3>1. 6000000 \div r \in 10..254
      BY <1>1, <1>6, <2>2, QuotientBounds, SMT
    <3>2. QED
      BY <2>1, <3>1, SMT
  <2> HIDE DEF b, c
  <2>4. QED
    BY <1>1, <1>6, <2>1, <2>3, Nearest, SMT
<1>7. CASE r \in {256000, 307200, 921600}
  <2>1. b = 7 /\ c = 12000000
    BY <1>7, SMT DEF Prescaler, Base
  <2>2. a \in 13..46
    BY <1>7, <2>1, SMT
  <2>3. QED
    BY <1>1, <2>1, <2>2, Nearest, SMT
<1>8. CASE r \in {1000000, 1152000, 1500000, 2000000}
  <2>1. b = 3 /\ c = 6000000
    BY <1>8, SMT DEF Prescaler, Base
  <2>2. a \in 3..6 /\ Choice(c, a, r)
    BY <1>8, <2>1, SMT DEF Choice
  <2>3. QED
    BY <2>1, <2>2
<1>9. QED
  BY <1>1, <1>3, <1>4, <1>5, <1>6, <1>7, <1>8, SMT DEF Rates

\* The speed of the divisor of a prescaler.
LEMMA PlainNear ==
  ASSUME NEW r \in Rates
  PROVE  Near(Speed(Plain(r)), r)
<1> DEFINE b == Prescaler(r)
           c == Base(b)
           a == c \div r
           low == c \div (a + 1)
           high == c \div a
           n == IF low <= r /\ high - r > r - low THEN a + 1 ELSE a
<1>1. /\ r \in Nat
      /\ b \in {0, 1, 2, 3, 7} /\ c \in Nat /\ a \in 3..254 /\ Choice(c, a, r)
  BY Choices, SMT DEF Rates
<1>2. a % 256 = a
  <2> HIDE DEF a
  <2>1. QED
    BY <1>1
<1>3. Plain(r) = <<(256 - n) % 256, b>>
  BY <1>2 DEF Plain
<1> HIDE DEF a, b, c
<1>4. low \in Nat /\ high \in Nat
  BY <1>1
<1>5. n \in 3..255 /\ c \div n \in {low, high} /\ Near(c \div n, r)
  <2>1. CASE low <= r /\ high - r > r - low
    BY <1>1, <1>4, <2>1 DEF Choice, Near
  <2>2. CASE ~(low <= r /\ high - r > r - low)
    BY <1>1, <1>4, <2>2 DEF Choice, Near
  <2>3. QED
    BY <2>1, <2>2
<1> HIDE DEF n
<1>6. (256 - n) % 256 = 256 - n /\ 256 - (256 - n) = n
  BY <1>5
<1>7. Speed(Plain(r)) = c \div n
  BY <1>1, <1>3, <1>6, SMT DEF Speed, c
<1>8. QED
  BY <1>5, <1>7

\* The speed of every divisor that ch343_get gives.
LEMMA DivisorNear ==
  ASSUME NEW type, NEW r \in Rates, NEW d \in Divisor(type, r)
  PROVE  Near(Speed(d), r)
<1>1. r \in Nat \ {0} /\ r <= 2000000
  BY SMT DEF Rates
<1>2. \/ d = <<(r \div 200) % 256, ((r \div 200) \div 256) % 256>>
         /\ (r = 2000000 \/ r >= 409600)
      \/ d = Plain(r)
  <2>1. CASE (type \in Fast /\ r >= 2000000) \/ (type = "CH347TF" /\ r > 358400)
    <3>1. d = <<(r \div 200) % 256, ((r \div 200) \div 256) % 256>>
      BY <1>1, <2>1, SMT DEF Divisor
    <3>2. r = 2000000 \/ r >= 409600
      BY <1>1, <2>1, SMT DEF Rates
    <3>3. QED
      BY <3>1, <3>2
  <2>2. CASE ~((type \in Fast /\ r >= 2000000) \/ (type = "CH347TF" /\ r > 358400))
    BY <1>1, <2>2, SMT DEF Divisor, Plain
  <2>3. QED
    BY <2>1, <2>2
<1>3. CASE d = <<(r \div 200) % 256, ((r \div 200) \div 256) % 256>>
           /\ (r = 2000000 \/ r >= 409600)
  <2> DEFINE q == r \div 200
  <2>1. /\ q \in 2048..10000 /\ 200 * q <= r /\ r < 200 * q + 200
    BY <1>1, <1>3, SMT
  <2> HIDE DEF q
  <2>2. /\ q \div 256 \in 8..39 /\ (q \div 256) % 256 = q \div 256
        /\ (q % 256) + 256 * (q \div 256) = q
    <3>1. q \in Nat /\ 2048 <= q /\ q <= 10000
      BY <2>1
    <3>2. /\ q \div 256 \in Int /\ q = 256 * (q \div 256) + (q % 256)
          /\ 0 <= q % 256 /\ q % 256 < 256
      BY <3>1, SMT
    <3>3. q \div 256 \in 8..39
      BY <3>1, <3>2
    <3>4. (q \div 256) % 256 = q \div 256
      BY <3>3
    <3>5. QED
      BY <3>1, <3>2, <3>3, <3>4
  <2>3. Speed(d) = q * 200
    BY <1>3, <2>1, <2>2, SMT DEF Speed, q
  <2>4. QED
    BY <1>1, <1>3, <2>1, <2>3, SMT DEF Near
<1>4. QED
  BY <1>2, <1>3, PlainNear

------------------------------------------------------------------------------
(* What a set_termios leaves *)

\* A termios may ask for more than 2 MBd, or for B0; otherwise its rate is one of Rates.
Usual(r) == r <= 2000000 => r \in Rates \cup {0}
UsualSettings == \A t \in Settings : Usual(t.rate)

Good(t) == t.rate <= 2000000 => Near(Speed(t.div), t.rate)

UsualRates == Usual(termios.rate) /\ Usual(ctl.rate) /\ \A j \in Jobs : Usual(job[j].rate)

\* How far a set_termios is that nobody else interfered with.
Agreed(j) ==
  LET t == job[j]
  IN  /\ \A o \in Jobs \ {j} : job[o].at = "idle"
      /\ t.at # "send" => unit.outputs = ctl.ctrlout
      /\ (t.b0 /\ t.at # "line") \/ Good(t)
      /\ t.at # "line" => /\ unit.divisor = t.div
                          /\ unit.format = termios.format
                          /\ t.b0 => "DTR" \notin t.send
      /\ t.at \in {"send", "encode"} => /\ t.send = ctl.ctrlout
                                        /\ termios.crtscts <=> "AUTO" \in t.send

Undisturbed(t) == t.at # "idle" /\ t.alone /\ t.fine

AgreeInv == UsualRates /\ \A j \in Setters : Undisturbed(job[j]) => Agreed(j)

\* What AgreeInv does not look at may change.
LEMMA AgreeKeeps ==
  ASSUME AgreeInv, UNCHANGED job,
         unit'.outputs = unit.outputs, unit'.divisor = unit.divisor, unit'.format = unit.format,
         ctl'.ctrlout = ctl.ctrlout, ctl'.rate = ctl.rate,
         termios'.rate = termios.rate, termios'.format = termios.format,
         termios'.crtscts = termios.crtscts
  PROVE  AgreeInv'
  BY DEF AgreeInv, UsualRates, Agreed, Undisturbed

\* Whoever was at work when another started is not alone.
LEMMA DisturbedAll ==
  ASSUME ControlTypes, NEW k \in Jobs
  PROVE  /\ Disturbed[k].at = job[k].at /\ Disturbed[k].rate = job[k].rate
         /\ Disturbed[k].alone <=> job[k].at = "idle"
<1>1. job[k] \in Job
  BY DEF ControlTypes
<1>2. QED
  BY <1>1 DEF Disturbed, Job

\* A job that starts is the only one that may be undisturbed.
LEMMA AgreeStarts ==
  ASSUME AgreeInv, ControlTypes, NEW j \in Jobs, NEW t \in Job,
         job' = Disturbed \/ StartJob(j, t),
         Usual(termios'.rate), ctl'.rate = ctl.rate, Usual(t.rate),
         /\ j \in Setters
         /\ \A o \in Jobs \ {j} : job'[o].at = "idle"
         /\ job'[j] = [t EXCEPT !.alone = job'[j].alone, !.fine = job'[j].fine]
         /\ unit.outputs = ctl.ctrlout
         => Agreed(j)'
  PROVE  AgreeInv'
<1> DEFINE e == [t EXCEPT !.alone = \A o \in Jobs \ {j} : job[o].at = "idle",
                          !.fine = unit.outputs = ctl.ctrlout]
<1>1. ASSUME NEW x \in BOOLEAN, NEW y \in BOOLEAN
      PROVE  /\ [t EXCEPT !.alone = x, !.fine = y].at = t.at
             /\ [t EXCEPT !.alone = x, !.fine = y].rate = t.rate
             /\ [t EXCEPT !.alone = x, !.fine = y].alone = x
             /\ [t EXCEPT !.alone = x, !.fine = y].fine = y
  BY DEF Job
<1>2. /\ e.rate = t.rate
      /\ e.alone <=> \A o \in Jobs \ {j} : job[o].at = "idle"
      /\ e.fine <=> unit.outputs = ctl.ctrlout
      /\ e = [t EXCEPT !.alone = e.alone, !.fine = e.fine]
  BY <1>1
<1>3. job' = Disturbed \/ job' = [Disturbed EXCEPT ![j] = e]
  BY DEF StartJob
<1> HIDE DEF e
<1>4. ASSUME NEW k \in Jobs
      PROVE  /\ Usual(job'[k].rate)
             /\ job'[k].at # "idle" /\ job'[k].alone => k = j /\ job'[k] = e
             /\ k # j => job'[k].at = job[k].at
  <2>1. Disturbed \in [Jobs -> Job]
    BY JobTypes
  <2>2. job'[k] = Disturbed[k] \/ (k = j /\ job'[k] = e)
    BY <1>3, <2>1
  <2>3. QED
    BY <1>2, <2>2, DisturbedAll DEF AgreeInv, UsualRates
<1>5. ASSUME NEW k \in Setters, Undisturbed(job'[k]) PROVE Agreed(k)'
  <2>1. k \in Jobs
    BY DEF Jobs
  <2>2. k = j /\ job'[j] = e
    BY <1>4, <1>5, <2>1 DEF Undisturbed
  <2>3. e.alone /\ e.fine
    BY <1>5, <2>2 DEF Undisturbed
  <2>4. \A o \in Jobs \ {j} : job'[o].at = "idle"
    BY <1>2, <1>4, <2>3
  <2>5. QED
    BY <1>2, <2>2, <2>3, <2>4
<1>6. QED
  BY <1>4, <1>5 DEF AgreeInv, UsualRates, Undisturbed

\* While one job goes on that is not idle, no other is undisturbed.
LEMMA AgreeMoves ==
  ASSUME AgreeInv, ControlTypes, NEW j \in Jobs, job[j].at # "idle", NEW t,
         job' = [job EXCEPT ![j] = t],
         Usual(termios'.rate), Usual(ctl'.rate), Usual(t.rate),
         j \in Setters /\ Undisturbed(t) => Agreed(j)'
  PROVE  AgreeInv'
<1>1. ASSUME NEW k \in Jobs PROVE job'[k] = IF k = j THEN t ELSE job[k]
  BY DEF ControlTypes
<1>2. ASSUME NEW k \in Setters, k # j PROVE ~Undisturbed(job'[k])
  <2>1. k \in Jobs
    BY DEF Jobs
  <2>2. QED
    BY <1>1, <1>2, <2>1 DEF AgreeInv, Agreed
<1>3. Setters \subseteq Jobs
  BY DEF Jobs
<1>4. QED
  BY <1>1, <1>2, <1>3 DEF AgreeInv, UsualRates

LEMMA AgreeBegins ==
  ASSUME AgreeInv, ControlTypes, NEW j \in Setters, NEW new, new.rate \in Nat, Usual(new.rate),
         BeginTermios(j, new)
  PROVE  AgreeInv'
<1> DEFINE bval == IF new.rate = 0 THEN 9600 ELSE new.rate
           got == ch343_get(chip.type, bval)
<1>1. termios' = new /\ GetsDivisor(j, new) /\ UNCHANGED <<ctl, unit>>
  BY DEF BeginTermios
<1>2. bval \in Nat \ {0} /\ (bval <= 2000000 => bval \in Rates)
  <2>1. 9600 \in Rates
    BY SMT DEF Rates
  <2>2. QED
    BY <2>1 DEF Usual
<1>3. j \in Jobs /\ resting \in Job
  BY JobTypes DEF Jobs
<1>4. CASE job' = Disturbed
  <2>1. ASSUME NEW k \in Setters PROVE ~Undisturbed(job'[k])
    <3>1. k \in Jobs
      BY DEF Jobs
    <3>2. QED
      BY <1>4, <3>1, DisturbedAll DEF Undisturbed
  <2>2. UsualRates'
    BY <1>1, <1>4, DisturbedAll DEF AgreeInv, UsualRates
  <2>3. QED
    BY <2>1, <2>2 DEF AgreeInv
<1>5. ASSUME NEW d \in got \ {Failed}, StartJob(j, LineJob(j, bval, d)) PROVE AgreeInv'
  <2> DEFINE was == IF j = "open" THEN NoOld ELSE termios.rate
             t == LineJob(j, bval, d)
  <2>1. d \in Divisor(chip.type, bval)
    BY <1>5 DEF ch343_get
  <2>2. was \in Int /\ ctl.ctrlout \in SUBSET Outputs /\ bval \in Nat /\ d \in Bytes \X Bytes
    BY <1>2, <2>1, DivisorType DEF NoOld, ControlTypes
  <2>3. t = [resting EXCEPT !.at = "line", !.send = ctl.ctrlout,
                            !.rate = bval, !.div = d, !.was = was]
    BY DEF LineJob
  <2>4. bval <= 2000000 => Near(Speed(d), bval)
    BY <1>2, <2>1, DivisorNear
  <2> HIDE DEF bval, got, was
  <2>5. t \in Job /\ t.at = "line" /\ t.rate = bval /\ t.div = d /\ t.b0 = FALSE
    <3> HIDE DEF t
    <3>1. resting.b0 = FALSE
      BY DEF resting
    <3>2. QED
      BY <1>3, <2>2, <2>3, <3>1 DEF Job
  <2> HIDE DEF t
  <2>6. ASSUME NEW x, NEW y
        PROVE  /\ [t EXCEPT !.alone = x, !.fine = y].at = "line"
               /\ [t EXCEPT !.alone = x, !.fine = y].rate = bval
               /\ [t EXCEPT !.alone = x, !.fine = y].div = d
    BY <2>5 DEF Job
  <2>7. ASSUME \A o \in Jobs \ {j} : job'[o].at = "idle",
               job'[j] = [t EXCEPT !.alone = job'[j].alone, !.fine = job'[j].fine],
               unit.outputs = ctl.ctrlout
        PROVE  Agreed(j)'
    <3> DEFINE e == [t EXCEPT !.alone = job'[j].alone, !.fine = job'[j].fine]
    <3>1. e.at = "line" /\ e.rate = bval /\ e.div = d
      BY <2>6
    <3> HIDE DEF e
    <3>2. job'[j] = e
      BY <2>7 DEF e
    <3>3. Good(job'[j])
      BY <2>4, <3>1, <3>2 DEF Good
    <3>4. QED
      BY <1>1, <2>7, <3>1, <3>2, <3>3 DEF Agreed
  <2>8. Usual(t.rate) /\ Usual(termios'.rate)
    BY <1>1, <1>2, <2>5 DEF Usual
  <2>9. job' = Disturbed \/ StartJob(j, t)
    BY <1>5 DEF t
  <2>10. QED
    <3>1. ctl'.rate = ctl.rate
      BY <1>1
    <3>2. QED
      BY <1>3, <2>5, <2>7, <2>8, <2>9, <3>1, AgreeStarts
<1>6. QED
  BY <1>1, <1>4, <1>5 DEF GetsDivisor

\* The transfers of an undisturbed set_termios, one after the other.
LEMMA AgreeTransfers ==
  ASSUME AgreeInv, ControlTypes, ControlShape, NEW j \in Setters,
         TransferLine(j) \/ SetLine(j) \/ EncodeRate(j)
  PROVE  AgreeInv'
<1>1. /\ j \in Jobs /\ job[j] \in Job /\ job[j].at # "idle" /\ job \in [Jobs -> Job]
      /\ Usual(termios.rate) /\ Usual(ctl.rate) /\ Usual(job[j].rate)
  BY DEF Jobs, ControlTypes, AgreeInv, UsualRates, TransferLine, SetLine, EncodeRate
<1>2. CASE TransferLine(j)
  <2> DEFINE b0 == termios.rate = 0
             pair == {"DTR", "RTS"}
             rate == IF b0 THEN ctl.rate ELSE job[j].rate
             send == IF b0 THEN job[j].send \ pair
                     ELSE IF job[j].was = 0 THEN job[j].send \cup pair ELSE job[j].send
  <2>1. PICK ok \in {TRUE, FALSE} \ {gone} :
          /\ unit' = IF ok THEN [unit EXCEPT !.divisor = job[j].div, !.format = termios.format]
                     ELSE unit
          /\ job' = [job EXCEPT ![j] =
                       [job[j] EXCEPT !.at = "control", !.fine = job[j].fine /\ ok,
                                      !.b0 = b0, !.rate = rate, !.send = send]]
    BY <1>2 DEF TransferLine
  <2>2. /\ UNCHANGED termios /\ job[j].at = "line"
        /\ ctl'.ctrlout = ctl.ctrlout /\ ctl'.rate = ctl.rate
    BY <1>2 DEF TransferLine, ControlShape
  <2>3. b0 => "DTR" \notin send
    OBVIOUS
  <2>4. ~b0 => rate = job[j].rate
    OBVIOUS
  <2>5. Usual(rate) /\ b0 \in BOOLEAN
    BY <1>1
  <2> HIDE DEF b0, rate, send
  <2> DEFINE t == [job[j] EXCEPT !.at = "control", !.fine = job[j].fine /\ ok,
                                 !.b0 = b0, !.rate = rate, !.send = send]
  <2>6. /\ t.at = "control" /\ (t.fine <=> job[j].fine /\ ok) /\ (t.b0 <=> b0)
        /\ t.rate = rate /\ t.send = send /\ t.div = job[j].div /\ t.alone = job[j].alone
    BY <1>1 DEF Job
  <2>7. job' = [job EXCEPT ![j] = t]
    BY <2>1
  <2> HIDE DEF t
  <2>8. job'[j] = t /\ \A o \in Jobs \ {j} : job'[o] = job[o]
    BY <1>1, <2>7
  <2>9. ASSUME Undisturbed(t) PROVE Agreed(j)'
    <3>1. Undisturbed(job[j]) /\ ok
      BY <2>2, <2>6, <2>9 DEF Undisturbed
    <3>2. Agreed(j)
      BY <3>1 DEF AgreeInv
    <3>3. unit'.divisor = t.div /\ unit'.format = termios'.format /\ unit'.outputs = unit.outputs
      BY <2>1, <2>2, <2>6, <3>1 DEF ControlTypes, Unit
    <3>4. unit'.outputs = ctl'.ctrlout /\ \A o \in Jobs \ {j} : job'[o].at = "idle"
      BY <2>2, <2>8, <3>2, <3>3 DEF Agreed
    <3>5. t.b0 \/ Good(t)
      <4>1. CASE b0
        BY <2>6, <4>1
      <4>2. CASE ~b0
        <5>1. Good(job[j])
          BY <2>1, <2>2, <3>2, <4>2 DEF Agreed
        <5>2. QED
          BY <2>4, <2>6, <4>2, <5>1 DEF Good
      <4>3. QED
        BY <4>1, <4>2
    <3>6. QED
      BY <2>3, <2>6, <2>8, <3>3, <3>4, <3>5 DEF Agreed
  <2>10. QED
    BY <1>1, <2>2, <2>5, <2>6, <2>7, <2>9, AgreeMoves
<1>3. CASE SetLine(j)
  <2> DEFINE new == IF termios.crtscts THEN job[j].send \cup {"AUTO", "RTS"}
                    ELSE job[j].send \ {"AUTO"}
             at == IF new = ctl.ctrlout THEN "encode" ELSE "send"
             t == [job[j] EXCEPT !.send = new, !.at = at]
  <2>1. /\ ctl' = [ctl EXCEPT !.rate = job[j].rate, !.ctrlout = new]
        /\ job' = [job EXCEPT ![j] = t]
        /\ UNCHANGED <<termios, unit>> /\ job[j].at = "control"
    BY <1>3 DEF SetLine
  <2>2. ctl'.ctrlout = new /\ ctl'.rate = job[j].rate
    BY <2>1 DEF ControlShape
  <2>3. termios.crtscts <=> "AUTO" \in new
    OBVIOUS
  <2>4. "DTR" \in new => "DTR" \in job[j].send
    OBVIOUS
  <2>5. at \in {"encode", "send"} /\ (at = "encode" => new = ctl.ctrlout)
    OBVIOUS
  <2> HIDE DEF new, at
  <2>6. /\ t.at = at /\ t.fine = job[j].fine /\ t.b0 = job[j].b0 /\ t.rate = job[j].rate
        /\ t.send = new /\ t.div = job[j].div /\ t.alone = job[j].alone
    BY <1>1 DEF Job
  <2> HIDE DEF t
  <2>7. job'[j] = t /\ \A o \in Jobs \ {j} : job'[o] = job[o]
    BY <1>1, <2>1
  <2>8. ASSUME Undisturbed(t) PROVE Agreed(j)'
    <3>1. Agreed(j)
      BY <2>1, <2>6, <2>8 DEF AgreeInv, Undisturbed
    <3>2. t.b0 \/ Good(t)
      BY <2>6, <3>1 DEF Agreed, Good
    <3>3. QED
      BY <2>1, <2>2, <2>3, <2>4, <2>5, <2>6, <2>7, <3>1, <3>2 DEF Agreed
  <2>9. QED
    BY <1>1, <2>1, <2>2, <2>6, <2>8, AgreeMoves
<1>4. CASE EncodeRate(j)
  <2>1. /\ termios' = [termios EXCEPT !.rate = job[j].rate]
        /\ job' = [job EXCEPT ![j] = resting] /\ UNCHANGED <<ctl, unit>>
    BY <1>4 DEF EncodeRate
  <2>2. termios'.rate = job[j].rate
    BY <2>1 DEF ControlTypes, Termios
  <2>3. resting.at = "idle" /\ Usual(resting.rate)
    <3>1. resting.rate = 0
      BY DEF resting
    <3>2. QED
      BY <3>1 DEF resting, Usual
  <2>4. QED
    BY <1>1, <2>1, <2>2, <2>3, AgreeMoves DEF Undisturbed
<1>5. QED
  BY <1>2, <1>3, <1>4

\* The transfer of the outputs, of a set_termios or of another call.
LEMMA AgreeControl ==
  ASSUME AgreeInv, ControlTypes, NEW j \in Jobs, ch343_set_control(j)
  PROVE  AgreeInv'
<1>1. /\ job[j] \in Job /\ job[j].at = "send" /\ job \in [Jobs -> Job] /\ UNCHANGED <<termios, ctl>>
      /\ Usual(termios.rate) /\ Usual(ctl.rate) /\ Usual(job[j].rate)
  BY DEF ControlTypes, AgreeInv, UsualRates, ch343_set_control
<1>2. PICK ok \in {TRUE, FALSE} \ {gone} :
        /\ unit' = IF ok THEN [unit EXCEPT !.outputs = job[j].send] ELSE unit
        /\ job' = [job EXCEPT ![j] =
                     IF j \in Setters THEN [job[j] EXCEPT !.at = "encode", !.fine = @ /\ ok]
                     ELSE resting]
  BY DEF ch343_set_control
<1>3. CASE j \in Setters
  <2> DEFINE t == [job[j] EXCEPT !.at = "encode", !.fine = @ /\ ok]
  <2>1. /\ t.at = "encode" /\ (t.fine <=> job[j].fine /\ ok) /\ t.b0 = job[j].b0
        /\ t.rate = job[j].rate /\ t.send = job[j].send /\ t.div = job[j].div
        /\ t.alone = job[j].alone
    BY <1>1 DEF Job
  <2>2. job' = [job EXCEPT ![j] = t]
    BY <1>2, <1>3
  <2> HIDE DEF t
  <2>3. job'[j] = t /\ \A o \in Jobs \ {j} : job'[o] = job[o]
    BY <1>1, <2>2
  <2>4. ASSUME Undisturbed(t) PROVE Agreed(j)'
    <3>1. Agreed(j) /\ ok
      BY <1>1, <1>3, <2>1, <2>4 DEF AgreeInv, Undisturbed
    <3>2. /\ unit'.outputs = job[j].send
          /\ unit'.divisor = unit.divisor /\ unit'.format = unit.format
      BY <1>2, <3>1 DEF ControlTypes, Unit
    <3>3. t.b0 \/ Good(t)
      BY <2>1, <3>1 DEF Agreed, Good
    <3>4. QED
      BY <1>1, <2>1, <2>3, <3>1, <3>2, <3>3 DEF Agreed
  <2>5. QED
    BY <1>1, <2>1, <2>2, <2>4, AgreeMoves
<1>4. CASE j \notin Setters
  <2>1. job' = [job EXCEPT ![j] = resting]
    BY <1>2, <1>4
  <2>2. Usual(resting.rate)
    <3>1. resting.rate = 0
      BY DEF resting
    <3>2. QED
      BY <3>1 DEF Usual
  <2>3. QED
    BY <1>1, <1>4, <2>1, <2>2, AgreeMoves
<1>5. QED
  BY <1>3, <1>4

\* A call that sets the outputs: whoever is in set_termios is disturbed.
LEMMA AgreeOutputs ==
  ASSUME AgreeInv, ControlTypes, ControlShape, tiocmset \/ port_dtr_rts
  PROVE  AgreeInv'
<1>1. PICK j \in Jobs \ Setters, new \in SUBSET Outputs : SetOutputs(j, new)
  <2>1. CASE tiocmset
    BY <2>1 DEF tiocmset, ControlTypes, Outputs, Jobs, Setters
  <2>2. CASE port_dtr_rts
    BY <2>2 DEF port_dtr_rts, ControlTypes, Outputs, Jobs, Setters
  <2>3. QED
    BY <2>1, <2>2
<1>2. UNCHANGED <<termios, unit>> /\ ctl'.rate = ctl.rate
  BY <1>1 DEF tiocmset, port_dtr_rts, SetOutputs, ControlShape
<1> DEFINE t == [resting EXCEPT !.at = "send", !.send = new]
<1>3. t \in Job /\ t.rate = 0
  <2>1. resting \in Job /\ resting.rate = 0
    BY JobTypes DEF resting
  <2>2. QED
    BY <2>1 DEF Job
<1>4. StartJob(j, t)
  BY <1>1 DEF SetOutputs
<1> HIDE DEF t
<1>5. Usual(t.rate) /\ Usual(termios'.rate)
  BY <1>2, <1>3 DEF Usual, AgreeInv, UsualRates
<1>6. j \in Jobs /\ j \notin Setters
  OBVIOUS
<1>7. QED
  BY <1>2, <1>3, <1>4, <1>5, <1>6, AgreeStarts

LEMMA AgreeStep ==
  ASSUME UsualSettings, AgreeInv, ControlTypes, ControlShape, [ControlNext]_controlVars
  PROVE  AgreeInv'
<1>1. CASE TtyOpen
  BY <1>1, AgreeBegins DEF TtyOpen, ControlTypes, Setters, AgreeInv, UsualRates
<1>2. CASE Tcset
  <2>1. PICK new \in Settings : BeginTermios("tcset", new)
    BY <1>2 DEF Tcset
  <2>2. new.rate \in Nat /\ Usual(new.rate)
    BY ControlAssumption DEF ControlAssumption, UsualSettings
  <2>3. QED
    BY <2>1, <2>2, AgreeBegins DEF Setters
<1>3. CASE TcsetSoft
  <2>1. PICK new \in Settings : ~hw_change(new) /\ termios' = new
    BY <1>3 DEF TcsetSoft
  <2>2. UNCHANGED <<ctl, unit, job>>
    BY <1>3 DEF TcsetSoft
  <2>3. QED
    BY <2>1, <2>2, AgreeKeeps DEF hw_change
<1>4. CASE break_ctl
  <2>1. PICK state : unit' = [unit EXCEPT !.breaking = state]
    BY <1>4 DEF break_ctl
  <2>2. /\ unit'.divisor = unit.divisor /\ unit'.outputs = unit.outputs
        /\ unit'.format = unit.format /\ UNCHANGED <<termios, ctl, job>>
    BY <1>4, <2>1 DEF break_ctl, ControlTypes, Unit
  <2>3. QED
    BY <2>2, AgreeKeeps
<1>5. ASSUME NEW m \in Messages, update_status(m) PROVE AgreeInv'
  <2>1. ctl'.ctrlout = ctl.ctrlout /\ ctl'.rate = ctl.rate /\ UNCHANGED <<termios, unit, job>>
    BY <1>5 DEF update_status, ControlShape
  <2>2. QED
    BY <2>1, AgreeKeeps
<1>6. CASE \/ ch343_configure \/ MiWait \/ WaitLook \/ WaitSleep \/ WaitWoken \/ reset_resume
           \/ Unplugging \/ CountError \/ UNCHANGED controlVars
  <2>1. ctl'.ctrlout = ctl.ctrlout /\ ctl'.rate = ctl.rate /\ UNCHANGED <<termios, unit, job>>
    BY <1>6 DEF ch343_configure, MiWait, WaitLook, WaitSleep, WaitWoken, reset_resume, Unplugging,
                CountError, controlVars, ControlShape
  <2>2. QED
    BY <2>1, AgreeKeeps
<1>7. QED
  BY <1>1, <1>2, <1>3, <1>4, <1>5, <1>6, AgreeTransfers, AgreeControl, AgreeOutputs DEF ControlNext

LEMMA AgreeInit == ControlInit => AgreeInv
<1> SUFFICES ASSUME ControlInit PROVE AgreeInv
  OBVIOUS
<1>1. 9600 \in Rates
  BY SMT DEF Rates
<1>2. termios.rate = 9600 /\ ctl.rate = 9600
  BY DEF ControlInit
<1>3. resting.at = "idle" /\ resting.rate = 0
  BY DEF resting
<1>4. ASSUME NEW k \in Jobs PROVE job[k] = resting
  BY DEF ControlInit
<1>5. Setters \subseteq Jobs
  BY DEF Jobs
<1>6. QED
  BY <1>1, <1>2, <1>3, <1>4, <1>5 DEF AgreeInv, UsualRates, Undisturbed, Usual

\* For any chip and any termios, when a set_termios ends that nobody interfered with and
\* whose transfers went well, the device has the rate, format, flow control and outputs
\* that the tty and the driver believe it has.  Assumed is that rates up to 2 MBd are among
\* Rates, as all are that have a constant; the divisors of some others are worse than 5 %.
THEOREM TermiosAgrees ==
  ASSUME UsualSettings
  PROVE  ControlSpec => SetTermiosAgrees
<1> DEFINE Inv == AgreeInv /\ ControlTypes /\ ControlShape
           Left(j) == /\ unit.format = termios.format
                      /\ unit.outputs = ctl.ctrlout
                      /\ termios.crtscts <=> "AUTO" \in unit.outputs
                      /\ IF job[j].b0 THEN "DTR" \notin unit.outputs
                         ELSE termios'.rate <= 2000000 =>
                                LET off == Speed(unit.divisor) - termios'.rate
                                IN  off * 20 \in -termios'.rate..termios'.rate
<1>1. ControlInit => Inv /\ ControlInv
  BY AgreeInit, ControlInitTypes, ControlInitInv DEF ControlInv
<1>2. (Inv /\ ControlInv) /\ [ControlNext]_controlVars => (Inv /\ ControlInv)'
  BY AgreeStep, ControlTypesStep, ControlStep DEF ControlInv
<1>3. ASSUME Inv, NEW j \in Setters, EncodeRate(j), job[j].alone, job[j].fine PROVE Left(j)
  <2>1. job[j].at = "encode" /\ termios' = [termios EXCEPT !.rate = job[j].rate]
    BY <1>3 DEF EncodeRate
  <2>2. Agreed(j) /\ termios'.rate = job[j].rate
    BY <1>3, <2>1 DEF AgreeInv, Undisturbed, ControlTypes, Termios
  <2>3. ~job[j].b0 => (termios'.rate <= 2000000 => Near(Speed(unit.divisor), termios'.rate))
    BY <2>1, <2>2 DEF Agreed, Good
  <2>4. QED
    BY <2>1, <2>2, <2>3 DEF Agreed, Near
<1>4. Inv => [\A j \in Setters :
                EncodeRate(j) /\ job[j].alone /\ job[j].fine => Left(j)]_controlVars
  BY <1>3
<1> HIDE DEF Inv
<1>5. QED
  BY <1>1, <1>2, <1>4, PTL DEF ControlSpec, SetTermiosAgrees

------------------------------------------------------------------------------
(* Types of the Wi-Fi service and of the cellular script *)

Who == [at : {"boot", "scan", "next", "save", "add", "try", "up", "poll", "ap create", "ap add",
              "ap known", "ap up", "sleep", "idle"},
        con : Nets \cup {"none"}, rest : SUBSET Nets]

\* A thread saves the network it was asked for; the monitor that sleeps has not failed
\* too often yet.
WifiInv ==
  /\ active \in Nets \cup {"none", "AP"}
  /\ known \subseteq Nets
  /\ visible \subseteq Nets
  /\ who \in [Actors -> Who]
  /\ \A a \in Actors : who[a].at \in {"save", "add"} => who[a].con \in Nets
  /\ fail \in 0..FAIL_LIMIT
  /\ who["monitor"].at = "sleep" => fail < FAIL_LIMIT
  /\ wifiFaults \in 0..MaxFaults

LEMMA WifiInitInv == WifiInit => WifiInv
  BY WifiAssumption DEF WifiInit, WifiInv, Who, Actors, WifiAssumption

\* One actor goes somewhere, but to save or to sleep only with what that takes.
LEMMA WifiMoves ==
  ASSUME WifiInv, NEW a \in Actors, NEW s, Goes(a, s), [who[a] EXCEPT !.at = s] \in Who,
         s \in {"save", "add"} => who[a].con \in Nets
  PROVE  /\ who' \in [Actors -> Who]
         /\ \A b \in Actors : who'[b].at \in {"save", "add"} => who'[b].con \in Nets
         /\ who'["monitor"].at = IF a = "monitor" THEN s ELSE who["monitor"].at
<1>1. who' = [who EXCEPT ![a] = [who[a] EXCEPT !.at = s]] /\ who[a] \in Who
  BY DEF Goes, WifiInv
<1>2. [who[a] EXCEPT !.at = s].at = s /\ [who[a] EXCEPT !.at = s].con = who[a].con
  BY <1>1 DEF Who
<1>3. "monitor" \in Actors
  BY DEF Actors
<1>4. QED
  BY <1>1, <1>2, <1>3 DEF WifiInv

\* The places an actor goes to.
LEMMA WifiPlaces ==
  ASSUME WifiInv, NEW a \in Actors,
         NEW s \in {"add", "try", "up", "poll", "next", "ap create", "ap add", "ap known",
                    "ap up", "sleep", "scan", "idle"}
  PROVE  [who[a] EXCEPT !.at = s] \in Who /\ s # "save"
<1>1. who[a] \in Who
  BY DEF WifiInv
<1>2. QED
  BY <1>1 DEF Who

LEMMA WifiStepInv == ASSUME WifiInv, NEW a \in Actors, WifiStep(a) PROVE WifiInv'
<1>0. Reachable \subseteq Nets /\ who[a] \in Who
  BY DEF WifiInv, Reachable
<1>1. PICK s \in {"add", "try", "up", "poll", "next", "ap create", "ap add", "ap known", "ap up",
                  "sleep", "idle"} :
        /\ Goes(a, s) /\ (s = "add" => who[a].at = "save")
        /\ s \in {"sleep", "idle"} => fail' = IF a = "monitor" THEN 0 ELSE fail
        /\ s \notin {"sleep", "idle"} => fail' = fail
        /\ a = "monitor" => s # "idle"
        /\ a # "monitor" => s # "sleep"
  BY Zenon DEF WifiStep, SaveDelete, SaveAdd, TryDown, TryUp, PollConnected, PollGivesUp, ApDelete, ApAdd,
               ApKnownDown, ApUp, Goes, At
<1>2. /\ who' \in [Actors -> Who]
      /\ \A b \in Actors : who'[b].at \in {"save", "add"} => who'[b].con \in Nets
      /\ who'["monitor"].at = IF a = "monitor" THEN s ELSE who["monitor"].at
  <2>1. s \in {"save", "add"} => who[a].con \in Nets
    BY <1>1 DEF WifiInv
  <2>2. QED
    BY <1>1, <2>1, WifiPlaces, WifiMoves
<1>3. fail' \in 0..FAIL_LIMIT /\ (who'["monitor"].at = "sleep" => fail' < FAIL_LIMIT)
  <2>1. /\ fail \in 0..FAIL_LIMIT /\ FAIL_LIMIT \in Nat \ {0}
        /\ who["monitor"].at = "sleep" => fail < FAIL_LIMIT
    BY WifiAssumption DEF WifiInv, WifiAssumption
  <2>2. CASE a = "monitor" /\ s = "sleep"
    BY <1>1, <2>1, <2>2
  <2>3. CASE a = "monitor" /\ s # "sleep"
    <3>1. fail' = fail /\ who'["monitor"].at # "sleep"
      BY <1>1, <1>2, <2>3
    <3>2. QED
      BY <2>1, <3>1
  <2>4. CASE a # "monitor"
    <3>1. fail' = fail /\ who'["monitor"].at = who["monitor"].at
      BY <1>1, <1>2, <2>4
    <3>2. QED
      BY <2>1, <3>1
  <2>5. QED
    BY <2>2, <2>3, <2>4
<1>4. visible' = visible /\ wifiFaults' = wifiFaults
  BY DEF WifiStep, SaveDelete, SaveAdd, TryDown, TryUp, PollConnected, PollGivesUp, ApDelete, ApAdd,
         ApKnownDown, ApUp
<1>5. known' \subseteq Nets
  <2>1. \/ known' = known \/ known' = known \ {who[a].con}
        \/ who[a].at = "add" /\ known' = known \cup {who[a].con}
    BY Zenon DEF WifiStep, SaveDelete, SaveAdd, TryDown, TryUp, PollConnected, PollGivesUp,
                 ApDelete, ApAdd, ApKnownDown, ApUp, At
  <2>2. known \subseteq Nets /\ (who[a].at = "add" => who[a].con \in Nets)
    BY DEF WifiInv
  <2>3. QED
    BY <2>1, <2>2
<1>6. active' \in Nets \cup {"none", "AP"}
  BY <1>0 DEF WifiStep, SaveDelete, SaveAdd, TryDown, TryUp, PollConnected, PollGivesUp, ApDelete, ApAdd,
              ApKnownDown, ApUp, Without, WifiInv, At
<1>7. QED
  BY <1>2, <1>3, <1>4, <1>5, <1>6 DEF WifiInv

\* Scans, candidates, and the checks of the monitor.
LEMMA MonitorInv ==
  ASSUME WifiInv, Scan \/ NextCandidate \/ NoCandidate \/ Check
  PROVE  WifiInv'
<1>0. "monitor" \in Actors /\ who["monitor"] \in Who
  BY DEF Actors, WifiInv
<1>1. CASE Scan
  <2>1. PICK rest \in SUBSET Nets :
          who' = [who EXCEPT !["monitor"] = [at |-> "next", con |-> "none", rest |-> rest]]
    BY <1>1 DEF Scan, WifiInv
  <2>2. wifiFaults' \in 0..MaxFaults /\ UNCHANGED <<active, known, visible, fail>>
    BY <1>1, WifiAssumption DEF Scan, WifiInv, WifiAssumption
  <2>3. [at |-> "next", con |-> "none", rest |-> rest] \in Who
    BY DEF Who
  <2>4. QED
    BY <1>0, <2>1, <2>2, <2>3 DEF WifiInv
<1>2. CASE NextCandidate
  <2>1. PICK n \in Nets :
          who' = [who EXCEPT !["monitor"] = [at |-> "try", con |-> n,
                                             rest |-> who["monitor"].rest \ {n}]]
    BY <1>0, <1>2 DEF NextCandidate, Who
  <2>2. [at |-> "try", con |-> n, rest |-> who["monitor"].rest \ {n}] \in Who
    BY <1>0 DEF Who
  <2>3. UNCHANGED <<active, known, visible, fail, wifiFaults>>
    BY <1>2 DEF NextCandidate
  <2>4. QED
    BY <1>0, <2>1, <2>2, <2>3 DEF WifiInv
<1>3. CASE NoCandidate
  <2>1. Goes("monitor", "ap create") /\ UNCHANGED <<active, known, visible, fail, wifiFaults>>
    BY <1>3 DEF NoCandidate
  <2>2. /\ who' \in [Actors -> Who]
        /\ \A b \in Actors : who'[b].at \in {"save", "add"} => who'[b].con \in Nets
        /\ who'["monitor"].at = "ap create"
    BY <1>0, <2>1, WifiPlaces, WifiMoves
  <2>3. QED
    BY <2>1, <2>2 DEF WifiInv
<1>4. CASE Check
  <2>1. /\ who["monitor"].at = "sleep"
        /\ fail' = IF sta_connected THEN 0 ELSE fail + 1
        /\ UNCHANGED <<active, known, visible, wifiFaults>>
    BY <1>4 DEF Check, At
  <2>2. fail' \in 0..FAIL_LIMIT
    BY <2>1, WifiAssumption DEF WifiInv, WifiAssumption
  <2>3. CASE fail' >= FAIL_LIMIT
    <3>1. Goes("monitor", "scan")
      BY <1>4, <2>3 DEF Check
    <3>2. /\ who' \in [Actors -> Who]
          /\ \A b \in Actors : who'[b].at \in {"save", "add"} => who'[b].con \in Nets
          /\ who'["monitor"].at = "scan"
      BY <1>0, <3>1, WifiPlaces, WifiMoves
    <3>3. QED
      BY <2>1, <2>2, <3>2 DEF WifiInv
  <2>4. CASE ~(fail' >= FAIL_LIMIT)
    <3>1. who' = who
      BY <1>4, <2>4 DEF Check
    <3>2. fail' < FAIL_LIMIT
      BY <2>2, <2>4, WifiAssumption DEF WifiAssumption
    <3>3. QED
      BY <2>1, <2>2, <3>1, <3>2 DEF WifiInv
  <2>5. QED
    BY <2>3, <2>4
<1>5. QED
  BY <1>1, <1>2, <1>3, <1>4

\* Requests, commands that take too long, and what NetworkManager does.
LEMMA OutsideInv ==
  ASSUME WifiInv,
         \/ \E a \in Actors : PostConnect(a) \/ CommandExpires(a)
         \/ Autoconnects \/ NetMoves
  PROVE  WifiInv'
<1>0. Reachable \subseteq Nets /\ "monitor" \in Actors
  BY DEF WifiInv, Reachable, Actors
<1>1. ASSUME NEW a \in Actors, PostConnect(a) PROVE WifiInv'
  <2>1. PICK n \in Nets : who' = [who EXCEPT ![a] = [at |-> "save", con |-> n, rest |-> {}]]
    BY <1>1 DEF PostConnect
  <2>2. [at |-> "save", con |-> n, rest |-> {}] \in Who
    BY DEF Who
  <2>3. UNCHANGED <<active, known, visible, fail, wifiFaults>>
    BY <1>1 DEF PostConnect
  <2>4. QED
    BY <1>0, <2>1, <2>2, <2>3 DEF WifiInv
<1>2. ASSUME NEW a \in Actors, CommandExpires(a) PROVE WifiInv'
  <2>1. active' \in Nets \cup {"none", "AP"}
    <3>1. who[a].con \in Reachable => who[a].con \in Nets
      BY <1>0
    <3>2. active' \in {active, who[a].con, "AP", "none"}
          /\ (active' = who[a].con => active' \in {active, "AP", "none"} \cup Reachable)
      BY <1>2, Zenon DEF CommandExpires, Without
    <3>3. QED
      BY <1>0, <3>2 DEF WifiInv
  <2>2. wifiFaults' \in 0..MaxFaults /\ known' \subseteq Nets /\ visible' = visible
    <3>1. wifiFaults < MaxFaults /\ wifiFaults' = wifiFaults + 1 /\ visible' = visible
      BY <1>2, Zenon DEF CommandExpires
    <3>2. \/ known' = known \/ known' = known \ {who[a].con}
          \/ who[a].at = "add" /\ known' = known \cup {who[a].con}
      BY <1>2, Zenon DEF CommandExpires, At
    <3>3. known' \subseteq Nets
      BY <3>2 DEF WifiInv
    <3>4. QED
      BY <3>1, <3>3, WifiAssumption DEF WifiInv, WifiAssumption
  <2>3. CASE a = "monitor"
    <3>1. who' = [b \in Actors |-> [who[b] EXCEPT !.at = IF b = "monitor" THEN "boot" ELSE "idle"]]
          /\ fail' = 0
      BY <1>2, <2>3 DEF CommandExpires
    <3>2. ASSUME NEW b \in Actors
          PROVE  /\ [who[b] EXCEPT !.at = IF b = "monitor" THEN "boot" ELSE "idle"] \in Who
                 /\ who'[b].at = IF b = "monitor" THEN "boot" ELSE "idle"
      <4>1. who[b] \in Who
        BY DEF WifiInv
      <4>2. QED
        BY <3>1, <4>1 DEF Who
    <3>3. QED
      BY <1>0, <2>1, <2>2, <3>1, <3>2, WifiAssumption DEF WifiInv, WifiAssumption
  <2>4. CASE a # "monitor"
    <3>1. Goes(a, "idle") /\ fail' = fail
      BY <1>2, <2>4 DEF CommandExpires, Goes
    <3>2. /\ who' \in [Actors -> Who]
          /\ \A b \in Actors : who'[b].at \in {"save", "add"} => who'[b].con \in Nets
          /\ who'["monitor"].at = who["monitor"].at
      BY <2>4, <3>1, WifiPlaces, WifiMoves
    <3>3. QED
      BY <2>1, <2>2, <3>1, <3>2 DEF WifiInv
  <2>5. QED
    BY <2>3, <2>4
<1>3. CASE Autoconnects
  BY <1>0, <1>3 DEF Autoconnects, WifiInv
<1>4. CASE NetMoves
  BY <1>4, WifiAssumption DEF NetMoves, WifiInv, WifiAssumption
<1>5. QED
  BY <1>1, <1>2, <1>3, <1>4

LEMMA WifiKeeps == WifiInv /\ [WifiNext]_wifiVars => WifiInv'
<1> SUFFICES ASSUME WifiInv, [WifiNext]_wifiVars PROVE WifiInv'
  OBVIOUS
<1>1. CASE UNCHANGED wifiVars
  BY <1>1 DEF wifiVars, WifiInv
<1>2. QED
  BY <1>1, WifiStepInv, MonitorInv, OutsideInv DEF WifiNext, MonitorStep, Actors

LEMMA WifiTypes == WifiInv => WifiTypeOK
  BY DEF WifiInv, WifiTypeOK, Who

\* The script's run p goes somewhere; start_auto returns to a nap or the end.
LEMMA LinkKeeps == LinkTypeOK /\ [LinkNext]_linkVars => LinkTypeOK'
<1> SUFFICES ASSUME LinkTypeOK, [LinkNext]_linkVars PROVE LinkTypeOK'
  OBVIOUS
<1>1. ASSUME NEW p \in Runs, ScriptStep(p) PROVE LinkTypeOK'
  <2>1. /\ \E s \in {"nap", "done", "pidof", "dhcp", "spawn", "grace"} :
             script' = [script EXCEPT ![p] = s]
        /\ fail_count' \in 0..MaxNaps
        /\ UNCHANGED <<module, naps, dying>>
    BY <1>1, LinkAssumption DEF ScriptStep, detect_mode, CmTest, CmSpawn, CmGrace, Dhcp, Returns,
                               Moves, LinkTypeOK, LinkAssumption
  <2>2. cms' \in 0..MaxCMs /\ dying \in 0..cms'
    <3>1. cms' = cms \/ (cms < MaxCMs /\ cms' = cms + 1)
      BY <1>1, Zenon DEF ScriptStep, detect_mode, CmTest, CmSpawn, CmGrace, Dhcp
    <3>2. QED
      BY <3>1, LinkAssumption DEF LinkTypeOK, LinkAssumption
  <2>3. QED
    BY <2>1, <2>2 DEF LinkTypeOK
<1>2. CASE MonitorChecks
  BY <1>2 DEF MonitorChecks, Moves, LinkTypeOK
<1>3. CASE MonitorNaps
  <2>1. naps' \in 0..MaxNaps /\ UNCHANGED <<module, cms, dying, fail_count>>
    BY <1>3, LinkAssumption DEF MonitorNaps, LinkTypeOK, LinkAssumption
  <2>2. script' \in {script, [script EXCEPT !["monitor"] = "check"]}
    BY <1>3 DEF MonitorNaps, Moves
  <2>3. QED
    BY <2>1, <2>2 DEF LinkTypeOK
<1>4. CASE Reload
  <2>1. /\ dying' = cms /\ script' = [script EXCEPT !["reload"] = "start"]
        /\ UNCHANGED <<module, cms, fail_count, naps>>
    BY <1>4 DEF Reload, Moves
  <2>2. script' \in [Runs -> {"check", "nap", "start", "pidof", "spawn", "grace", "dhcp", "done"}]
    BY <2>1 DEF LinkTypeOK
  <2>3. QED
    BY <2>1, <2>2, LinkAssumption DEF LinkTypeOK, LinkAssumption
<1>5. CASE CmConnects \/ CmEnds \/ CmDies \/ LinkLost \/ ModuleGone \/ ModuleComes
  <2>1. /\ module' \in {module, "absent", "qmi", "ncm"}
        /\ \/ cms' = cms /\ dying' = dying
           \/ cms > dying /\ cms' = cms - 1 /\ dying' = dying
           \/ dying > 0 /\ cms' = cms - 1 /\ dying' = dying - 1
        /\ UNCHANGED <<script, fail_count, naps>>
    BY <1>5, Zenon DEF CmConnects, CmEnds, CmDies, LinkLost, ModuleGone, ModuleComes
  <2>2. QED
    BY <2>1, LinkAssumption DEF LinkTypeOK, LinkAssumption
<1>6. CASE UNCHANGED linkVars
  BY <1>6 DEF linkVars, LinkTypeOK
<1>7. QED
  BY <1>1, <1>2, <1>3, <1>4, <1>5, <1>6 DEF LinkNext, MonitorGoes, Runs

------------------------------------------------------------------------------
(* Types of the disk script *)

DiskTypes ==
  /\ RepairTypeOK
  /\ disk = [fs |-> disk.fs, sound |-> disk.sound, files |-> disk.files]

\* Files come from the disk, from under it and from install_machine_dat only.
LEMMA DiskTypesStep == DiskTypes /\ [RepairNext]_diskVars => DiskTypes'
<1> SUFFICES ASSUME DiskTypes, [RepairNext]_diskVars PROVE DiskTypes'
  OBVIOUS
<1> DEFINE All == OnDisk \cup Under \cup {Target}
<1>0. /\ disk.files \subseteq All /\ bak \subseteq All /\ data2 \subseteq All
      /\ mounted \in {"none", "data2", "elsewhere"}
      /\ diskFaults \in 0..MaxDiskFaults /\ MaxDiskFaults \in Nat
  BY RepairAssumption DEF DiskTypes, RepairTypeOK, data2, RepairAssumption
<1>1. /\ bak' \subseteq All
      /\ mounted' \in {"none", "data2", "elsewhere"}
      /\ diskFaults' = diskFaults \/ (diskFaults < MaxDiskFaults /\ diskFaults' = diskFaults + 1)
      /\ \/ disk' = disk
         \/ disk' = [fs |-> "ext4", sound |-> TRUE, files |-> {}]
         \/ \E f \in All : disk' = [disk EXCEPT !.files = @ \cup {f}]
  <2>1. CASE UNCHANGED diskVars
    BY <1>0, <2>1 DEF diskVars
  <2>2. CASE Reboots
    BY <1>0, <2>2 DEF Reboots, DiskFault
  <2>3. ASSUME NEW r \in Scripts,
               \/ Lock(r) \/ Unmount(r) \/ BackupStart(r) \/ BackedUp(r) \/ Mount(r)
               \/ Restored(r) \/ Done(r) \/ Dies(r) \/ Killed(r)
        PROVE  /\ bak' \in {bak, {}} /\ mounted' \in {mounted, "none", "data2"} /\ disk' = disk
               /\ \/ diskFaults' = diskFaults
                  \/ diskFaults < MaxDiskFaults /\ diskFaults' = diskFaults + 1
    BY <2>3, Zenon DEF Lock, Unmount, BackupStart, BackedUp, Mount, Restored, Done, Dies, Killed,
                      DiskFault
  <2>4. ASSUME NEW r \in Scripts, BackupCopies(r)
        PROVE  /\ bak' \subseteq All /\ UNCHANGED <<disk, mounted, diskFaults>>
    BY <1>0, <2>4 DEF BackupCopies
  <2>5. ASSUME NEW r \in Scripts, MountFails(r)
        PROVE  /\ UNCHANGED <<disk, bak>> /\ mounted' \in {"none", mounted}
               /\ \/ diskFaults' = diskFaults
                  \/ diskFaults < MaxDiskFaults /\ diskFaults' = diskFaults + 1
    BY <2>5 DEF MountFails
  <2>6. ASSUME NEW r \in Scripts, Format(r)
        PROVE  /\ disk' = [fs |-> "ext4", sound |-> TRUE, files |-> {}]
               /\ mounted' = "none" /\ UNCHANGED <<bak, diskFaults>>
    BY <2>6 DEF Format
  <2>7. ASSUME NEW r \in Scripts, Restores(r) \/ Install(r)
        PROVE  /\ UNCHANGED <<bak, mounted, diskFaults>>
               /\ disk' = disk \/ \E f \in All : disk' = [disk EXCEPT !.files = @ \cup {f}]
    <3>1. CASE Restores(r)
      BY <1>0, <3>1 DEF Restores
    <3>2. CASE Install(r)
      <4>1. /\ UNCHANGED <<bak, mounted, diskFaults>>
            /\ disk' = disk \/ disk' = [disk EXCEPT !.files = @ \cup {Target}]
        BY <3>2, Zenon DEF Install
      <4>2. QED
        BY <4>1
    <3>3. QED
      BY <2>7, <3>1, <3>2
  <2>8. QED
    BY <1>0, <2>1, <2>2, <2>3, <2>4, <2>5, <2>6, <2>7 DEF RepairNext
<1>2. diskFaults' \in 0..MaxDiskFaults
  BY <1>0, <1>1
<1>3. /\ disk' = [fs |-> disk'.fs, sound |-> disk'.sound, files |-> disk'.files]
      /\ disk'.files \subseteq All
  <2>1. ASSUME NEW f \in All, disk' = [disk EXCEPT !.files = @ \cup {f}]
        PROVE  /\ disk' = [fs |-> disk'.fs, sound |-> disk'.sound, files |-> disk'.files]
               /\ disk'.files = disk.files \cup {f}
    BY <2>1 DEF DiskTypes
  <2>2. CASE disk' = disk
    BY <1>0, <2>2 DEF DiskTypes
  <2>3. CASE disk' = [fs |-> "ext4", sound |-> TRUE, files |-> {}]
    BY <2>3
  <2>4. QED
    BY <1>0, <1>1, <2>1, <2>2, <2>3
<1>4. QED
  BY <1>1, <1>2, <1>3 DEF DiskTypes, RepairTypeOK

LEMMA DiskTypesInit == RepairInit => DiskTypes
  BY RepairAssumption DEF RepairInit, DiskTypes, RepairTypeOK, RepairAssumption

------------------------------------------------------------------------------
(* All programs *)

\* A behaviour of Programs is one of every program.
LEMMA ProgramsParts ==
  [ProgramsNext]_programsVars =>
    /\ [LifeNext]_lifeVars /\ [ControlNext]_controlVars /\ [KeyNext]_keyVars
    /\ [WifiNext]_wifiVars /\ [LinkNext]_linkVars /\ [RepairNext]_diskVars
<1> SUFFICES ASSUME [ProgramsNext]_programsVars
             PROVE  /\ [LifeNext]_lifeVars /\ [ControlNext]_controlVars /\ [KeyNext]_keyVars
                    /\ [WifiNext]_wifiVars /\ [LinkNext]_linkVars /\ [RepairNext]_diskVars
  OBVIOUS
<1>1. QED
  BY DEF ProgramsNext, Life, Control, Key, Provision, Link, Repair, programsVars

\* Every program keeps its types, for any number of everything.
THEOREM ProgramsTypes == ProgramsSpec => []ProgramsTypeOK
<1>1. ProgramsSpec => []LifeTypeOK
  BY ProgramsParts, LifeTypes, PTL DEF ProgramsSpec, ProgramsInit, LifeSpec
<1>2. ControlInit => ControlInv /\ ControlTypes
  BY ControlInitInv, ControlInitTypes
<1>3. (ControlInv /\ ControlTypes) /\ [ControlNext]_controlVars => (ControlInv /\ ControlTypes)'
  BY ControlStep, ControlTypesStep DEF ControlInv
<1>4. ControlInv /\ ControlTypes => ControlTypeOK
  BY ControlKeepsTypes
<1>5. KeyInv => KeyTypeOK
  BY DEF KeyInv, KeyShape, Keys, KeyTypeOK
<1>6. LinkInit => LinkTypeOK
  BY LinkAssumption DEF LinkInit, LinkTypeOK, Runs, LinkAssumption
<1>7. DiskTypes => RepairTypeOK
  BY DEF DiskTypes
<1>8. ProgramsSpec => []ControlTypeOK
  BY ProgramsParts, <1>2, <1>3, <1>4, PTL DEF ProgramsSpec, ProgramsInit
<1>9. ProgramsSpec => []KeyTypeOK
  BY ProgramsParts, KeyInitInv, KeyStep, <1>5, PTL DEF ProgramsSpec, ProgramsInit
<1>10. ProgramsSpec => []WifiTypeOK
  BY ProgramsParts, WifiInitInv, WifiKeeps, WifiTypes, PTL DEF ProgramsSpec, ProgramsInit
<1>11. ProgramsSpec => []LinkTypeOK
  BY ProgramsParts, LinkKeeps, <1>6, PTL DEF ProgramsSpec, ProgramsInit
<1>12. ProgramsSpec => []RepairTypeOK
  BY ProgramsParts, DiskTypesInit, DiskTypesStep, <1>7, PTL DEF ProgramsSpec, ProgramsInit
<1>13. QED
  BY <1>1, <1>8, <1>9, <1>10, <1>11, <1>12, PTL DEF ProgramsTypeOK

\* What is proved of each program is so of Programs, the specification of the run.
THEOREM ProgramsSafe ==
  ProgramsSpec => /\ []RefsAccounted /\ []DisconnectWaitsForIoctl /\ []LinesCounted
                  /\ UsualSettings => SetTermiosAgrees
                  /\ OneThingPerPress /\ DoneMeansRepaired
<1>1. ProgramsSpec => LifeSpec /\ ControlSpec /\ KeySpec /\ RepairSpec
  BY ProgramsParts, PTL
     DEF ProgramsSpec, ProgramsInit, LifeSpec, ControlSpec, KeySpec, RepairSpec
<1>2. UsualSettings => (ControlSpec => SetTermiosAgrees)
  <2>1. CASE UsualSettings
    BY <2>1, TermiosAgrees
  <2>2. QED
    BY <2>1
<1>3. QED
  BY <1>1, <1>2, LifeRefs, LifeIoctl, ControlLines, KeyOneThing, RepairDone, PTL
==============================================================================

------------------------------- MODULE Ch343Life -------------------------------
(***************************************************************************)
(* The life of struct ch343 in 20260630/ch343.c: probe and its error       *)
(* paths, the table of minors, the references of the tty port, reading     *)
(* /proc/tty/driver, the GPIO device ch343_iodev, and disconnect.          *)
(*                                                                         *)
(* The memory of a structure that is freed may be the next one's.  A file  *)
(* of the GPIO device keeps a pointer to the structure and no reference:   *)
(* its ioctl may look at, wait for, lock and use memory that has been      *)
(* freed or is another device's.  Freed memory reads as 0 until it is the  *)
(* next one's: an unlocked mutex of a device that is not disconnected.     *)
(***************************************************************************)
EXTENDS Integers, Sequences, FiniteSets

CONSTANTS
  Structs,    \* pieces of memory for a struct ch343
  Minors,     \* 0 .. CH343_TTY_MINORS - 1
  Files,      \* files of the GPIO device userspace may have open
  MaxPlugs,   \* bound: probes
  MaxReads    \* bound: reads of /proc/tty/driver

VARIABLES
  dev,      \* the structures
  minors,   \* ch343_minors, the IDR
  ttys,     \* for a minor, the structure in driver_data, and how far the open is
  files,    \* the GPIO device's files: private_data, and how far an ioctl is
  plugs,    \* probes so far
  reads     \* reads of /proc/tty/driver so far

lifeVars == <<dev, minors, ttys, files, plugs, reads>>

Nothing == "nothing"
NoMinor == -1

ASSUME LifeAssumption ==
  /\ IsFiniteSet(Minors) /\ Minors \subseteq Nat
  /\ Nothing \notin Structs \cup Files
  /\ MaxPlugs \in Nat /\ MaxReads \in Nat

\* What probe takes after a minor, in its order.
Rungs == <<"port", "ctrl buffer", "write buffers", "ctrl URB", "read URBs", "write URBs",
           "configure", "data interface", "tty device">>

\* The memory of no structure: the driver fills it with 0 before it frees it.
\* leaked and probes are history: references that nobody gives back, and how
\* many probes have begun in the memory or given it up.
freed(probes) ==
  [stage |-> "free", rung |-> 0, ref |-> 0, minor |-> NoMinor, io_id |-> FALSE,
   disconnected |-> FALSE, mutex |-> Nothing, leaked |-> 0, probes |-> probes]

LifeInit ==
  /\ dev = [s \in Structs |-> freed(0)]
  /\ minors = [m \in Minors |-> Nothing]
  /\ ttys = [m \in Minors |-> [dev |-> Nothing, at |-> "closed"]]
  /\ files = [f \in Files |-> [dev |-> Nothing, at |-> "closed", probes |-> 0]]
  /\ plugs = 0
  /\ reads = 0

\* tty_port_put: s, in the state d, loses a reference; with the last one
\* ch343_port_destruct gives the minor back and frees it.
Put(s, d) ==
  IF d.ref = 1
  THEN /\ dev' = [dev EXCEPT ![s] = freed(d.probes)]
       /\ minors' = [minors EXCEPT ![d.minor] = Nothing]
  ELSE /\ dev' = [dev EXCEPT ![s] = [d EXCEPT !.ref = d.ref - 1]]
       /\ UNCHANGED minors

\* Somebody may get the structure with a minor, and a reference.
ch343_get_by_index(m, s) ==
  /\ minors[m] = s
  /\ s # Nothing
  /\ dev[s].mutex = Nothing
  /\ ~dev[s].disconnected

------------------------------------------------------------------------------
(* probe *)

\* The structure is filled with 0; ch343_alloc_minor: the lowest one.
Probe ==
  /\ plugs < MaxPlugs
  /\ plugs' = plugs + 1
  /\ \E s \in Structs, m \in Minors :
       /\ dev[s].stage = "free"
       /\ minors[m] = Nothing
       /\ \A n \in Minors : minors[n] = Nothing => m <= n
       /\ dev' = [dev EXCEPT ![s] = [freed(dev[s].probes + 1) EXCEPT
                                       !.stage = "probing", !.minor = m]]
       /\ minors' = [minors EXCEPT ![m] = s]
  /\ UNCHANGED <<ttys, files, reads>>

\* No minor is left: the structure is freed at once.
ProbeNoMinor ==
  /\ plugs < MaxPlugs
  /\ plugs' = plugs + 1
  /\ \A m \in Minors : minors[m] # Nothing
  /\ \E s \in Structs : dev[s].stage = "free"
  /\ UNCHANGED <<dev, minors, ttys, files, reads>>

\* The next rung.  The port starts with one reference, whatever references
\* were taken before; the GPIO device is registered after configure, if the chip
\* has GPIOs, and a failure to is not one of probe.
ProbeTakes(s) ==
  LET d == dev[s]
      r == d.rung + 1
  IN  /\ d.stage = "probing"
      /\ \E io \in IF Rungs[r] = "configure" THEN BOOLEAN ELSE {d.io_id} :
           dev' = [dev EXCEPT ![s] =
                    [d EXCEPT !.rung = r,
                              !.stage = IF r = Len(Rungs) THEN "bound" ELSE "probing",
                              !.ref = IF Rungs[r] = "port" THEN 1 ELSE d.ref,
                              !.leaked = IF Rungs[r] = "port" THEN 0 ELSE d.leaked,
                              !.io_id = io]]
      /\ UNCHANGED <<minors, ttys, files, plugs, reads>>

\* The next rung cannot be had: what was taken is given back, and the reference.
\* Claiming the data interface is not tested.  The GPIO device stays registered.
ProbeFails(s) ==
  /\ dev[s].stage = "probing"
  /\ dev[s].rung >= 1
  /\ Rungs[dev[s].rung + 1] # "data interface"
  /\ Put(s, [dev[s] EXCEPT !.stage = "unbound", !.probes = dev[s].probes + 1])
  /\ UNCHANGED <<ttys, files, plugs, reads>>

------------------------------------------------------------------------------
(* ttys and /proc *)

\* ch343_tty_install, as far as the reference.
InstallGets(m) ==
  /\ ttys[m].at = "closed"
  /\ \E s \in Structs :
       /\ ch343_get_by_index(m, s)
       /\ dev[s].stage # "probing"
       /\ dev' = [dev EXCEPT ![s].ref = dev[s].ref + 1]
       /\ ttys' = [ttys EXCEPT ![m] = [dev |-> s, at |-> "installing"]]
  /\ UNCHANGED <<minors, files, plugs, reads>>

Installed(m) ==
  /\ ttys[m].at = "installing"
  /\ ttys' = [ttys EXCEPT ![m].at = "open"]
  /\ UNCHANGED <<dev, minors, files, plugs, reads>>

\* Mutant: the error path forgets the reference.
InstallFailsKeeps(m) ==
  /\ ttys[m].at = "installing"
  /\ ttys' = [ttys EXCEPT ![m] = [dev |-> Nothing, at |-> "closed"]]
  /\ UNCHANGED <<dev, minors, files, plugs, reads>>

InstallFails(m) ==
  /\ ttys[m].at = "installing"
  /\ Put(ttys[m].dev, dev[ttys[m].dev])
  /\ ttys' = [ttys EXCEPT ![m] = [dev |-> Nothing, at |-> "closed"]]
  /\ UNCHANGED <<files, plugs, reads>>

\* ch343_tty_cleanup, when the last file of the tty is closed.
TtyCleanup(m) ==
  /\ ttys[m].at = "open"
  /\ Put(ttys[m].dev, dev[ttys[m].dev])
  /\ ttys' = [ttys EXCEPT ![m] = [dev |-> Nothing, at |-> "closed"]]
  /\ UNCHANGED <<files, plugs, reads>>

\* ch343_proc_show comes to a minor.  It never puts the reference it gets.
ch343_proc_show(m) ==
  /\ reads < MaxReads
  /\ reads' = reads + 1
  /\ \E s \in Structs :
       /\ ch343_get_by_index(m, s)
       /\ dev' = [dev EXCEPT ![s].ref = dev[s].ref + 1, ![s].leaked = dev[s].leaked + 1]
  /\ UNCHANGED <<minors, ttys, files, plugs>>

------------------------------------------------------------------------------
(* The GPIO device *)

\* ch343_open finds the structure of an interface that is bound or being bound.
FileOpen(f) ==
  /\ files[f].at = "closed"
  /\ \E s \in Structs :
       /\ dev[s].stage \in {"probing", "bound"} /\ dev[s].io_id
       /\ files' = [files EXCEPT ![f] = [dev |-> s, at |-> "open", probes |-> 0]]
  /\ UNCHANGED <<dev, minors, ttys, plugs, reads>>

\* ch343_ioctl looks at io_id, without the mutex that it goes on to wait for.  On
\* other memory it returns -ENODEV.
IoctlTests(f) ==
  /\ files[f].at = "open"
  /\ dev[files[f].dev].io_id
  /\ files' = [files EXCEPT ![f].at = "waiting"]
  /\ UNCHANGED <<dev, minors, ttys, plugs, reads>>

\* A structure whose probe goes on or whose device is there.
Attached(d) == d.stage \in {"probing", "bound", "unbinding"}

\* Mutant: the flag is not looked at under the mutex.
IoctlTrusts(f) ==
  LET s == files[f].dev
  IN  /\ files[f].at = "waiting"
      /\ dev[s].mutex = Nothing
      /\ dev' = [dev EXCEPT ![s].mutex = f]
      /\ files' = [files EXCEPT ![f].at = "transfer",
                                ![f].probes = IF Attached(dev[s]) THEN dev[s].probes ELSE 0]
      /\ UNCHANGED <<minors, ttys, plugs, reads>>

\* It gets the mutex, whatever the memory is by now, and begins its transfer.  probes
\* is history: what the memory was when it did, 0 if no structure of a device.
IoctlLocks(f) ==
  LET s == files[f].dev
  IN  /\ files[f].at = "waiting"
      /\ dev[s].mutex = Nothing
      /\ ~dev[s].disconnected
      /\ dev' = [dev EXCEPT ![s].mutex = f]
      /\ files' = [files EXCEPT ![f].at = "transfer",
                                ![f].probes = IF Attached(dev[s]) THEN dev[s].probes ELSE 0]
      /\ UNCHANGED <<minors, ttys, plugs, reads>>

\* It finds under the mutex that the device is disconnected: -ENODEV.
IoctlRefused(f) ==
  LET s == files[f].dev
  IN  /\ files[f].at = "waiting"
      /\ dev[s].mutex = Nothing
      /\ dev[s].disconnected
      /\ files' = [files EXCEPT ![f].at = "open"]
      /\ UNCHANGED <<dev, minors, ttys, plugs, reads>>

IoctlReturns(f) ==
  LET s == files[f].dev
  IN  /\ files[f].at = "transfer"
      /\ files' = [files EXCEPT ![f].at = "open"]
      /\ dev' = [dev EXCEPT ![s].mutex = IF dev[s].mutex = f THEN Nothing ELSE dev[s].mutex]
      /\ UNCHANGED <<minors, ttys, plugs, reads>>

\* ch343_release changes nothing but the file.
FileClose(f) ==
  /\ files[f].at = "open"
  /\ files' = [files EXCEPT ![f] = [dev |-> Nothing, at |-> "closed", probes |-> 0]]
  /\ UNCHANGED <<dev, minors, ttys, plugs, reads>>

------------------------------------------------------------------------------
(* disconnect *)

\* The GPIO device is deregistered: it cannot be opened any more.
Unplugged(s) ==
  /\ dev[s].stage = "bound"
  /\ dev' = [dev EXCEPT ![s].stage = "unbinding"]
  /\ UNCHANGED <<minors, ttys, files, plugs, reads>>

\* Under the mutex.
Disconnected(s) ==
  /\ dev[s].stage = "unbinding"
  /\ ~dev[s].disconnected
  /\ dev[s].mutex = Nothing
  /\ dev' = [dev EXCEPT ![s].disconnected = TRUE]
  /\ UNCHANGED <<minors, ttys, files, plugs, reads>>

\* Hung up, stopped, everything freed but the structure, which loses probe's
\* reference.
Unbound(s) ==
  /\ dev[s].stage = "unbinding"
  /\ dev[s].disconnected
  /\ Put(s, [dev[s] EXCEPT !.stage = "unbound"])
  /\ UNCHANGED <<ttys, files, plugs, reads>>

LifeNext ==
  \/ Probe \/ ProbeNoMinor
  \/ \E s \in Structs : \/ ProbeTakes(s) \/ ProbeFails(s)
                        \/ Unplugged(s) \/ Disconnected(s) \/ Unbound(s)
  \/ \E m \in Minors : \/ InstallGets(m) \/ Installed(m) \/ InstallFails(m) \/ TtyCleanup(m)
                       \/ ch343_proc_show(m)
  \/ \E f \in Files : \/ FileOpen(f) \/ FileClose(f)
                       \/ IoctlTests(f) \/ IoctlLocks(f) \/ IoctlRefused(f) \/ IoctlReturns(f)

LifeSpec == LifeInit /\ [][LifeNext]_lifeVars

------------------------------------------------------------------------------
(* Properties *)

LifeTypeOK ==
  /\ \A s \in Structs :
       /\ dev[s].stage \in {"free", "probing", "bound", "unbinding", "unbound"}
       /\ dev[s].rung \in 0..Len(Rungs)
       /\ dev[s].ref \in Nat
       /\ dev[s].minor \in Minors \cup {NoMinor}
       /\ dev[s].mutex \in Files \cup {Nothing}
  /\ minors \in [Minors -> Structs \cup {Nothing}]
  /\ \A m \in Minors : ttys[m].dev \in Structs \cup {Nothing}
  /\ plugs \in 0..MaxPlugs
  /\ reads \in 0..MaxReads

\* The references of a structure are probe's, one for each tty on it, and those that
\* reading /proc took for good; nobody has a tty on freed memory, and a minor is taken
\* exactly as long as its structure is there.
RefsAccounted ==
  \A s \in Structs :
    LET d == dev[s]
        users == {m \in Minors : ttys[m].dev = s}
    IN  /\ d.rung >= 1 =>
             d.ref = Cardinality(users) + d.leaked + (IF d.stage = "unbound" THEN 0 ELSE 1)
        /\ d.stage = "unbound" => d.ref > 0
        /\ users # {} => d.stage # "free"
        /\ \A m \in Minors : minors[m] = s <=> (d.stage # "free" /\ d.minor = m)

\* An ioctl that got the mutex of a device's structure works on that structure to the
\* end: disconnect neither marks it nor frees it and nobody else locks it meanwhile,
\* though the ioctl may have waited from before disconnect and the mutex excludes no
\* free.  The code does not keep this, and the property does not claim it, for an
\* ioctl that still waits when the memory is freed and locks what is there then, and
\* when it is a probe that gives the structure up.
DisconnectWaitsForIoctl ==
  \A f \in Files :
    LET d == dev[files[f].dev]
    IN  files[f].at = "transfer" /\ files[f].probes = d.probes
          => Attached(d) /\ ~d.disconnected /\ d.mutex = f
==============================================================================

--------------------------------- MODULE Ch343 ---------------------------------
(***************************************************************************)
(* The data path of the USB serial driver 20260630/ch343.c: the pool of    *)
(* write buffers, suspend and resume with delayed writes, opening and      *)
(* shutting down the port, and unplugging.                                 *)
(*                                                                         *)
(* Writers, the tty core, the power management core and the USB core run   *)
(* at the same time.  write_lock protects the pool against writers, write  *)
(* callbacks, suspend and resume, but the threads that stop the traffic do *)
(* not take it.                                                            *)
(***************************************************************************)
EXTENDS Integers, Sequences, FiniteSets

CONSTANTS
  NW,         \* CH343_NW, write buffers
  NR,         \* rx_buflimit, read URBs
  Writers,    \* threads that write to the tty
  MaxWrites   \* bound: writes accepted

ASSUME Ch343Assumption ==
  /\ NW \in Nat \ {0}
  /\ NR \in Nat \ {0}
  /\ MaxWrites \in Nat

\* The URBs, in the order stop_data_traffic kills them.
Ctrl == 0
Bufs == 1..NW
Reads == (NW + 1)..(NW + NR)
Urbs == 0..(NW + NR)

Threads == {"tty", "pm", "usb"}

\* Where a thread is in stop_data_traffic: not there, taking the delayed writes
\* off their anchor, or about to kill the URB of that number.
NotStopping == -2
Draining == -1

VARIABLES
  use,           \* the buffers with wb->use set
  accepted,      \* history: writes given a buffer so far
  sent,          \* history: the last write whose URB was submitted
  delayed,       \* URBs on the anchor delayed, oldest first; history: of which write
  flying,        \* URBs the host controller has
  transmitting,  \* ch343->transmitting
  usage,         \* autopm references to the interface
  susp,          \* ch343->susp_count
  resume,        \* where ch343_resume is; it holds write_lock unless "no"
  power,         \* the power management core's view of the device
  auto,          \* the suspend under way is an autosuspend
  initialized,   \* tty_port_initialized
  tty,           \* the port, from open to shutdown
  disconnected,  \* ch343->disconnected
  unplug,        \* where ch343_disconnect is
  stop,          \* where each thread is in stop_data_traffic
  pc             \* where each writer is in ch343_tty_write

pool == <<use, accepted, sent, delayed, flying, transmitting, usage>>
pm == <<susp, resume, power, auto>>
port == <<initialized, tty, disconnected, unplug>>
vars == <<pool, pm, port, stop, pc>>

Ch343TypeOK ==
  /\ use \subseteq Bufs
  /\ accepted \in 0..MaxWrites
  /\ sent \in 0..MaxWrites
  /\ delayed \in Seq([urb : Bufs, write : 1..MaxWrites])
  /\ flying \subseteq Urbs
  /\ transmitting \in 0..NW
  /\ usage \in 0..(NW + 1)
  /\ susp \in 0..2
  /\ resume \in {"no", "ctrl", "delayed", "failed"}
  /\ power \in {"on", "suspending", "off", "resuming"}
  /\ auto \in BOOLEAN
  /\ initialized \in BOOLEAN
  /\ tty \in {"closed", "opening", "submit ctrl", "submit reads", "failed", "activated",
              "open", "shutdown"}
  /\ disconnected \in BOOLEAN
  /\ unplug \in {"no", "unbinding", "hangup", "stopping", "freed"}
  /\ stop \in [Threads -> {NotStopping, Draining} \cup Urbs]
  /\ pc \in [Writers -> {"idle", "try", "wait"}]

Init ==
  /\ use = {}
  /\ accepted = 0
  /\ sent = 0
  /\ delayed = << >>
  /\ flying = {}
  /\ transmitting = 0
  /\ usage = 0
  /\ susp = 0
  /\ resume = "no"
  /\ power = "on"
  /\ auto = FALSE
  /\ initialized = FALSE
  /\ tty = "closed"
  /\ disconnected = FALSE
  /\ unplug = "no"
  /\ stop = [t \in Threads |-> NotStopping]
  /\ pc = [w \in Writers |-> "idle"]

LockFree == resume = "no"

\* A system sleep is under way: userspace neither opens nor writes.
Frozen == power # "on" /\ ~auto

-----------------------------------------------------------------------------
(* The pool, with write_lock held.                                         *)

\* ch343_start_wb: the URB is submitted, or ch343_write_done gives the buffer
\* and its autopm reference back at once.
Started(i, n) ==
  /\ flying' = flying \cup {i}
  /\ transmitting' = transmitting + 1
  /\ sent' = n
NotStarted(i) ==
  /\ use' = use \ {i}
  /\ usage' = usage - 1
  /\ UNCHANGED <<flying, transmitting, sent>>

\* ch343_write_done, for the callback of a URB in flight.
WriteDone(i) ==
  /\ flying' = flying \ {i}
  /\ use' = use \ {i}
  /\ transmitting' = transmitting - 1
  /\ usage' = usage - 1

-----------------------------------------------------------------------------
(* ch343_tty_write.                                                        *)

\* The line discipline lets a writer in while the port is open; tty_vhangup, of
\* an unplugged device, first takes the file operations away.
CallWrite(w) ==
  /\ pc[w] = "idle"
  /\ tty = "open"
  /\ unplug # "hangup"
  /\ ~Frozen
  /\ accepted < MaxWrites
  /\ pc' = [pc EXCEPT ![w] = "try"]
  /\ UNCHANGED <<pool, pm, port, stop>>

\* ch343_wb_alloc takes the first free buffer.
FirstFree == CHOOSE i \in Bufs \ use : \A j \in Bufs \ use : i <= j

\* Mutant of Write: whether the port is suspended is not looked at.
WriteUndelayed(w) ==
  LET i == FirstFree
      n == accepted + 1 IN
  /\ pc[w] = "try"
  /\ LockFree
  /\ use # Bufs
  /\ accepted < MaxWrites
  /\ accepted' = n
  /\ pc' = [pc EXCEPT ![w] = "idle"]
  /\ \/ use' = use \cup {i} /\ usage' = usage + 1 /\ Started(i, n)
     \/ UNCHANGED <<use, usage, flying, transmitting, sent>>
  /\ UNCHANGED <<delayed, pm, port, stop>>

\* A buffer is there, and the autopm reference is had: the write is started, or
\* delayed when the port is suspended.  A URB that cannot be submitted gives
\* everything back.
Write(w) ==
  LET i == FirstFree
      n == accepted + 1 IN
  /\ pc[w] = "try"
  /\ LockFree
  /\ use # Bufs
  /\ accepted < MaxWrites
  /\ accepted' = n
  /\ pc' = [pc EXCEPT ![w] = "idle"]
  /\ \/ /\ susp = 0
        /\ use' = use \cup {i} /\ usage' = usage + 1
        /\ Started(i, n)
        /\ UNCHANGED delayed
     \/ /\ susp = 0
        /\ UNCHANGED <<use, usage, flying, transmitting, sent, delayed>>
     \/ /\ susp > 0
        /\ use' = use \cup {i} /\ usage' = usage + 1
        /\ delayed' = Append(delayed, [urb |-> i, write |-> n])
        /\ UNCHANGED <<flying, transmitting, sent>>
  /\ UNCHANGED <<pm, port, stop>>

\* usb_autopm_get_interface_async refuses, and the buffer is given back; or the
\* bound is reached.
WriteRefused(w) ==
  /\ pc[w] = "try"
  /\ LockFree
  /\ use # Bufs
  /\ pc' = [pc EXCEPT ![w] = "idle"]
  /\ UNCHANGED <<pool, pm, port, stop>>

\* No buffer is free: wait on sendioctl.
WriteWaits(w) ==
  /\ pc[w] = "try"
  /\ LockFree
  /\ use = Bufs
  /\ pc' = [pc EXCEPT ![w] = "wait"]
  /\ UNCHANGED <<pool, pm, port, stop>>

\* Woken with a free buffer, which may be gone when the writer tries again.
WaitRetry(w) ==
  /\ pc[w] = "wait"
  /\ use # Bufs
  /\ pc' = [pc EXCEPT ![w] = "try"]
  /\ UNCHANGED <<pool, pm, port, stop>>

\* Mutant of WaitTimeout: a wait without a timeout.
WaitForever(w) ==
  /\ pc[w] = "wait"
  /\ use # Bufs
  /\ pc' = [pc EXCEPT ![w] = "idle"]
  /\ UNCHANGED <<pool, pm, port, stop>>

\* The time is over, or a signal came: -ETIMEDOUT.
WaitTimeout(w) ==
  /\ pc[w] = "wait"
  /\ pc' = [pc EXCEPT ![w] = "idle"]
  /\ UNCHANGED <<pool, pm, port, stop>>

-----------------------------------------------------------------------------
(* The completion callbacks.                                               *)

\* ch343_write_bulk, whatever the status.
WriteBulk(i) ==
  /\ i \in flying
  /\ LockFree
  /\ WriteDone(i)
  /\ UNCHANGED <<accepted, sent, delayed, pm, port, stop, pc>>

\* ch343_read_bulk_callback and ch343_ctrl_irq submit the URB again unless it
\* failed, or submitting it does: then it is out of use until the port is
\* opened, or the device resumed.
ReadFails(u) ==
  /\ u \in (Reads \cup {Ctrl}) \cap flying
  /\ flying' = flying \ {u}
  /\ UNCHANGED <<use, accepted, sent, delayed, transmitting, usage, pm, port, stop, pc>>

\* ch343_submit_read_urbs: those not in flight are submitted in order, all, or
\* those before the first that cannot be.
SubmitReads == flying' = flying \cup Reads
SubmitReadsFails ==
  \E k \in Reads \ flying : flying' = flying \cup (NW + 1)..(k - 1)

-----------------------------------------------------------------------------
(* stop_data_traffic, by the thread t, without write_lock.                 *)

StopTraffic(t) == stop' = [stop EXCEPT ![t] = Draining]

\* Mutant of DrainOne: the autopm reference is kept.
DrainOneKeeps(t) ==
  /\ stop[t] = Draining
  /\ delayed # << >>
  /\ delayed' = Tail(delayed)
  /\ use' = use \ {Head(delayed).urb}
  /\ UNCHANGED <<accepted, sent, flying, transmitting, usage, pm, port, stop, pc>>

\* A delayed write is taken off the anchor and dropped.
DrainOne(t) ==
  /\ stop[t] = Draining
  /\ delayed # << >>
  /\ delayed' = Tail(delayed)
  /\ use' = use \ {Head(delayed).urb}
  /\ usage' = usage - 1
  /\ UNCHANGED <<accepted, sent, flying, transmitting, pm, port, stop, pc>>

Drained(t) ==
  /\ stop[t] = Draining
  /\ delayed = << >>
  /\ stop' = [stop EXCEPT ![t] = Ctrl]
  /\ UNCHANGED <<pool, pm, port, pc>>

\* Mutant of Kill: URBs are not cancelled, only waited for.
KillWaits(t) ==
  LET u == stop[t] IN
  /\ u \in Urbs \ flying
  /\ stop' = [stop EXCEPT ![t] = IF u + 1 \in Urbs THEN u + 1 ELSE NotStopping]
  /\ UNCHANGED <<pool, pm, port, pc>>

\* usb_kill_urb returns when the URB's callback has run; that of a write takes
\* write_lock.
Kill(t) ==
  LET u == stop[t] IN
  /\ u \in Urbs
  /\ \/ /\ u \in Bufs \cap flying
        /\ LockFree
        /\ WriteDone(u)
     \/ /\ u \notin Bufs \cap flying
        /\ flying' = flying \ {u}
        /\ UNCHANGED <<use, transmitting, usage>>
  /\ stop' = [stop EXCEPT ![t] = IF u + 1 \in Urbs THEN u + 1 ELSE NotStopping]
  /\ UNCHANGED <<accepted, sent, delayed, pm, port, pc>>

-----------------------------------------------------------------------------
(* The port: ch343_port_activate and ch343_port_shutdown.  The tty core    *)
(* runs one of them at a time.                                             *)

\* An open holds ch343->mutex from the test of disconnected to the end.
Activating == tty \in {"opening", "submit ctrl", "submit reads", "failed"}

\* The port is opened, and a reference to the device taken.
PortOpen ==
  /\ tty = "closed"
  /\ ~disconnected
  /\ ~Frozen
  /\ unplug # "freed"
  /\ tty' = "opening"
  /\ usage' = usage + 1
  /\ UNCHANGED <<use, accepted, sent, delayed, flying, transmitting, pm,
                 initialized, disconnected, unplug, stop, pc>>

\* usb_autopm_get_interface returns when the device is awake, or fails.
PortResumed ==
  /\ tty = "opening"
  /\ \/ /\ power = "on"
        /\ tty' = "submit ctrl"
        /\ UNCHANGED usage
     \/ /\ tty' = "closed"
        /\ usage' = usage - 1
  /\ UNCHANGED <<use, accepted, sent, delayed, flying, transmitting, pm,
                 initialized, disconnected, unplug, stop, pc>>

\* A control URB that is in flight already cannot be submitted.
PortSubmitCtrl ==
  /\ tty = "submit ctrl"
  /\ \/ /\ Ctrl \notin flying
        /\ flying' = flying \cup {Ctrl}
        /\ tty' = "submit reads"
        /\ UNCHANGED usage
     \/ /\ flying' = flying \ {Ctrl}
        /\ tty' = "closed"
        /\ usage' = usage - 1
  /\ UNCHANGED <<use, accepted, sent, delayed, transmitting, pm,
                 initialized, disconnected, unplug, stop, pc>>

\* Mutant of PortSubmitReads: an open that succeeds keeps its reference.
PortSubmitReadsKeeps ==
  /\ tty = "submit reads"
  /\ \/ SubmitReads /\ tty' = "activated"
     \/ (SubmitReadsFails \/ SubmitReads) /\ tty' = "failed"
  /\ UNCHANGED <<use, accepted, sent, delayed, transmitting, usage, pm,
                 initialized, disconnected, unplug, stop, pc>>

\* The read URBs; then some chips are told that the port is open, which may fail.
PortSubmitReads ==
  /\ tty = "submit reads"
  /\ \/ SubmitReads /\ tty' = "activated" /\ usage' = usage - 1
     \/ (SubmitReadsFails \/ SubmitReads) /\ tty' = "failed" /\ UNCHANGED usage
  /\ UNCHANGED <<use, accepted, sent, delayed, transmitting, pm,
                 initialized, disconnected, unplug, stop, pc>>

\* error_submit_read_urbs: the read URBs and the control URB are killed.
PortFailed ==
  /\ tty = "failed"
  /\ flying' = flying \ (Reads \cup {Ctrl})
  /\ tty' = "closed"
  /\ usage' = usage - 1
  /\ UNCHANGED <<use, accepted, sent, delayed, transmitting, pm,
                 initialized, disconnected, unplug, stop, pc>>

PortInitialized ==
  /\ tty = "activated"
  /\ initialized' = TRUE
  /\ tty' = "open"
  /\ UNCHANGED <<pool, pm, disconnected, unplug, stop, pc>>

\* The last close, or a hangup: the line discipline waits for the writers.
PortShutdown ==
  /\ tty = "open"
  /\ \A w \in Writers : pc[w] = "idle"
  /\ initialized' = FALSE
  /\ tty' = "shutdown"
  /\ StopTraffic("tty")
  /\ UNCHANGED <<pool, pm, disconnected, unplug, pc>>

PortClosed ==
  /\ tty = "shutdown"
  /\ stop["tty"] = NotStopping
  /\ tty' = "closed"
  /\ UNCHANGED <<pool, pm, initialized, disconnected, unplug, stop, pc>>

-----------------------------------------------------------------------------
(* Power management: ch343_suspend and ch343_resume, called for each of    *)
(* the device's two interfaces.                                            *)

\* An autosuspend begins when there is no reference, a system sleep when
\* userspace is frozen.
SuspendStart ==
  /\ power = "on"
  /\ unplug = "no"
  /\ \/ auto' = TRUE /\ usage = 0
     \/ /\ auto' = FALSE
        /\ tty \in {"closed", "open", "shutdown"}
        /\ \A w \in Writers : pc[w] = "idle"
  /\ power' = "suspending"
  /\ UNCHANGED <<pool, susp, resume, port, stop, pc>>

\* ch343_suspend: an autosuspend is refused while something is transmitted, and
\* the power management core then resumes what it has suspended.
Suspend ==
  /\ power = "suspending"
  /\ LockFree
  /\ stop["pm"] = NotStopping
  /\ IF auto /\ transmitting > 0
       THEN /\ power' = IF susp = 0 THEN "on" ELSE "resuming"
            /\ UNCHANGED <<susp, stop>>
       ELSE /\ susp' = susp + 1
            /\ power' = IF susp = 0 THEN "suspending" ELSE "off"
            /\ IF susp = 0 THEN StopTraffic("pm") ELSE UNCHANGED stop
  /\ UNCHANGED <<pool, resume, auto, port, pc>>

\* Somebody holds a reference, the device or the user wakes it.
ResumeStart ==
  /\ power = "off"
  /\ unplug = "no"
  /\ power' = "resuming"
  /\ UNCHANGED <<pool, susp, resume, auto, port, stop, pc>>

\* ch343_resume: with the last interface, and an initialised port, the lock is
\* kept while the traffic is started again.
Resume ==
  /\ power = "resuming"
  /\ LockFree
  /\ susp' = susp - 1
  /\ IF susp > 1 THEN UNCHANGED <<power, resume>>
     ELSE IF initialized THEN resume' = "ctrl" /\ UNCHANGED power
     ELSE power' = "on" /\ UNCHANGED resume
  /\ UNCHANGED <<pool, auto, port, stop, pc>>

\* The control URB is submitted, or it cannot be.
ResumeCtrl ==
  /\ resume = "ctrl"
  /\ \/ /\ Ctrl \notin flying
        /\ flying' = flying \cup {Ctrl}
        /\ resume' = "delayed"
     \/ /\ resume' = "failed"
        /\ UNCHANGED flying
  /\ UNCHANGED <<use, accepted, sent, delayed, transmitting, usage, susp, power,
                 auto, port, stop, pc>>

\* Mutant of ResumeDelayed: the last one first.
ResumeDelayedLast ==
  LET d == delayed[Len(delayed)] IN
  /\ resume \in {"delayed", "failed"}
  /\ delayed # << >>
  /\ delayed' = SubSeq(delayed, 1, Len(delayed) - 1)
  /\ \/ Started(d.urb, d.write) /\ UNCHANGED <<use, usage>>
     \/ NotStarted(d.urb)
  /\ UNCHANGED <<accepted, pm, port, stop, pc>>

\* The delayed writes are started, oldest first.
ResumeDelayed ==
  LET d == Head(delayed) IN
  /\ resume \in {"delayed", "failed"}
  /\ delayed # << >>
  /\ delayed' = Tail(delayed)
  /\ \/ Started(d.urb, d.write) /\ UNCHANGED <<use, usage>>
     \/ NotStarted(d.urb)
  /\ UNCHANGED <<accepted, pm, port, stop, pc>>

\* Then the read URBs, unless the control URB could not be; and the lock is given
\* back.
ResumeReads ==
  /\ delayed = << >>
  /\ \/ resume = "delayed" /\ (SubmitReads \/ SubmitReadsFails)
     \/ resume = "failed" /\ UNCHANGED flying
  /\ resume' = "no"
  /\ power' = "on"
  /\ UNCHANGED <<use, accepted, sent, delayed, transmitting, usage, susp, auto,
                 port, stop, pc>>

-----------------------------------------------------------------------------
(* ch343_disconnect.                                                       *)

\* The USB core unbinds the driver: no change of power begins from here on.
Unplug ==
  /\ unplug = "no"
  /\ unplug' = "unbinding"
  /\ UNCHANGED <<pool, pm, initialized, tty, disconnected, stop, pc>>

\* Mutant of Disconnect: disconnected is not set.
DisconnectUnmarked ==
  /\ unplug = "unbinding"
  /\ power \in {"on", "off"}
  /\ ~Activating
  /\ unplug' = "hangup"
  /\ UNCHANGED <<pool, pm, initialized, tty, disconnected, stop, pc>>

\* disconnected is set under the mutex that an open holds.
Disconnect ==
  /\ unplug = "unbinding"
  /\ power \in {"on", "off"}
  /\ ~Activating
  /\ unplug' = "hangup"
  /\ disconnected' = TRUE
  /\ UNCHANGED <<pool, pm, initialized, tty, stop, pc>>

\* tty_vhangup shut the port down; what is left is stopped.
DisconnectStop ==
  /\ unplug = "hangup"
  /\ tty = "closed"
  /\ unplug' = "stopping"
  /\ StopTraffic("usb")
  /\ UNCHANGED <<pool, pm, initialized, tty, disconnected, pc>>

\* URBs and buffers are freed.
DisconnectFree ==
  /\ unplug = "stopping"
  /\ stop["usb"] = NotStopping
  /\ unplug' = "freed"
  /\ UNCHANGED <<pool, pm, initialized, tty, disconnected, stop, pc>>

-----------------------------------------------------------------------------

WriterStep(w) ==
  \/ Write(w)
  \/ WriteRefused(w)
  \/ WriteWaits(w)
  \/ WaitRetry(w)
  \/ WaitTimeout(w)

StopStep(t) ==
  \/ DrainOne(t)
  \/ Drained(t)
  \/ Kill(t)

OpenStep ==
  \/ PortResumed
  \/ PortSubmitCtrl
  \/ PortSubmitReads
  \/ PortFailed
  \/ PortInitialized

PmStep ==
  \/ Suspend
  \/ Resume
  \/ ResumeCtrl
  \/ ResumeDelayed
  \/ ResumeReads

DisconnectStep ==
  \/ Disconnect
  \/ DisconnectStop
  \/ DisconnectFree

Next ==
  \/ \E w \in Writers : CallWrite(w) \/ WriterStep(w)
  \/ \E i \in Bufs : WriteBulk(i)
  \/ \E u \in Urbs : ReadFails(u)
  \/ \E t \in Threads : StopStep(t)
  \/ OpenStep
  \/ PortOpen
  \/ PortShutdown
  \/ PortClosed
  \/ PmStep
  \/ SuspendStart
  \/ ResumeStart
  \/ Unplug
  \/ DisconnectStep

Spec == Init /\ [][Next]_vars

-----------------------------------------------------------------------------
(* Fairness: every thread goes on, and no lock starves whoever waits for   *)
(* it.  The host controller may keep a URB for ever, for the device may be *)
(* flow controlled; killing a URB always ends.                             *)

Fairness ==
  /\ \A w \in Writers : SF_vars(WriterStep(w))
  /\ \A t \in Threads : SF_vars(StopStep(t))
  /\ WF_vars(OpenStep)
  /\ WF_vars(PortClosed)
  /\ WF_vars(PmStep)
  /\ SF_vars(DisconnectStep)
  /\ WF_vars(unplug = "hangup" /\ PortShutdown)

FairSpec == Spec /\ Fairness

-----------------------------------------------------------------------------
(* Properties                                                              *)

Anchored == {delayed[k].urb : k \in 1..Len(delayed)}

\* Every buffer in use is in flight or delayed, never both, and has one autopm
\* reference; an open under way has one too.  So no buffer is lost to the pool
\* and none is filled while the host controller reads it (456-514, 985-1050,
\* 2240-2248).
BuffersAccounted ==
  /\ use = (flying \cap Bufs) \cup Anchored
  /\ flying \cap Anchored = {}
  /\ Cardinality(Anchored) = Len(delayed)
  /\ transmitting = Cardinality(flying \cap Bufs)
  /\ usage = Cardinality(use) + (IF Activating THEN 1 ELSE 0)

\* While the device is suspended the host controller has none of its URBs,
\* whoever wrote, opened or shut down meanwhile (2336-2355).
SuspendedIsSilent == power = "off" => flying = {}

\* When ch343_disconnect frees the URBs and buffers (2318-2326), nobody has one:
\* no URB is in flight or delayed, no writer is in ch343_tty_write.
NothingAfterFree ==
  unplug = "freed" => /\ flying = {}
                      /\ delayed = << >>
                      /\ \A w \in Writers : pc[w] = "idle"

\* What is written is submitted in the order it was accepted, delayed writes
\* before those that come after the resume (2372-2379).
SentInOrder == [][sent' # sent => sent' > sent]_vars

\* A write that begins returns, and unplugging ends, even if the device never
\* completes a URB again (1012-1018, 2274-2333).
WritesReturn == \A w \in Writers : pc[w] # "idle" ~> pc[w] = "idle"
UnplugEnds == unplug = "unbinding" ~> unplug = "freed"
==============================================================================

------------------------------ MODULE Ch343Proofs ------------------------------
(***************************************************************************)
(* Proofs about Ch343, for every number of buffers, read URBs and writers. *)
(*                                                                         *)
(* The inductive invariant says of each thread in stop_data_traffic which  *)
(* URBs it has passed, and who could submit one of those again: a writer   *)
(* only while the device is awake, an open only while it holds a           *)
(* reference, resume only under its lock.                                  *)
(***************************************************************************)
EXTENDS Ch343, FiniteSetTheorems, FunctionTheorems, WellFoundedInduction, TLAPS

DelayedWrites == [urb : Bufs, write : 1..MaxWrites]
Places == {NotStopping, Draining} \cup Urbs

\* The types, in four groups, without the bounds on the two counters, which need
\* Accounts.
Queue ==
  /\ accepted \in 0..MaxWrites
  /\ sent \in 0..MaxWrites
  /\ delayed \in Seq(DelayedWrites)
Traffic ==
  /\ use \subseteq Bufs
  /\ flying \subseteq Urbs
  /\ transmitting \in Int
  /\ usage \in Int
Modes ==
  /\ susp \in 0..2
  /\ resume \in {"no", "ctrl", "delayed", "failed"}
  /\ power \in {"on", "suspending", "off", "resuming"}
  /\ auto \in BOOLEAN
  /\ initialized \in BOOLEAN
  /\ tty \in {"closed", "opening", "submit ctrl", "submit reads", "failed", "activated",
              "open", "shutdown"}
  /\ disconnected \in BOOLEAN
  /\ unplug \in {"no", "unbinding", "hangup", "stopping", "freed"}
Whereabouts ==
  /\ stop \in [Threads -> Places]
  /\ pc \in [Writers -> {"idle", "try", "wait"}]
Shape == Queue /\ Traffic /\ Modes /\ Whereabouts

\* Who may be where at the same time.
Phases ==
  /\ initialized <=> tty = "open"
  /\ \A w \in Writers : pc[w] # "idle" => tty = "open"
  /\ stop["tty"] # NotStopping => tty = "shutdown"
  /\ stop["pm"] # NotStopping => power = "suspending" /\ susp = 1
  /\ stop["usb"] # NotStopping => unplug = "stopping"
  /\ power = "on" => susp = 0 /\ resume = "no"
  /\ power = "suspending" => susp \in {0, 1} /\ resume = "no"
  /\ power = "off" => susp = 2 /\ resume = "no"
  /\ power = "resuming" => IF resume = "no" THEN susp > 0 ELSE susp = 0
  /\ tty \in {"submit ctrl", "submit reads", "failed"} => power = "on"
  /\ unplug \in {"hangup", "stopping", "freed"} =>
       disconnected /\ power \in {"on", "off"} /\ ~Activating
  /\ unplug \in {"stopping", "freed"} => tty = "closed"

\* Delayed writes are there while the port is suspended or being resumed, or a
\* shutdown is about to drop them.
Waiting ==
  delayed # << >> => \/ tty = "open" /\ (susp > 0 \/ resume # "no")
                     \/ tty = "shutdown" /\ stop["tty"] = Draining

\* The URBs that the thread t has killed.
Killed(t) == {u \in Urbs : stop[t] = NotStopping \/ u < stop[t]}

\* What has been killed is not submitted again.
Silence ==
  /\ power = "suspending" /\ susp = 1 => flying \cap Killed("pm") = {}
  /\ power = "off" => flying = {}
  /\ unplug = "stopping" => flying \cap Killed("usb") = {}
  /\ unplug = "freed" => flying = {}

\* The delayed writes are later than what was sent, and in order.
Ordered ==
  /\ sent <= accepted
  /\ \A k \in 1..Len(delayed) : sent < delayed[k].write /\ delayed[k].write <= accepted
  /\ \A j, k \in 1..Len(delayed) : j < k => delayed[j].write < delayed[k].write

\* The reference of an open under way.
Held == IF Activating THEN 1 ELSE 0

Accounts ==
  /\ use = (flying \cap Bufs) \cup Anchored
  /\ flying \cap Anchored = {}
  /\ \A j, k \in 1..Len(delayed) : delayed[j].urb = delayed[k].urb => j = k
  /\ transmitting = Cardinality(flying \cap Bufs)
  /\ usage = Cardinality(use) + Held

Ch343Inv == Shape /\ Phases /\ Waiting /\ Silence /\ Ordered /\ Accounts

\* A set of numbers that is not empty has a least one.
LEMMA NatMin ==
  ASSUME NEW S, S \subseteq Nat, S # {}
  PROVE  \E m \in S : \A n \in S : m <= n
<1> DEFINE R == OpToRel(<, Nat)
<1>1. IsWellFoundedOn(R, Nat)
  BY NatLessThanWellFounded
<1>2. \A x, y \in Nat : <<x, y>> \notin R => ~(x < y)
  BY Zenon DEF OpToRel
<1> HIDE DEF R
<1>3. PICK m \in S : \A n \in S : ~ (<<n, m>> \in R)
  BY <1>1, WFMin
<1>4. ASSUME NEW n \in S PROVE m <= n
  <2>1. ~(n < m)
    BY <1>2, <1>3, Zenon
  <2>2. QED
    BY <2>1
<1>5. QED
  BY <1>4

\* When not all buffers are in use, FirstFree is one that is not.
LEMMA FirstFreeIs == use # Bufs /\ use \subseteq Bufs => FirstFree \in Bufs \ use
<1> SUFFICES ASSUME use # Bufs, use \subseteq Bufs PROVE FirstFree \in Bufs \ use
  OBVIOUS
<1>1. Bufs \ use \subseteq Nat
  BY Ch343Assumption DEF Bufs
<1>2. Bufs \ use # {}
  BY Zenon
<1>3. \E i \in Bufs \ use : \A j \in Bufs \ use : i <= j
  BY <1>1, <1>2, NatMin
<1>4. QED
  BY <1>3, Zenon DEF FirstFree
\* Who changes susp_count, the lock and the power.
LEMMA PmFrame ==
  [Next]_vars =>
    \/ UNCHANGED pm
    \/ Suspend \/ Resume \/ ResumeCtrl \/ ResumeReads \/ SuspendStart \/ ResumeStart
BY DEF Next, WriterStep, StopStep, OpenStep, PmStep, DisconnectStep, vars, 
   CallWrite, Write, WriteRefused, WriteWaits, WaitRetry, WaitTimeout, WriteBulk,
   ReadFails, DrainOne, Drained, Kill,
   PortResumed, PortSubmitCtrl, PortSubmitReads, PortFailed, PortOpen, PortInitialized,
   PortShutdown, PortClosed, ResumeDelayed, Unplug, Disconnect, DisconnectStop,
   DisconnectFree

\* Who opens and closes the port, or unplugs the device.
LEMMA PortFrame ==
  [Next]_vars =>
    \/ UNCHANGED port
    \/ PortResumed \/ PortSubmitCtrl \/ PortSubmitReads \/ PortFailed \/ PortInitialized
    \/ PortOpen \/ PortShutdown \/ PortClosed
    \/ Unplug \/ Disconnect \/ DisconnectStop \/ DisconnectFree
BY DEF Next, WriterStep, StopStep, OpenStep, PmStep, DisconnectStep, vars, 
   CallWrite, Write, WriteRefused, WriteWaits, WaitRetry, WaitTimeout, WriteBulk,
   ReadFails, DrainOne, Drained, Kill,
   Suspend, Resume, ResumeCtrl, ResumeReads, SuspendStart, ResumeStart, ResumeDelayed

\* Who moves a thread in stop_data_traffic.
LEMMA StopFrame ==
  [Next]_vars =>
    \/ UNCHANGED stop
    \/ \E t \in Threads : Drained(t) \/ Kill(t)
    \/ PortShutdown \/ Suspend \/ DisconnectStop
BY DEF Next, WriterStep, StopStep, OpenStep, PmStep, DisconnectStep, vars, 
   CallWrite, Write, WriteRefused, WriteWaits, WaitRetry, WaitTimeout, WriteBulk,
   ReadFails, DrainOne, 
   PortResumed, PortSubmitCtrl, PortSubmitReads, PortFailed, PortOpen, PortInitialized,
   PortClosed,
   Resume, ResumeCtrl, ResumeReads, SuspendStart, ResumeStart, ResumeDelayed, Unplug,
   Disconnect, DisconnectFree

\* Who moves a writer.
LEMMA PcFrame ==
  [Next]_vars =>
    \/ UNCHANGED pc
    \/ \E w \in Writers : CallWrite(w) \/ WriterStep(w)
BY DEF Next, StopStep, OpenStep, PmStep, DisconnectStep, vars, WriteBulk, ReadFails,
   DrainOne, Drained, Kill, PortResumed, PortSubmitCtrl, PortSubmitReads, PortFailed,
   PortOpen,
   PortInitialized, PortShutdown, PortClosed, Suspend, Resume, ResumeCtrl, ResumeReads,
   SuspendStart,
   ResumeStart, ResumeDelayed, Unplug, Disconnect, DisconnectStop, DisconnectFree

-----------------------------------------------------------------------------
(* The initial states.                                                     *)

\* The invariant holds at the start.
LEMMA InitInv == Init => Ch343Inv
<1> SUFFICES ASSUME Init PROVE Ch343Inv
  OBVIOUS
<1>1. Queue
  BY Ch343Assumption DEF Init, Queue
<1>2. Traffic
  BY DEF Init, Traffic
<1>3. Modes
  <2>1. susp \in 0..2
    BY DEF Init
  <2>2. QED
    BY <2>1, Zenon DEF Init, Modes
<1>4. Whereabouts
  BY DEF Init, Whereabouts, Places
<1>5. Phases
  BY DEF Init, Phases, Activating, Threads
<1>6. Waiting /\ Silence /\ Ordered
  BY <1>1 DEF Init, Waiting, Silence, Ordered, Queue
<1>7. Accounts
  <2>1. Anchored = {}
    BY DEF Init, Anchored
  <2>2. QED
    BY <2>1, FS_EmptySet DEF Init, Accounts, Held, Activating
<1>8. QED
  BY <1>1, <1>2, <1>3, <1>4, <1>5, <1>6, <1>7 DEF Ch343Inv, Shape

-----------------------------------------------------------------------------
(* The types.                                                              *)

\* Who changes the delayed writes and the histories of the writes.
LEMMA OrderFrame ==
  [Next]_vars =>
    \/ UNCHANGED <<accepted, sent, delayed>>
    \/ \E w \in Writers : Write(w)
    \/ \E t \in Threads : DrainOne(t)
    \/ ResumeDelayed
BY DEF Next, WriterStep, StopStep, OpenStep, PmStep, DisconnectStep, vars, pool,
   CallWrite, WriteRefused, WriteWaits, WaitRetry, WaitTimeout, WriteBulk, WriteDone,
   ReadFails, Drained, Kill,
   PortResumed, PortSubmitCtrl, PortSubmitReads, PortFailed, PortOpen, PortInitialized,
   PortShutdown, PortClosed, Suspend, Resume, ResumeCtrl, ResumeReads, SuspendStart,
   ResumeStart, Unplug, Disconnect, DisconnectStop, DisconnectFree

\* A write that gets a buffer gets a free one, and the next number.
LEMMA WrittenIs ==
  ASSUME Shape, NEW w \in Writers, Write(w)
  PROVE  /\ accepted' = accepted + 1 /\ accepted' \in 1..MaxWrites
         /\ FirstFree \in Bufs \ use
         /\ [urb |-> FirstFree, write |-> accepted + 1] \in DelayedWrites
<1>1. accepted' = accepted + 1 /\ accepted' \in 1..MaxWrites
  BY Ch343Assumption DEF Write, Shape, Queue
<1>2. FirstFree \in Bufs \ use
  BY FirstFreeIs DEF Write, Shape, Traffic
<1>3. QED
  BY <1>1, <1>2 DEF DelayedWrites

\* Every step keeps the types of the delayed writes and of the histories.
LEMMA QueueStep == Shape /\ [Next]_vars => Queue'
<1> SUFFICES ASSUME Shape, [Next]_vars PROVE Queue'
  OBVIOUS
<1> USE DEF Shape, Queue
<1>1. CASE UNCHANGED <<accepted, sent, delayed>>
  BY <1>1
<1>2. ASSUME NEW w \in Writers, Write(w) PROVE Queue'
  <2>1. accepted' = accepted + 1 /\ accepted' \in 1..MaxWrites
    BY <1>2, WrittenIs
  <2>2. sent' = sent \/ sent' = accepted + 1
    BY <1>2 DEF Write, Started
  <2>3. [urb |-> FirstFree, write |-> accepted + 1] \in DelayedWrites
    BY <1>2, WrittenIs
  <2>4. delayed' = delayed \/ delayed' = Append(delayed, [urb |-> FirstFree,
  write |-> accepted + 1])
    BY <1>2 DEF Write
  <2>5. delayed' \in Seq(DelayedWrites)
    BY <2>3, <2>4
  <2>6. QED
    BY <2>1, <2>2, <2>5, Ch343Assumption
<1>3. ASSUME NEW t \in Threads, DrainOne(t) PROVE Queue'
  BY <1>3 DEF DrainOne
<1>4. CASE ResumeDelayed
  <2>1. delayed # << >> /\ delayed' = Tail(delayed) /\ accepted' = accepted
    BY <1>4 DEF ResumeDelayed
  <2>2. Head(delayed) \in DelayedWrites /\ Tail(delayed) \in Seq(DelayedWrites)
    BY <2>1
  <2>3. Head(delayed).write \in 0..MaxWrites
    BY <2>2, Ch343Assumption DEF DelayedWrites
  <2>4. sent' = sent \/ sent' = Head(delayed).write
    BY <1>4 DEF ResumeDelayed, Started, NotStarted
  <2>5. QED
    BY <2>1, <2>2, <2>3, <2>4
<1>5. QED
  BY <1>1, <1>2, <1>3, <1>4, OrderFrame

\* Who changes the pool, the URBs in flight and the two counters.
LEMMA TrafficFrame ==
  [Next]_vars =>
    \/ UNCHANGED <<use, flying, transmitting, usage>>
    \/ \E w \in Writers : Write(w)
    \/ \E i \in Bufs : WriteBulk(i)
    \/ \E u \in Urbs : ReadFails(u)
    \/ \E t \in Threads : DrainOne(t) \/ Kill(t)
    \/ PortResumed \/ PortSubmitCtrl \/ PortSubmitReads \/ PortFailed \/ PortOpen
    \/ ResumeCtrl \/ ResumeDelayed \/ ResumeReads
BY DEF Next, WriterStep, StopStep, OpenStep, PmStep, DisconnectStep, vars, pool,
   CallWrite, WriteRefused, WriteWaits, WaitRetry, WaitTimeout, Drained, PortInitialized,
   PortShutdown, PortClosed, Suspend, Resume, SuspendStart, ResumeStart, Unplug,
   Disconnect, DisconnectStop, DisconnectFree

\* The numbers of the URBs.
LEMMA UrbNumbers ==
  /\ Urbs \subseteq Nat /\ Bufs \subseteq Urbs /\ Reads \subseteq Urbs /\ Ctrl \in Urbs
  /\ Ctrl \notin Bufs /\ Reads \cap Bufs = {} /\ Urbs = {Ctrl} \cup Bufs \cup Reads
  /\ \A k \in Reads : (NW + 1)..(k - 1) \subseteq Reads
BY Ch343Assumption DEF Urbs, Bufs, Reads, Ctrl

\* Every step keeps the types of the pool, the URBs in flight and the counters.
LEMMA TrafficStep == Shape /\ [Next]_vars => Traffic'
<1> SUFFICES ASSUME Shape, [Next]_vars PROVE Traffic'
  OBVIOUS
<1> USE DEF Shape, Traffic
<1>1. CASE UNCHANGED <<use, flying, transmitting, usage>>
  BY <1>1
<1>2. ASSUME NEW w \in Writers, Write(w) PROVE Traffic'
  <2>1. FirstFree \in Bufs /\ FirstFree \in Urbs
    BY <1>2, FirstFreeIs, UrbNumbers DEF Write
  <2>2. (use' = use \/ use' = use \cup {FirstFree}) /\ (flying' = flying \/ flying' = flying \cup {FirstFree})
    BY <1>2 DEF Write, Started
  <2>3. transmitting' \in Int /\ usage' \in Int
    BY <1>2 DEF Write, Started
  <2>4. QED
    BY <2>1, <2>2, <2>3
<1>3. ASSUME NEW i \in Bufs, WriteBulk(i) PROVE Traffic'
  BY <1>3 DEF WriteBulk, WriteDone
<1>4. ASSUME NEW u \in Urbs, ReadFails(u) PROVE Traffic'
  BY <1>4 DEF ReadFails
<1>5. ASSUME NEW t \in Threads, DrainOne(t) PROVE Traffic'
  BY <1>5 DEF DrainOne
<1>6. ASSUME NEW t \in Threads, Kill(t) PROVE Traffic'
  BY <1>6 DEF Kill, WriteDone
<1>7. CASE PortResumed \/ PortSubmitCtrl \/ PortFailed \/ PortOpen \/ ResumeCtrl
  <2>1. use' = use /\ transmitting' = transmitting
    BY <1>7 DEF PortResumed, PortSubmitCtrl, PortFailed, PortOpen, ResumeCtrl
  <2>2. flying' \subseteq flying \cup {Ctrl}
    BY <1>7 DEF PortResumed, PortSubmitCtrl, PortFailed, PortOpen, ResumeCtrl
  <2>3. usage' \in {usage - 1, usage, usage + 1}
    BY <1>7 DEF PortResumed, PortSubmitCtrl, PortFailed, PortOpen, ResumeCtrl
  <2>4. QED
    BY <2>1, <2>2, <2>3, UrbNumbers
<1>8. CASE PortSubmitReads \/ ResumeReads
  <2>1. use' = use /\ transmitting' = transmitting /\ usage' \in {usage - 1, usage}
    BY <1>8 DEF PortSubmitReads, ResumeReads
  <2>2. flying' = flying \/ SubmitReads \/ SubmitReadsFails
    BY <1>8 DEF PortSubmitReads, ResumeReads
  <2>3. flying' \subseteq flying \cup Reads
    BY <2>2, UrbNumbers DEF SubmitReads, SubmitReadsFails
  <2>4. QED
    BY <2>1, <2>3, UrbNumbers
<1>9. CASE ResumeDelayed
  <2>1. Head(delayed) \in DelayedWrites
    BY <1>9 DEF ResumeDelayed, Queue
  <2>2. Head(delayed).urb \in Urbs
    BY <2>1, UrbNumbers DEF DelayedWrites
  <2>3. QED
    BY <1>9, <2>2 DEF ResumeDelayed, Started, NotStarted
<1>10. QED
  BY <1>1, <1>2, <1>3, <1>4, <1>5, <1>6, <1>7, <1>8, <1>9, TrafficFrame

\* susp_count goes up from 0 and 1 only, and down from 1 and 2 only.
LEMMA SuspCounts ==
  /\ \A s \in {0, 1} : s \in 0..2 /\ s + 1 \in 0..2
  /\ \A s \in 0..2 : s > 0 => s - 1 \in 0..2
OBVIOUS

\* Every step keeps the types of the modes.
LEMMA ModesStep == Shape /\ Phases /\ [Next]_vars => Modes'
<1> SUFFICES ASSUME Shape, Phases, [Next]_vars PROVE Modes'
  OBVIOUS
<1> DEFINE PmModes == /\ susp \in 0..2
                      /\ resume \in {"no", "ctrl", "delayed", "failed"}
                      /\ power \in {"on", "suspending", "off", "resuming"}
                      /\ auto \in BOOLEAN
<1>1. PmModes'
  <2> USE DEF Shape, Modes
  <2>1. CASE UNCHANGED pm
    BY <2>1 DEF pm
  <2>2. CASE Suspend
    <3>1. /\ resume' = resume /\ auto' = auto
          /\ power' \in {"on", "resuming", "suspending", "off"}
          /\ susp' = susp \/ susp' = susp + 1
          /\ power = "suspending"
      BY <2>2, Zenon DEF Suspend
    <3>2. susp \in {0, 1}
      BY <3>1, Zenon DEF Phases
    <3>3. susp' \in 0..2
      BY <3>1, <3>2, SuspCounts, Zenon
    <3>4. QED
      BY <3>1, <3>3, Zenon
  <2>3. CASE Resume
    <3>1. /\ power = "resuming" /\ resume = "no" /\ susp' = susp - 1 /\ auto' = auto
          /\ power' \in {power, "on"} /\ resume' \in {resume, "ctrl"}
      BY <2>3, Zenon DEF Resume, LockFree
    <3>2. susp > 0
      BY <3>1, Zenon DEF Phases
    <3>3. susp' \in 0..2
      BY <3>1, <3>2, SuspCounts, Zenon
    <3>4. QED
      BY <3>1, <3>3, Zenon
  <2>4. CASE ResumeCtrl \/ ResumeReads
    BY <2>4 DEF ResumeCtrl, ResumeReads
  <2>5. CASE SuspendStart \/ ResumeStart
    BY <2>5 DEF SuspendStart, ResumeStart
  <2>6. QED
    BY <2>1, <2>2, <2>3, <2>4, <2>5, PmFrame
<1> DEFINE PortModes == /\ initialized \in BOOLEAN
                        /\ tty \in {"closed", "opening", "submit ctrl", "submit reads",
                                    "failed", "activated", "open", "shutdown"}
                        /\ disconnected \in BOOLEAN
                        /\ unplug \in {"no", "unbinding", "hangup", "stopping", "freed"}
<1>2. PortModes'
  <2> USE DEF Shape, Modes
  <2>1. CASE UNCHANGED port
    BY <2>1 DEF port
  <2>2. CASE PortResumed \/ PortSubmitCtrl \/ PortSubmitReads \/ PortFailed
    BY <2>2 DEF PortResumed, PortSubmitCtrl, PortSubmitReads, PortFailed
  <2>3. CASE PortInitialized \/ PortOpen \/ PortShutdown \/ PortClosed
    BY <2>3 DEF PortInitialized, PortOpen, PortShutdown, PortClosed
  <2>4. CASE Unplug \/ Disconnect \/ DisconnectStop \/ DisconnectFree
    BY <2>4 DEF Unplug, Disconnect, DisconnectStop, DisconnectFree
  <2>5. QED
    BY <2>1, <2>2, <2>3, <2>4, PortFrame
<1>3. QED
  BY <1>1, <1>2 DEF Modes
\* Every step keeps the types of where the threads are.
LEMMA WhereaboutsStep == Shape /\ [Next]_vars => Whereabouts'
<1> SUFFICES ASSUME Shape, [Next]_vars PROVE Whereabouts'
  OBVIOUS
<1> USE DEF Shape, Whereabouts
<1>1. NotStopping \in Places /\ Draining \in Places /\ Urbs \subseteq Places
  BY DEF Places
<1>2. (stop \in [Threads -> Places])'
  <2>1. CASE UNCHANGED stop
    BY <2>1
  <2>2. ASSUME NEW t \in Threads, Drained(t) PROVE (stop \in [Threads -> Places])'
    <3>1. stop' = [stop EXCEPT ![t] = Ctrl] /\ Ctrl \in Places
      BY <2>2, <1>1, UrbNumbers DEF Drained
    <3>2. QED
      BY <3>1
  <2>3. ASSUME NEW t \in Threads, Kill(t) PROVE (stop \in [Threads -> Places])'
    <3>1. PICK p \in Places : stop' = [stop EXCEPT ![t] = p]
      BY <2>3, <1>1 DEF Kill
    <3>2. QED
      BY <3>1
  <2>4. CASE PortShutdown \/ Suspend \/ DisconnectStop
    <3>1. stop' = stop \/ \E t \in Threads : stop' = [stop EXCEPT ![t] = Draining]
      BY <2>4 DEF PortShutdown, Suspend, DisconnectStop, StopTraffic, Threads
    <3>2. QED
      BY <1>1, <3>1
  <2>5. QED
    BY <2>1, <2>2, <2>3, <2>4, StopFrame
<1>3. (pc \in [Writers -> {"idle", "try", "wait"}])'
  <2>1. pc' = pc \/ \E w \in Writers, p \in {"idle", "try",
  "wait"} : pc' = [pc EXCEPT ![w] = p]
    BY PcFrame DEF WriterStep, CallWrite, Write, WriteRefused, WriteWaits, WaitRetry,
       WaitTimeout
  <2>2. QED
    BY <2>1
<1>4. QED
  BY <1>2, <1>3
-----------------------------------------------------------------------------
(* The order of the writes.                                                *)

\* What Head, Tail and Append do.
LEMMA SeqFacts ==
  ASSUME NEW S, NEW q \in Seq(S)
  PROVE  /\ Len(q) \in Nat /\ \A k \in 1..Len(q) : q[k] \in S
         /\ q # << >> => /\ Len(q) > 0 /\ Head(q) = q[1] /\ Head(q) \in S
                         /\ Len(Tail(q)) = Len(q) - 1
                         /\ \A k \in 1..Len(q) - 1 : Tail(q)[k] = q[k + 1]
         /\ \A d \in S : /\ Len(Append(q, d)) = Len(q) + 1
                         /\ Append(q, d)[Len(q) + 1] = d
                         /\ \A k \in 1..Len(q) : Append(q, d)[k] = q[k]
OBVIOUS

\* Every step keeps the order: a write is submitted at once only when none waits.
LEMMA OrderedStep == Shape /\ Phases /\ Waiting /\ Ordered /\ [Next]_vars => Ordered'
<1> SUFFICES ASSUME Shape, Phases, Waiting, Ordered, [Next]_vars PROVE Ordered'
  OBVIOUS
<1>0. /\ accepted \in Nat /\ sent \in Nat /\ delayed \in Seq(DelayedWrites)
      /\ \A k \in 1..Len(delayed) : delayed[k].write \in Nat
  <2>1. accepted \in Nat /\ sent \in Nat /\ delayed \in Seq(DelayedWrites)
    BY Ch343Assumption DEF Shape, Queue
  <2>2. \A d \in DelayedWrites : d.write \in Nat
    BY DEF DelayedWrites
  <2>3. QED
    BY <2>1, <2>2, SeqFacts
<1>1. CASE UNCHANGED <<accepted, sent, delayed>>
  BY <1>1 DEF Ordered
<1>2. ASSUME NEW w \in Writers, Write(w) PROVE Ordered'
  <2> DEFINE d == [urb |-> FirstFree, write |-> accepted + 1]
  <2>1. accepted' = accepted + 1
    BY <1>2 DEF Write
  <2>2. CASE sent' = sent /\ delayed' = delayed
    BY <2>1, <2>2, <1>0 DEF Ordered
  <2>3. CASE susp = 0 /\ sent' = accepted + 1 /\ delayed' = delayed
    <3>1. delayed = << >>
      <4>1. tty = "open" /\ resume = "no"
        BY <1>2 DEF Write, LockFree, Phases
      <4>2. QED
        BY <4>1, <2>3 DEF Waiting
    <3>2. QED
      BY <3>1, <2>1, <2>3, <1>0 DEF Ordered
  <2>4. CASE sent' = sent /\ delayed' = Append(delayed, d)
    <3>1. d \in DelayedWrites /\ d.write = accepted + 1
      BY <1>2, WrittenIs
    <3> HIDE DEF d
    <3>2. /\ Len(delayed') = Len(delayed) + 1 /\ delayed'[Len(delayed) + 1] = d
          /\ \A k \in 1..Len(delayed) : delayed'[k] = delayed[k]
      BY <3>1, <2>4, <1>0, SeqFacts
    <3>3. Len(delayed) \in Nat
      BY <1>0
    <3>4. QED
      BY <3>1, <3>2, <3>3, <2>1, <2>4, <1>0 DEF Ordered
  <2>5. QED
    BY <1>2, <2>2, <2>3, <2>4 DEF Write, Started
<1>3. ASSUME delayed # << >>, delayed' = Tail(delayed), accepted' = accepted,
             sent' \in {sent, Head(delayed).write}
      PROVE  Ordered'
  <2>1. /\ Len(delayed) \in Nat \ {0} /\ Head(delayed) = delayed[1]
        /\ Len(delayed') = Len(delayed) - 1
        /\ \A k \in 1..Len(delayed) - 1 : delayed'[k] = delayed[k + 1]
    BY <1>3, <1>0, SeqFacts
  <2>2. sent' \in {sent, delayed[1].write}
    BY <2>1, <1>3
  <2>3. QED
    BY <2>1, <2>2, <1>0, <1>3 DEF Ordered
<1>4. ASSUME NEW t \in Threads, DrainOne(t) PROVE Ordered'
  BY <1>3, <1>4 DEF DrainOne
<1>5. CASE ResumeDelayed
  BY <1>3, <1>5 DEF ResumeDelayed, Started, NotStarted
<1>6. QED
  BY <1>1, <1>2, <1>4, <1>5, OrderFrame

\* The action property, for a step that starts in Ordered.
LEMMA SentStep == Shape /\ Ordered /\ [Next]_vars => (sent' # sent => sent' > sent)
<1> SUFFICES ASSUME Shape, Ordered, [Next]_vars, sent' # sent PROVE sent' > sent
  OBVIOUS
<1>1. accepted \in Nat /\ sent \in Nat /\ delayed \in Seq(DelayedWrites)
  BY Ch343Assumption DEF Shape, Queue
<1>2. ASSUME NEW w \in Writers, Write(w) PROVE sent' > sent
  BY <1>1, <1>2 DEF Write, Started, Ordered
<1>3. CASE ResumeDelayed
  <2>1. sent' = Head(delayed).write /\ delayed # << >>
    BY <1>3 DEF ResumeDelayed, Started, NotStarted
  <2>2. Head(delayed) = delayed[1] /\ 1 \in 1..Len(delayed) /\ delayed[1] \in DelayedWrites
    BY <2>1, <1>1, SeqFacts
  <2>3. delayed[1].write \in Nat
    BY <2>2, Ch343Assumption DEF DelayedWrites
  <2>4. QED
    BY <2>1, <2>2, <2>3, <1>1 DEF Ordered
<1>4. ASSUME NEW t \in Threads, DrainOne(t) PROVE FALSE
  BY <1>4 DEF DrainOne
<1>5. QED
  BY <1>2, <1>3, <1>4, OrderFrame

-----------------------------------------------------------------------------
(* Where the delayed writes wait.                                          *)

\* Who changes where the delayed writes wait.
LEMMA WaitingFrame ==
  [Next]_vars =>
    \/ UNCHANGED <<delayed, tty, susp, resume, stop>>
    \/ \E w \in Writers : Write(w)
    \/ \E t \in Threads : StopStep(t)
    \/ OpenStep \/ PortOpen \/ PortShutdown \/ PortClosed
    \/ PmStep \/ DisconnectStop
BY DEF Next, WriterStep, DisconnectStep, vars, pool, pm, port,
   CallWrite, WriteRefused, WriteWaits, WaitRetry, WaitTimeout, WriteBulk, ReadFails,
   SuspendStart, ResumeStart, Unplug, Disconnect, DisconnectFree

\* Every step keeps Waiting: who ends the suspension or the shutdown has emptied
\* the anchor.
LEMMA WaitingStep == Shape /\ Phases /\ Waiting /\ [Next]_vars => Waiting'
<1> SUFFICES ASSUME Shape, Phases, Waiting, [Next]_vars, delayed' # << >>
             PROVE  \/ tty' = "open" /\ (susp' > 0 \/ resume' # "no")
                    \/ tty' = "shutdown" /\ stop'["tty"] = Draining
  BY Zenon DEF Waiting
<1> DEFINE Goal == \/ tty' = "open" /\ (susp' > 0 \/ resume' # "no")
                   \/ tty' = "shutdown" /\ stop'["tty"] = Draining
<1>0. stop \in [Threads -> Places] /\ "tty" \in Threads /\ susp \in Nat
      /\ NotStopping # Draining /\ \A u \in Urbs : u # Draining
  <2>1. stop \in [Threads -> Places] /\ susp \in 0..2
    BY Zenon DEF Shape, Whereabouts, Modes
  <2>2. \A u \in Nat : u # Draining /\ u # NotStopping
    BY DEF NotStopping, Draining
  <2>3. QED
    BY <2>1, <2>2, UrbNumbers DEF Threads, NotStopping, Draining
<1>1. CASE UNCHANGED <<delayed, tty, susp, resume, stop>>
  BY <1>1 DEF Waiting
<1>2. ASSUME NEW w \in Writers, Write(w) PROVE Goal
  <2>1. UNCHANGED <<tty, susp, resume, stop>>
    BY <1>2 DEF Write, pm, port
  <2>2. CASE delayed' = delayed
    BY <2>1, <2>2 DEF Waiting
  <2>3. CASE susp > 0
    BY <2>1, <2>3, <1>2 DEF Phases, Write
  <2>4. QED
    BY <1>2, <2>2, <2>3 DEF Write
<1>3. ASSUME NEW t \in Threads, DrainOne(t) PROVE Goal
  BY <1>3 DEF DrainOne, Waiting, pm, port
<1>4. ASSUME NEW t \in Threads, Drained(t) PROVE Goal
  BY <1>4 DEF Drained, pool
<1>5. ASSUME NEW t \in Threads, Kill(t) PROVE Goal
  <2>1. UNCHANGED <<delayed, tty, susp, resume>> /\ stop[t] \in Urbs
    BY <1>5 DEF Kill, pm, port
  <2>2. stop["tty"] = Draining => stop'["tty"] = Draining
    BY <1>5, <2>1, <1>0 DEF Kill
  <2>3. QED
    BY <2>1, <2>2 DEF Waiting
<1>6. CASE OpenStep \/ PortOpen
  <2>1. tty \notin {"open", "shutdown"} /\ delayed' = delayed
    BY <1>6 DEF OpenStep, PortResumed, PortSubmitCtrl, PortSubmitReads, PortFailed,
                PortInitialized, PortOpen, pool
  <2>2. QED
    BY <2>1 DEF Waiting
<1>7. CASE PortShutdown
  BY <1>7, <1>0 DEF PortShutdown, StopTraffic
<1>8. CASE PortClosed
  BY <1>8, <1>0 DEF PortClosed, Waiting, pool
<1>9. CASE Suspend
  <2>1. UNCHANGED <<delayed, tty, resume>> /\ susp' \in {susp, susp + 1}
        /\ stop' \in {stop, [stop EXCEPT !["pm"] = Draining]}
    BY <1>9, Zenon DEF Suspend, StopTraffic, pool, port
  <2>2. stop'["tty"] = stop["tty"]
    BY <2>1, <1>0
  <2>3. susp > 0 => susp' > 0
    BY <2>1, <1>0
  <2>4. QED
    BY <2>1, <2>2, <2>3, Zenon DEF Waiting
<1>10. CASE Resume
  <2>1. UNCHANGED <<delayed, tty, stop>> /\ susp' = susp - 1 /\ resume = "no"
        /\ (susp > 1 \/ resume' = "ctrl" \/ ~initialized)
    BY <1>10, Zenon DEF Resume, LockFree, pool, port
  <2>2. initialized <=> tty = "open"
    BY Zenon DEF Phases
  <2>3. susp > 1 => susp' > 0
    BY <2>1, <1>0
  <2>4. QED
    BY <2>1, <2>2, <2>3, Zenon DEF Waiting
<1>11. CASE ResumeCtrl
  BY <1>11 DEF ResumeCtrl, Waiting, Phases, port
<1>12. CASE ResumeDelayed
  BY <1>12 DEF ResumeDelayed, Waiting, pm, port
<1>13. CASE ResumeReads
  BY <1>13 DEF ResumeReads
<1>14. CASE DisconnectStop
  BY <1>14, <1>0 DEF DisconnectStop, Waiting, pool, pm
<1>15. QED
  BY <1>1, <1>2, <1>3, <1>4, <1>5, <1>6, <1>7, <1>8, <1>9, <1>10, <1>11, <1>12, <1>13,
     <1>14, WaitingFrame DEF StopStep, PmStep
-----------------------------------------------------------------------------
(* The counters.                                                           *)

\* The pool and its parts are finite, and not more than NW.
LEMMA UseCounts ==
  ASSUME Shape
  PROVE  IsFiniteSet(Bufs) /\ IsFiniteSet(use) /\ Cardinality(use) \in Nat
         /\ Cardinality(use) <= NW /\ IsFiniteSet(flying \cap Bufs)
         /\ Cardinality(flying \cap Bufs) \in Nat
<1>1. IsFiniteSet(Bufs) /\ Cardinality(Bufs) = NW
  BY FS_Interval, Ch343Assumption DEF Bufs
<1>2. use \subseteq Bufs /\ flying \cap Bufs \subseteq Bufs
  BY DEF Shape, Traffic
<1>3. QED
  BY <1>1, <1>2, FS_Subset, FS_CardinalityType
-----------------------------------------------------------------------------
(* Who may be where at the same time.                                      *)

\* Who changes the modes and the whereabouts.
LEMMA PhasesFrame ==
  [Next]_vars =>
    \/ UNCHANGED <<pm, port, stop, pc>>
    \/ \E w \in Writers : CallWrite(w) \/ WriterStep(w)
    \/ \E t \in Threads : Drained(t) \/ Kill(t)
    \/ OpenStep \/ PortOpen \/ PortShutdown \/ PortClosed
    \/ Suspend \/ Resume \/ ResumeCtrl \/ ResumeReads \/ SuspendStart \/ ResumeStart
    \/ Unplug \/ DisconnectStep
BY DEF Next, StopStep, PmStep, vars, pool, WriteBulk, ReadFails, DrainOne, ResumeDelayed

\* A writer is in ch343_tty_write only while the port is open.
LEMMA WriterPhase ==
  ASSUME Shape, Phases, NEW w \in Writers, CallWrite(w) \/ WriterStep(w)
  PROVE  Phases'
<1>1. UNCHANGED <<pm, port, stop>>
  BY DEF CallWrite, WriterStep, Write, WriteRefused, WriteWaits, WaitRetry, WaitTimeout
<1>2. tty = "open"
  BY DEF CallWrite, WriterStep, Write, WriteRefused, WriteWaits, WaitRetry, WaitTimeout,
     Phases
<1>3. QED
  BY <1>1, <1>2, Zenon DEF Phases, Activating, pm, port

\* A thread that goes on in stop_data_traffic is already there.
LEMMA StopPhase ==
  ASSUME Shape, Phases, NEW t \in Threads, Drained(t) \/ Kill(t)
  PROVE  Phases'
<1>1. UNCHANGED <<pm, port, pc>>
  BY DEF Drained, Kill
<1>2. stop \in [Threads -> Places] /\ "tty" \in Threads /\ "pm" \in Threads /\ "usb" \in Threads
  BY DEF Shape, Whereabouts, Threads
<1>3. stop[t] # NotStopping
  BY UrbNumbers DEF Drained, Kill, NotStopping, Draining
<1>4. \A s \in Threads : stop'[s] # NotStopping => stop[s] # NotStopping
  BY <1>2, <1>3 DEF Drained, Kill
<1>5. QED
  BY <1>1, <1>2, <1>4, Zenon DEF Phases, Activating, pm, port

\* Every step keeps Phases: no autosuspend begins while an open has a reference.
LEMMA PhasesStep == Shape /\ Phases /\ Accounts /\ [Next]_vars => Phases'
<1> SUFFICES ASSUME Shape, Phases, Accounts, [Next]_vars PROVE Phases'
  OBVIOUS
<1>0. stop \in [Threads -> Places] /\ "tty" \in Threads /\ "pm" \in Threads /\ "usb" \in Threads
  BY DEF Shape, Whereabouts, Threads
<1>1. CASE UNCHANGED <<pm, port, stop, pc>>
  BY <1>1, Zenon DEF Phases, Activating, pm, port
<1>2. CASE PortResumed
  BY <1>2, Zenon DEF PortResumed, Phases, Activating, pm
<1>3. CASE PortSubmitCtrl
  BY <1>3, Zenon DEF PortSubmitCtrl, Phases, Activating, pm
<1>4. CASE PortSubmitReads
  BY <1>4, Zenon DEF PortSubmitReads, Phases, Activating, pm
<1>5. CASE PortFailed
  BY <1>5, Zenon DEF PortFailed, Phases, Activating, pm
<1>6. CASE PortInitialized
  BY <1>6, Zenon DEF PortInitialized, Phases, Activating, pm
<1>7. CASE PortOpen
  BY <1>7, Zenon DEF PortOpen, Phases, Activating, pm
<1>8. CASE PortShutdown
  <2>1. stop'["pm"] = stop["pm"] /\ stop'["usb"] = stop["usb"]
    BY <1>8, <1>0 DEF PortShutdown, StopTraffic
  <2>2. QED
    BY <1>8, <2>1, Zenon DEF PortShutdown, Phases, Activating, pm
<1>9. CASE PortClosed
  BY <1>9, Zenon DEF PortClosed, Phases, Activating, pm
<1>10. CASE Suspend
  <2>1. UNCHANGED <<port, pc, resume>> /\ power = "suspending" /\ resume = "no"
        /\ stop["pm"] = NotStopping
    BY <1>10, Zenon DEF Suspend, LockFree
  <2>2. susp \in {0, 1}
    BY <2>1, Zenon DEF Phases
  <2>3. \/ stop' = stop /\ susp' = susp /\ susp = 0 /\ power' = "on"
        \/ stop' = stop /\ susp' = susp /\ susp # 0 /\ power' = "resuming"
        \/ susp' = susp + 1 /\ susp = 0 /\ power' = "suspending" /\ stop' = [stop EXCEPT !["pm"] = Draining]
        \/ susp' = susp + 1 /\ susp # 0 /\ power' = "off" /\ stop' = stop
    BY <1>10, Zenon DEF Suspend, StopTraffic
  <2>4. \/ stop'["pm"] = NotStopping /\ susp' = 0 /\ power' = "on"
        \/ stop'["pm"] = NotStopping /\ susp' > 0 /\ power' = "resuming"
        \/ susp' = 1 /\ power' = "suspending" 
        \/ stop'["pm"] = NotStopping /\ susp' = 2 /\ power' = "off"
    BY <2>1, <2>2, <2>3
  <2>5. stop'["tty"] = stop["tty"] /\ stop'["usb"] = stop["usb"]
    BY <2>3, <1>0
  <2>6. tty \notin {"submit ctrl", "submit reads", "failed"}
        /\ unplug \notin {"hangup", "stopping", "freed"}
    BY <2>1, Zenon DEF Phases
  <2>7. QED
    BY <2>1, <2>4, <2>5, <2>6, Zenon DEF Phases, Activating, port
<1>11. CASE Resume
  <2>1. UNCHANGED <<port, pc,
  stop>> /\ power = "resuming" /\ resume = "no" /\ susp' = susp - 1
    BY <1>11, Zenon DEF Resume, LockFree
  <2>2. susp > 0 /\ susp \in 0..2
    BY <2>1, Zenon DEF Phases, Shape, Modes
  <2>3. \/ power' = "resuming" /\ resume' = "no" /\ susp > 1
        \/ power' = "resuming" /\ resume' = "ctrl" /\ ~(susp > 1)
        \/ power' = "on" /\ resume' = "no" /\ ~(susp > 1)
    BY <1>11, <2>1, Zenon DEF Resume
  <2>4. IF susp > 1 THEN susp' > 0 ELSE susp' = 0
    BY <2>1, <2>2
  <2>5. tty \notin {"submit ctrl", "submit reads", "failed"}
        /\ unplug \notin {"hangup", "stopping", "freed"} /\ stop["pm"] = NotStopping
    BY <2>1, Zenon DEF Phases
  <2>6. QED
    BY <2>1, <2>3, <2>4, <2>5, Zenon DEF Phases, Activating, port
<1>12. CASE ResumeCtrl
  BY <1>12, Zenon DEF ResumeCtrl, Phases, Activating, port
<1>13. CASE ResumeReads
  <2>1. resume # "no" /\ power \in {"on", "suspending", "off", "resuming"}
    BY <1>13, Zenon DEF ResumeReads, Shape, Modes
  <2>2. power = "resuming" /\ susp = 0
    BY <2>1, Zenon DEF Phases
  <2>3. QED
    BY <1>13, <2>2, Zenon DEF ResumeReads, Phases, Activating, port
<1>14. CASE SuspendStart
  <2>1. tty \notin {"submit ctrl", "submit reads", "failed"}
    <3>1. CASE usage = 0
      <4>1. usage = Cardinality(use) + (IF Activating THEN 1 ELSE 0)
        BY Zenon DEF Accounts, Held
      <4>2. ~Activating
        BY <3>1, <4>1, UseCounts
      <4>3. QED
        BY <4>2, Zenon DEF Activating
    <3>2. QED
      BY <1>14, <3>1, Zenon DEF SuspendStart
  <2>2. QED
    BY <1>14, <2>1, Zenon DEF SuspendStart, Phases, Activating, port
<1>15. CASE ResumeStart
  <2>1. power = "off" /\ susp = 2 /\ resume = "no"
    BY <1>15, Zenon DEF ResumeStart, Phases
  <2>2. 2 > 0
    OBVIOUS
  <2>3. QED
    BY <1>15, <2>1, <2>2, Zenon DEF ResumeStart, Phases, Activating, port
<1>16. CASE Unplug
  BY <1>16, Zenon DEF Unplug, Phases, Activating, pm
<1>17. CASE Disconnect
  BY <1>17, Zenon DEF Disconnect, Phases, Activating, pm
<1>18. CASE DisconnectStop
  <2>1. stop'["pm"] = stop["pm"] /\ stop'["tty"] = stop["tty"]
    BY <1>18, <1>0 DEF DisconnectStop, StopTraffic
  <2>2. QED
    BY <1>18, <2>1, Zenon DEF DisconnectStop, Phases, Activating, pm
<1>19. CASE DisconnectFree
  BY <1>19, Zenon DEF DisconnectFree, Phases, Activating, pm
<1>20. QED
  BY <1>1, <1>2, <1>3, <1>4, <1>5, <1>6, <1>7, <1>8, <1>9, <1>10, <1>11, <1>12, <1>13,
     <1>14,
     <1>15, <1>16, <1>17, <1>18, <1>19, PhasesFrame, WriterPhase, StopPhase
     DEF OpenStep, DisconnectStep
-----------------------------------------------------------------------------
(* What has been killed is not submitted again.                            *)

\* Who may submit a URB.
Submitting ==
  \/ \E w \in Writers : susp = 0 /\ Write(w)
  \/ PortSubmitCtrl \/ PortSubmitReads
  \/ ResumeCtrl \/ ResumeDelayed \/ ResumeReads

\* Every other step submits nothing.
LEMMA FlyingFrame == [Next]_vars => flying' \subseteq flying \/ Submitting
<1> SUFFICES ASSUME [Next]_vars, ~Submitting PROVE flying' \subseteq flying
  OBVIOUS
<1>1. CASE UNCHANGED <<use, flying, transmitting, usage>>
  BY <1>1
<1>2. ASSUME NEW w \in Writers, Write(w) PROVE flying' \subseteq flying
  BY <1>2, Zenon DEF Write, Submitting
<1>3. ASSUME NEW i \in Bufs, WriteBulk(i) PROVE flying' \subseteq flying
  BY <1>3, Zenon DEF WriteBulk, WriteDone
<1>4. ASSUME NEW u \in Urbs, ReadFails(u) PROVE flying' \subseteq flying
  BY <1>4, Zenon DEF ReadFails
<1>5. ASSUME NEW t \in Threads, DrainOne(t) PROVE flying' \subseteq flying
  BY <1>5, Zenon DEF DrainOne
<1>6. ASSUME NEW t \in Threads, Kill(t) PROVE flying' \subseteq flying
  BY <1>6, Zenon DEF Kill, WriteDone
<1>7. CASE PortResumed \/ PortFailed \/ PortOpen
  BY <1>7, Zenon DEF PortResumed, PortFailed, PortOpen
<1>8. QED
  BY <1>1, <1>2, <1>3, <1>4, <1>5, <1>6, <1>7, TrafficFrame, Zenon DEF Submitting

\* While somebody submits a URB, the device is awake or being resumed, and
\* ch343_disconnect does not stop the traffic.
LEMMA SubmittingAwake ==
  ASSUME Shape, Phases, Submitting
  PROVE  /\ unplug' = unplug /\ unplug \notin {"stopping", "freed"}
         /\ power' = power \/ power' = "on"
         /\ susp' = susp /\ power # "off" /\ ~(power = "suspending" /\ susp = 1)
<1>0. 0 # 1 /\ 0 # 2
  OBVIOUS
<1>1. ASSUME NEW w \in Writers, susp = 0, Write(w)
      PROVE  susp = 0 /\ UNCHANGED <<unplug, power, susp>> /\ tty = "open"
  BY <1>1, Zenon DEF Write, pm, port, Phases
<1>2. ASSUME PortSubmitCtrl \/ PortSubmitReads
      PROVE  UNCHANGED <<unplug, power, susp>> /\ power = "on" /\ Activating
  BY <1>2, Zenon DEF PortSubmitCtrl, PortSubmitReads, pm, Phases, Activating
<1>3. ASSUME ResumeCtrl \/ ResumeDelayed \/ ResumeReads
      PROVE  UNCHANGED <<unplug,
      susp>> /\ resume # "no" /\ (power' = power \/ power' = "on")
  BY <1>3, Zenon DEF ResumeCtrl, ResumeDelayed, ResumeReads, pm, port
<1>4. CASE \E w \in Writers : susp = 0 /\ Write(w)
  BY <1>0, <1>1, <1>4, Zenon DEF Phases
<1>5. CASE PortSubmitCtrl \/ PortSubmitReads
  BY <1>2, <1>5, Zenon DEF Phases
<1>6. CASE ResumeCtrl \/ ResumeDelayed \/ ResumeReads
  BY <1>3, <1>6, Zenon DEF Phases
<1>7. QED
  BY <1>4, <1>5, <1>6, Zenon DEF Submitting

\* What moves a thread in stop_data_traffic.
LEMMA StopMoves ==
  ASSUME Shape, NEW t \in Threads, [Next]_vars
  PROVE  \/ stop'[t] = stop[t]
         \/ Drained(t)
         \/ Kill(t)
         \/ /\ stop'[t] = Draining /\ flying' = flying
            /\ \/ t = "tty" /\ PortShutdown
               \/ t = "pm" /\ Suspend /\ susp = 0
               \/ t = "usb" /\ DisconnectStop
<1>0. stop \in [Threads -> Places] /\ "tty" \in Threads /\ "pm" \in Threads /\ "usb" \in Threads
  BY DEF Shape, Whereabouts, Threads
<1>1. ASSUME NEW s \in Threads, Drained(s) \/ Kill(s), s # t PROVE stop'[t] = stop[t]
  BY <1>0, <1>1 DEF Drained, Kill
<1>2. ASSUME PortShutdown
      PROVE  flying' = flying /\ IF t = "tty" THEN stop'[t] = Draining ELSE stop'[t] = stop[t]
  BY <1>0, <1>2 DEF PortShutdown, StopTraffic, pool
<1>3. ASSUME DisconnectStop
      PROVE  flying' = flying /\ IF t = "usb" THEN stop'[t] = Draining ELSE stop'[t] = stop[t]
  BY <1>0, <1>3 DEF DisconnectStop, StopTraffic, pool
<1>4. ASSUME Suspend
      PROVE  /\ flying' = flying
             /\ \/ stop'[t] = stop[t]
                \/ t = "pm" /\ susp = 0 /\ stop'[t] = Draining
  <2>1. /\ flying' = flying
        /\ \/ stop' = stop
           \/ susp = 0 /\ stop' = [stop EXCEPT !["pm"] = Draining]
    BY <1>4, Zenon DEF Suspend, StopTraffic, pool
  <2>2. QED
    BY <1>0, <2>1
<1>5. QED
  BY <1>1, <1>2, <1>3, <1>4, StopFrame, Zenon

\* Every step that submits nothing leaves what has been killed idle.
LEMMA KilledStep ==
  ASSUME Shape, NEW t \in Threads, [Next]_vars, flying' \subseteq flying,
         flying \cap Killed(t) = {}
  PROVE  flying' \cap Killed(t)' = {}
<1>0. stop \in [Threads -> Places] /\ flying \subseteq Urbs
  BY Zenon DEF Shape, Whereabouts, Traffic
<1>1. CASE stop'[t] = stop[t]
  BY <1>1, Zenon DEF Killed
<1>2. CASE Drained(t) \/ stop'[t] = Draining
  <2>1. stop'[t] \in {Ctrl, Draining}
    BY <1>0, <1>2 DEF Drained
  <2>2. \A u \in Urbs : ~(u < stop'[t]) /\ stop'[t] # NotStopping
    BY <2>1, UrbNumbers DEF Ctrl, Draining, NotStopping
  <2>3. Killed(t)' = {}
    BY <2>2, Zenon DEF Killed
  <2>4. QED
    BY <2>3, Zenon
<1>3. CASE Kill(t)
  <2> DEFINE u == stop[t]
  <2>1. u \in Urbs /\ flying' = flying \ {u}
        /\ stop'[t] = IF u + 1 \in Urbs THEN u + 1 ELSE NotStopping
    BY <1>0, <1>3 DEF Kill, WriteDone
  <2>2. \A v \in Urbs : stop'[t] = NotStopping \/ v < stop'[t] => v = u \/ v < u
    BY <2>1, Ch343Assumption DEF Urbs, NotStopping
  <2>3. QED
    BY <2>1, <2>2, Zenon DEF Killed
<1>4. QED
  BY <1>1, <1>2, <1>3, StopMoves, Zenon

\* What is not yet killed when the traffic begins to be stopped.
LEMMA NoneKilled ==
  ASSUME NEW t \in Threads, stop'[t] = Draining
  PROVE  Killed(t)' = {}
<1>1. \A u \in Urbs : ~(u < stop'[t]) /\ stop'[t] # NotStopping
  BY UrbNumbers DEF Draining, NotStopping
<1>2. QED
  BY <1>1, Zenon DEF Killed

\* A thread that is not there has killed all.
LEMMA AllKilled ==
  ASSUME Shape, NEW t \in Threads, stop[t] = NotStopping, flying \cap Killed(t) = {}
  PROVE  flying = {}
<1>1. flying \subseteq Urbs
  BY Zenon DEF Shape, Traffic
<1>2. QED
  BY <1>1, Zenon DEF Killed

\* Every step keeps Silence.
LEMMA SilenceStep == Shape /\ Phases /\ Silence /\ [Next]_vars => Silence'
<1> SUFFICES ASSUME Shape, Phases, Silence, [Next]_vars PROVE Silence'
  OBVIOUS
<1>0. "pm" \in Threads /\ "usb" \in Threads /\ stop \in [Threads -> Places]
  BY Zenon DEF Threads, Shape, Whereabouts
<1>1. CASE Submitting
  BY <1>1, SubmittingAwake, Zenon DEF Silence
<1>2. CASE flying' \subseteq flying
  <2>1. ASSUME power' = "suspending", susp' = 1 PROVE flying' \cap Killed("pm")' = {}
    <3>1. CASE power = "suspending" /\ susp = 1
      BY <1>0, <1>2, <3>1, KilledStep, Zenon DEF Silence
    <3>2. CASE ~(power = "suspending" /\ susp = 1)
      <4>1. CASE Suspend
        <5>1. stop' = [stop EXCEPT !["pm"] = Draining]
          BY <2>1, <4>1, Zenon DEF Suspend, StopTraffic
        <5>2. stop'["pm"] = Draining
          BY <1>0, <5>1
        <5>3. QED
          BY <1>0, <5>2, NoneKilled, Zenon
      <4>2. CASE Resume
        BY <2>1, <4>2, Zenon DEF Resume
      <4>3. CASE SuspendStart
        <5>1. susp' = 0
          BY <4>3, Zenon DEF SuspendStart, Phases
        <5>2. QED
          BY <2>1, <5>1
      <4>4. CASE ResumeCtrl \/ ResumeReads \/ ResumeStart \/ UNCHANGED pm
        BY <2>1, <3>2, <4>4, Zenon DEF ResumeCtrl, ResumeReads, ResumeStart, pm
      <4>5. QED
        BY <4>1, <4>2, <4>3, <4>4, PmFrame, Zenon
    <3>3. QED
      BY <3>1, <3>2
  <2>2. ASSUME power' = "off" PROVE flying' = {}
    <3>1. CASE power = "off"
      BY <1>2, <3>1, Zenon DEF Silence
    <3>2. CASE power # "off"
      <4>1. Suspend
        <5>1. ~(ResumeCtrl \/ ResumeReads \/ ResumeStart \/ SuspendStart \/ Resume \/ UNCHANGED pm)
          BY <2>2, <3>2, Zenon DEF ResumeCtrl, ResumeReads, ResumeStart, SuspendStart,
             Resume, pm
        <5>2. QED
          BY <5>1, PmFrame, Zenon
      <4>2. power = "suspending" /\ stop["pm"] = NotStopping /\ susp # 0
        BY <2>2, <4>1, Zenon DEF Suspend
      <4>3. susp = 1
        BY <4>2, Zenon DEF Phases
      <4>4. flying = {}
        BY <1>0, <4>2, <4>3, AllKilled, Zenon DEF Silence
      <4>5. QED
        BY <1>2, <4>4, Zenon
    <3>3. QED
      BY <3>1, <3>2
  <2>3. ASSUME unplug' = "stopping" PROVE flying' \cap Killed("usb")' = {}
    <3>1. CASE unplug = "stopping"
      BY <1>0, <1>2, <3>1, KilledStep, Zenon DEF Silence
    <3>2. CASE unplug # "stopping"
      <4>1. DisconnectStop
        BY <2>3, <3>2, PortFrame
           DEF port, PortResumed, PortSubmitCtrl, PortSubmitReads, PortFailed,
           PortInitialized,
               PortOpen, PortShutdown, PortClosed, Unplug, Disconnect, DisconnectFree
      <4>2. stop'["usb"] = Draining
        BY <1>0, <4>1 DEF DisconnectStop, StopTraffic
      <4>3. QED
        BY <1>0, <4>2, NoneKilled, Zenon
    <3>3. QED
      BY <3>1, <3>2
  <2>4. ASSUME unplug' = "freed" PROVE flying' = {}
    <3>1. CASE unplug = "freed"
      BY <1>2, <3>1, Zenon DEF Silence
    <3>2. CASE unplug # "freed"
      <4>1. DisconnectFree
        BY <2>4, <3>2, PortFrame
           DEF port, PortResumed, PortSubmitCtrl, PortSubmitReads, PortFailed,
           PortInitialized,
               PortOpen, PortShutdown, PortClosed, Unplug, Disconnect, DisconnectStop
      <4>2. unplug = "stopping" /\ stop["usb"] = NotStopping
        BY <4>1, Zenon DEF DisconnectFree
      <4>3. flying = {}
        BY <1>0, <4>2, AllKilled, Zenon DEF Silence
      <4>4. QED
        BY <1>2, <4>3, Zenon
    <3>3. QED
      BY <3>1, <3>2
  <2>5. QED
    BY <2>1, <2>2, <2>3, <2>4, Zenon DEF Silence
<1>3. QED
  BY <1>1, <1>2, FlyingFrame

\* A URB that is put in flight or taken out of it, and the count of the writes.
LEMMA CountsOf ==
  ASSUME Shape, NEW i \in Bufs
  PROVE  /\ i \notin flying =>
              Cardinality((flying \cup {i}) \cap Bufs) = Cardinality(flying \cap Bufs) + 1
         /\ i \in flying =>
              Cardinality((flying \ {i}) \cap Bufs) = Cardinality(flying \cap Bufs) - 1
         /\ i \notin use => Cardinality(use \cup {i}) = Cardinality(use) + 1
         /\ i \in use => Cardinality(use \ {i}) = Cardinality(use) - 1
<1>1. IsFiniteSet(flying \cap Bufs) /\ IsFiniteSet(use)
  BY UseCounts
<1>2. (flying \cup {i}) \cap Bufs = (flying \cap Bufs) \cup {i}
  OBVIOUS
<1>3. (flying \ {i}) \cap Bufs = (flying \cap Bufs) \ {i}
  OBVIOUS
<1>4. i \in flying => i \in flying \cap Bufs
  OBVIOUS
<1>5. QED
  BY <1>1, <1>2, <1>3, <1>4, FS_AddElement, FS_RemoveElement

\* Who changes what is accounted for.
LEMMA AccountsFrame ==
  [Next]_vars =>
    \/ UNCHANGED <<use, delayed, flying, transmitting, usage, tty>>
    \/ \E w \in Writers : Write(w)
    \/ \E i \in Bufs : WriteBulk(i)
    \/ \E u \in Urbs : ReadFails(u)
    \/ \E t \in Threads : DrainOne(t) \/ Kill(t)
    \/ OpenStep \/ PortOpen \/ PortShutdown \/ PortClosed
    \/ ResumeCtrl \/ ResumeDelayed \/ ResumeReads
BY DEF Next, WriterStep, StopStep, PmStep, DisconnectStep, vars, pool, port,
   CallWrite, WriteRefused, WriteWaits, WaitRetry, WaitTimeout, Drained,
   Suspend, Resume, SuspendStart, ResumeStart, Unplug, Disconnect, DisconnectStop,
   DisconnectFree

\* The oldest delayed write is taken off the anchor: nobody else has its URB.
LEMMA AnchoredTail ==
  ASSUME Shape, Accounts, delayed # << >>, delayed' = Tail(delayed)
  PROVE  /\ Head(delayed).urb \in Bufs /\ Head(delayed).urb \in Anchored
         /\ Anchored' = Anchored \ {Head(delayed).urb}
         /\ (\A j, k \in 1..Len(delayed) : delayed[j].urb = delayed[k].urb => j = k)'
<1> DEFINE n == Len(delayed)
<1>0. delayed \in Seq(DelayedWrites)
  BY Zenon DEF Shape, Queue
<1>1. /\ n \in Nat \ {0} /\ Head(delayed) = delayed[1] /\ Head(delayed) \in DelayedWrites
      /\ Len(delayed') = n - 1 /\ \A k \in 1..n - 1 : delayed'[k] = delayed[k + 1]
  BY <1>0, SeqFacts
<1>2. Head(delayed).urb \in Bufs
  BY <1>1 DEF DelayedWrites
<1>3. \A j, k \in 1..n : delayed[j].urb = delayed[k].urb => j = k
  BY Zenon DEF Accounts
<1>4. Anchored = {delayed[k].urb : k \in 1..n}
      /\ Anchored' = {delayed[k + 1].urb : k \in 1..n - 1}
  BY <1>1 DEF Anchored
<1> HIDE DEF n
<1>5. Anchored' = {delayed[k].urb : k \in 2..n}
  BY <1>1, <1>4
<1>6. Anchored' = Anchored \ {delayed[1].urb}
  <2>1. ASSUME NEW k \in 2..n PROVE delayed[k].urb \in Anchored \ {delayed[1].urb}
    <3>1. k \in 1..n /\ 1 \in 1..n /\ k # 1
      BY <1>1
    <3>2. QED
      BY <3>1, <1>3, <1>4, Zenon
  <2>2. ASSUME NEW k \in 1..n, delayed[k].urb # delayed[1].urb PROVE k \in 2..n
    BY <1>1, <2>2
  <2>3. QED
    BY <1>4, <1>5, <2>1, <2>2, Zenon
<1>7. delayed[1].urb \in Anchored
  BY <1>1, <1>4
<1>8. \A j, k \in 1..Len(delayed') : delayed'[j].urb = delayed'[k].urb => j = k
  BY <1>1, <1>3
<1>9. QED
  BY <1>1, <1>2, <1>6, <1>7, <1>8

\* A write is put on the anchor.
LEMMA AnchoredAppend ==
  ASSUME Shape, Accounts, NEW d \in DelayedWrites, d.urb \notin Anchored,
         delayed' = Append(delayed, d)
  PROVE  /\ Anchored' = Anchored \cup {d.urb}
         /\ (\A j, k \in 1..Len(delayed) : delayed[j].urb = delayed[k].urb => j = k)'
<1> DEFINE n == Len(delayed)
<1>0. delayed \in Seq(DelayedWrites)
  BY Zenon DEF Shape, Queue
<1>1. /\ n \in Nat /\ Len(delayed') = n + 1 /\ delayed'[n + 1] = d
      /\ \A k \in 1..n : delayed'[k] = delayed[k]
  BY <1>0, SeqFacts
<1>3. \A j, k \in 1..n : delayed[j].urb = delayed[k].urb => j = k
  BY Zenon DEF Accounts
<1>4. Anchored = {delayed[k].urb : k \in 1..n}
      /\ Anchored' = {delayed'[k].urb : k \in 1..n + 1}
  BY <1>1 DEF Anchored
<1> HIDE DEF n
<1>5. Anchored' = Anchored \cup {d.urb}
  BY <1>1, <1>4
<1>6. \A k \in 1..n : delayed[k].urb # d.urb
  BY <1>4
<1>7. \A j, k \in 1..n + 1 : delayed'[j].urb = delayed'[k].urb => j = k
  BY <1>1, <1>3, <1>6
<1>8. QED
  BY <1>1, <1>5, <1>7

\* Every step keeps the accounts.
LEMMA AccountsStep ==
  Shape /\ Phases /\ Accounts /\ [Next]_vars => Accounts'
<1> SUFFICES ASSUME Shape, Phases, Accounts, [Next]_vars PROVE Accounts'
  OBVIOUS
<1> DEFINE c == Cardinality(use)
           f == Cardinality(flying \cap Bufs)
           Single == \A j, k \in 1..Len(delayed) : delayed[j].urb = delayed[k].urb => j = k
<1>0. /\ use \subseteq Bufs /\ c \in Nat /\ f \in Nat /\ usage \in Int /\ Held \in Nat
      /\ transmitting = f /\ usage = c + Held
      /\ use = (flying \cap Bufs) \cup Anchored /\ flying \cap Anchored = {}
      /\ Single
  BY UseCounts DEF Accounts, Shape, Traffic, Held
<1>1. ASSUME Single', use' = (flying' \cap Bufs) \cup Anchored',
flying' \cap Anchored' = {},
             transmitting' = f', usage' = c' + Held'
      PROVE  Accounts'
  BY <1>1, Zenon DEF Accounts
<1>2. ASSUME tty' = tty PROVE Held' = Held
  BY <1>2, Zenon DEF Held, Activating
<1>3. ASSUME delayed' = delayed PROVE Anchored' = Anchored /\ Single'
  BY <1>0, <1>3, Zenon DEF Anchored
<1>4. ASSUME UNCHANGED <<use, delayed, transmitting>>, flying' \cap Bufs = flying \cap Bufs,
             usage' = usage - Held + Held', Held' \in Nat
      PROVE  Accounts'
  <2>1. c' = c /\ f' = f /\ Anchored \subseteq Bufs
    BY <1>0, <1>4, Zenon
  <2>2. usage' = c' + Held'
    <3> HIDE DEF c, f
    <3>1. QED
      BY <1>0, <1>4, <2>1
  <2>3. flying' \cap Anchored' = {} /\ Anchored' = Anchored /\ Single'
    BY <1>0, <1>3, <1>4, <2>1
  <2>4. QED
    BY <1>0, <1>1, <1>4, <2>1, <2>2, <2>3, Zenon
\* A write that is started.
<1>5. ASSUME NEW i \in Bufs, i \notin use, i \notin flying, use' = use \cup {i},
             usage' = usage + 1, Held' = Held
      PROVE  /\ flying' = flying \cup {i} /\ transmitting' = transmitting + 1
                /\ delayed' = delayed => Accounts'
             /\ flying' = flying /\ transmitting' = transmitting /\ Single'
                /\ Anchored' = Anchored \cup {i} => Accounts'
  <2>1. c' = c + 1 /\ (flying' = flying \cup {i} => f' = f + 1) /\ (flying' = flying => f' = f)
    BY <1>5, CountsOf, Zenon
  <2>2. usage' = c' + Held' /\ (flying' = flying \cup {i} /\ transmitting' = transmitting + 1
                                  => transmitting' = f')
    <3> HIDE DEF c, f
    <3>1. QED
      BY <1>0, <1>5, <2>1
  <2>3. i \notin Anchored
    BY <1>0, <1>5
  <2>4. ASSUME flying' = flying \cup {i}, transmitting' = transmitting + 1,
  delayed' = delayed
        PROVE  Accounts'
    <3>1. use' = (flying' \cap Bufs) \cup Anchored' /\ flying' \cap Anchored' = {}
      BY <1>0, <1>3, <1>5, <2>3, <2>4
    <3>2. QED
      BY <1>1, <1>3, <2>2, <2>4, <3>1, Zenon
  <2>5. ASSUME flying' = flying, transmitting' = transmitting, Single',
  Anchored' = Anchored \cup {i}
        PROVE  Accounts'
    <3>1. use' = (flying' \cap Bufs) \cup Anchored' /\ flying' \cap Anchored' = {}
      BY <1>0, <1>5, <2>3, <2>5
    <3>2. QED
      BY <1>0, <1>1, <2>1, <2>2, <2>5, <3>1, Zenon
  <2>6. QED
    BY <2>4, <2>5
\* A write that has ended.
<1>6. ASSUME NEW i \in Bufs, i \in use, use' = use \ {i}, usage' = usage - 1, Held' = Held
      PROVE  /\ i \in flying /\ flying' = flying \ {i} /\ transmitting' = transmitting - 1
                /\ delayed' = delayed => Accounts'
             /\ i \in Anchored /\ flying' = flying /\ transmitting' = transmitting /\ Single'
                /\ Anchored' = Anchored \ {i} => Accounts'
  <2>1. c' = c - 1 /\ (i \in flying /\ flying' = flying \ {i} => f' = f - 1)
        /\ (flying' = flying => f' = f)
    BY <1>6, CountsOf, Zenon
  <2>2. usage' = c' + Held' /\ (i \in flying /\ flying' = flying \ {i}
          /\ transmitting' = transmitting - 1 => transmitting' = f')
    <3> HIDE DEF c, f
    <3>1. QED
      BY <1>0, <1>6, <2>1
  <2>3. ~(i \in flying /\ i \in Anchored)
    BY <1>0
  <2>4. ASSUME i \in flying, flying' = flying \ {i}, transmitting' = transmitting - 1,
               delayed' = delayed
        PROVE  Accounts'
    <3>1. use' = (flying' \cap Bufs) \cup Anchored' /\ flying' \cap Anchored' = {}
      BY <1>0, <1>3, <1>6, <2>3, <2>4
    <3>2. QED
      BY <1>1, <1>3, <2>2, <2>4, <3>1, Zenon
  <2>5. ASSUME i \in Anchored, flying' = flying, transmitting' = transmitting, Single',
               Anchored' = Anchored \ {i}
        PROVE  Accounts'
    <3>1. use' = (flying' \cap Bufs) \cup Anchored' /\ flying' \cap Anchored' = {}
      BY <1>0, <1>6, <2>3, <2>5
    <3>2. QED
      BY <1>0, <1>1, <2>1, <2>2, <2>5, <3>1, Zenon
  <2>6. QED
    BY <2>4, <2>5
<1> HIDE DEF c, f, Single
<1>7. CASE UNCHANGED <<use, delayed, flying, transmitting, usage, tty>>
  <2>1. Held' = Held
    BY <1>2, <1>7
  <2>2. usage' = usage - Held + Held'
    BY <1>0, <1>7, <2>1
  <2>3. QED
    BY <1>0, <1>4, <1>7, <2>1, <2>2
<1>8. ASSUME NEW w \in Writers, Write(w) PROVE Accounts'
  <2> DEFINE d == [urb |-> FirstFree, write |-> accepted + 1]
  <2>1. FirstFree \in Bufs /\ FirstFree \notin use /\ d \in DelayedWrites /\ d.urb = FirstFree
    BY <1>8, WrittenIs
  <2>2. FirstFree \notin flying /\ FirstFree \notin Anchored
    BY <1>0, <2>1
  <2>3. Held' = Held
    BY <1>2, <1>8, Zenon DEF Write, port
  <2>4. CASE /\ use' = use \cup {FirstFree} /\ usage' = usage + 1
             /\ Started(FirstFree, accepted + 1) /\ delayed' = delayed
    BY <1>5, <2>1, <2>2, <2>3, <2>4 DEF Started
  <2>5. CASE UNCHANGED <<use, usage, flying, transmitting, delayed>>
    <3>1. usage' = usage - Held + Held' /\ Held' \in Nat
      BY <1>0, <2>3, <2>5
    <3>2. QED
      BY <1>4, <2>5, <3>1
  <2>6. CASE /\ use' = use \cup {FirstFree} /\ usage' = usage + 1
             /\ UNCHANGED <<flying, transmitting>> /\ delayed' = Append(delayed, d)
    <3> HIDE DEF d
    <3>1. Single' /\ Anchored' = Anchored \cup {FirstFree}
      BY <2>1, <2>2, <2>6, AnchoredAppend, Zenon DEF Single
    <3>2. QED
      BY <1>5, <2>1, <2>2, <2>3, <2>6, <3>1
  <2>7. QED
    BY <1>8, <2>4, <2>5, <2>6 DEF Write
<1>9. ASSUME NEW i \in Bufs, i \in flying, WriteDone(i), UNCHANGED <<delayed,
tty>> PROVE Accounts'
  BY <1>0, <1>2, <1>6, <1>9 DEF WriteDone
<1>10. ASSUME NEW i \in Bufs, WriteBulk(i) PROVE Accounts'
  BY <1>9, <1>10 DEF WriteBulk, port
<1>11. ASSUME flying' \cap Bufs = flying \cap Bufs, UNCHANGED <<use, delayed,
transmitting>>,
              usage' = usage /\ Held' = Held
       PROVE  Accounts'
  <2>1. usage' = usage - Held + Held' /\ Held' \in Nat
    BY <1>0, <1>11
  <2>2. QED
    BY <1>4, <1>11, <2>1
<1>12. ASSUME NEW u \in Urbs, ReadFails(u) PROVE Accounts'
  <2>1. flying' \cap Bufs = flying \cap Bufs
    BY <1>12, UrbNumbers DEF ReadFails
  <2>2. QED
    BY <1>2, <1>11, <1>12, <2>1 DEF ReadFails, port
<1>13. ASSUME NEW t \in Threads, Kill(t) PROVE Accounts'
  <2>1. UNCHANGED <<delayed, tty>>
    BY <1>13 DEF Kill, port
  <2>2. CASE stop[t] \in Bufs \cap flying /\ WriteDone(stop[t])
    BY <1>9, <2>1, <2>2
  <2>3. CASE /\ stop[t] \notin Bufs \cap flying /\ flying' = flying \ {stop[t]}
             /\ UNCHANGED <<use, transmitting, usage>>
    BY <1>2, <1>11, <2>1, <2>3
  <2>4. QED
    BY <1>13, <2>2, <2>3, Zenon DEF Kill
\* A delayed write that is not started.
<1>14. ASSUME delayed # << >>, delayed' = Tail(delayed), use' = use \ {Head(delayed).urb},
              usage' = usage - 1, UNCHANGED <<flying, transmitting, tty>>
       PROVE  Accounts'
  <2>1. Head(delayed).urb \in Bufs /\ Head(delayed).urb \in Anchored
        /\ Anchored' = Anchored \ {Head(delayed).urb} /\ Single'
    BY <1>14, AnchoredTail, Zenon DEF Single
  <2>2. Head(delayed).urb \in use
    BY <1>0, <2>1
  <2>3. QED
    BY <1>2, <1>6, <1>14, <2>1, <2>2
<1>15. ASSUME NEW t \in Threads, DrainOne(t) PROVE Accounts'
  BY <1>14, <1>15 DEF DrainOne, port
<1>16. CASE ResumeDelayed
  <2> DEFINE i == Head(delayed).urb
  <2>1. delayed # << >> /\ delayed' = Tail(delayed) /\ tty' = tty
    BY <1>16 DEF ResumeDelayed, port
  <2>2. CASE NotStarted(i)
    BY <1>14, <2>1, <2>2 DEF NotStarted
  <2>3. CASE Started(i, Head(delayed).write) /\ UNCHANGED <<use, usage>>
    <3>1. i \in Bufs /\ i \in Anchored /\ Anchored' = Anchored \ {i} /\ Single'
      BY <2>1, AnchoredTail, Zenon DEF Single
    <3>2. i \notin flying /\ flying' = flying \cup {i} /\ transmitting' = transmitting + 1
          /\ Held' = Held /\ UNCHANGED <<use, usage>>
      BY <1>0, <1>2, <2>1, <2>3, <3>1 DEF Started
    <3>3. use' = (flying' \cap Bufs) \cup Anchored' /\ flying' \cap Anchored' = {}
      BY <1>0, <3>1, <3>2
    <3>4. f' = f + 1 /\ c' = c
      BY <3>1, <3>2, CountsOf, Zenon DEF f, c
    <3>5. transmitting' = f' /\ usage' = c' + Held'
      BY <1>0, <3>2, <3>4
    <3>6. QED
      BY <1>1, <3>1, <3>3, <3>5
  <2>4. QED
    BY <1>16, <2>2, <2>3, Zenon DEF ResumeDelayed
<1>17. CASE ResumeCtrl \/ ResumeReads
  <2>1. UNCHANGED <<use, delayed, transmitting, usage, tty>>
    BY <1>17 DEF ResumeCtrl, ResumeReads, port
  <2>2. flying' \subseteq flying \cup {Ctrl} \cup Reads /\ flying \subseteq flying'
    BY <1>17, UrbNumbers DEF ResumeCtrl, ResumeReads, SubmitReads, SubmitReadsFails
  <2>3. flying' \cap Bufs = flying \cap Bufs
    BY <2>2, UrbNumbers
  <2>4. QED
    BY <1>2, <1>11, <2>1, <2>3
<1>18. CASE OpenStep \/ PortOpen \/ PortShutdown \/ PortClosed
  <2>1. UNCHANGED <<use, delayed, transmitting>>
    BY <1>18 DEF OpenStep, PortResumed, PortSubmitCtrl, PortSubmitReads, PortFailed,
                 PortInitialized, PortOpen, PortShutdown, PortClosed, pool
  <2>2. flying' \cap Bufs = flying \cap Bufs
    BY <1>18, UrbNumbers
       DEF OpenStep, PortResumed, PortSubmitCtrl, PortSubmitReads, PortFailed, SubmitReads,
           SubmitReadsFails, PortInitialized, PortOpen, PortShutdown, PortClosed, pool
  <2>3. \/ Activating /\ Activating' /\ usage' = usage
        \/ Activating /\ ~Activating' /\ usage' = usage - 1
        \/ ~Activating /\ Activating' /\ usage' = usage + 1
        \/ ~Activating /\ ~Activating' /\ usage' = usage
    <3>1. CASE PortResumed
      BY <3>1, Zenon DEF PortResumed, Activating
    <3>2. CASE PortSubmitCtrl
      BY <3>2, Zenon DEF PortSubmitCtrl, Activating
    <3>3. CASE PortSubmitReads
      BY <3>3, Zenon DEF PortSubmitReads, Activating
    <3>4. CASE PortFailed
      BY <3>4, Zenon DEF PortFailed, Activating
    <3>5. CASE PortInitialized
      BY <3>5, Zenon DEF PortInitialized, Activating, pool
    <3>6. CASE PortOpen
      BY <3>6, Zenon DEF PortOpen, Activating
    <3>7. CASE PortShutdown
      BY <3>7, Zenon DEF PortShutdown, Activating, pool
    <3>8. CASE PortClosed
      BY <3>8, Zenon DEF PortClosed, Activating, pool
    <3>9. QED
      BY <1>18, <3>1, <3>2, <3>3, <3>4, <3>5, <3>6, <3>7, <3>8, Zenon DEF OpenStep
  <2>5. usage' = usage - Held + Held' /\ Held' \in Nat
    BY <1>0, <2>3 DEF Held
  <2>6. QED
    BY <1>4, <2>1, <2>2, <2>5
<1>19. QED
  BY <1>7, <1>8, <1>10, <1>12, <1>13, <1>15, <1>16, <1>17, <1>18, AccountsFrame
-----------------------------------------------------------------------------
(* The theorems.                                                           *)

\* Every step keeps the invariant.
LEMMA Ch343InvStep == Ch343Inv /\ [Next]_vars => Ch343Inv'
BY QueueStep, TrafficStep, ModesStep, WhereaboutsStep, PhasesStep, WaitingStep, SilenceStep,
   OrderedStep, AccountsStep, Zenon
   DEF Ch343Inv, Shape

\* The invariant holds always.
LEMMA Ch343Inductive == Spec => []Ch343Inv
<1>1. Init => Ch343Inv
  BY InitInv
<1>2. Ch343Inv /\ [Next]_vars => Ch343Inv'
  BY Ch343InvStep
<1>3. QED
  BY <1>1, <1>2, PTL DEF Spec

\* The delayed writes are as many as the URBs on the anchor.
LEMMA AnchoredCount == Shape /\ Accounts => Cardinality(Anchored) = Len(delayed)
<1> SUFFICES ASSUME Shape, Accounts PROVE Cardinality(Anchored) = Len(delayed)
  OBVIOUS
<1> DEFINE g == [k \in 1..Len(delayed) |-> delayed[k].urb]
<1>1. Len(delayed) \in Nat
  BY SeqFacts DEF Shape, Queue
<1>2. IsFiniteSet(1..Len(delayed)) /\ Cardinality(1..Len(delayed)) = Len(delayed)
  <2> DEFINE n == Len(delayed)
  <2>1. n \in Nat /\ n \in Int /\ 1 \in Int
    BY <1>1
  <2> HIDE DEF n
  <2>2. IsFiniteSet(1..n) /\ Cardinality(1..n) = IF 1 > n THEN 0 ELSE n - 1 + 1
    BY <2>1, FS_Interval
  <2>3. QED
    BY <2>1, <2>2 DEF n
<1>3. g \in Bijection(1..Len(delayed), Anchored)
  <2>1. g \in [1..Len(delayed) -> Anchored]
    BY DEF Anchored
  <2>2. \A a \in Anchored : \E k \in 1..Len(delayed) : g[k] = a
    BY DEF Anchored
  <2>3. \A j, k \in 1..Len(delayed) : g[j] = g[k] => j = k
    BY DEF Accounts
  <2>4. QED
    BY <2>1, <2>2, <2>3, Fun_IsBij
<1>4. QED
  BY <1>2, <1>3, FS_Bijection DEF ExistsBijection

\* The types, the counters' bounds included: transmitting never goes below 0 or above
\* the number of buffers, and the interface has at most one reference for every
\* buffer and one for an open.
THEOREM Ch343Types == Spec => []Ch343TypeOK
<1>1. Ch343Inv => Ch343TypeOK
  <2> SUFFICES ASSUME Ch343Inv PROVE Ch343TypeOK
    OBVIOUS
  <2>1. Shape /\ Accounts
    BY Zenon DEF Ch343Inv
  <2>2. transmitting \in 0..NW /\ usage \in 0..(NW + 1)
    <3>1. /\ transmitting = Cardinality(flying \cap Bufs) /\ usage = Cardinality(use) + Held
          /\ flying \cap Bufs \subseteq use
      BY <2>1 DEF Accounts
    <3>2. /\ Cardinality(use) \in Nat /\ Cardinality(use) <= NW
          /\ Cardinality(flying \cap Bufs) \in Nat
          /\ Cardinality(flying \cap Bufs) <= Cardinality(use)
      BY <2>1, <3>1, UseCounts, FS_Subset
    <3>3. Held \in {0, 1}
      BY DEF Held
    <3>4. QED
      BY <3>1, <3>2, <3>3, Ch343Assumption
  <2>3. QED
    BY <2>1, <2>2, Zenon
       DEF Shape, Queue, Traffic, Modes, Whereabouts, Places, DelayedWrites, Ch343TypeOK
<1>2. QED
  BY <1>1, Ch343Inductive, PTL

\* Every buffer in use is in flight or delayed, never both, and has one autopm
\* reference: no buffer is lost to the pool, none is filled while the host controller
\* reads it, and the device can always be suspended again.
THEOREM Ch343BuffersAccounted == Spec => []BuffersAccounted
<1>1. Ch343Inv => BuffersAccounted
  BY AnchoredCount, Zenon DEF Ch343Inv, Accounts, BuffersAccounted, Held
<1>2. QED
  BY <1>1, Ch343Inductive, PTL

\* While the device is suspended none of its URBs is in flight.
THEOREM Ch343SuspendedIsSilent == Spec => []SuspendedIsSilent
<1>1. Ch343Inv => SuspendedIsSilent
  BY Zenon DEF Ch343Inv, Silence, SuspendedIsSilent
<1>2. QED
  BY <1>1, Ch343Inductive, PTL

\* When ch343_disconnect frees URBs and buffers nobody has one.
THEOREM Ch343NothingAfterFree == Spec => []NothingAfterFree
<1>1. Ch343Inv => NothingAfterFree
  <2> SUFFICES ASSUME Ch343Inv, unplug = "freed"
               PROVE  flying = {} /\ delayed = << >> /\ \A w \in Writers : pc[w] = "idle"
    BY Zenon DEF NothingAfterFree
  <2>1. tty = "closed"
    BY Zenon DEF Ch343Inv, Phases
  <2>2. QED
    BY <2>1, Zenon DEF Ch343Inv, Phases, Waiting, Silence
<1>2. QED
  BY <1>1, Ch343Inductive, PTL

\* Writes are submitted in the order they were accepted, whether they were delayed or
\* not.
THEOREM Ch343SentInOrder == Spec => SentInOrder
<1>1. Ch343Inv /\ [Next]_vars => [sent' # sent => sent' > sent]_vars
  BY SentStep DEF Ch343Inv
<1>2. QED
  BY <1>1, Ch343Inductive, PTL DEF Spec, SentInOrder
==============================================================================

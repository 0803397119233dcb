# Verification of Develop_Recorder

TLA+ models, model-checking runs and proofs about the programs in this repository: board
support work for Sophgo, Rockchip and Puya systems, a collection of drivers, services
and scripts, with notes in Chinese. There are no tests. In paths below, `S84` is
`src/Sophgo/BM1684X_Develop_Recorder`, `S88` is
`src/Sophgo/BM1688_CV186AH_Develop_Recorder`, `RA` is
`src/Rockchip/Android_System_Develop`.

## Inventory

| Component | State | Operations | Interaction | What is hard | Correct when |
|---|---|---|---|---|---|
| AIOS GPIO expander, June (`S84/20260630/aios_gpio.c`) | value and direction cache, one mutex, one completion, the receive buffer, life of the chip | gpiochip get, set, direction, configure; probe, initialisation, removal; receive callback | gpiolib calls it from any thread, it calls serdev, the expander answers on a serial line | timeouts against late answers, an unlocked callback, removal under calls, retries of INIT | an operation that succeeds took effect; no completion is older than its transaction; every call returns |
| AIOS GPIO expander, January (`S84/20260124/aios_gpio.c`) | the same, and what answer is expected | the same, with repeated attempts and a cached get_direction | the same | matching and completing are two steps; requests executed twice | the same |
| ch343 USB serial driver (`S84/20260630/ch343.c`) | pool of write buffers, read URBs, delayed writes, suspend counter; references and minors; termios, outputs and modem lines | tty open, write, close, hangup; probe, suspend, resume, disconnect; set_termios, TIOCMSET, TIOCMIWAIT; the GPIO device | tty core, USB core, power management, userspace | callbacks, autosuspend, unplugging, transfers that sleep without a lock | buffers are freed once and never used after; references are accounted for; device, driver and tty agree |
| Quectel auto-connect (`S84/20260616/common/quectel-autoconnect.sh`) | state files, processes, failure count | start, stop, restart, monitor | systemd, quectel-CM, qmicli, dhcp | monitor against stop and restart | one connection manager, and it comes back |
| Wi-Fi provisioning (`S88/20260622/wifi-provision.py`) | mode, NetworkManager's state | monitor loop, connect request | web page, nmcli | a connection thread and the monitor without a lock; command timeouts | a way in, as station or access point, always comes back |
| RK817 fuel gauge (`RA/20260302/rk817_battery.c`) | displayed charge, remaining capacity, charge status, what is stored over power-off | periodic work, plug and unplug, suspend, resume, boot | charger, power supply class | long histories; rounding; sleep | the displayed charge survives a crash, and moves only for a reason the code names |
| data2 disk repair (`S84/20260611/fix_data2_disk.sh`) | disk, partition, mount, fstab | one run of many steps | systemd, fsck, mount | being interrupted and run again | no data lost, the disk mounted |
| USB gadget and roles (`S88/20260623`) | configfs gadget, role | switch script, gadget script | kernel | partial failures | one role at a time |
| py32 key (`src/Puya/Py32f002B`) | key state, power, backlight, an interrupt's flag | edge interrupt, key task | main loop | an interrupt anywhere in the task, a tick that wraps | a press does one thing |
| star-llm server (`S88/20260521/star-llm`) | one model, its history | chat, streamed chat | HTTP clients | one model without a lock, several requests | requests do not mix |
| gc9a01 display, PCIe patch, LED loop | device registers | probe, transfer | kernel | little | sequences complete |

`PROJECT.json` lists every component with its status and every hazard at its
line.

## Modules and how they compose

| Part | Modules | Composed in | Proofs |
|---|---|---|---|
| AIOS expander | `AiosLink`, `AiosGpio`, `AiosGpioHistory`, `AiosGpioMatched`, the promise `GpioLines`; `AiosFrame`, `AiosFrameBytewise`, the reference `AiosWire` | a driver with the link; both receivers in `AiosReceivers` | `AiosGpioProofs`, `AiosGpioMatchedProofs`, `AiosReceiversProofs` |
| ch343 | `Ch343`, `Ch343Life`, `Ch343Control` | the last two, which share only the disconnected flag, in `Programs` | `Ch343Proofs`, `Ch343LifeProofs`, `ProgramsProofs` |
| RK817 | `Rk817` | | `Rk817Proofs` |
| key, Wi-Fi, cellular, disk | `ClawKey`, `Wifi`, `Quectel`, `DiskRepair` | `Programs` | `ProgramsProofs` |

What is left of the plan: the refinement of `GpioLines` by the January driver as a
theorem (it is model-checked; the June driver's is proved); an abstract pool that
`Ch343` implements; the star-llm server.

## The AIOS expander

A GPIO expander sits behind a UART. A host driver sends a request frame
(`D` direction query, `C` configure, `R` read, `O` output, `i` initialise) and
waits for an answer; the expander may send `E` frames too.

| Module | Models | Correspondence |
|---|---|---|
| `AiosLink` | the serial line and the firmware, external | two queues of frames `[cmd, line, val]`; the expander's pins and directions; loss of a request or answer, refusal, status frames |
| `GpioLines` | what gpiolib expects, abstract | each operation takes effect once between call and return, and returns what it found |
| `AiosGpio` | `S84/20260630/aios_gpio.c` | `pc`, `cur`, `ret` are each thread's position in `aios_gpio_write_timeout`; `lock`, `done`, `values`, `directions`, `serdev` are the fields of `struct aios_gpio_data`; `Enter` to `Unlock` are the steps of the transaction, `HandleFrame` the callback, `Call` and `Finish...` the gpiochip operations, `Probe...`, `Init...`, `Query...`, `Register` the probe, `Remove...` the removal |
| `AiosGpioHistory` | the same, with the levels a line had during a get | one history variable |
| `AiosGpioMatched` | `S84/20260124/aios_gpio.c` | adds `expected`, `rxCmd` and the attempts; the callback is two steps, `RecvFrame` (cache and match) and `RecvComplete` (complete), for it holds no lock |
| `AiosWire` | the frames a stream of bytes contains | a reference definition, by a recursive function |
| `AiosFrame` | `aios_gpio_recv` of June | `buffer` and `frameLen` are `frame_buffer` and `frame_len`; one action per outcome of a turn of its loop |
| `AiosFrameBytewise` | `aios_gpio_recv` of January | `packet` is `packet_buffer` up to `buffer_pos` |
| `AiosReceivers` | both receivers on the same streams | `driver` says which of them gets the stream |
| `AiosGpioProofs`, `AiosGpioMatchedProofs`, `AiosReceiversProofs` | theorems | see below |
| `MC...` | instances for TLC | lines, operations, streams |

What is abstracted: contents of frames beyond command, line and value; delays (a timeout
may happen at any moment the completion has not been given, or, with `Prompt`, only when
nothing is on the line any more); printing; of `set_config` the parameters that send no
frame (they return 0 or `-ENOTSUPP` at once, `S84/20260630/aios_gpio.c:319-334`); the
queries that `devm_gpiochip_add_data` makes by itself through `get_direction` while it
registers the chip, which are calls like those that come after it. A gpiochip operation
of gpiolib may come at any time while the chip is registered, until devm removes it
after `aios_gpio_remove` returned.

`oops` is a thread that dereferenced a NULL `priv->serdev`. The driver reaches it
when it is unbound between the test of the pointer and its use, and holds the
mutex then; the invariants are stated so that they say what still holds.

### Runs

| Run | Question | Bounds |
|---|---|---|
| `AiosGpioPrompt` | do callers on lines of their own get what gpiolib promises, when frames may be lost but are never late? `ImplementsLines`, `OneOutstanding` | 2 lines, 2 callers, 2 attempts at each of 2 baud rates |
| `AiosGpioLate` | what survives late answers, E frames and removal? `TypeOK`, `LockHeld`, `SuccessHeard` | 1 line shared by 2 callers, 2 frames on the line |
| `AiosGpioLive` | does every call end? `CallsReturn`; is the chip initialised when registered? `RegisteredMeansReady` | 1 line shared by 2 callers, loss, late answers, fallback rate |
| `AiosGpioShared` | violation: `get` returns a level the line did not have during the call | 1 line, 2 callers |
| `AiosReceivers` | do both receivers find the frames of the reference, in chunks of any size? | every concatenation of 3 of 10 pieces, buffer of 12 bytes |
| `AiosFrameRacing` | violation: `frame_len` wraps around when a transaction starts under the callback | concatenations of 2 pieces |
| `MatchedPrompt` | do get, set, direction_input and direction_output of the January driver keep the promise with refusals, repeated attempts and old answers? is its cache filled? | 2 lines, 2 callers (one asks for inputs, the other gets, sets and asks for outputs), 2 attempts, any one old frame on the line |
| `MatchedLate` | its states and counters with late answers, E frames and removal | 1 line, 1 caller, 2 attempts |
| `MatchedRace` | violation: an answer matched for one transaction completes the next | 2 lines, 1 caller |

Why the bounds are enough: all interference goes through the one mutex, one
completion and one buffer, so two callers and the probing thread give every
pair; `WireCap = 2` lets a late answer and a current request be on the line
together, which is what a stale completion needs; `DoneMax = 1` suffices since a
completion counted twice and one counted once differ only after `reinit`, which
clears both. The pieces of the receiver runs have every kind of frame a branch of
either loop tells apart: complete, with a data byte that looks like a start byte
or an end, cut in its header or its data, too long for the buffer, just fitting,
and garbage. All runs disable the deadlock check: a driver whose probe failed,
or that was removed, is at rest, and a stream ends.

`ImplementsLines` of the January driver is about four of its six operations, and could
not be about the others. `set_config` sends a direction output whatever it is asked for
(434-457), and `get_direction` returns what the probe's queries found, whatever was
changed since, in values of its own (402-409). Both run in `MatchedLate`.

### Fairness

`AiosGpioLive` assumes weak fairness of each thread's steps, of the receive
work, of the probing thread and of the firmware or the line (a request is
answered, refused or lost), and strong fairness of taking the mutex: the kernel's
mutex queues its waiters and hands over, so a waiter that could take it again
and again does take it. No fairness is assumed of calls, of the removal or of
frames not being lost.

### Violations

They are real disagreements between the code and what it says of itself, listed
in `PROJECT.json` under "findings": the cache read after the unlock, the
unlocked reset of `frame_len`, and the completion of January's callback after
its match. Reached by the models but not asked in a run: the cache updated by a
`set` that was answered with an E frame (June), the NULL dereference at removal
(both).

### Proofs

`AiosGpioProofs` proves, for every number of lines from 1 to 16, every set of callers and
operations, every number of attempts and every choice of faults that the
assumptions `LinkAssumption` and `GpioAssumption` allow:

- `TypeCorrect`: `Spec => []TypeOK`. `TypeOK` is not inductive as the runs check
  it: that an actor inside a transaction has an operation, and what operations
  the probe has, is needed for the requests it sends to be frames. `TypeInv`
  adds this. One lemma per group of actions.
- `MutexCorrect` (`LockHeld`) and `NoStaleCompletion` (`SuccessHeard`), from
  `MutexInv`: who is inside holds the mutex, the holder is inside or died there,
  and a completion counted while the holder waits means that a frame was heard since
  the reinitialisation.
- `RegisteredIsReady` (`RegisteredMeansReady`), from `InitPending`: without E
  frames the first frame that comes is the answer to an INIT that was executed,
  so a completion, a success of the probe's INIT, or any answer on the line
  means that the expander is ready, and everything sent before is an INIT.
- `OnlyTheWaiter` (`OneOutstanding`), from `QuietInv`: on a prompt link nothing is
  on the line or completed unless the holder waits, and it is one thing and the
  holder's.
- `LinesImplemented` (`ImplementsLines`): `Spec` implements `GpioLines`, under two
  premises that are those of the run: `Quiet` (a prompt link, no E frames, no unbinding)
  and `Separate` (no two callers use the same line). Both are needed: each of the runs
  with late answers or a shared line shows why. `Work` adds to the invariants
  above what is true of a caller's operation at each of its steps: before the answer the
  expander has not carried it out, or has, and then the frame on the way, the
  completion and the caller's line agree with what it will return. A call, the expander's
  execution and the return map to steps of the promise, all else to stutters. No
  liveness is in it: the promise is a safety specification.

`AiosGpioMatchedProofs`, about the January driver:

- `MatchedTypes` (`MatchedTypeOK`): no request is sent more often than the retry loop
  allows; the link may be late, lossy and full of E frames.
- `NeverTooEarly` (`NoEarlyComplete`): an answer completes only what an actor
  expects, and nobody expects anything before the completion is initialised, so only
  an E frame can come too early.
- `ProbeFillsCache` (`CacheFilled`): a query succeeds only with the answer that
  was cached before it was matched. As in June's `QuietInv` one request, answer or match
  is outstanding, here with frames left by an earlier binding in front of it.

The attempt to prove the last two refuted what they said at first. An E frame that
refuses a request of the driver bound before may still be on the line when the next one
is bound: it completes the completion before it is initialised, or the query that then
waits, which leaves a line without cached direction. TLC confirms both with such a
frame in `Leftover`. The code has nothing against it, so the formulas now say
so (`\A f \in Leftover : f.cmd # "E"`, and not `"i"` either for the cache).

`AiosReceiversProofs` has theorems about both receivers, for streams and
chunks of any size and a buffer of any size:

- `ReceiversTypes`, `FrameLenStaysBounded` (`FrameLenBounded`), with the premise
  `~Racing`, without which the run `AiosFrameRacing` refutes the latter;
- `OnlyFramesAreHandled` (`OnlyFramesHandled`) and `JanuaryNeverOverflows`
  (`NeverOverflows`), without a premise;
- `JuneFindsTheFrames` (`JuneChunksDoNotMatter`) and `JanuaryFindsTheFrames`
  (`BytesMakeFrames`): what is handled is what `FramesOf` finds in the stream.

`FramesOf` is recursive, and the library's induction theorems cannot be used (they
take an operator). What is needed of induction is proved about sets of numbers
from the well-foundedness of `<` (`LeastNumber`, `SetInduction`); it gives that the
recursion has a solution (`FramesFromExists`), so that the definition is an equation,
and one lemma for each of its cases says what a receiver may skip. The invariant
(`Parsed`) is about every longer prefix of the stream at once: what `FramesOf` finds in
it is what is handled, followed by what it finds from the first byte that is not
dealt with. New bytes therefore leave it alone, and a turn of either loop uses one case of
the definition. `AtRest` says that June's callback returns only when nothing buffered is
a frame.

Here too an attempt failed for a good reason. `BytesMakeFrames` was stated without
exception, and is false: when a frame with a bad tail contains what looks like an oversized
header, `buffer_pos = 0; break` (`S84/20260124/aios_gpio.c:208-214`) throws away all
that was buffered after that header, a good frame's beginning included, where June's
receiver and the reference go on behind the header. The run had no such stream; it has
now (the piece `<< START, 67, 5 >>`), the history variable `dropped` records the
loss, and both the run and the theorem say what remains.

Only model-checked: `ImplementsLines` for the January driver, `CallsReturn` (liveness
under fairness is out of the prover's reach), and the three violations.

### Not modelled here

The January driver's reset of `buffer_pos` by the next transaction, suspend (the
drivers have none), the baud rate itself, and the module parameters read from the
device tree beyond `ngpios`.


## The ch343 USB serial driver

`Ch343` models the data path of `S84/20260630/ch343.c`. The tty core, writers, the
power management core, the USB core and the host controller call into the driver
at the same time; `write_lock`, `mutex` and the tty core's own locks order some of
these calls, and `stop_data_traffic` takes none of them.

| Model | Code |
|---|---|
| `use`, `delayed`, `transmitting`, `susp`, `disconnected`, `initialized` | `wb[i].use`, the anchor `delayed`, `transmitting`, `susp_count`, `disconnected`, `tty_port_initialized` |
| `flying`, `usage` | the URBs the host controller has; the count of autopm references, of the USB core |
| `CallWrite`, `Write`, `WriteRefused`, `WriteWaits`, `WaitRetry`, `WaitTimeout` | `ch343_tty_write`; what runs under `write_lock` is one step |
| `WriteBulk`, `ReadFails` | the completion callbacks; a read that succeeds is submitted again and changes nothing |
| `DrainOne`, `Drained`, `Kill` | `stop_data_traffic`, and the same lines in `ch343_port_shutdown`, URB by URB |
| `Port...` | `ch343_port_activate`, `ch343_port_shutdown`, and what the tty core does around them |
| `SuspendStart`, `Suspend`, `ResumeStart`, `Resume...` | `ch343_suspend` and `ch343_resume`, once for each of the two interfaces; resume keeps `write_lock` over several steps, since the shutdown runs beside it without the lock. `ch343_reset_resume` is a resume with a hangup that comes at any time |
| `Unplug`, `Disconnect...` | `ch343_disconnect` |

From the kernel the model takes: an autosuspend begins only without references;
a system sleep freezes userspace; the open, shutdown and hangup of one port
exclude each other; a shutdown waits for the writers inside the line discipline;
`usb_kill_urb` returns when the callback has run; and no change of power begins
once the device is being unbound. Submitting a URB may fail at any time, and so may
taking a reference or waking the device.

The run `Ch343` has the driver's own sizes, 2 write buffers and 2 read URBs
(`CH343_NW`, `CH343_NR`), 2 writers, so that one can be woken with a buffer that the
other takes, and 3 writes (`MaxWrites`), one more than buffers. It asks:

- `BuffersAccounted`: a buffer in use is in flight or delayed, never both, and has
  one reference, whoever drains, kills or resumes at the same time;
- `SuspendedIsSilent`: once both interfaces are suspended no URB is in flight;
- `NothingAfterFree`: when disconnect frees URBs and buffers, nobody has one;
- `SentInOrder`: delayed writes are submitted before later ones;
- `WritesReturn`, `UnplugEnds`: a write and an unplugging end although the device
  never completes a URB.

Fairness: each writer, each thread in `stop_data_traffic` and the disconnect
go on even if a lock is only now and then free (strong fairness: spinlocks
are queued and the mutex hands over), and so do an open, a suspend and a resume.
The shutdown that `tty_vhangup` asks for comes. Nothing is assumed of the host
controller: a URB may stay in flight for ever. `WritesReturn` relies on
`MaxWrites` in one respect: a writer that is woken and always finds the buffer
taken by another waits anew, with a new timeout, as long as others go on writing.
The deadlock check is off, for an unplugged device is at rest.

`Ch343Proofs` proves all of these but the liveness properties, for every number of
buffers, read URBs, writers and writes: `Ch343Types`, `Ch343BuffersAccounted`,
`Ch343SuspendedIsSilent`, `Ch343NothingAfterFree`, and the action property
`Ch343SentInOrder`. None of them is inductive. `Ch343Inv` has six parts: `Shape`, the
types; `Phases`, which phases of an open, a shutdown, a suspend, a resume and a
disconnect exclude each other; `Waiting`, when there can be delayed writes at all;
`Silence`, that a URB which a thread in `stop_data_traffic` has passed is not in flight;
`Ordered`, the numbers of the delayed writes; and `Accounts`, the buffers and both counters
as cardinalities. `Silence` is the heart of it: for each of the three threads that
kill, what could submit a URB again behind its back must be excluded by something, and it
is not a lock: it is the suspend counter, the reference that an open holds, or that the port
is shut down.

Seen in the model and not asked, for nothing in the repository promises the
contrary: `ch343_resume` tests `tty_port_initialized` and submits the control and
read URBs afterwards, while `ch343_port_shutdown` drains and kills without
`write_lock`, so a closed port may be left with URBs in flight and its next open
fails with `-EBUSY`; an autosuspend between activation and the moment the port
is marked initialised leaves it without read URBs; a write accepted while the device
is suspended is dropped by a close.

Not modelled: the serdev client of the first port (it writes without
the line discipline, whose exclusion of writers the model relies on), remote
wakeup, the branches for kernels before 3.16, the data of the GPIO and EEPROM
commands of `ch343_ioctl`, and the delay and closing wait of `set_serial_info`.

### Its life

`Ch343Life` models how a `struct ch343` begins and ends. Its memory is one of
`Structs`, which is free, being probed, bound, being unbound, or kept by references
alone; memory that was freed may be the next structure's, and `probes` tells one use
from the next.

| Model | Code |
|---|---|
| `dev`, `minors` | the structures, the IDR `ch343_minors` |
| `ttys` | for a minor, `driver_data` of its tty and how far `ch343_tty_install` is |
| `files` | the files of `ch343_iodev`: `private_data`, with no reference |
| `Probe`, `ProbeNoMinor`, `ProbeTakes`, `ProbeFails` | `ch343_probe`; `Rungs` is what it takes, in its order, and each may fail |
| `InstallGets`, `Installed`, `InstallFails`, `TtyCleanup` | `ch343_tty_install` and `ch343_tty_cleanup`; the reference is taken in a step before it is used |
| `ch343_proc_show` | reading `/proc/tty/driver`, which never puts the reference it takes |
| `FileOpen`, `FileClose` | opening and closing the GPIO device |
| `IoctlTests`, `IoctlLocks`, `IoctlRefused`, `IoctlReturns` | `ch343_ioctl`: the test of `io_id` without the mutex (1844), the mutex (1847) and the flag under it, the end of the transfers; between the first two anything may happen, the free and the next probe too |
| `Unplugged`, `Disconnected`, `Unbound` | `ch343_disconnect`, the flag under the mutex, and the rest |

`RefsAccounted` says that the references are probe's, one for each tty, and those that
reading `/proc` leaked, that no tty is on freed memory and that a minor is taken exactly
while its structure is there. `DisconnectWaitsForIoctl` says that an ioctl which locked
a device's structure works on it to the end: disconnect neither sets the flag nor frees
the memory, and nobody else locks it. It does not say that an ioctl finds the structure
it tested. One that passed the test at 1844 and still waits for the mutex when
disconnect frees the structure locks whatever the memory is by then, which the model
reaches and nothing in the code prevents; the property names that case (`probes` of the
file is what it locked) and leaves it out. It leaves out, too, a structure that a
failing probe gives up, since a file opened during that probe holds a pointer to it.

### Its control side

`Ch343Control` has which chip it is, the line's speed, format and outputs, and
the modem lines. `ctl` is what the driver remembers, `unit` what the device was
told, `termios` what the tty reports; `job` is how far each thread is that sets
something, for set_termios sleeps in its transfers without a lock: `Tcset` or
`TtyOpen`, then `TransferLine`, `SetLine`, `ch343_set_control`, `EncodeRate`. `ch343_get`
is the computation of the divisor, in integers and cut to 8 bits where the code
stores it; `Speed` is what the chip makes of it.

- `SetTermiosAgrees`: when a set_termios ends undisturbed and no transfer failed, the
  device has the speed (within 5 %, up to 2 MBd), format, flow control and outputs that
  tty and driver report. What is excluded is real: a concurrent TIOCMSET may be
  undone, for `ctrlout` is written back from a copy; B0 leaves the old rate encoded;
  above 2 MBd 2.5 and 3.5 MBd are off. The theorem needs rates of `Rates`, which are
  all that a termios has a constant for up to 2 MBd: BOTHER may ask for others, and
  1.7 MBd is given 1.5, rates below 46 a quotient cut to a byte, and a CH347TF from
  358401 to 409599 a pair of bytes that is also a prescaler's.
- `LinesCounted`: a status message's parts lock one by one (565-615), the lines first
  (`update_stat`) and then each error (`CountError`), and waiters look between them. Over
  every order of messages and waiters the lines and their counters agree, and what
  waiters have not compared is one change at most.
  That a waiter may sleep over a change which came between its comparison and
  `add_wait_queue` is in the model, and nothing is promised about it.

Bounds: 2 structures, 2 minors, 1 file, 3 probes (memory is used again) and 1 read of
`/proc`; 3 chips with different dividers, 5 settings, 3 messages and 3 calls,
enough for two threads and one in between.


## The RK817 fuel gauge

`Rk817` models `RA/20260302/rk817_battery.c`: what the gauge displays (`dsoc`),
measures (`rsoc`), and saves in the PMIC for the next boot. The record `rk` is
`struct rk817_battery_device` with the PMIC's registers; a function of the driver is
an operator from the record, and from what the converters say, to the record, so the
order of calls in the code is the nesting of operators in the model. The arithmetic
has the code's truncating divisions, units and rounding, the u16 in which
`interpolate` multiplies (660, 670), and its unit slips. Elsewhere its integers are
unbounded: the code's `zero_linek * delta_cap` (2844) may overflow an int when the
load is heavy for very long, which is not modelled; TLC, whose integers have 32 bits
and which stops at an overflow, meets none in the run.

| Model | Code |
|---|---|
| `Boot` | probe: `init_fg`, `rsoc_init`, `first_pwron` or `not_first_pwron`, `init_dsoc_algorithm` |
| `Work`, `battery_work` | `rk817_battery_work`: `update_info`, `lowpwr_check`, `display_smooth` with `smooth_algorithm`, `zero_algorithm` and `finish_algorithm`, `power_supply_changed`, `save_data` |
| `Plug` | the charger, and the RK809's plug interrupts |
| `Suspend`, `Wake`, `ResumeWork` | `pm_suspend`, the sleep, and the work that resume queues, which a second suspend may precede |
| `delay`, `last` | when the work runs next: 5 s after probe (3241), 1 s after `resume_work` (3607), then every `monitor_sec`; the voltage and current read last, which an RK809's suspend makes its charge status from (3316) |
| `PowerOff` | an orderly shutdown, which does nothing, or a loss of power between two functions: only registers stay |
| `BootCut`, `WorkCut`, `SuspendCut`, `ResumeWorkCut` | a loss of power inside a function, at each of its `Moment`s: before userspace is told, between that and the save, after each register that `save_dsoc` (1363-1368) and `save_cap` write |
| `shown`, `before`, `cut` | history: what userspace was told last and before, and at which kind of moment power was lost |

A run of the work sees one reading, where the code may read the voltage and the current
again (1574, 2615). The four bytes of the coulomb counter are written in one step, and
when power is lost within probe its other registers have what the function under way
gives them. Times that the code keeps as points are kept as seconds since then;
`monitor_sec` is 31, so the timers of 15, 30 and 60 s expire in a run or two. Line 2546
of the file has stray text after a semicolon, with which it does not compile; it is
modelled as if it were not there.

The run `Rk817` has a battery of 1000 mAh, both chips, 6 readings (light and heavy load,
nearly empty, charging, charged, and a charger too weak for the load), 4 states of the
registers, a pause of 0 or 40 minutes switched off, and every sequence of 5 of the
machine's steps: one boot and four of what follows, or two boots around a loss of power,
or a sleep with work on both sides. Power is lost inside a function before the last step
only, so that a boot follows. The table has no step in which `interpolate` wraps; the
theorems are about every table.

- `SavedIsDisplayed`: the registers for the next boot hold what is displayed, after
  every step while the machine runs or sleeps, and when power is lost between two functions or
  inside one, except at the moments below;
- `RebootNeverRaises`: a boot displays no more than `Ceiling`, unless the battery is
  new, or the gauge finds a halt or calibrates with a voltage;
- `NoRiseOnDischarge`, `FallsSlowly`: over every change of algorithm the display
  does not rise while current flows out (except out of finished charging), nor fall by
  more than 2 % in a run unless the voltage is extremely low, which begins 20 mV below
  `pwroff_vol`: a load under 400 mA raises the threshold by 50 mV (2609) before 70 are
  taken from it (2787). With 50 mV in its place the run finds a drop from 49 % to 0
  at 3375 mV;
- `SleepNeverRaises`: no sleep ends with more than it began with;
- `FullIsShown`: a run of the work that finds charging finished and leaves it so
  displays 100 %. The formula names its exceptions: the first run after a sleep only
  restarts the algorithms, and two slips of units take other numbers for full: line
  2901 compares `remain_cap`, in uAh, with `fcc`, in mAh, and line 1463 `rsoc`, in
  1/1000 %, with 100.

A loss of power has two kinds of moments that the order of the code leaves
unprotected, which `cut` records and `Ceiling` allows for. TLC finds the properties
violated without these exceptions.

- `"told"`: `rk817_battery_work` tells userspace (3065) before it saves (3067). The
  registers hold the charge that was told before. If it fell since, the next boot
  displays more than userspace was last told (1.781 %, then 2.5 % in the run), but no more than it
  was told before.
- `"writing"`: the charge's three registers are written one by one, so what is left
  in them may have been displayed never, and the next boot displays it, whatever it
  is. The same moment is one in which finished charging has saved its 100 % (2940)
  and not yet told, or probe has saved a charge that it has not told yet.

Each other exception in these formulas is one that the run found and the code means, or
has: a finished charge is displayed as 100 % at once, for instance, whatever was
displayed before. The model also shows, without a property, that the calibration at
boot of a battery that rested long is dead code (line 1763 tests `rsoc` before
`init_coulomb_cap` at 1818 has set it), and that a sleep whose `resume_work` did not run
before the next suspend is not charged for.

The deadlock check is off, since a behaviour ends at `MaxSteps`.

All of these but `FullIsShown` are theorems of `Rk817Proofs`. `ASSUME`s say what they
need: two capacities of at least 42 mAh (`finish_algorithm` divides by the seconds that
a percent takes, which are 0 for a smaller one), an ascending table, numbers from the
PMIC, and a saved charge that was displayed once. `MachineInv` is the invariant: the
record has numbers and a capacity of 42 mAh or more (`Gauge`), the charge of a machine
that is on is one that can be displayed and no more than userspace was told, and what a
machine that is off has saved is under `Ceiling` (`UnderCeiling`). One lemma for each
function says of all its moments that they leave the registers `Sound`, or say why not
(`Safe`). For each function a lemma bounds what it does to `dsoc`: a percent for the
smooth algorithm, two for the zero algorithm, which may calibrate and start over but has
then just restarted its 15 s, none down for the finish algorithm. `FullIsShown` stays
with TLC.

Not modelled: the calibration of the voltage and current converters, the aging of the
battery (`age_*`), the debug attributes, the driver of the charger (it appears as
the status in a reading).

## Programs that share no state

`Programs` joins six machines that have no variable in common. A behaviour chooses one
of them at first and then takes its steps only; what any of them can do alone is
thereby explored in one run, and the others stand still. `ProgramsFairness` restates
the fairness of the Wi-Fi service and of the cellular script for the behaviours that
are theirs. The two halves of the ch343 driver are described above; the deadlock check
is off, for every one of them may come to rest or to its bound.

### The key of the py32

`ClawKey`: `Edge` is `HAL_GPIO_EXTI_Callback`, `KeyTaskReads` and `KeyTaskActs` are
`ClawStar_Key_Task`, cut where it has read tick and level, so that an edge may come
between. `OneThingPerPress` says that the power is switched only after a press the
task saw for all of `LONG_PRESS_TIME_MS`, once, and that letting go does not switch
the backlight too, while the tick wraps (at 16 in the run, starting at 13). An edge
between the level and the flag loses a press; the model has it, and no text forbids it.
`DEBOUNCE_TIME_MS` and `LONG_PRESS_TIME_MS` are 1 and 3 ticks. The comments
(`py32f002bxx_clawstar.h:22`, `.c:84`) speak of 3 s for a long press, where the code has
1500 ms (`.h:39`).

### Wi-Fi provisioning

`Wifi` has the monitor and a thread of `POST /connect`, both of which run `nmcli` with
no lock: `SaveDelete` and `SaveAdd` are `save_sta_connection`; `TryDown`, `TryUp`,
`PollConnected`, `PollGivesUp` are `try_connect`; `ApDelete`, `ApAdd`, `ApKnownDown`,
`ApUp` are `start_ap`; `Scan`, `NextCandidate`, `NoCandidate` are `connect_best_known`;
`Check` is a round of `monitor_loop`. NetworkManager has one active connection, which
networks in range, other commands and its own autoconnect change. Nobody looks at what a
command returns. `CommandExpires` is one that takes 60 s: it ends a thread, or the
service, which systemd starts again, with the profile deleted, made or neither. The
commands that set a profile's options count as its making. `WifiReturns`: in the end
there is a network or an access point for good, whatever the threads did to each other.
Fairness: threads run on. Bounds: a network that works and one with a wrong password,
one request, `FAIL_LIMIT` 2, 2 faults. What the model shows besides: `sta_connected`
does not ask what is connected, so an attempt may report success because the access
point is up.

### The cellular link

`Quectel` has the script twice, as the service's monitor and as a reload. `detect_mode`,
`CmTest`, `CmSpawn`, `CmGrace`, `Dhcp` are `start_auto`, in 4G and 5G; `MonitorChecks`
and `MonitorNaps` are `monitor_auto` with its growing interval; `Reload` is `stop_auto`
with the start after it. `pkill` (622) does not wait: the CMs it ended are `dying` until
`CmDies`, and `pidof` (362) may still find one. quectel-CM, the module and the network
are external: the CM connects, ends, leaves an address behind or loses it, the module
resets. `CellularReturns`: when nothing more goes wrong the interface gets an address
and keeps it. Fairness: monitor and reload run on, a module that resets comes back, and
a CM that has a module connects in the end; without the last nothing could be promised,
for the script never restarts a CM that runs and does not connect. quectel-CM is taken
to be installed. Bounds: 2 CMs at a time (the test and the start are two steps, so there
can be two), a longest nap of 3 intervals, 2 faults, 1 reload.

### The repair of /data2

`DiskRepair` has every step of `fix_data2_disk.sh`, in which any command may fail
(`Dies`), the script be killed with its lock left (`Killed`), the machine restart
(`Reboots`), and the script be run again, also while another run is on. Files are
there or not: those hidden under the mount point, those on the disk, the `.dat`
file. A disk is without filesystem, of a wrong type, damaged, or sound but not mounted
this time, which the script takes for damaged. `DoneMeansRepaired`: a run that exits
with 0 leaves the disk on `/data2` with everything that was hidden and the `.dat` file,
whatever earlier runs left. What it does not say, since the script does not do it:
that what was on a disk survives a mount that failed once (line 524 formats), that a
run after an interrupted backup gets further than line 414, that a restored file is not
older than the one it replaces, that a machine number is made from a zip file (its
path is mixed with a log line). Bounds: 2 runs, 2 hidden files, 1 on the disk, 2 faults.

## What is proved beyond the expander

| Theorem | Statement | Argument |
|---|---|---|
| `Ch343Types`, `Ch343BuffersAccounted`, `Ch343SuspendedIsSilent`, `Ch343NothingAfterFree`, `Ch343SentInOrder` (`Ch343Proofs`) | the types and the four safety properties of the data path | `Ch343Inv`, described with the driver |
| `LifeRefs` (`Ch343LifeProofs`) | `LifeSpec => []RefsAccounted` | `LifeInv` adds how each structure's stage, rung, minor and reference count fit together, and that a tty between taking its reference and being installed already counts; the number of ttys on a structure is a cardinality that changes by one. Minors are assumed finite, and free of the value for none |
| `LifeIoctl` (`Ch343LifeProofs`) | `LifeSpec => []DisconnectWaitsForIoctl` | what a file locked is recorded with the use of the memory (`probes`, 0 if it was no device's); an ioctl on the use it locked holds the mutex and found its flag clear; the flag is set only while the mutex is free, the free comes after the flag, and what is probed there later is another use |
| `ControlLines` (`ProgramsProofs`) | `ControlSpec => []LinesCounted` | `ControlInv` has the counters as naturals and a waiter's copy at most one behind; only `update_status` and the waiter's look touch them |
| `RkSaved` (`Rk817Proofs`) | `RkSpec => []SavedIsDisplayed` | `RkInv` adds the fields the operators read; one lemma for each function of the driver says that it saves what it displays, or leaves both, and that at each moment inside it the registers agree unless `cut` says otherwise (`Sound`) |
| `RkTypes`, `WorkNeverRaises`, `WorkFallsSlowly`, `SleepTakes`, `RebootTrusts` (`Rk817Proofs`) | `RkTypeOK` and four action properties of the gauge | `MachineInv`, described with the gauge |
| `RepairInvariant`, `RepairDone` (`ProgramsProofs`) | `RepairSpec => []RepairInv`, `RepairSpec => DoneMeansRepaired` | while a run works the lock is there and no other works; what each step leaves on the disk is kept until the run ends |
| `KeyOneThing` (`ProgramsProofs`) | `KeySpec => OneThingPerPress` | `Held`: what the task acts on was pressed since `hold.since`, and the stamp `key_down_time` is of a look at the key after it; the difference of two stamps modulo `TickWrap` is never more than the time between them (`SinceBound`), which is what makes the wrap harmless |
| `TermiosAgrees` (`ProgramsProofs`) | `UsualSettings => (ControlSpec => SetTermiosAgrees)` | `AgreeInv`: a set_termios that is undisturbed is the only job there is, and at each of its stages the device and `ctrlout` have what the stages before set; whoever starts ends that for the others. The speed is arithmetic: the quotients of the clock by `a` and `a + 1` lie on both sides of the rate, and the nearer is within 5 % when the divisor is 13 or more, or 10 for rates of 200 and more (`Nearest`); where that is short the rates are few. `UsualSettings`, which every termios set with a `B` constant satisfies and the settings of the run too, is about rates only |
| `ProgramsTypes`, `ProgramsSafe` (`ProgramsProofs`) | `ProgramsSpec => []ProgramsTypeOK`, and the six safety properties for `ProgramsSpec` | a step of `Programs` is a step of one program and stutters in the others (`ProgramsParts`). `ControlTypes` adds what a job carries, and `DivisorType` that `ch343_get` returns bytes for every rate but 0, which is never asked for; `WifiInv` adds that a monitor asleep is below `FAIL_LIMIT` and that a thread saves a network |

They hold for every number of structures, minors, messages, readings, batteries, runs
and faults. Every invariant and every action property of these modules that a run checks is
proved. The liveness properties are outside the prover's reach.

## Not modelled

- the USB gadget scripts: sequences of writes to configfs and sysfs that leave
  every decision to the kernel;
- the star-llm server: its streams run on threads and clear the history of one
  model under each other, which is listed as a hazard; the history itself is in a
  compiled library;
- the gc9a01 display driver and the LED loop, which keep no state between calls that
  two callers could disagree on; the PCIe controller, vendor code with a patch;
- build and first-boot scripts, notes.

Two hazards have no place in the list of `PROJECT.json` because nothing can be asked about
them here: the January expander driver's redefinition of gpiolib's direction values
(`S84/20260124/aios_gpio.h:18`), and the reset of its receive position by the next
transaction (`aios_gpio.c:200`), the like of which `AiosFrame` shows for June.

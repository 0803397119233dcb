------------------------------- MODULE Quectel --------------------------------
(***************************************************************************)
(* The cellular link of 20260616, common/quectel-autoconnect.sh, one       *)
(* script that runs as the service's monitor, and at the same time as its  *)
(* reload, with no lock between them: start_auto against stop_auto.        *)
(*                                                                         *)
(* "Connected" is an IPv4 address on the module's interface.  quectel-CM,  *)
(* external, dials and gets one, and dials again by itself.                *)
(***************************************************************************)
EXTENDS Integers, FiniteSets

CONSTANTS
  MaxCMs,          \* bound: quectel-CMs at one time
  MaxNaps,         \* MAX_RETRY_INTERVAL in MONITOR_INTERVALs
  MaxLinkFaults,   \* bound: everything that may go wrong
  MaxReloads       \* bound: reloads

ASSUME LinkAssumption == MaxCMs \in Nat /\ MaxNaps \in Nat

VARIABLES
  module,   \* "absent", "qmi" (4G) or "ncm" (5G)
  cms,      \* quectel-CMs running
  dying,    \* those of them that a reload has told to end
  address,  \* the interface has an IPv4 address
  script,   \* where the monitor and the reload are
  fail_count, naps,
  linkFaults, reloads

linkVars == <<module, cms, dying, address, script, fail_count, naps, linkFaults, reloads>>

Runs == {"monitor", "reload"}
Moves(p, s) == script' = [script EXCEPT ![p] = s]
any_data_connected == address

LinkInit ==
  /\ module \in {"absent", "qmi", "ncm"}
  /\ cms = 0
  /\ dying = 0
  /\ address = FALSE
  /\ script = [p \in Runs |-> IF p = "monitor" THEN "check" ELSE "done"]
  /\ fail_count = 0
  /\ naps = 0
  /\ linkFaults = 0
  /\ reloads = 0

Fault == linkFaults < MaxLinkFaults /\ linkFaults' = linkFaults + 1

------------------------------------------------------------------------------
(* quectel-CM and the module, external *)

CmConnects ==
  /\ cms > dying /\ module # "absent" /\ ~address
  /\ address' = TRUE
  /\ UNCHANGED <<module, cms, dying, script, fail_count, naps, linkFaults, reloads>>

\* A CM that ends takes the address with it, or leaves it.
CmEnds ==
  /\ Fault
  /\ cms > dying
  /\ cms' = cms - 1
  /\ address' \in {FALSE, address}
  /\ UNCHANGED <<module, dying, script, fail_count, naps, reloads>>

\* One that was told to ends, after pkill has returned.
CmDies ==
  /\ dying > 0
  /\ dying' = dying - 1
  /\ cms' = cms - 1
  /\ address' \in {FALSE, address}
  /\ UNCHANGED <<module, script, fail_count, naps, linkFaults, reloads>>

LinkLost ==
  /\ Fault
  /\ address /\ address' = FALSE
  /\ UNCHANGED <<module, cms, dying, script, fail_count, naps, reloads>>

\* The module resets: its interface goes, and comes back.
ModuleGone ==
  /\ Fault
  /\ module # "absent" /\ module' = "absent"
  /\ address' = FALSE
  /\ UNCHANGED <<cms, dying, script, fail_count, naps, reloads>>

ModuleComes ==
  /\ module = "absent" /\ module' \in {"qmi", "ncm"}
  /\ UNCHANGED <<cms, dying, address, script, fail_count, naps, linkFaults, reloads>>

------------------------------------------------------------------------------
(* start_auto, run by p *)

\* The monitor counts failures; the reload just ends.
Returns(p, ok) ==
  /\ Moves(p, IF p = "monitor" THEN "nap" ELSE "done")
  /\ fail_count' = IF p # "monitor" THEN fail_count
                   ELSE IF ok THEN 0
                   ELSE IF fail_count < MaxNaps THEN fail_count + 1 ELSE fail_count

\* detect_mode, and the wait for the interface: the module may be gone by then.
detect_mode(p) ==
  /\ script[p] = "start"
  /\ IF module = "absent" THEN Returns(p, FALSE)
     ELSE Moves(p, "pidof") /\ UNCHANGED fail_count
  /\ UNCHANGED <<module, cms, dying, address, naps, linkFaults, reloads>>

\* start_quectel_cm, as far as the test for one that runs, or is dying.
CmTest(p) ==
  /\ script[p] = "pidof"
  /\ Moves(p, IF cms > 0 THEN "dhcp" ELSE "spawn")
  /\ UNCHANGED <<module, cms, dying, address, fail_count, naps, linkFaults, reloads>>

CmSpawn(p) ==
  /\ script[p] = "spawn"
  /\ cms < MaxCMs
  /\ cms' = cms + 1
  /\ Moves(p, "grace")
  /\ UNCHANGED <<module, dying, address, fail_count, naps, linkFaults, reloads>>

\* After NET_START_GRACE.  Without a CM, 4G tries qmicli, which is a failure or a
\* session for DHCP; 5G gives up.
CmGrace(p) ==
  /\ script[p] = "grace"
  /\ \/ cms > 0 /\ Moves(p, "dhcp") /\ UNCHANGED fail_count
     \/ cms = 0 /\ module = "qmi" /\ Moves(p, "dhcp") /\ UNCHANGED fail_count
     \/ cms = 0 /\ Returns(p, FALSE)
  /\ UNCHANGED <<module, cms, dying, address, naps, linkFaults, reloads>>

\* An address that is there is enough for 4G; 5G gives up without a carrier.  run_dhcp
\* gets an address from a session that is up, or does not.
Dhcp(p) ==
  /\ script[p] = "dhcp"
  /\ \/ address /\ Returns(p, TRUE) /\ UNCHANGED address
     \/ ~address /\ module # "absent" /\ address' = TRUE /\ Returns(p, TRUE)
     \/ (~address \/ module = "ncm") /\ Returns(p, FALSE) /\ UNCHANGED address
  /\ UNCHANGED <<module, cms, dying, naps, linkFaults, reloads>>

------------------------------------------------------------------------------
(* monitor_auto, and the reload *)

\* Mutant: a start that failed is not tried again.
MonitorChecks_once ==
  /\ script["monitor"] = "check"
  /\ Moves("monitor", IF any_data_connected \/ fail_count > 0 THEN "nap" ELSE "start")
  /\ UNCHANGED <<module, cms, dying, address, fail_count, naps, linkFaults, reloads>>

MonitorChecks ==
  /\ script["monitor"] = "check"
  /\ Moves("monitor", IF any_data_connected THEN "nap" ELSE "start")
  /\ UNCHANGED <<module, cms, dying, address, fail_count, naps, linkFaults, reloads>>

\* MONITOR_INTERVAL * (fail_count + 1), and MAX_RETRY_INTERVAL at most.
MonitorNaps ==
  /\ script["monitor"] = "nap"
  /\ naps' = IF naps >= fail_count \/ naps + 1 >= MaxNaps THEN 0 ELSE naps + 1
  /\ IF naps' = 0 THEN Moves("monitor", "check") ELSE UNCHANGED script
  /\ UNCHANGED <<module, cms, dying, address, fail_count, linkFaults, reloads>>

\* stop_auto: pkill, which does not wait for the CMs to end, and the links down, which
\* the monitor's start_auto may be using.
Reload ==
  /\ script["reload"] = "done"
  /\ reloads < MaxReloads
  /\ reloads' = reloads + 1
  /\ dying' = cms
  /\ address' = FALSE
  /\ Moves("reload", "start")
  /\ UNCHANGED <<module, cms, fail_count, naps, linkFaults>>

ScriptStep(p) ==
  detect_mode(p) \/ CmTest(p) \/ CmSpawn(p) \/ CmGrace(p) \/ Dhcp(p)
MonitorGoes == ScriptStep("monitor") \/ MonitorChecks \/ MonitorNaps

LinkNext ==
  \/ MonitorGoes \/ ScriptStep("reload") \/ Reload
  \/ CmConnects \/ CmEnds \/ CmDies \/ LinkLost \/ ModuleGone \/ ModuleComes

\* The scripts run on, a module that resets comes back, and a CM with a module and
\* nothing going wrong connects in the end, or ends if it was told to.
LinkFairness ==
  /\ WF_linkVars(MonitorGoes)
  /\ WF_linkVars(ScriptStep("reload"))
  /\ WF_linkVars(ModuleComes)
  /\ WF_linkVars(CmConnects)
  /\ WF_linkVars(CmDies)

LinkSpec == LinkInit /\ [][LinkNext]_linkVars /\ LinkFairness

------------------------------------------------------------------------------
(* Properties *)

LinkTypeOK ==
  /\ module \in {"absent", "qmi", "ncm"}
  /\ cms \in 0..MaxCMs
  /\ dying \in 0..cms
  /\ script \in [Runs -> {"check", "nap", "start", "pidof", "spawn", "grace", "dhcp", "done"}]
  /\ fail_count \in 0..MaxNaps
  /\ naps \in 0..MaxNaps

\* However a reload and the monitor start and stop against each other, the link has an
\* address in the end, for good, when nothing more goes wrong.
CellularComesBack == <>[]any_data_connected
==============================================================================

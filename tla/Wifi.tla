--------------------------------- MODULE Wifi ---------------------------------
(***************************************************************************)
(* The Wi-Fi provisioning service of 20260622, wifi-provision.py: the      *)
(* monitor, which connects to a network that is known or else opens an     *)
(* access point, and the threads of POST /connect, which save a network    *)
(* and connect to it.                                                      *)
(*                                                                         *)
(* All of them run nmcli with no lock, and none looks at what it returns.  *)
(* Deleting a profile, making it and bringing it up are steps; making it   *)
(* includes the commands that set its options.  NetworkManager has one     *)
(* connection active on the interface, and connects again to what it knows *)
(* by itself.                                                              *)
(* A command that takes 60 s raises: that ends a thread, or the monitor    *)
(* and with it the service, which systemd starts again.                    *)
(***************************************************************************)
EXTENDS Integers, FiniteSets

CONSTANTS
  Nets,        \* networks
  Refusing,    \* those with a password that is not the one saved
  Posts,       \* threads of POST /connect
  FAIL_LIMIT,
  MaxFaults    \* bound: networks coming and going, commands taking too long

ASSUME WifiAssumption == FAIL_LIMIT \in Nat \ {0} /\ MaxFaults \in Nat

VARIABLES
  active,   \* what NetworkManager has active: "none", "AP" or a network
  known,    \* networks with a profile
  ap_con,   \* there is a profile for the access point
  visible,  \* networks in range
  who,      \* for the monitor and each thread, where it is, the network it tries, and
            \* those it will try after
  fail,     \* monitor_loop's fail
  wifiFaults

wifiVars == <<active, known, ap_con, visible, who, fail, wifiFaults>>

Actors == Posts \cup {"monitor"}

At(a, s) == who[a].at = s
Goes(a, s) == who' = [who EXCEPT ![a].at = s]

WifiInit ==
  /\ active = "none"
  /\ known = {}
  /\ ap_con = FALSE
  /\ visible = Nets
  /\ who = [a \in Actors |-> [at |-> IF a = "monitor" THEN "boot" ELSE "idle",
                              con |-> "none", rest |-> {}]]
  /\ fail = 0
  /\ wifiFaults = 0

------------------------------------------------------------------------------
(* NetworkManager, external *)

Reachable == (known \cap visible) \ Refusing

Autoconnects ==
  /\ active = "none"
  /\ \E n \in Reachable : active' = n
  /\ UNCHANGED <<known, ap_con, visible, who, fail, wifiFaults>>

NetMoves ==
  /\ wifiFaults < MaxFaults
  /\ wifiFaults' = wifiFaults + 1
  /\ \E n \in Nets :
       /\ visible' = IF n \in visible THEN visible \ {n} ELSE visible \cup {n}
       /\ active' = IF active = n THEN "none" ELSE active
  /\ UNCHANGED <<known, ap_con, who, fail>>

------------------------------------------------------------------------------
(* connect_new_wifi, try_connect and start_ap, run by thread a *)

\* What is active when x has gone down.
Without(x) == IF active = x THEN "none" ELSE active

\* save_sta_connection: a profile of this name is deleted, and made anew.
SaveDelete(a) ==
  /\ At(a, "save")
  /\ known' = known \ {who[a].con}
  /\ active' = Without(who[a].con)
  /\ Goes(a, "add")
  /\ UNCHANGED <<ap_con, visible, fail, wifiFaults>>

SaveAdd(a) ==
  /\ At(a, "add")
  /\ known' = known \cup {who[a].con}
  /\ Goes(a, "try")
  /\ UNCHANGED <<active, ap_con, visible, fail, wifiFaults>>

\* try_connect: the access point goes down first.
TryDown(a) ==
  /\ At(a, "try")
  /\ active' = Without("AP")
  /\ Goes(a, "up")
  /\ UNCHANGED <<known, ap_con, visible, fail, wifiFaults>>

\* A connection that cannot be activated has still taken the interface.
TryUp(a) ==
  /\ At(a, "up")
  /\ active' = IF who[a].con \in Reachable THEN who[a].con
               ELSE IF who[a].con \in known THEN "none" ELSE active
  /\ Goes(a, "poll")
  /\ UNCHANGED <<known, ap_con, visible, fail, wifiFaults>>

\* sta_connected does not ask what it is connected to.
sta_connected == active # "none"

PollConnected(a) ==
  /\ At(a, "poll")
  /\ sta_connected
  /\ Goes(a, IF a = "monitor" THEN "sleep" ELSE "idle")
  /\ fail' = IF a = "monitor" THEN 0 ELSE fail
  /\ UNCHANGED <<active, known, ap_con, visible, wifiFaults>>

\* CONNECT_TIMEOUT is over: the connection goes down, and the next candidate is tried.
PollGivesUp(a) ==
  /\ At(a, "poll")
  /\ ~sta_connected \/ active = who[a].con
  /\ active' = Without(who[a].con)
  /\ who' = [who EXCEPT ![a].at = IF a = "monitor" THEN "next" ELSE "ap create"]
  /\ UNCHANGED <<known, ap_con, visible, fail, wifiFaults>>

\* create_ap_connection: an access point that is up goes with its profile.
ApDelete(a) ==
  /\ At(a, "ap create")
  /\ active' = Without("AP")
  /\ ap_con' = FALSE
  /\ Goes(a, "ap add")
  /\ UNCHANGED <<known, visible, fail, wifiFaults>>

ApAdd(a) ==
  /\ At(a, "ap add")
  /\ ap_con' = TRUE
  /\ Goes(a, "ap known")
  /\ UNCHANGED <<active, known, visible, fail, wifiFaults>>

ApKnownDown(a) ==
  /\ At(a, "ap known")
  /\ active' = IF active \in known THEN "none" ELSE active
  /\ Goes(a, "ap up")
  /\ UNCHANGED <<known, ap_con, visible, fail, wifiFaults>>

ApUp(a) ==
  /\ At(a, "ap up")
  /\ active' = IF ap_con THEN "AP" ELSE active
  /\ Goes(a, IF a = "monitor" THEN "sleep" ELSE "idle")
  /\ fail' = IF a = "monitor" THEN 0 ELSE fail
  /\ UNCHANGED <<known, ap_con, visible, wifiFaults>>

------------------------------------------------------------------------------
(* monitor_loop *)

\* connect_best_known: those known that a scan shows, or shows in time.
Scan ==
  /\ At("monitor", "boot") \/ At("monitor", "scan")
  /\ \E scanned \in {visible} \cup (IF wifiFaults < MaxFaults THEN {{}} ELSE {}) :
       /\ wifiFaults' = IF scanned = visible THEN wifiFaults ELSE wifiFaults + 1
       /\ who' = [who EXCEPT !["monitor"] = [at |-> "next", con |-> "none",
                                             rest |-> scanned \cap known]]
  /\ UNCHANGED <<active, known, ap_con, visible, fail>>

\* By signal, in any order.
NextCandidate ==
  /\ At("monitor", "next")
  /\ \E n \in who["monitor"].rest :
       who' = [who EXCEPT !["monitor"] = [at |-> "try", con |-> n, rest |-> @.rest \ {n}]]
  /\ UNCHANGED <<active, known, ap_con, visible, fail, wifiFaults>>

\* Mutant: no access point is opened.
NoCandidate_gives_up ==
  /\ At("monitor", "next")
  /\ who["monitor"].rest = {}
  /\ Goes("monitor", "sleep")
  /\ fail' = 0
  /\ UNCHANGED <<active, known, ap_con, visible, wifiFaults>>

NoCandidate ==
  /\ At("monitor", "next")
  /\ who["monitor"].rest = {}
  /\ Goes("monitor", "ap create")
  /\ UNCHANGED <<active, known, ap_con, visible, fail, wifiFaults>>

Check ==
  /\ At("monitor", "sleep")
  /\ fail' = IF sta_connected THEN 0 ELSE fail + 1
  /\ IF fail' >= FAIL_LIMIT THEN Goes("monitor", "scan") ELSE UNCHANGED who
  /\ UNCHANGED <<active, known, ap_con, visible, wifiFaults>>

------------------------------------------------------------------------------
(* POST /connect, and commands that take too long *)

PostConnect(a) ==
  /\ a \in Posts
  /\ At(a, "idle") /\ who[a].con = "none"
  /\ \E n \in Nets : who' = [who EXCEPT ![a] = [at |-> "save", con |-> n, rest |-> {}]]
  /\ UNCHANGED <<active, known, ap_con, visible, fail, wifiFaults>>

\* TimeoutExpired; what NetworkManager was asked to do may still happen.
CommandExpires(a) ==
  /\ wifiFaults < MaxFaults
  /\ who[a].at \in {"save", "add", "try", "up", "ap create", "ap add", "ap known", "ap up"}
  /\ wifiFaults' = wifiFaults + 1
  /\ who' = IF a = "monitor"
            THEN [b \in Actors |-> [who[b] EXCEPT !.at = IF b = "monitor" THEN "boot" ELSE "idle"]]
            ELSE [who EXCEPT ![a].at = "idle"]
  /\ fail' = IF a = "monitor" THEN 0 ELSE fail
  /\ \/ UNCHANGED <<active, known, ap_con>>
     \/ /\ active' = CASE At(a, "up") /\ who[a].con \in Reachable -> who[a].con
                       [] At(a, "ap up") /\ ap_con -> "AP"
                       [] At(a, "save") -> Without(who[a].con)
                       [] At(a, "add") \/ At(a, "ap add") -> active
                       [] OTHER -> "none"
        /\ known' = IF At(a, "save") THEN known \ {who[a].con}
                    ELSE IF At(a, "add") THEN known \cup {who[a].con} ELSE known
        /\ ap_con' = ((ap_con /\ ~At(a, "ap create")) \/ At(a, "ap add"))
  /\ UNCHANGED visible

WifiStep(a) ==
  \/ SaveDelete(a) \/ SaveAdd(a) \/ TryDown(a) \/ TryUp(a)
  \/ PollConnected(a) \/ PollGivesUp(a)
  \/ ApDelete(a) \/ ApAdd(a) \/ ApKnownDown(a) \/ ApUp(a)

MonitorStep == WifiStep("monitor") \/ Scan \/ NextCandidate \/ NoCandidate \/ Check

WifiNext ==
  \/ MonitorStep
  \/ \E a \in Posts : WifiStep(a)
  \/ \E a \in Actors : PostConnect(a) \/ CommandExpires(a)
  \/ Autoconnects \/ NetMoves

\* The threads of the service run on, and a service that ends is started again.
WifiFairness ==
  /\ WF_wifiVars(MonitorStep)
  /\ \A a \in Posts : WF_wifiVars(WifiStep(a))

WifiSpec == WifiInit /\ [][WifiNext]_wifiVars /\ WifiFairness

------------------------------------------------------------------------------
(* Properties *)

WifiTypeOK ==
  /\ active \in Nets \cup {"none", "AP"}
  /\ known \subseteq Nets
  /\ visible \subseteq Nets
  /\ \A a \in Actors : /\ who[a].con \in Nets \cup {"none"}
                       /\ who[a].rest \subseteq Nets
  /\ fail \in 0..FAIL_LIMIT
  /\ wifiFaults \in 0..MaxFaults

\* However the threads undo each other's work, in the end there is a network or an
\* access point, for good, and with it a way to reach the board.
WifiComesBack == <>[]sta_connected
==============================================================================

------------------------------- MODULE Programs -------------------------------
(***************************************************************************)
(* Parts of the boards' software that share no state, one at a time: a     *)
(* behaviour is one of the program that it begins with.  The life of a     *)
(* struct ch343 and its control side are parts of one driver that meet     *)
(* only in the disconnected flag; the key, the Wi-Fi service, the cellular *)
(* script and the disk script are programs of different machines.          *)
(***************************************************************************)
EXTENDS Ch343Life, Ch343Control, ClawKey, Wifi, Quectel, DiskRepair

VARIABLE program

programsVars == <<program, lifeVars, controlVars, keyVars, wifiVars, linkVars, diskVars>>

\* What may differ at first is looked at in the program's own behaviours only.
ProgramsInit ==
  /\ program \in {"life", "control", "key", "wifi", "link", "repair"}
  /\ LifeInit /\ ControlInit /\ KeyInit /\ WifiInit /\ LinkInit /\ RepairInit
  /\ program # "key" => ~pressed
  /\ program # "link" => module = "absent"
  /\ program # "repair" => disk.fs = "none" /\ ~disk.sound

Life == /\ program = "life" /\ LifeNext
        /\ UNCHANGED <<program, controlVars, keyVars, wifiVars, linkVars, diskVars>>
Control == /\ program = "control" /\ ControlNext
           /\ UNCHANGED <<program, lifeVars, keyVars, wifiVars, linkVars, diskVars>>
Key == /\ program = "key" /\ KeyNext
       /\ UNCHANGED <<program, lifeVars, controlVars, wifiVars, linkVars, diskVars>>
Provision == /\ program = "wifi" /\ WifiNext
             /\ UNCHANGED <<program, lifeVars, controlVars, keyVars, linkVars, diskVars>>
Link == /\ program = "link" /\ LinkNext
        /\ UNCHANGED <<program, lifeVars, controlVars, keyVars, wifiVars, diskVars>>
Repair == /\ program = "repair" /\ RepairNext
          /\ UNCHANGED <<program, lifeVars, controlVars, keyVars, wifiVars, linkVars>>

ProgramsNext == Life \/ Control \/ Key \/ Provision \/ Link \/ Repair

\* WifiFairness and LinkFairness, in the behaviours of their programs.
ProgramsFairness ==
  /\ WF_wifiVars(program = "wifi" /\ MonitorStep)
  /\ \A a \in Posts : WF_wifiVars(program = "wifi" /\ WifiStep(a))
  /\ WF_linkVars(program = "link" /\ MonitorGoes)
  /\ WF_linkVars(program = "link" /\ ScriptStep("reload"))
  /\ WF_linkVars(program = "link" /\ ModuleComes)
  /\ WF_linkVars(program = "link" /\ CmConnects)
  /\ WF_linkVars(program = "link" /\ CmDies)

ProgramsSpec == ProgramsInit /\ [][ProgramsNext]_programsVars /\ ProgramsFairness

------------------------------------------------------------------------------
(* Properties *)

ProgramsTypeOK ==
  LifeTypeOK /\ ControlTypeOK /\ KeyTypeOK /\ WifiTypeOK /\ LinkTypeOK /\ RepairTypeOK

\* WifiComesBack, of the behaviours of the Wi-Fi service.
WifiReturns == program = "wifi" => WifiComesBack

\* CellularComesBack, of the behaviours of the cellular script.
CellularReturns == program = "link" => CellularComesBack
==============================================================================

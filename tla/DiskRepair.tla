------------------------------ MODULE DiskRepair ------------------------------
(***************************************************************************)
(* 20260611/fix_data2_disk.sh, which moves what the production line wrote  *)
(* into the eMMC's directory /data2, under the mount point, to the disk    *)
(* that belongs there, and makes the machine's .dat file.                  *)
(*                                                                         *)
(* A run may end with an error anywhere, be killed, or lose the power; it  *)
(* is run again, also while another run is on, which a lock directory on a *)
(* tmpfs forbids.                                                          *)
(***************************************************************************)
EXTENDS Integers, FiniteSets

CONSTANTS
  Scripts,        \* runs of the script that may be on at one time
  Under,          \* the files in the eMMC's /data2
  OnDisk,         \* the files on the disk at first
  Target,         \* $CODE.dat
  Dats,           \* files from which it can be made
  MaxDiskFaults   \* bound: errors, kills and crashes

ASSUME RepairAssumption == MaxDiskFaults \in Nat

VARIABLES
  disk,      \* fs, its type or "none", whether it can be mounted, and files
  bak,       \* the files in BAK, /data/data2_backup
  mounted,   \* where the disk is mounted: "none", "data2" or "elsewhere"
  lock,      \* the directory LOCK is there
  repair,    \* where each run is
  diskFaults

diskVars == <<disk, bak, mounted, lock, repair, diskFaults>>

\* What /data2 shows.
data2 == IF mounted = "data2" THEN disk.files ELSE Under

RepairInit ==
  /\ \E fs \in {"ext4", "ntfs", "none"}, sound \in BOOLEAN :
       disk = [fs |-> fs, sound |-> sound /\ fs # "none",
               files |-> IF fs = "none" THEN {} ELSE OnDisk]
  /\ bak = {}
  /\ mounted \in IF disk.sound THEN {"none", "data2", "elsewhere"} ELSE {"none"}
  /\ lock = FALSE
  /\ repair = [r \in Scripts |-> "idle"]
  /\ diskFaults = 0

Reaches(r, from, to) ==
  /\ repair[r] = from
  /\ repair' = [repair EXCEPT ![r] = to]

\* die: the lock is removed, and everything else left as it is.
Ends(r, from) == Reaches(r, from, "idle") /\ lock' = FALSE

\* Mutant: no lock.
Lock_none(r) ==
  /\ Reaches(r, "idle", "locked")
  /\ lock' = TRUE
  /\ UNCHANGED <<disk, bak, mounted, diskFaults>>

Lock(r) ==
  /\ ~lock
  /\ Reaches(r, "idle", "locked")
  /\ lock' = TRUE
  /\ UNCHANGED <<disk, bak, mounted, diskFaults>>

Unmount(r) ==
  /\ Reaches(r, "locked", "unmounted")
  /\ mounted' = IF mounted = "data2" THEN "none" ELSE mounted
  /\ UNCHANGED <<disk, bak, lock, diskFaults>>

\* A backup that is not empty is somebody else's.
BackupStart(r) ==
  /\ IF bak = {} THEN Reaches(r, "unmounted", "backup") /\ UNCHANGED lock
     ELSE Ends(r, "unmounted")
  /\ UNCHANGED <<disk, bak, mounted, diskFaults>>

BackupCopies(r) ==
  /\ repair[r] = "backup"
  /\ \E f \in data2 \ bak : bak' = bak \cup {f}
  /\ UNCHANGED <<disk, mounted, lock, repair, diskFaults>>

\* The choice by the type that blkid finds.
BackedUp(r) ==
  /\ data2 \subseteq bak
  /\ CASE disk.fs = "ext4" -> Reaches(r, "backup", "mount") /\ UNCHANGED lock
       [] disk.fs = "none" -> Reaches(r, "backup", "format") /\ UNCHANGED lock
       [] OTHER -> Ends(r, "backup")
  /\ UNCHANGED <<disk, bak, mounted, diskFaults>>

\* mount_dev_to_data2, by udev or by hand, from wherever it is mounted.
Mount(r) ==
  /\ disk.sound
  /\ Reaches(r, "mount", "mounted") \/ Reaches(r, "mount again", "mounted")
  /\ mounted' = "data2"
  /\ UNCHANGED <<disk, bak, lock, diskFaults>>

\* A filesystem that cannot be mounted, or could not be this time, is made anew.
MountFails(r) ==
  /\ IF disk.sound THEN diskFaults < MaxDiskFaults /\ diskFaults' = diskFaults + 1
     ELSE UNCHANGED diskFaults
  /\ Reaches(r, "mount", "format")
  /\ mounted' \in {"none", mounted}
  /\ UNCHANGED <<disk, bak, lock>>

\* What is mounted is unmounted; mkfs does not touch a disk that still is.
Format(r) ==
  /\ Reaches(r, "format", "mount again")
  /\ mounted' = "none"
  /\ disk' = [fs |-> "ext4", sound |-> TRUE, files |-> {}]
  /\ UNCHANGED <<bak, lock, diskFaults>>

Restores(r) ==
  /\ repair[r] = "mounted"
  /\ mounted = "data2"
  /\ \E f \in bak \ disk.files : disk' = [disk EXCEPT !.files = @ \cup {f}]
  /\ UNCHANGED <<bak, mounted, lock, repair, diskFaults>>

Restored(r) ==
  /\ bak \subseteq data2
  /\ Reaches(r, "mounted", "install")
  /\ UNCHANGED <<disk, bak, mounted, lock, diskFaults>>

\* install_machine_dat: the file is there, or made from one that is found: in the backup,
\* in /data or /home, or on the disk.  From a zip it is not: what the log says of it
\* gets into its name.
Install(r) ==
  /\ mounted = "data2"
  /\ \/ /\ Target \in data2 \/ Dats \cap (bak \cup data2) # {} \/ "dat in data" \in Dats
        /\ disk' = [disk EXCEPT !.files = @ \cup {Target}]
        /\ Reaches(r, "install", "installed") /\ UNCHANGED lock
     \/ /\ Target \notin data2 /\ Dats \cap (bak \cup data2) = {}
        /\ "dat in data" \notin Dats
        /\ Ends(r, "install") /\ UNCHANGED disk
  /\ UNCHANGED <<bak, mounted, diskFaults>>

\* cleanup_backup and exit 0.
Done(r) ==
  /\ Ends(r, "installed")
  /\ bak' = {}
  /\ UNCHANGED <<disk, mounted, diskFaults>>

DiskFault == diskFaults < MaxDiskFaults /\ diskFaults' = diskFaults + 1

\* A command fails and the script says so.
Dies(r) ==
  /\ DiskFault
  /\ repair[r] # "idle"
  /\ Ends(r, repair[r])
  /\ UNCHANGED <<disk, bak, mounted>>

\* Killed, with the lock left there.
Killed(r) ==
  /\ DiskFault
  /\ repair[r] # "idle"
  /\ Reaches(r, repair[r], "idle")
  /\ UNCHANGED <<disk, bak, mounted, lock>>

\* The power goes, perhaps while BAK is being removed; udev mounts the disk at boot.
Reboots ==
  /\ DiskFault
  /\ repair' = [r \in Scripts |-> "idle"]
  /\ lock' = FALSE
  /\ bak' \in IF \E r \in Scripts : repair[r] = "installed" THEN SUBSET bak ELSE {bak}
  /\ mounted' = IF disk.sound THEN "data2" ELSE "none"
  /\ UNCHANGED disk

RepairNext ==
  \/ \E r \in Scripts :
       \/ Lock(r) \/ Unmount(r) \/ BackupStart(r) \/ BackupCopies(r) \/ BackedUp(r)
       \/ Mount(r) \/ MountFails(r) \/ Format(r) \/ Restores(r) \/ Restored(r)
       \/ Install(r) \/ Done(r) \/ Dies(r) \/ Killed(r)
  \/ Reboots

RepairSpec == RepairInit /\ [][RepairNext]_diskVars

------------------------------------------------------------------------------
(* Properties *)

RepairTypeOK ==
  /\ disk.files \subseteq OnDisk \cup Under \cup {Target}
  /\ bak \subseteq OnDisk \cup Under \cup {Target}
  /\ mounted \in {"none", "data2", "elsewhere"}
  /\ diskFaults \in 0..MaxDiskFaults

\* When a run exits with 0, whatever became of the runs before it or beside it, the disk
\* is on /data2 with every file that was hidden under it and the machine's .dat file
\* (the two aims in the usage, fix_data2_disk.sh:37).
DoneMeansRepaired ==
  [][\A r \in Scripts :
       Done(r) => /\ mounted = "data2"
                  /\ Under \cup {Target} \subseteq disk.files]_diskVars
==============================================================================

---------------------------- MODULE Ch343LifeProofs ----------------------------
(***************************************************************************)
(* RefsAccounted and DisconnectWaitsForIoctl of Ch343Life, for any number  *)
(* of structures, minors, files and plugs.                                 *)
(*                                                                         *)
(* The argument: RefsAccounted is inductive with what a structure's stage  *)
(* says of it (StagesAgree).  A step that changes one structure and no tty *)
(* has to be looked at for that structure only (OneChanges); the last      *)
(* reference frees it (LastPut); a tty that is installed or cleaned up is  *)
(* one more or one less of the structure's users.  A file's ioctl that got *)
(* the mutex of a device's structure holds it, and no structure goes that  *)
(* is not disconnected under its mutex first or given up by its probe.     *)
(***************************************************************************)
EXTENDS Ch343Life, FiniteSetTheorems, TLAPS

Late == {"bound", "unbinding", "unbound"}
Structure ==
  [stage : {"free", "probing"} \cup Late, rung : Nat, ref : Nat,
   minor : Minors \cup {NoMinor}, io_id : BOOLEAN, disconnected : BOOLEAN,
   mutex : Files \cup {Nothing}, leaked : Nat, probes : Nat]

LifeShape ==
  /\ dev \in [Structs -> Structure]
  /\ minors \in [Minors -> Structs \cup {Nothing}]
  /\ ttys \in [Minors -> [dev : Structs \cup {Nothing}, at : {"closed", "installing", "open"}]]
  /\ \A m \in Minors : ttys[m].at = "closed" <=> ttys[m].dev = Nothing

Users(s) == {m \in Minors : ttys[m].dev = s}

\* The references of a structure d with n users.
Counts(d, n) ==
  /\ d.rung >= 1 => d.ref = n + d.leaked + (IF d.stage = "unbound" THEN 0 ELSE 1)
  /\ d.stage = "unbound" => d.ref > 0

\* What the stage of d says of its rung and its users.
StageAgrees(d, users) ==
  /\ d.stage = "free" => d.rung = 0
  /\ d.stage # "free" => d.minor \in Minors
  /\ d.stage \in Late => d.rung >= 1
  /\ users # {} => d.stage \in Late

Minored == \A s \in Structs : \A m \in Minors :
             minors[m] = s <=> (dev[s].stage # "free" /\ dev[s].minor = m)

LifeInv ==
  /\ LifeShape
  /\ Minored
  /\ \A s \in Structs : Counts(dev[s], Cardinality(Users(s))) /\ StageAgrees(dev[s], Users(s))

LEMMA UsersFinite ==
  ASSUME NEW s PROVE IsFiniteSet(Users(s)) /\ Cardinality(Users(s)) \in Nat
  BY LifeAssumption, FS_Subset, FS_CardinalityType DEF Users

LEMMA Typed == ASSUME LifeInv, NEW s \in Structs PROVE dev[s] \in Structure
  BY DEF LifeInv, LifeShape

LEMMA ProbesNat == ASSUME LifeInv, NEW s \in Structs PROVE dev[s].probes \in Nat
  BY Typed DEF Structure

\* A structure that is being probed, and one that is given up.
LEMMA ProbedShape ==
  ASSUME NEW n \in Nat, NEW m \in Minors
  PROVE  [freed(n) EXCEPT !.stage = "probing", !.minor = m] \in Structure
  BY DEF freed, Structure

GivenUp(d, n) == [d EXCEPT !.stage = "unbound", !.probes = n]

LEMMA GivenUpShape ==
  ASSUME NEW n \in Nat, NEW d \in Structure
  PROVE  LET e == GivenUp(d, n)
         IN  /\ e \in Structure /\ e.stage = "unbound" /\ e.minor = d.minor
             /\ e.ref = d.ref /\ e.rung = d.rung /\ e.leaked = d.leaked /\ e.probes = n
  BY DEF GivenUp, Structure, Late

LEMMA LifeInitInv == LifeInit => LifeInv
<1> SUFFICES ASSUME LifeInit PROVE LifeInv
  OBVIOUS
<1>1. LifeShape
  BY DEF LifeInit, LifeShape, freed, Structure
<1>2. Minored
  BY LifeAssumption DEF LifeInit, Minored, freed
<1>3. ASSUME NEW s \in Structs PROVE Counts(dev[s], 0) /\ Users(s) = {} /\ StageAgrees(dev[s], {})
  BY LifeAssumption DEF LifeInit, freed, Counts, Users, StageAgrees, Late
<1>4. QED
  BY <1>1, <1>2, <1>3, FS_EmptySet DEF LifeInv

------------------------------------------------------------------------------
(* Steps *)

\* One structure changes, and keeps its minor.
LEMMA OneChanges ==
  ASSUME LifeInv, NEW s \in Structs, NEW d \in Structure,
         dev' = [dev EXCEPT ![s] = d], UNCHANGED <<minors, ttys>>,
         d.minor = dev[s].minor, d.stage = "free" <=> dev[s].stage = "free",
         Counts(d, Cardinality(Users(s))), StageAgrees(d, Users(s))
  PROVE  LifeInv'
<1>1. LifeShape'
  BY DEF LifeInv, LifeShape
<1>2. Minored'
  BY DEF LifeInv, LifeShape, Minored
<1>3. ASSUME NEW t \in Structs
      PROVE  Counts(dev'[t], Cardinality(Users(t)')) /\ StageAgrees(dev'[t], Users(t)')
  <2>1. Users(t)' = Users(t)
    BY DEF Users
  <2>2. dev'[t] = IF t = s THEN d ELSE dev[t]
    BY DEF LifeInv, LifeShape
  <2>3. QED
    BY <2>1, <2>2 DEF LifeInv
<1>4. QED
  BY <1>1, <1>2, <1>3 DEF LifeInv, Counts, StageAgrees

\* A structure without users and other references goes.
LEMMA LastPut ==
  ASSUME LifeInv, NEW s \in Structs, NEW n \in Nat, dev[s].minor \in Minors,
         dev' = [dev EXCEPT ![s] = freed(n)],
         minors' = [minors EXCEPT ![dev[s].minor] = Nothing],
         dev[s].stage # "free",
         LifeShape', Users(s)' = {}, \A t \in Structs \ {s} : Users(t)' = Users(t)
  PROVE  LifeInv'
<1>1. Minored'
  BY LifeAssumption DEF LifeInv, LifeShape, Minored, freed
<1>2. ASSUME NEW t \in Structs
      PROVE  Counts(dev'[t], Cardinality(Users(t)')) /\ StageAgrees(dev'[t], Users(t)')
  <2>1. CASE t = s
    <3>1. dev'[t] = freed(n)
      BY <2>1 DEF LifeInv, LifeShape
    <3>2. QED
      BY <2>1, <3>1 DEF Counts, StageAgrees, freed, Late
  <2>2. CASE t # s
    <3>1. dev'[t] = dev[t] /\ Users(t)' = Users(t)
      BY <2>2 DEF LifeInv, LifeShape
    <3>2. QED
      BY <3>1 DEF LifeInv
  <2>3. QED
    BY <2>1, <2>2
<1>3. QED
  BY <1>1, <1>2 DEF LifeInv, Counts, StageAgrees

\* A structure that is there has its minor.
LEMMA HasMinor ==
  ASSUME LifeInv, NEW s \in Structs, NEW m \in Minors, ttys[m].dev = s \/ minors[m] = s
  PROVE  dev[s].stage # "free"
  BY DEF LifeInv, Minored, StageAgrees, Users, Late

LEMMA ProbeStep == LifeInv /\ Probe => LifeInv'
<1> SUFFICES ASSUME LifeInv, Probe PROVE LifeInv'
  OBVIOUS
<1>1. PICK s \in Structs, m \in Minors :
        /\ dev[s].stage = "free"
        /\ minors[m] = Nothing
        /\ dev' = [dev EXCEPT ![s] = [freed(dev[s].probes + 1) EXCEPT
                                        !.stage = "probing", !.minor = m]]
        /\ minors' = [minors EXCEPT ![m] = s]
  BY DEF Probe
<1>2. UNCHANGED ttys
  BY DEF Probe
<1> DEFINE d == [freed(dev[s].probes + 1) EXCEPT !.stage = "probing", !.minor = m]
<1>3. dev' = [dev EXCEPT ![s] = d] /\ d \in Structure
  <2>1. dev[s].probes + 1 \in Nat
    BY ProbesNat
  <2>2. d \in Structure
    BY <2>1, ProbedShape
  <2>3. QED
    BY <1>1, <2>2
<1>4. d.stage = "probing" /\ d.minor = m /\ d.rung = 0
  BY DEF freed
<1> HIDE DEF d
<1>5. LifeShape'
  <2>1. dev' \in [Structs -> Structure]
    BY <1>3 DEF LifeInv, LifeShape
  <2>2. minors' \in [Minors -> Structs \cup {Nothing}]
    BY <1>1 DEF LifeInv, LifeShape
  <2>3. QED
    BY <1>2, <2>1, <2>2 DEF LifeInv, LifeShape
<1>6. Minored'
  BY <1>1, <1>3, <1>4, LifeAssumption DEF LifeInv, LifeShape, Minored
<1>7. ASSUME NEW t \in Structs
      PROVE  Counts(dev'[t], Cardinality(Users(t)')) /\ StageAgrees(dev'[t], Users(t)')
  <2>1. Users(t)' = Users(t)
    BY <1>2 DEF Users
  <2>2. dev'[t] = IF t = s THEN d ELSE dev[t]
    BY <1>3 DEF LifeInv, LifeShape
  <2>3. Counts(d, Cardinality(Users(s))) /\ StageAgrees(d, Users(s))
    <3>1. dev[s].rung = 0 /\ Users(s) = {}
      BY <1>1 DEF LifeInv, StageAgrees, Late
    <3>2. QED
      BY <1>4, <3>1 DEF Counts, StageAgrees, Late
  <2>4. QED
    BY <2>1, <2>2, <2>3 DEF LifeInv
<1>8. QED
  BY <1>5, <1>6, <1>7 DEF LifeInv, Counts, StageAgrees

\* Probe that fails, or a device that is unbound, gives probe's reference back.
LEMMA ProbePuts ==
  ASSUME LifeInv, NEW s \in Structs, dev[s].stage \in {"probing", "unbinding"},
         dev[s].rung >= 1, NEW k \in {0, 1},
         Put(s, [dev[s] EXCEPT !.stage = "unbound", !.probes = dev[s].probes + k]), UNCHANGED ttys
  PROVE  LifeInv'
<1> DEFINE d == [dev[s] EXCEPT !.stage = "unbound", !.probes = dev[s].probes + k]
           n == Cardinality(Users(s))
<1>1. /\ d \in Structure /\ d.stage = "unbound" /\ d.minor = dev[s].minor
      /\ d.ref = dev[s].ref /\ d.rung = dev[s].rung /\ d.leaked = dev[s].leaked
      /\ d.probes \in Nat
  <2>1. dev[s].probes + k \in Nat /\ dev[s] \in Structure
    BY ProbesNat, Typed
  <2>2. d = GivenUp(dev[s], dev[s].probes + k)
    BY DEF GivenUp
  <2> HIDE DEF d
  <2>3. QED
    BY <2>1, <2>2, GivenUpShape
<1>2. /\ dev[s].ref = n + dev[s].leaked + 1
      /\ dev[s].minor \in Minors /\ dev[s].leaked \in Nat
  BY DEF LifeInv, LifeShape, Counts, StageAgrees, Structure
<1> HIDE DEF d
<1>3. \A t \in Structs : Users(t)' = Users(t)
  BY DEF Users
<1>4. n \in Nat
  BY UsersFinite
<1>5. Put(s, d)
  BY DEF d
<1>6. CASE d.ref = 1
  <2>1. n = 0
    BY <1>1, <1>2, <1>4, <1>6
  <2>2. Users(s) = {}
    BY <2>1, UsersFinite, FS_EmptySet
  <2>3. dev' = [dev EXCEPT ![s] = freed(d.probes)]
        /\ minors' = [minors EXCEPT ![dev[s].minor] = Nothing]
    BY <1>1, <1>5, <1>6 DEF Put
  <2>4. freed(d.probes) \in Structure
    BY <1>1 DEF freed, Structure
  <2>5. LifeShape'
    <3>1. dev' \in [Structs -> Structure]
      BY <2>3, <2>4 DEF LifeInv, LifeShape
    <3>2. minors' \in [Minors -> Structs \cup {Nothing}]
      BY <2>3 DEF LifeInv, LifeShape
    <3>3. QED
      BY <3>1, <3>2 DEF LifeInv, LifeShape
  <2>6. QED
    BY <1>1, <1>2, <1>3, <2>2, <2>3, <2>5, LastPut
<1>7. CASE d.ref # 1
  <2> DEFINE e == [d EXCEPT !.ref = d.ref - 1]
  <2>1. d.ref - 1 \in Nat /\ d.ref - 1 = n + d.leaked /\ d.ref - 1 > 0
    BY <1>1, <1>2, <1>4, <1>7
  <2>2. /\ e \in Structure /\ e.stage = d.stage /\ e.minor = d.minor
        /\ e.ref = d.ref - 1 /\ e.rung = d.rung /\ e.leaked = d.leaked
    BY <1>1, <2>1 DEF Structure
  <2>3. dev' = [dev EXCEPT ![s] = e] /\ UNCHANGED minors
    BY <1>5, <1>7 DEF Put
  <2> HIDE DEF e
  <2>4. Counts(e, n) /\ StageAgrees(e, Users(s))
    BY <1>1, <1>2, <2>1, <2>2 DEF Counts, StageAgrees, Late
  <2>5. QED
    BY <1>1, <2>2, <2>3, <2>4, OneChanges
<1>8. QED
  BY <1>6, <1>7

\* A tty that goes gives its reference back.
LEMMA TtyPuts ==
  ASSUME LifeInv, NEW m \in Minors, NEW s, ttys[m].at # "closed", s = ttys[m].dev,
         Put(s, dev[s]),
         ttys' = [ttys EXCEPT ![m] = [dev |-> Nothing, at |-> "closed"]]
  PROVE  LifeInv'
<1> DEFINE d == dev[s]
           n == Cardinality(Users(s))
<1>1. s \in Structs /\ m \in Users(s) /\ s # Nothing
  BY LifeAssumption DEF LifeInv, LifeShape, Users
<1>2. /\ d \in Structure /\ d.stage \in Late /\ d.minor \in Minors
      /\ d.ref = n + d.leaked + (IF d.stage = "unbound" THEN 0 ELSE 1)
  BY <1>1 DEF LifeInv, LifeShape, Counts, StageAgrees, Late
<1>3. n \in Nat /\ n >= 1 /\ d.leaked \in Nat
  BY <1>1, <1>2, UsersFinite, FS_EmptySet DEF Structure
<1>4. Users(s)' = Users(s) \ {m} /\ Cardinality(Users(s)') = n - 1
  <2>1. Users(s)' = Users(s) \ {m}
    BY <1>1 DEF Users, LifeInv, LifeShape
  <2>2. QED
    BY <1>1, <2>1, UsersFinite, FS_RemoveElement
<1>5. \A t \in Structs \ {s} : Users(t)' = Users(t)
  BY LifeAssumption DEF Users, LifeInv, LifeShape
<1>6. ttys' \in [Minors -> [dev : Structs \cup {Nothing}, at : {"closed", "installing", "open"}]]
      /\ \A k \in Minors : ttys'[k].at = "closed" <=> ttys'[k].dev = Nothing
  BY DEF LifeInv, LifeShape
<1>7. CASE d.ref = 1
  <2>1. n - 1 = 0
    BY <1>2, <1>3, <1>7
  <2>2. Users(s)' = {}
    BY <1>4, <2>1, UsersFinite, FS_EmptySet, FS_RemoveElement
  <2>3. dev' = [dev EXCEPT ![s] = freed(d.probes)]
        /\ minors' = [minors EXCEPT ![d.minor] = Nothing]
    BY <1>7 DEF Put
  <2>4. freed(d.probes) \in Structure /\ d.probes \in Nat
    BY <1>2 DEF freed, Structure
  <2>5. LifeShape'
    <3>1. dev' \in [Structs -> Structure]
      BY <2>3, <2>4 DEF LifeInv, LifeShape
    <3>2. minors' \in [Minors -> Structs \cup {Nothing}]
      BY <2>3 DEF LifeInv, LifeShape
    <3>3. QED
      BY <1>6, <3>1, <3>2 DEF LifeShape
  <2>6. d.stage # "free"
    BY <1>2 DEF Late
  <2>7. QED
    BY <1>1, <1>2, <1>5, <2>2, <2>3, <2>4, <2>5, <2>6, LastPut
<1>8. CASE d.ref # 1
  <2> DEFINE e == [d EXCEPT !.ref = d.ref - 1]
  <2>1. d.ref - 1 \in Nat /\ d.ref - 1 > 0
    BY <1>2, <1>3, <1>8
  <2>2. /\ e \in Structure /\ e.stage = d.stage /\ e.minor = d.minor
        /\ e.ref = d.ref - 1 /\ e.rung = d.rung /\ e.leaked = d.leaked
    BY <1>2, <2>1 DEF Structure
  <2>3. dev' = [dev EXCEPT ![s] = e] /\ UNCHANGED minors
    BY <1>8 DEF Put
  <2>4. Counts(e, n - 1) /\ StageAgrees(e, Users(s)')
    <3>1. d.rung >= 1
      BY <1>1, <1>2 DEF LifeInv, StageAgrees
    <3> HIDE DEF e, d, n
    <3>2. QED
      BY <1>2, <1>3, <2>1, <2>2, <3>1 DEF Counts, StageAgrees, Late
  <2> HIDE DEF e
  <2>5. LifeShape'
    BY <1>6, <2>2, <2>3 DEF LifeInv, LifeShape
  <2>6. Minored'
    BY <2>2, <2>3 DEF LifeInv, LifeShape, Minored
  <2>7. ASSUME NEW t \in Structs
        PROVE  Counts(dev'[t], Cardinality(Users(t)')) /\ StageAgrees(dev'[t], Users(t)')
    <3>1. CASE t = s
      BY <1>1, <1>4, <2>3, <2>4, <3>1 DEF LifeInv, LifeShape
    <3>2. CASE t # s
      BY <1>5, <2>3, <3>2 DEF LifeInv, LifeShape
    <3>3. QED
      BY <3>1, <3>2
  <2>8. QED
    BY <2>5, <2>6, <2>7 DEF LifeInv, Counts, StageAgrees
<1>9. QED
  BY <1>7, <1>8

\* A tty that is installed is one more user, with one more reference.
LEMMA InstallStep == ASSUME LifeInv, NEW m \in Minors, InstallGets(m) PROVE LifeInv'
<1>1. PICK s \in Structs :
        /\ minors[m] = s /\ dev[s].stage # "probing"
        /\ dev' = [dev EXCEPT ![s].ref = dev[s].ref + 1]
        /\ ttys' = [ttys EXCEPT ![m] = [dev |-> s, at |-> "installing"]]
  BY DEF InstallGets, ch343_get_by_index
<1>2. ttys[m].dev = Nothing /\ UNCHANGED minors
  BY DEF InstallGets, LifeInv, LifeShape
<1> DEFINE d == [dev[s] EXCEPT !.ref = dev[s].ref + 1]
           n == Cardinality(Users(s))
<1>3. /\ d \in Structure /\ d.stage = dev[s].stage /\ d.minor = dev[s].minor
      /\ d.ref = dev[s].ref + 1 /\ d.rung = dev[s].rung /\ d.leaked = dev[s].leaked
      /\ dev[s].ref \in Nat /\ dev[s].leaked \in Nat
  BY Typed DEF Structure
<1>4. dev' = [dev EXCEPT ![s] = d]
  BY <1>1 DEF LifeInv, LifeShape
<1>5. dev[s].stage \in Late /\ dev[s].rung >= 1
  <2>1. dev[s].stage # "free"
    BY <1>1, HasMinor
  <2>2. dev[s].stage \in Late
    BY <1>1, <2>1 DEF LifeInv, LifeShape, Structure, Late
  <2>3. QED
    BY <2>2 DEF LifeInv, StageAgrees
<1> HIDE DEF d
<1>6. Users(s)' = Users(s) \cup {m} /\ m \notin Users(s)
  BY <1>1, <1>2, LifeAssumption DEF Users, LifeInv, LifeShape
<1>7. Cardinality(Users(s)') = n + 1 /\ n \in Nat
  BY <1>6, UsersFinite, FS_AddElement
<1>8. \A t \in Structs \ {s} : Users(t)' = Users(t)
  BY <1>1, <1>2, LifeAssumption DEF Users, LifeInv, LifeShape
<1>9. LifeShape'
  <2>1. dev' \in [Structs -> Structure]
    BY <1>3, <1>4 DEF LifeInv, LifeShape
  <2>2. ttys' \in [Minors -> [dev : Structs \cup {Nothing}, at : {"closed", "installing", "open"}]]
        /\ \A k \in Minors : ttys'[k].at = "closed" <=> ttys'[k].dev = Nothing
    BY <1>1, LifeAssumption DEF LifeInv, LifeShape
  <2>3. QED
    BY <1>2, <2>1, <2>2 DEF LifeInv, LifeShape
<1>10. Minored'
  BY <1>2, <1>3, <1>4 DEF LifeInv, LifeShape, Minored
<1>11. ASSUME NEW t \in Structs
       PROVE  Counts(dev'[t], Cardinality(Users(t)')) /\ StageAgrees(dev'[t], Users(t)')
  <2>1. CASE t = s
    <3>1. dev'[t] = d /\ Counts(dev[s], n) /\ StageAgrees(dev[s], Users(s))
      BY <1>4, <2>1 DEF LifeInv, LifeShape
    <3>2. Counts(d, n + 1)
      BY <1>3, <1>5, <1>7, <3>1 DEF Counts
    <3>3. StageAgrees(d, Users(s)')
      BY <1>3, <1>5, <3>1 DEF StageAgrees, Late
    <3>4. QED
      BY <1>7, <2>1, <3>1, <3>2, <3>3
  <2>2. CASE t # s
    BY <1>4, <1>8, <2>2 DEF LifeInv, LifeShape
  <2>3. QED
    BY <2>1, <2>2
<1>12. QED
  BY <1>9, <1>10, <1>11 DEF LifeInv, Counts, StageAgrees

\* The steps that change one structure only.
LEMMA ProbeTakesStep == ASSUME LifeInv, NEW s \in Structs, ProbeTakes(s) PROVE LifeInv'
<1> DEFINE r == dev[s].rung + 1
<1>1. PICK io \in BOOLEAN \cup {dev[s].io_id} :
        dev' = [dev EXCEPT ![s] =
                 [dev[s] EXCEPT !.rung = r,
                                !.stage = IF r = Len(Rungs) THEN "bound" ELSE "probing",
                                !.ref = IF Rungs[r] = "port" THEN 1 ELSE dev[s].ref,
                                !.leaked = IF Rungs[r] = "port" THEN 0 ELSE dev[s].leaked,
                                !.io_id = io]]
  BY DEF ProbeTakes
<1> DEFINE d == [dev[s] EXCEPT !.rung = r,
                                !.stage = IF r = Len(Rungs) THEN "bound" ELSE "probing",
                                !.ref = IF Rungs[r] = "port" THEN 1 ELSE dev[s].ref,
                                !.leaked = IF Rungs[r] = "port" THEN 0 ELSE dev[s].leaked,
                                !.io_id = io]
<1>2. dev[s].stage = "probing" /\ UNCHANGED <<minors, ttys>>
  BY DEF ProbeTakes
<1>3. /\ Users(s) = {} /\ Cardinality(Users(s)) = 0 /\ dev[s].minor \in Minors
      /\ dev[s].rung \in Nat /\ dev[s].ref \in Nat /\ dev[s].leaked \in Nat
      /\ dev[s].rung >= 1 => dev[s].ref = dev[s].leaked + 1
  <2>1. Users(s) = {} /\ dev[s].minor \in Minors
    BY <1>2 DEF LifeInv, StageAgrees, Late
  <2>2. Cardinality(Users(s)) = 0
    BY <2>1, FS_EmptySet
  <2>3. dev[s].rung \in Nat /\ dev[s].ref \in Nat /\ dev[s].leaked \in Nat
    BY Typed DEF Structure
  <2>4. Counts(dev[s], 0)
    BY <2>2 DEF LifeInv
  <2>5. QED
    BY <1>2, <2>1, <2>2, <2>3, <2>4 DEF Counts
<1>4. /\ d \in Structure /\ d.stage \in {"probing", "bound"} /\ d.minor = dev[s].minor
      /\ d.rung = r
      /\ d.ref = IF Rungs[r] = "port" THEN 1 ELSE dev[s].ref
      /\ d.leaked = IF Rungs[r] = "port" THEN 0 ELSE dev[s].leaked
  <2> DEFINE ref == IF Rungs[r] = "port" THEN 1 ELSE dev[s].ref
             leaked == IF Rungs[r] = "port" THEN 0 ELSE dev[s].leaked
             stage == IF r = Len(Rungs) THEN "bound" ELSE "probing"
  <2>1. /\ ref \in Nat /\ leaked \in Nat /\ r \in Nat
        /\ stage \in {"probing", "bound"} /\ dev[s] \in Structure /\ io \in BOOLEAN
    BY <1>3, Typed DEF Structure
  <2>2. d = [dev[s] EXCEPT !.rung = r, !.stage = stage, !.ref = ref, !.leaked = leaked,
                           !.io_id = io]
    OBVIOUS
  <2> HIDE DEF d, r, ref, leaked, stage
  <2>3. /\ d \in Structure /\ d.stage = stage /\ d.minor = dev[s].minor
        /\ d.rung = r /\ d.ref = ref /\ d.leaked = leaked
    BY <2>1, <2>2 DEF Structure, Late
  <2>4. QED
    BY <2>1, <2>3 DEF ref, leaked
<1> HIDE DEF d
<1>5. Rungs[r] # "port" => d.ref = d.leaked + 1
  <2>1. Rungs[1] = "port"
    BY DEF Rungs
  <2>2. QED
    BY <1>3, <1>4, <2>1
<1>6. Counts(d, Cardinality(Users(s))) /\ StageAgrees(d, Users(s))
  BY <1>3, <1>4, <1>5 DEF Counts, StageAgrees, Late
<1>7. dev' = [dev EXCEPT ![s] = d]
  BY <1>1 DEF d
<1>8. QED
  BY <1>2, <1>4, <1>6, <1>7, OneChanges

LEMMA OtherSteps ==
  ASSUME LifeInv, NEW s \in Structs, NEW f,
         \/ Unplugged(s) \/ Disconnected(s)
         \/ f \in Files /\ files[f].dev = s /\ (IoctlLocks(f) \/ IoctlReturns(f))
  PROVE  LifeInv'
<1>1. PICK d \in Structure :
        /\ dev' = [dev EXCEPT ![s] = d] /\ d.ref = dev[s].ref /\ d.leaked = dev[s].leaked
        /\ d.rung = dev[s].rung /\ d.minor = dev[s].minor
        /\ \/ d.stage = dev[s].stage
           \/ dev[s].stage = "bound" /\ d.stage = "unbinding"
  <2>0. dev[s] \in Structure /\ DOMAIN dev = Structs
    BY Typed DEF LifeInv, LifeShape
  <2> USE <2>0 DEF Structure, Late
  <2>1. CASE Unplugged(s)
    <3> WITNESS [dev[s] EXCEPT !.stage = "unbinding"] \in Structure
    <3>1. QED
      BY <2>1 DEF Unplugged
  <2>2. CASE Disconnected(s)
    <3> WITNESS [dev[s] EXCEPT !.disconnected = TRUE] \in Structure
    <3>1. QED
      BY <2>2 DEF Disconnected
  <2>3. CASE f \in Files /\ files[f].dev = s /\ IoctlLocks(f)
    <3> f \in Files
      BY <2>3
    <3> WITNESS [dev[s] EXCEPT !.mutex = f] \in Structure
    <3>1. QED
      BY <2>3 DEF IoctlLocks
  <2>4. CASE f \in Files /\ files[f].dev = s /\ IoctlReturns(f)
    <3> DEFINE x == IF dev[s].mutex = f THEN Nothing ELSE dev[s].mutex
    <3> WITNESS [dev[s] EXCEPT !.mutex = x] \in Structure
    <3>1. QED
      BY <2>4 DEF IoctlReturns
  <2>5. QED
    BY <2>1, <2>2, <2>3, <2>4
<1>2. UNCHANGED <<minors, ttys>>
  BY DEF Unplugged, Disconnected, IoctlLocks, IoctlReturns
<1>3. Counts(d, Cardinality(Users(s))) /\ StageAgrees(d, Users(s))
  BY <1>1 DEF LifeInv, Counts, StageAgrees, Late
<1>4. QED
  BY <1>1, <1>2, <1>3, OneChanges

\* Reading /proc takes a reference for good.
LEMMA ProcStep == ASSUME LifeInv, NEW m \in Minors, ch343_proc_show(m) PROVE LifeInv'
<1>1. PICK s \in Structs :
        /\ minors[m] = s
        /\ dev' = [dev EXCEPT ![s].ref = dev[s].ref + 1, ![s].leaked = dev[s].leaked + 1]
  BY DEF ch343_proc_show, ch343_get_by_index
<1> DEFINE d == [dev[s] EXCEPT !.ref = dev[s].ref + 1, !.leaked = dev[s].leaked + 1]
<1>2. dev' = [dev EXCEPT ![s] = d] /\ UNCHANGED <<minors, ttys>>
  BY <1>1 DEF ch343_proc_show, LifeInv, LifeShape
<1>3. /\ d \in Structure /\ d.stage = dev[s].stage /\ d.minor = dev[s].minor
      /\ d.ref = dev[s].ref + 1 /\ d.rung = dev[s].rung /\ d.leaked = dev[s].leaked + 1
      /\ dev[s].ref \in Nat /\ dev[s].leaked \in Nat
  <2>1. dev[s].ref \in Nat /\ dev[s].leaked \in Nat /\ dev[s] \in Structure
    BY Typed DEF Structure
  <2> DEFINE ref == dev[s].ref + 1
             leaked == dev[s].leaked + 1
  <2>2. ref \in Nat /\ leaked \in Nat /\ d = [dev[s] EXCEPT !.ref = ref, !.leaked = leaked]
    BY <2>1
  <2> HIDE DEF d, ref, leaked
  <2>3. /\ d \in Structure /\ d.stage = dev[s].stage /\ d.minor = dev[s].minor
        /\ d.ref = ref /\ d.rung = dev[s].rung /\ d.leaked = leaked
    BY <2>1, <2>2 DEF Structure
  <2>4. QED
    BY <2>1, <2>3 DEF ref, leaked
<1> HIDE DEF d
<1>4. Counts(d, Cardinality(Users(s))) /\ StageAgrees(d, Users(s))
  <2>1. Counts(dev[s], Cardinality(Users(s))) /\ StageAgrees(dev[s], Users(s))
    BY DEF LifeInv
  <2>2. QED
    BY <1>3, <2>1, UsersFinite DEF Counts, StageAgrees
<1>5. QED
  BY <1>2, <1>3, <1>4, OneChanges

\* Nothing that the invariant speaks of changes.
LEMMA NothingChanges ==
  ASSUME LifeInv, UNCHANGED <<dev, minors>>,
         \/ UNCHANGED ttys
         \/ \E m \in Minors : ttys[m].at = "installing" /\ ttys' = [ttys EXCEPT ![m].at = "open"]
  PROVE  LifeInv'
<1>1. \A m \in Minors : ttys'[m].dev = ttys[m].dev
  BY DEF LifeInv, LifeShape
<1>2. \A s : Users(s)' = Users(s)
  BY <1>1 DEF Users
<1>3. LifeShape'
  BY DEF LifeInv, LifeShape
<1>4. QED
  BY <1>2, <1>3 DEF LifeInv, Minored, Counts, StageAgrees

LEMMA LifeStep == LifeInv /\ [LifeNext]_lifeVars => LifeInv'
<1> SUFFICES ASSUME LifeInv, [LifeNext]_lifeVars PROVE LifeInv'
  OBVIOUS
<1>1. ASSUME NEW s \in Structs, ProbeFails(s) \/ Unbound(s) PROVE LifeInv'
  <2>1. dev[s].rung >= 1 /\ dev[s].stage \in {"probing", "unbinding"}
    BY <1>1 DEF ProbeFails, Unbound, LifeInv, StageAgrees, Late
  <2>2. CASE ProbeFails(s)
    BY <2>1, <2>2, ProbePuts DEF ProbeFails
  <2>3. CASE Unbound(s)
    <3>1. [dev[s] EXCEPT !.stage = "unbound", !.probes = dev[s].probes + 0]
            = [dev[s] EXCEPT !.stage = "unbound"]
      <4>1. dev[s].probes + 0 = dev[s].probes /\ dev[s] \in Structure
        BY ProbesNat, Typed
      <4>2. [dev[s] EXCEPT !.stage = "unbound", !.probes = dev[s].probes]
              = [dev[s] EXCEPT !.stage = "unbound"]
        BY <4>1 DEF Structure
      <4>3. QED
        BY <4>1, <4>2
    <3>2. QED
      BY <2>1, <2>3, <3>1, ProbePuts DEF Unbound
  <2>4. QED
    BY <1>1, <2>2, <2>3
<1>2. ASSUME NEW m \in Minors, InstallFails(m) \/ TtyCleanup(m) PROVE LifeInv'
  BY <1>2, TtyPuts DEF InstallFails, TtyCleanup
<1>3. ASSUME NEW f \in Files, IoctlLocks(f) \/ IoctlReturns(f) PROVE LifeInv'
  <2>1. CASE files[f].dev \in Structs
    BY <1>3, <2>1, OtherSteps
  <2>2. CASE files[f].dev \notin Structs
    <3>1. UNCHANGED <<dev, minors, ttys>>
      BY <1>3, <2>2 DEF IoctlLocks, IoctlReturns, LifeInv, LifeShape
    <3>2. QED
      BY <3>1, NothingChanges
  <2>3. QED
    BY <2>1, <2>2
<1>4. ASSUME NEW f \in Files, FileOpen(f) \/ FileClose(f) \/ IoctlTests(f) \/ IoctlRefused(f)
      PROVE  LifeInv'
  BY <1>4, NothingChanges DEF FileOpen, FileClose, IoctlTests, IoctlRefused
<1>5. ASSUME NEW m \in Minors, Installed(m) PROVE LifeInv'
  BY <1>5, NothingChanges DEF Installed
<1>6. CASE ProbeNoMinor \/ UNCHANGED lifeVars
  BY <1>6, NothingChanges DEF ProbeNoMinor, lifeVars
<1>7. ASSUME NEW s \in Structs, ProbeTakes(s) \/ Unplugged(s) \/ Disconnected(s) PROVE LifeInv'
  BY <1>7, ProbeTakesStep, OtherSteps
<1>8. QED
  BY <1>1, <1>2, <1>3, <1>4, <1>5, <1>6, <1>7, ProbeStep, InstallStep, ProcStep DEF LifeNext

\* However probes, opens, reads of /proc and unplugging interleave, no reference of a
\* struct ch343 is lost or given back twice, no tty is on freed memory, and a minor is
\* taken exactly as long as its structure lives.
THEOREM LifeRefs == LifeSpec => []RefsAccounted
<1>1. LifeInv => RefsAccounted
  <2> SUFFICES ASSUME LifeInv, NEW s \in Structs
               PROVE  /\ Counts(dev[s], Cardinality(Users(s)))
                      /\ Users(s) # {} => dev[s].stage # "free"
                      /\ \A m \in Minors :
                           minors[m] = s <=> (dev[s].stage # "free" /\ dev[s].minor = m)
    BY DEF RefsAccounted, Users, Counts
  <2>1. QED
    BY DEF LifeInv, Minored, StageAgrees, Late
<1>2. QED
  BY LifeInitInv, LifeStep, <1>1, PTL DEF LifeSpec

------------------------------------------------------------------------------
(* The mutex and disconnect                                                *)

FileShape == files \in [Files -> [dev : Structs \cup {Nothing}, probes : Nat,
                                  at : {"closed", "open", "waiting", "transfer"}]]

\* A file that is open points to a structure's memory, and one that got the mutex of
\* what the memory still is holds it.
Guarded(f) ==
  LET d == dev[files[f].dev] IN
  files[f].at # "closed" =>
    /\ files[f].dev \in Structs
    /\ files[f].probes <= d.probes /\ d.probes >= 1
    /\ files[f].at = "transfer" /\ files[f].probes = d.probes =>
         Attached(d) /\ ~d.disconnected /\ d.mutex = f

IoctlInv ==
  /\ FileShape
  /\ \A f \in Files : Guarded(f)
  /\ \A s \in Structs : Attached(dev[s]) => dev[s].probes >= 1

\* What a step may do to a structure while no ioctl gets or gives a mutex: begin to
\* probe it or give it up, change it when no device has it or it is disconnected, and
\* disconnect it when its mutex is free.
Changes(s) ==
  LET d == dev[s]
      e == dev'[s] IN
  /\ Attached(e) /\ ~Attached(d) => e.probes = d.probes + 1
  /\ \/ e = d
     \/ e.probes = d.probes + 1
     \/ /\ e.probes = d.probes
        /\ \/ ~Attached(d) \/ d.disconnected
           \/ /\ Attached(e) /\ e.mutex = d.mutex
              /\ e.disconnected => d.disconnected \/ d.mutex = Nothing

\* Such a step keeps the guard of every file.
LEMMA GuardedKept ==
  ASSUME LifeInv, IoctlInv, UNCHANGED files, \A s \in Structs : Changes(s)
  PROVE  IoctlInv'
<1>1. ASSUME NEW f \in Files, files[f].at # "closed" PROVE Guarded(f)'
  <2> DEFINE s == files[f].dev
  <2>1. /\ s \in Structs /\ files[f].probes <= dev[s].probes /\ dev[s].probes >= 1
        /\ files[f].probes \in Nat
        /\ files[f].at = "transfer" /\ files[f].probes = dev[s].probes =>
             Attached(dev[s]) /\ ~dev[s].disconnected /\ dev[s].mutex = f
    BY <1>1 DEF IoctlInv, FileShape, Guarded
  <2>2. dev[s].probes \in Nat /\ f # Nothing
    BY <2>1, Typed, LifeAssumption DEF Structure
  <2>3. Changes(s) /\ files' = files
    BY <2>1
  <2> HIDE DEF s
  <2>4. /\ files[f].probes <= dev'[s].probes /\ dev'[s].probes >= 1
        /\ files[f].at = "transfer" /\ files[f].probes = dev'[s].probes =>
             Attached(dev'[s]) /\ ~dev'[s].disconnected /\ dev'[s].mutex = f
    BY <2>1, <2>2, <2>3 DEF Changes
  <2>5. QED
    BY <2>1, <2>3, <2>4 DEF Guarded, s, Attached
<1>2. ASSUME NEW s \in Structs PROVE Attached(dev'[s]) => dev'[s].probes >= 1
  <2>1. dev[s].probes \in Nat /\ Changes(s) /\ (Attached(dev[s]) => dev[s].probes >= 1)
    BY Typed DEF Structure, IoctlInv
  <2>2. QED
    BY <2>1 DEF Changes
<1>3. QED
  BY <1>1, <1>2 DEF IoctlInv, FileShape, Guarded, Attached

\* Giving a reference back frees the structure or leaves it as it is.
LEMMA PutChanges ==
  ASSUME LifeInv, NEW s \in Structs, NEW d \in Structure, Put(s, d),
         \/ d = dev[s] /\ (Attached(d) => d.ref # 1)
         \/ ~Attached(d) /\ d.probes = dev[s].probes /\ dev[s].disconnected
         \/ ~Attached(d) /\ d.probes = dev[s].probes + 1
  PROVE  \A t \in Structs : Changes(t)
<1> SUFFICES ASSUME NEW t \in Structs PROVE Changes(t)
  OBVIOUS
<1>0. dev \in [Structs -> Structure]
  BY DEF LifeInv, LifeShape
<1>1. CASE t # s
  BY <1>0, <1>1 DEF Put, Changes
<1>2. CASE t = s /\ d.ref = 1
  <2>1. dev'[s] = freed(d.probes)
    BY <1>0, <1>2 DEF Put
  <2>2. dev'[s].probes = d.probes /\ ~Attached(dev'[s])
    BY <2>1 DEF freed, Attached
  <2>3. QED
    BY <1>2, <2>2 DEF Changes
<1>3. CASE t = s /\ d.ref # 1
  <2>1. dev'[s] = [d EXCEPT !.ref = d.ref - 1]
    BY <1>0, <1>3 DEF Put
  <2>2. /\ dev'[s].probes = d.probes /\ dev'[s].mutex = d.mutex
        /\ dev'[s].disconnected = d.disconnected /\ dev'[s].stage = d.stage
    BY <2>1 DEF Structure
  <2>3. QED
    BY <1>3, <2>2 DEF Changes, Attached
<1>4. QED
  BY <1>1, <1>2, <1>3

\* One structure changes, but not its mutex, and is not disconnected.
LEMMA OneOf ==
  ASSUME LifeInv, NEW s \in Structs, NEW e, dev' = [dev EXCEPT ![s] = e],
         e.probes = dev[s].probes, Attached(e) <=> Attached(dev[s]), e.mutex = dev[s].mutex,
         e.disconnected => dev[s].disconnected \/ dev[s].mutex = Nothing
  PROVE  \A t \in Structs : Changes(t)
BY DEF LifeInv, LifeShape, Changes

\* Every step but those of the files is such a step.
LEMMA OthersChange ==
  ASSUME LifeInv, FileShape, [LifeNext]_lifeVars, files' = files
  PROVE  \A s \in Structs : Changes(s)
<1>0. dev \in [Structs -> Structure]
  BY DEF LifeInv, LifeShape
<1>1. CASE UNCHANGED dev
  BY <1>1 DEF Changes
<1>2. CASE Probe
  <2>1. PICK s \in Structs, m \in Minors :
          dev' = [dev EXCEPT ![s] = [freed(dev[s].probes + 1) EXCEPT
                                       !.stage = "probing", !.minor = m]]
    BY <1>2 DEF Probe
  <2>2. dev'[s].probes = dev[s].probes + 1 /\ \A t \in Structs \ {s} : dev'[t] = dev[t]
    BY <1>0, <2>1 DEF freed
  <2>3. QED
    BY <2>2 DEF Changes
<1>3. ASSUME NEW s \in Structs, ProbeTakes(s) PROVE \A t \in Structs : Changes(t)
  <2> DEFINE d == dev[s]
             r == d.rung + 1
             e(io) == [d EXCEPT !.rung = r,
                                !.stage = IF r = Len(Rungs) THEN "bound" ELSE "probing",
                                !.ref = IF Rungs[r] = "port" THEN 1 ELSE d.ref,
                                !.leaked = IF Rungs[r] = "port" THEN 0 ELSE d.leaked,
                                !.io_id = io]
  <2>1. PICK io : dev' = [dev EXCEPT ![s] = e(io)]
    BY <1>3, Zenon DEF ProbeTakes
  <2>2. /\ e(io).probes = dev[s].probes /\ e(io).mutex = dev[s].mutex
        /\ e(io).disconnected = dev[s].disconnected /\ e(io).stage \in {"bound", "probing"}
    BY <1>0 DEF Structure
  <2>3. Attached(e(io)) /\ Attached(dev[s])
    BY <1>3, <2>2 DEF ProbeTakes, Attached
  <2> HIDE DEF e
  <2>4. QED
    BY <2>1, <2>2, <2>3, OneOf
<1>4. ASSUME NEW s \in Structs, ProbeFails(s) PROVE \A t \in Structs : Changes(t)
  <2> DEFINE d == [dev[s] EXCEPT !.stage = "unbound", !.probes = dev[s].probes + 1]
  <2>1. d.probes = dev[s].probes + 1 /\ ~Attached(d) /\ d \in Structure
    <3>1. dev[s].probes + 1 \in Nat /\ dev[s] \in Structure
      BY ProbesNat, Typed
    <3>2. d = GivenUp(dev[s], dev[s].probes + 1)
      BY DEF GivenUp
    <3> HIDE DEF d
    <3>3. QED
      BY <3>1, <3>2, GivenUpShape DEF Attached
  <2>2. Put(s, d)
    BY <1>4 DEF ProbeFails
  <2> HIDE DEF d
  <2>3. QED
    BY <2>1, <2>2, PutChanges
<1>10. ASSUME NEW s \in Structs, Unbound(s) PROVE \A t \in Structs : Changes(t)
  <2> DEFINE d == [dev[s] EXCEPT !.stage = "unbound"]
  <2>1. d.probes = dev[s].probes /\ ~Attached(d) /\ d \in Structure
    BY <1>0 DEF Structure, Late, Attached
  <2>2. Put(s, d) /\ dev[s].disconnected
    BY <1>10 DEF Unbound
  <2> HIDE DEF d
  <2>3. QED
    BY <2>1, <2>2, PutChanges
\* A tty's reference is not the last one while the driver has its own.
<1>5. ASSUME NEW m \in Minors, InstallFails(m) \/ TtyCleanup(m)
      PROVE  \A t \in Structs : Changes(t)
  <2> DEFINE s == ttys[m].dev
             n == Cardinality(Users(s))
  <2>1. s \in Structs /\ m \in Users(s)
    BY <1>5, LifeAssumption DEF InstallFails, TtyCleanup, LifeInv, LifeShape, Users
  <2>2. dev[s].stage \in Late /\ dev[s].rung >= 1
    BY <2>1 DEF LifeInv, StageAgrees
  <2>3. Put(s, dev[s])
    BY <1>5 DEF InstallFails, TtyCleanup
  <2>4. n \in Nat /\ n # 0
    BY <2>1, UsersFinite, FS_EmptySet
  <2>5. dev[s].ref = n + dev[s].leaked + (IF dev[s].stage = "unbound" THEN 0 ELSE 1)
        /\ dev[s].leaked \in Nat
    BY <2>1, <2>2, Typed DEF LifeInv, Counts, Structure
  <2> HIDE DEF s, n
  <2>6. Attached(dev[s]) => dev[s].ref # 1
    BY <2>4, <2>5 DEF Attached
  <2>7. QED
    BY <1>0, <2>1, <2>3, <2>6, PutChanges
<1>6. ASSUME NEW m \in Minors, InstallGets(m) \/ ch343_proc_show(m)
      PROVE  \A t \in Structs : Changes(t)
  <2>1. PICK s \in Structs :
          /\ minors[m] = s
          /\ \/ dev' = [dev EXCEPT ![s].ref = dev[s].ref + 1]
             \/ dev' = [dev EXCEPT ![s].ref = dev[s].ref + 1, ![s].leaked = dev[s].leaked + 1]
    BY <1>6 DEF InstallGets, ch343_proc_show, ch343_get_by_index
  <2>3. /\ dev'[s].probes = dev[s].probes /\ dev'[s].mutex = dev[s].mutex
        /\ dev'[s].disconnected = dev[s].disconnected /\ dev'[s].stage = dev[s].stage
        /\ \A t \in Structs \ {s} : dev'[t] = dev[t]
    BY <1>0, <2>1 DEF Structure
  <2>4. QED
    BY <2>3 DEF Changes, Attached
<1>7. ASSUME NEW s \in Structs, Unplugged(s) \/ Disconnected(s)
      PROVE  \A t \in Structs : Changes(t)
  <2>1. /\ Attached(dev[s])
        /\ \/ dev' = [dev EXCEPT ![s].stage = "unbinding"]
           \/ dev' = [dev EXCEPT ![s].disconnected = TRUE] /\ dev[s].mutex = Nothing
    BY <1>7 DEF Unplugged, Disconnected, Attached
  <2>2. /\ dev'[s].probes = dev[s].probes /\ dev'[s].mutex = dev[s].mutex
        /\ dev'[s].disconnected => dev[s].disconnected \/ dev[s].mutex = Nothing
        /\ dev'[s].stage \in {dev[s].stage, "unbinding"}
        /\ \A t \in Structs \ {s} : dev'[t] = dev[t]
    BY <1>0, <2>1 DEF Structure
  <2>3. QED
    BY <2>1, <2>2 DEF Changes, Attached
<1>8. ASSUME NEW f \in Files, \/ FileOpen(f) \/ FileClose(f) \/ IoctlTests(f)
                              \/ IoctlLocks(f) \/ IoctlRefused(f) \/ IoctlReturns(f)
      PROVE  dev' = dev
  <2>1. CASE IoctlLocks(f)
    BY <2>1 DEF IoctlLocks, FileShape
  <2>2. CASE IoctlReturns(f)
    BY <2>2 DEF IoctlReturns, FileShape
  <2>3. QED
    BY <1>8, <2>1, <2>2 DEF FileOpen, FileClose, IoctlTests, IoctlRefused
<1>9. QED
  BY <1>1, <1>2, <1>3, <1>4, <1>5, <1>6, <1>7, <1>8, <1>10
     DEF LifeNext, lifeVars, ProbeNoMinor, Installed

\* Who opens, uses and closes the files.
LEMMA FilesFrame ==
  [LifeNext]_lifeVars =>
    \/ files' = files
    \/ \E f \in Files : \/ FileOpen(f) \/ FileClose(f) \/ IoctlTests(f)
                        \/ IoctlLocks(f) \/ IoctlRefused(f) \/ IoctlReturns(f)
BY DEF LifeNext, lifeVars, Probe, ProbeNoMinor, ProbeTakes, ProbeFails, Unplugged, Disconnected,
       Unbound, InstallGets, Installed, InstallFails, TtyCleanup, ch343_proc_show

\* Every step keeps the guard of every file.
LEMMA IoctlStep == LifeInv /\ IoctlInv /\ [LifeNext]_lifeVars => IoctlInv'
<1> SUFFICES ASSUME LifeInv, IoctlInv, [LifeNext]_lifeVars PROVE IoctlInv'
  OBVIOUS
<1>0. /\ dev \in [Structs -> Structure] /\ FileShape
      /\ \A g \in Files : Guarded(g) /\ files[g].probes \in Nat /\ g # Nothing
      /\ \A s \in Structs : dev[s].probes \in Nat /\ (Attached(dev[s]) => dev[s].probes >= 1)
  BY LifeAssumption DEF IoctlInv, FileShape, LifeInv, LifeShape, Structure
<1>1. CASE files' = files
  BY <1>0, <1>1, OthersChange, GuardedKept
\* A file moves, but not to its transfer, and no structure changes.
<1>2. ASSUME NEW f \in Files, NEW x \in [dev : Structs \cup {Nothing}, probes : Nat,
                                        at : {"closed", "open", "waiting"}],
             files' = [files EXCEPT ![f] = x], dev' = dev,
             x.at # "closed" =>
               x.dev \in Structs /\ x.probes <= dev[x.dev].probes /\ dev[x.dev].probes >= 1
      PROVE  IoctlInv'
  <2>1. FileShape'
    BY <1>0, <1>2 DEF FileShape
  <2>2. files'[f] = x /\ \A g \in Files \ {f} : files'[g] = files[g]
    BY <1>0, <1>2 DEF FileShape
  <2>3. ASSUME NEW g \in Files PROVE Guarded(g)'
    <3>1. CASE g = f
      BY <1>2, <2>2, <3>1 DEF Guarded
    <3>2. CASE g # f
      BY <1>0, <1>2, <2>2, <3>2 DEF Guarded
    <3>3. QED
      BY <3>1, <3>2
  <2>4. QED
    BY <1>0, <1>2, <2>1, <2>3 DEF IoctlInv
<1>3. ASSUME NEW f \in Files, FileOpen(f) PROVE IoctlInv'
  <2>1. PICK s \in Structs :
          /\ dev[s].stage \in {"probing", "bound"}
          /\ files' = [files EXCEPT ![f] = [dev |-> s, at |-> "open", probes |-> 0]]
    BY <1>3 DEF FileOpen
  <2>2. dev' = dev /\ dev[s].probes >= 1
    BY <1>0, <1>3, <2>1 DEF FileOpen, Attached
  <2> DEFINE x == [dev |-> s, at |-> "open", probes |-> 0]
  <2>3. /\ x \in [dev : Structs \cup {Nothing}, probes : Nat, at : {"closed", "open", "waiting"}]
        /\ x.dev = s /\ x.probes <= dev[s].probes
    BY <1>0, <2>2
  <2>4. files' = [files EXCEPT ![f] = x]
    BY <2>1
  <2> HIDE DEF x
  <2>5. QED
    BY <1>2, <2>2, <2>3, <2>4
<1>4. ASSUME NEW f \in Files, FileClose(f) PROVE IoctlInv'
  BY <1>2, <1>4 DEF FileClose
<1>5. ASSUME NEW f \in Files, IoctlTests(f) \/ IoctlRefused(f) PROVE IoctlInv'
  <2> DEFINE at == IF IoctlTests(f) THEN "waiting" ELSE "open"
             x == [files[f] EXCEPT !.at = at]
  <2>1. files[f].at # "closed" /\ dev' = dev /\ files' = [files EXCEPT ![f].at = at]
    BY <1>5, Zenon DEF IoctlTests, IoctlRefused
  <2>2. files' = [files EXCEPT ![f] = x]
    BY <1>0, <2>1 DEF FileShape
  <2>3. x.dev = files[f].dev /\ x.probes = files[f].probes /\ x.at = at
    BY <1>0 DEF FileShape
  <2>4. x \in [dev : Structs \cup {Nothing}, probes : Nat, at : {"closed", "open", "waiting"}]
    BY <1>0 DEF FileShape
  <2>5. /\ files[f].dev \in Structs /\ files[f].probes <= dev[files[f].dev].probes
        /\ dev[files[f].dev].probes >= 1
    BY <1>0, <2>1 DEF Guarded
  <2> HIDE DEF x
  <2>6. QED
    BY <1>2, <2>1, <2>2, <2>3, <2>4, <2>5
\* An ioctl gets the mutex or gives it back: only the mutex of its structure changes,
\* and no other file holds it.
<1>6. ASSUME NEW f \in Files, IoctlLocks(f) \/ IoctlReturns(f) PROVE IoctlInv'
  <2> DEFINE s == files[f].dev
             x == IF IoctlLocks(f) THEN f ELSE IF dev[s].mutex = f THEN Nothing ELSE dev[s].mutex
             at == IF IoctlLocks(f) THEN "transfer" ELSE "open"
             n == IF IoctlLocks(f) THEN IF Attached(dev[s]) THEN dev[s].probes ELSE 0
                  ELSE files[f].probes
  <2>1. /\ dev' = [dev EXCEPT ![s].mutex = x] /\ files[f].at # "closed"
        /\ files' = [files EXCEPT ![f] = [files[f] EXCEPT !.at = at, !.probes = n]]
    <3>1. CASE IoctlLocks(f)
      BY <1>0, <3>1 DEF IoctlLocks, FileShape
    <3>2. CASE ~IoctlLocks(f)
      <4>1. [files[f] EXCEPT !.at = "open", !.probes = files[f].probes]
              = [files[f] EXCEPT !.at = "open"]
        BY <1>0 DEF FileShape
      <4>2. files' = [files EXCEPT ![f] = [files[f] EXCEPT !.at = "open"]]
        BY <1>0, <1>6, <3>2 DEF IoctlReturns, FileShape
      <4>3. dev' = [dev EXCEPT ![s].mutex = x] /\ files[f].at # "closed"
        BY <1>6, <3>2 DEF IoctlReturns
      <4>4. QED
        BY <3>2, <4>1, <4>2, <4>3
    <3>3. QED
      BY <3>1, <3>2
  <2>2. IoctlLocks(f) => dev[s].mutex = Nothing /\ ~dev[s].disconnected
    BY DEF IoctlLocks
  <2>3. s \in Structs /\ files[f].probes <= dev[s].probes /\ dev[s].probes >= 1
    BY <1>0, <2>1 DEF Guarded
  <2>4. n \in Nat /\ n <= dev[s].probes
    BY <1>0, <2>3
  <2>5. FileShape'
    <3> HIDE DEF n
    <3>1. QED
      BY <1>0, <2>1, <2>4 DEF FileShape
  <2>6. /\ dev'[s].probes = dev[s].probes /\ dev'[s].stage = dev[s].stage
        /\ dev'[s].disconnected = dev[s].disconnected /\ dev'[s].mutex = x
        /\ \A t \in Structs \ {s} : dev'[t] = dev[t]
    BY <1>0, <2>1, <2>3 DEF Structure
  <2>7. /\ files'[f].dev = s /\ files'[f].probes = n /\ files'[f].at = at
        /\ \A g \in Files \ {f} : files'[g] = files[g]
    <3> HIDE DEF n, at
    <3>1. QED
      BY <1>0, <2>1 DEF FileShape
  <2>8. ASSUME NEW g \in Files, g # f PROVE Guarded(g)'
    <3>1. files'[g] = files[g] /\ Guarded(g)
      BY <1>0, <2>7, <2>8
    <3>2. files[g].dev = s /\ dev[s].mutex = g => x = g
      BY <1>0, <2>2, <2>8
    <3> HIDE DEF x, s
    <3>3. QED
      BY <2>6, <3>1, <3>2 DEF Guarded, Attached
  <2>9. Guarded(f)'
    <3>1. at = "transfer" /\ n = dev[s].probes => x = f /\ ~dev[s].disconnected /\ Attached(dev[s])
      BY <1>0, <2>2, <2>3
    <3> HIDE DEF x, s, at, n
    <3>2. QED
      BY <2>3, <2>4, <2>6, <2>7, <3>1 DEF Guarded, Attached
  <2>10. \A t \in Structs : Attached(dev'[t]) => dev'[t].probes >= 1
    BY <1>0, <2>6 DEF Attached
  <2>11. QED
    BY <2>5, <2>8, <2>9, <2>10 DEF IoctlInv, Attached
<1>7. QED
  BY <1>1, <1>3, <1>4, <1>5, <1>6, FilesFrame

\* An ioctl that got the mutex of a device's structure keeps disconnect from marking and
\* freeing it to the end of its transfer, and everyone else from its mutex, whatever is
\* opened, closed, unplugged and plugged again.
THEOREM LifeIoctl == LifeSpec => []DisconnectWaitsForIoctl
<1>1. LifeInit => IoctlInv
  BY DEF LifeInit, IoctlInv, FileShape, Guarded, Attached, freed
<1>2. IoctlInv => DisconnectWaitsForIoctl
  BY DEF IoctlInv, Guarded, DisconnectWaitsForIoctl
<1>3. QED
  BY LifeInitInv, LifeStep, IoctlStep, <1>1, <1>2, PTL DEF LifeSpec

------------------------------------------------------------------------------
(* Types *)

\* The ladder has nine rungs, and who is probing is not at the top of it.
Climbs(d) == d.rung <= 9 /\ (d.stage = "probing" => d.rung <= 8)

ClimbInv ==
  /\ \A s \in Structs : Climbs(dev[s])
  /\ plugs \in 0..MaxPlugs
  /\ reads \in 0..MaxReads

LEMMA RungsLen == Len(Rungs) = 9
  BY DEF Rungs

\* One structure changes, and climbs or stays.
LEMMA OneClimbs ==
  ASSUME LifeInv, \A s \in Structs : Climbs(dev[s]), NEW s \in Structs, NEW e,
         dev' = [dev EXCEPT ![s] = e], Climbs(e)
  PROVE  \A t \in Structs : Climbs(dev'[t])
  BY DEF LifeInv, LifeShape

\* Giving a reference back does not climb.
LEMMA PutClimbs ==
  ASSUME LifeInv, \A s \in Structs : Climbs(dev[s]), NEW s \in Structs, NEW d \in Structure,
         Put(s, d), Climbs(d)
  PROVE  \A t \in Structs : Climbs(dev'[t])
<1>1. Climbs(freed(d.probes))
  BY DEF freed, Climbs
<1>2. Climbs([d EXCEPT !.ref = d.ref - 1])
  BY DEF Climbs, Structure
<1>3. QED
  BY <1>1, <1>2, OneClimbs DEF Put

\* Every step climbs one rung at most, and only while it probes.
LEMMA ClimbStep ==
  ASSUME LifeInv, ClimbInv, [LifeNext]_lifeVars
  PROVE  \A s \in Structs : Climbs(dev'[s])
<1>0. /\ dev \in [Structs -> Structure]
      /\ \A s \in Structs : Climbs(dev[s])
  BY DEF LifeInv, LifeShape, ClimbInv
<1>1. CASE UNCHANGED dev
  BY <1>0, <1>1
<1>2. CASE Probe
  <2>1. PICK s \in Structs, m \in Minors :
          dev' = [dev EXCEPT ![s] = [freed(dev[s].probes + 1) EXCEPT
                                       !.stage = "probing", !.minor = m]]
    BY <1>2 DEF Probe
  <2>3. dev'[s].rung = 0 /\ \A t \in Structs \ {s} : dev'[t] = dev[t]
    BY <1>0, <2>1 DEF freed
  <2>4. QED
    BY <1>0, <2>3 DEF Climbs
<1>3. ASSUME NEW s \in Structs, ProbeTakes(s) PROVE \A t \in Structs : Climbs(dev'[t])
  <2> DEFINE d == dev[s]
             r == d.rung + 1
             e(io) == [d EXCEPT !.rung = r,
                                !.stage = IF r = Len(Rungs) THEN "bound" ELSE "probing",
                                !.ref = IF Rungs[r] = "port" THEN 1 ELSE d.ref,
                                !.leaked = IF Rungs[r] = "port" THEN 0 ELSE d.leaked,
                                !.io_id = io]
  <2>1. PICK io : dev' = [dev EXCEPT ![s] = e(io)]
    BY <1>3, Zenon DEF ProbeTakes
  <2>2. d \in Structure /\ d.stage = "probing" /\ d.rung <= 8
    BY <1>0, <1>3 DEF ProbeTakes, Climbs
  <2>3. e(io).rung = r /\ e(io).stage = IF r = 9 THEN "bound" ELSE "probing"
    BY <2>2, RungsLen DEF Structure
  <2>4. r \in Nat /\ r <= 9 /\ (r # 9 => r <= 8)
    BY <2>2 DEF Structure
  <2>5. Climbs(e(io))
    BY <2>3, <2>4 DEF Climbs
  <2> HIDE DEF e
  <2>6. QED
    BY <1>0, <2>1, <2>5, OneClimbs
<1>4. ASSUME NEW s \in Structs, ProbeFails(s) \/ Unbound(s)
      PROVE  \A t \in Structs : Climbs(dev'[t])
  <2>1. PICK d \in Structure : Put(s, d) /\ Climbs(d)
    <3>1. [dev[s] EXCEPT !.stage = "unbound", !.probes = dev[s].probes + 1] \in Structure
          /\ Climbs([dev[s] EXCEPT !.stage = "unbound", !.probes = dev[s].probes + 1])
      <4>1. dev[s].probes + 1 \in Nat /\ dev[s] \in Structure /\ dev[s].rung \in Nat
            /\ Climbs(dev[s])
        BY <1>0, ProbesNat DEF Structure
      <4>2. QED
        BY <4>1, GivenUpShape DEF Climbs, GivenUp
    <3>2. [dev[s] EXCEPT !.stage = "unbound"] \in Structure
          /\ Climbs([dev[s] EXCEPT !.stage = "unbound"])
      BY <1>0 DEF Structure, Late, Climbs
    <3>3. QED
      BY <1>4, <3>1, <3>2 DEF ProbeFails, Unbound
  <2>3. QED
    BY <1>0, <2>1, PutClimbs
<1>5. ASSUME NEW m \in Minors, InstallFails(m) \/ TtyCleanup(m)
      PROVE  \A t \in Structs : Climbs(dev'[t])
  <2> DEFINE s == ttys[m].dev
  <2>1. s \in Structs
    BY <1>5, LifeAssumption DEF InstallFails, TtyCleanup, LifeInv, LifeShape
  <2>2. Put(s, dev[s])
    BY <1>5 DEF InstallFails, TtyCleanup
  <2> HIDE DEF s
  <2>3. QED
    BY <1>0, <2>1, <2>2, PutClimbs
<1>6. ASSUME NEW m \in Minors, InstallGets(m) \/ ch343_proc_show(m)
      PROVE  \A t \in Structs : Climbs(dev'[t])
  <2>1. PICK s \in Structs :
          \/ dev' = [dev EXCEPT ![s].ref = dev[s].ref + 1]
          \/ dev' = [dev EXCEPT ![s].ref = dev[s].ref + 1, ![s].leaked = dev[s].leaked + 1]
    BY <1>6 DEF InstallGets, ch343_proc_show
  <2>2. /\ dev'[s].rung = dev[s].rung /\ dev'[s].stage = dev[s].stage
        /\ \A t \in Structs \ {s} : dev'[t] = dev[t]
    BY <1>0, <2>1 DEF Structure
  <2>3. QED
    BY <1>0, <2>2 DEF Climbs
<1>7. ASSUME NEW s \in Structs, Unplugged(s) \/ Disconnected(s)
      PROVE  \A t \in Structs : Climbs(dev'[t])
  <2>1. \/ dev' = [dev EXCEPT ![s].stage = "unbinding"]
        \/ dev' = [dev EXCEPT ![s].disconnected = TRUE]
    BY <1>7 DEF Unplugged, Disconnected
  <2>2. /\ dev'[s].rung = dev[s].rung /\ dev'[s].stage \in {dev[s].stage, "unbinding"}
        /\ \A t \in Structs \ {s} : dev'[t] = dev[t]
    BY <1>0, <2>1 DEF Structure
  <2>3. QED
    BY <1>0, <2>2 DEF Climbs
<1>8. ASSUME NEW f \in Files, IoctlLocks(f) \/ IoctlReturns(f)
      PROVE  \A t \in Structs : Climbs(dev'[t])
  <2>1. PICK x : dev' = [dev EXCEPT ![files[f].dev].mutex = x]
    BY <1>8 DEF IoctlLocks, IoctlReturns
  <2>2. \A t \in Structs : dev'[t].rung = dev[t].rung /\ dev'[t].stage = dev[t].stage
    BY <1>0, <2>1 DEF Structure
  <2>3. QED
    BY <1>0, <2>2 DEF Climbs
<1>9. QED
  BY <1>1, <1>2, <1>3, <1>4, <1>5, <1>6, <1>7, <1>8
     DEF LifeNext, lifeVars, ProbeNoMinor, Installed, FileOpen, FileClose, IoctlTests, IoctlRefused

\* Only probes and reads of /proc are counted, up to their bounds.
LEMMA CountStep ==
  ASSUME ClimbInv, [LifeNext]_lifeVars
  PROVE  plugs' \in 0..MaxPlugs /\ reads' \in 0..MaxReads
<1>1. CASE Probe \/ ProbeNoMinor
  <2>1. plugs < MaxPlugs /\ plugs' = plugs + 1 /\ reads' = reads
    BY <1>1 DEF Probe, ProbeNoMinor
  <2>2. QED
    BY <2>1, LifeAssumption DEF ClimbInv
<1>2. CASE \E m \in Minors : ch343_proc_show(m)
  BY <1>2, LifeAssumption DEF ch343_proc_show, ClimbInv
<1>3. CASE UNCHANGED <<plugs, reads>>
  BY <1>3 DEF ClimbInv
<1>4. QED
  BY <1>1, <1>2, <1>3
     DEF LifeNext, lifeVars, ProbeTakes, ProbeFails, Unplugged, Disconnected, Unbound,
         InstallGets, Installed, InstallFails, TtyCleanup, FileOpen, FileClose,
         IoctlTests, IoctlLocks, IoctlRefused, IoctlReturns

\* The types of the life of a structure.
THEOREM LifeTypes == LifeSpec => []LifeTypeOK
<1>1. LifeInit => ClimbInv
  BY LifeAssumption DEF LifeInit, ClimbInv, Climbs, freed
<1>2. LifeInv /\ ClimbInv /\ [LifeNext]_lifeVars => ClimbInv'
  <2>1. ASSUME LifeInv, ClimbInv, [LifeNext]_lifeVars PROVE ClimbInv'
    BY <2>1, ClimbStep, CountStep DEF ClimbInv
  <2>2. QED
    BY <2>1
<1>3. LifeInv /\ ClimbInv => LifeTypeOK
  <2>1. ASSUME LifeInv, ClimbInv PROVE LifeTypeOK
    <3>1. ASSUME NEW s \in Structs
          PROVE  /\ dev[s].stage \in {"free", "probing", "bound", "unbinding", "unbound"}
                 /\ dev[s].rung \in 0..Len(Rungs)
                 /\ dev[s].ref \in Nat
                 /\ dev[s].minor \in Minors \cup {NoMinor}
                 /\ dev[s].mutex \in Files \cup {Nothing}
      <4>1. dev[s] \in Structure /\ Climbs(dev[s])
        BY <2>1, Typed DEF ClimbInv
      <4>2. QED
        BY <4>1, RungsLen DEF Structure, Late, Climbs
    <3>2. QED
      BY <2>1, <3>1 DEF LifeInv, LifeShape, ClimbInv, LifeTypeOK
  <2>2. QED
    BY <2>1
<1>4. QED
  BY LifeInitInv, LifeStep, <1>1, <1>2, <1>3, PTL DEF LifeSpec
==============================================================================

---------------------------- MODULE MCLab_proofs ----------------------------
(****************************************************************************)
(* What MCLab checks on small instances, for every lab, number of cases,     *)
(* number of faults and limit: background traffic, the health check, the     *)
(* faults of a link and of a device's configuration, the device_down fault,  *)
(* the BGP collector and the executor of cases.                              *)
(*                                                                           *)
(* The invariants take the variables of their component as parameters, under *)
(* the names the component gives them; MCLab keeps them in s1, s2, ...       *)
(****************************************************************************)
EXTENDS Integers, Sequences, FiniteSets, SequenceTheorems, FiniteSetTheorems, MCLab, TLAPS

-----------------------------------------------------------------------------
(* The health check (HealthCheck, runtime/health.py).                       *)

Probes == {"none", "queued", "running", "raised", "good", "bad"}

\* A probe exists only of an item that is pending, so only of one of this
\* stage; in the network stage a device whose probe was good, now or in an
\* earlier round, has the snapshot of that probe; afterwards every device has.
HealthInv(good, stage, pending, job, snapshot, expired, answer) ==
    /\ stage \in 1 .. 6 /\ pending \subseteq H!Items(stage)
    /\ job \in [H!All -> Probes]
    /\ snapshot \in [Devices -> {"none", "good", "bad"}]
    /\ \A i \in H!All : job[i] # "none" => i \in pending /\ answer = "none"
    /\ stage = 3 => \A d \in Devices : d \notin pending \/ job[d] = "good" => snapshot[d] = "good"
    /\ stage > 3 => \A d \in Devices : snapshot[d] = "good"

Health == HealthInv(s1, s2, s3, s5, s6, s7, s8)

\* Devices are probed in the network stage and in no other.
LEMMA DevicesOfStages ==
    ASSUME NEW n \in 1 .. 6
    PROVE  /\ H!Items(3) = Devices
           /\ n # 3 => H!Items(n) \cap Devices = {}
           /\ H!Items(n) \subseteq H!All
<1>1. H!Items(3) = Devices
  BY DEF H!Items, H!Stages
<1>2. /\ H!Items(1) = {"telegraf"} /\ H!Items(2) = {"containers"} /\ H!Items(4) = {"ping"}
      /\ H!Items(5) = Clients /\ H!Items(6) = Checks
  BY DEF H!Items, H!Stages
<1>3. H!Items(n) \subseteq H!All
  BY DEF H!All
<1>4. n = 1 \/ n = 2 \/ n = 3 \/ n = 4 \/ n = 5 \/ n = 6
  OBVIOUS
<1>. QED  BY <1>1, <1>2, <1>3, <1>4, LabAssumption

LEMMA HealthInit ==
    ASSUME H!Init
    PROVE  Health
<1>1. H!Items(1) \subseteq H!All
  BY DevicesOfStages
<1>. QED  BY <1>1 DEF H!Init, Health, HealthInv, Probes

LEMMA HealthStep ==
    ASSUME Health, H!Next
    PROVE  Health'
<1>. USE DEF Health, HealthInv
<1>1. CASE H!Expire
  BY <1>1 DEF H!Expire
<1>2. CASE H!RoundEnds
  <2>1. s5' = [i \in H!All |-> "none"] /\ s6' = s6
    BY <1>2 DEF H!RoundEnds, H!Shutdown
  <2>2. s5' \in [H!All -> Probes] /\ \A i \in H!All : s5'[i] = "none"
    BY <2>1 DEF Probes
  <2>3. CASE s2' = s2 /\ s3' \subseteq s3 /\ \A i \in s3 \ s3' : s5[i] = "good"
    <3>1. s2 = 3 => Devices \subseteq H!All
      BY DevicesOfStages
    <3>. QED  BY <2>1, <2>2, <2>3, <3>1
  <2>4. CASE H!Left = {} /\ s2 # 6 /\ H!Enter(s2 + 1)
    <3>1. s2' = s2 + 1 /\ s2' \in 1 .. 6 /\ s3' = H!Items(s2')
      BY <2>4 DEF H!Enter
    <3>2. s2' = 3 => s3' = Devices
      BY <3>1, DevicesOfStages
    <3>3. ASSUME s2 = 3, NEW d \in Devices  PROVE s6[d] = "good"
      <4>1. s5[d] = "good" \/ d \notin s3
        BY <2>4 DEF H!Left
      <4>. QED  BY <3>3, <4>1
    <3>4. s2 > 3 \/ s2 = 3 \/ s2' <= 3
      BY <3>1
    <3>5. s2' > 3 => \A d \in Devices : s6'[d] = "good"
      BY <2>1, <3>1, <3>3, <3>4
    <3>6. s2' = 3 => Devices \subseteq H!All
      BY <3>1, DevicesOfStages
    <3>. QED  BY <2>1, <2>2, <3>1, <3>2, <3>5, <3>6
  <2>5. H!Ends("healthy") \/ H!Ends("errors") => s2' = s2 /\ s3' = s3
    BY DEF H!Ends
  <2>6. s3' = H!Left => s3' \subseteq s3 /\ \A i \in s3 \ s3' : s5[i] = "good"
    BY DEF H!Left
  <2>. QED  BY <1>2, <2>3, <2>4, <2>5, <2>6 DEF H!RoundEnds
<1>3. CASE H!DeadlineExceeded
  <2>1. s5' = [i \in H!All |-> "none"] /\ UNCHANGED <<s2, s3, s6>>
    BY <1>3 DEF H!DeadlineExceeded, H!Shutdown, H!Ends
  <2>2. s5' \in [H!All -> Probes] /\ \A i \in H!All : s5'[i] = "none"
    BY <2>1 DEF Probes
  <2>3. s2 = 3 => Devices \subseteq H!All
    BY DevicesOfStages
  <2>. QED  BY <2>1, <2>2, <2>3
<1>4. ASSUME NEW i \in H!All, H!Change(i)  PROVE Health'
  BY <1>4 DEF H!Change
<1>5. ASSUME NEW i \in H!All, H!Submit(i)  PROVE Health'
  <2>1. s2 = 3 => Devices \subseteq H!All
    BY DevicesOfStages
  <2>. QED  BY <1>5, <2>1 DEF H!Submit, Probes
<1>6. ASSUME NEW i \in H!All, H!StartProbe(i)  PROVE Health'
  <2>1. s2 = 3 => Devices \subseteq H!All
    BY DevicesOfStages
  <2>. QED  BY <1>6, <2>1 DEF H!StartProbe, Probes
<1>7. ASSUME NEW i \in H!All, H!EndProbe(i)  PROVE Health'
  <2>1. PICK r \in {"good", "bad"} :
            /\ s6' = IF i \in Devices THEN [s6 EXCEPT ![i] = r] ELSE s6
            /\ s5' = [s5 EXCEPT ![i] = IF s7 THEN "raised" ELSE r]
    BY <1>7 DEF H!EndProbe, H!Reading, H!Read, H!Recorded
  <2>2. s5[i] = "running" /\ UNCHANGED <<s2, s3, s8>>
    BY <1>7 DEF H!EndProbe
  <2>3. i \in s3 /\ s8 = "none"
    BY <2>2
  <2>4. i \in Devices => s2 = 3
    BY <2>3, DevicesOfStages
  <2>5. s5' \in [H!All -> Probes] /\ s6' \in [Devices -> {"none", "good", "bad"}]
    BY <2>1 DEF Probes
  <2>6. s2 = 3 => Devices \subseteq H!All
    BY DevicesOfStages
  <2>. QED  BY <2>1, <2>2, <2>3, <2>4, <2>5, <2>6
<1>. HIDE DEF Health
<1>. QED  BY <1>1, <1>2, <1>3, <1>4, <1>5, <1>6, <1>7 DEF H!Next, H!Probe

-----------------------------------------------------------------------------
(* Faults of a device's configuration (ConfigFaults, handlers/network.py,    *)
(* routing_static.py, impairment.py).                                       *)

\* A controller that may still change the device.
Live == {"fault", "healthy", "stopping"}

\* A handler at work, or a fault on record, owns what it changes: the device
\* has no route or qdisc of its own there. A live controller has its fault on
\* record with its one operation journaled, and is never beside an undo. What
\* an undo without errors has not come to yet is all that is left in force.
ConfigTypes(inforce, kind, journal, undo) ==
    /\ inforce \subseteq C!Changes(kind)
    /\ journal \in 0 .. C!Operations(kind) /\ undo \in 0 .. journal

ConfigCalls(journal, pc, tracked, ctl) ==
    /\ pc = "write" => tracked = "none"
    /\ pc = "stop" => tracked # "none" /\ ctl \notin {"fault", "healthy"}
    /\ pc = "undo" => ctl \notin Live
    /\ ctl \in Live => tracked # "none" /\ journal = 1

ConfigOwned(foreign, kind, pc, errors, tracked) ==
    /\ foreign \in BOOLEAN /\ errors \in BOOLEAN
    /\ pc # "idle" \/ tracked # "none" => (C!ReadsBack(kind) => foreign = FALSE)

ConfigLeft(inforce, journal, pc, undo, errors) ==
    /\ pc = "stop" => undo = journal
    /\ pc = "undo" /\ errors = FALSE => \A c \in inforce : c[1] <= undo

ConfigInv ==
    /\ ConfigTypes(s1, s3, s4, s6) /\ ConfigCalls(s4, s5, s8, s9)
    /\ ConfigOwned(s2, s3, s5, s7, s8) /\ ConfigLeft(s1, s4, s5, s6, s7)

Config == ConfigInv /\ C!ConfigBack /\ C!JournalCovers /\ C!NoDanglingPolicy

LEMMA OperationNumbers ==
    ASSUME NEW k
    PROVE  C!Operations(k) \in 1 .. 3 /\ C!Parts(k) \in 1 .. 2
BY DEF C!Operations, C!Parts

LEMMA Bounded ==
    ASSUME NEW a, NEW b, NEW n \in a .. b
    PROVE  n \in Int
OBVIOUS

\* A command changes no other operation's parts, and leaves a prefix of the
\* parts of its own in force.
LEMMA PartsSet ==
    ASSUME Config, NEW k \in 1 .. C!Operations(s3), NEW n \in Int, C!SetParts(k, n)
    PROVE  /\ s1' \subseteq C!Changes(s3)
           /\ \A c \in s1' : c \in s1 \/ c[1] = k
           /\ C!Parts(s3) = 2 => \A c \in s1' : c[2] = 2 => <<c[1], 1>> \in s1'
<1>1. s1 \subseteq (1 .. C!Operations(s3)) \X (1 .. C!Parts(s3))
  BY DEF Config, ConfigInv, ConfigTypes, ConfigCalls, ConfigOwned, ConfigLeft, C!Changes
<1>2. s1' = (s1 \ C!Of(s3, k)) \cup C!Prefix(k, n)
  BY DEF C!SetParts
<1>3. /\ C!Of(s3, k) = {k} \X (1 .. C!Parts(s3))
      /\ C!Prefix(k, n) = {c \in C!Of(s3, k) : c[2] <= n}
  BY DEF C!Of, C!Prefix
<1>4. s1' \subseteq C!Changes(s3) /\ \A c \in s1' : c \in s1 \/ c[1] = k
  BY <1>1, <1>2, <1>3 DEF C!Changes
<1>5. ASSUME C!Parts(s3) = 2, NEW c \in s1', c[2] = 2  PROVE <<c[1], 1>> \in s1'
  <2>1. CASE c \in C!Prefix(k, n)
    BY <1>2, <1>3, <1>5, <2>1
  <2>2. CASE c \in s1 \ C!Of(s3, k)
    <3>1. <<c[1], 1>> \in s1
      BY <1>5, <2>2 DEF Config, C!NoDanglingPolicy
    <3>2. c[1] # k
      BY <1>1, <1>3, <2>2
    <3>. QED  BY <1>2, <1>3, <3>1, <3>2
  <2>. QED  BY <1>2, <1>5, <2>1, <2>2
<1>. QED  BY <1>4, <1>5

LEMMA PartsUndone ==
    ASSUME Config, NEW k \in 1 .. C!Operations(s3), C!Undone(k)
    PROVE  /\ s1' \subseteq s1 /\ \A c \in s1' : c[1] # k
           /\ C!Parts(s3) = 2 => \A c \in s1' : c[2] = 2 => <<c[1], 1>> \in s1'
<1>1. s1 \subseteq (1 .. C!Operations(s3)) \X (1 .. C!Parts(s3))
  BY DEF Config, ConfigInv, ConfigTypes, ConfigCalls, ConfigOwned, ConfigLeft, C!Changes
<1>2. s1' = s1 \ ({k} \X (1 .. C!Parts(s3)))
  BY DEF C!Undone, C!Of
<1>3. \A c \in s1' : c \in s1 /\ c[1] # k
  BY <1>1, <1>2
<1>4. ASSUME C!Parts(s3) = 2, NEW c \in s1', c[2] = 2  PROVE <<c[1], 1>> \in s1'
  BY <1>2, <1>3, <1>4 DEF Config, C!NoDanglingPolicy
<1>. QED  BY <1>3, <1>4

\* Every command on an operation, whatever part of it fails.
LEMMA Commands ==
    ASSUME Config, NEW k \in 1 .. C!Operations(s3),
           C!Written(k) \/ C!PartlyWritten(k) \/ C!PartlyUndone(k) \/ C!Undone(k)
    PROVE  /\ s1' \subseteq C!Changes(s3)
           /\ \A c \in s1' : c \in s1 \/ c[1] = k
           /\ C!Parts(s3) = 2 => \A c \in s1' : c[2] = 2 => <<c[1], 1>> \in s1'
<1>1. s1 \subseteq C!Changes(s3)
  BY DEF Config, ConfigInv, ConfigTypes, ConfigCalls, ConfigOwned, ConfigLeft
<1>2. CASE C!Undone(k)
  BY <1>1, <1>2, PartsUndone
<1>3. CASE \E n \in Int : C!SetParts(k, n)
  BY <1>3, PartsSet
<1>4. C!Written(k) => \E n \in Int : C!SetParts(k, n)
  BY OperationNumbers DEF C!Written
<1>5. C!PartlyWritten(k) => \E n \in Int : C!SetParts(k, n)
  BY Bounded DEF C!PartlyWritten
<1>6. C!PartlyUndone(k) => \E n \in Int : C!SetParts(k, n)
  BY Bounded DEF C!PartlyUndone
<1>. QED  BY <1>2, <1>3, <1>4, <1>5, <1>6

LEMMA ConfigInit ==
    ASSUME C!Init
    PROVE  Config
<1>1. C!Operations(s3) \in 1 .. 3
  BY OperationNumbers
<1>2. ConfigInv
  <2>1. ConfigTypes(s1, s3, s4, s6)
    BY <1>1 DEF C!Init, ConfigTypes
  <2>2. ConfigCalls(s4, s5, s8, s9) /\ ConfigOwned(s2, s3, s5, s7, s8) /\ ConfigLeft(s1, s4, s5, s6, s7)
    BY DEF C!Init, ConfigCalls, ConfigOwned, ConfigLeft, Live
  <2>. QED  BY <2>1, <2>2 DEF ConfigInv
<1>3. C!ConfigBack /\ C!JournalCovers /\ C!NoDanglingPolicy
  BY DEF C!Init, C!ConfigBack, C!JournalCovers, C!NoDanglingPolicy
<1>. QED  BY <1>2, <1>3 DEF Config

\* A new injection starts from a device without changes, and writes only
\* what it may own.
LEMMA ConfigBegin ==
    ASSUME Config, NEW kinds, NEW owns, C!Begin(kinds, owns),
           s2 = FALSE \/ ~owns \/ \A k \in kinds : ~C!ReadsBack(k)
    PROVE  Config'
<1>1. /\ s5 = "idle" /\ s8 = "none" /\ s4' = 0 /\ s6' = 0 /\ s7' = FALSE
      /\ s3' \in kinds /\ s5' \in (IF owns THEN {"write", "idle"} ELSE {"idle"})
      /\ UNCHANGED <<s1, s2, s8, s9>>
  BY DEF C!Begin
<1>2. s1 = {} /\ s9 \notin Live /\ s2 \in BOOLEAN
  BY <1>1 DEF Config, ConfigInv, ConfigTypes, ConfigCalls, ConfigOwned, ConfigLeft, C!ConfigBack, Live
<1>3. C!Operations(s3') \in 1 .. 3
  BY OperationNumbers
<1>4. ConfigInv'
  <2>1. ConfigTypes(s1, s3, s4, s6)'
    BY <1>1, <1>2, <1>3 DEF ConfigTypes
  <2>2. ConfigCalls(s4, s5, s8, s9)'
    BY <1>1, <1>2, <1>3 DEF ConfigCalls, Live
  <2>3. ConfigOwned(s2, s3, s5, s7, s8)'
    BY <1>1, <1>2, <1>3 DEF ConfigOwned
  <2>4. ConfigLeft(s1, s4, s5, s6, s7)'
    BY <1>1, <1>2, <1>3 DEF ConfigLeft
  <2>. QED  BY <2>1, <2>2, <2>3, <2>4 DEF ConfigInv
<1>5. (C!ConfigBack /\ C!JournalCovers /\ C!NoDanglingPolicy)'
  BY <1>1, <1>2 DEF C!ConfigBack, C!JournalCovers, C!NoDanglingPolicy, Live
<1>. QED  BY <1>4, <1>5 DEF Config

LEMMA ConfigRun ==
    ASSUME Config, NEW kinds, C!RunNext(kinds)
    PROVE  Config'
<1>1. /\ s5 = "write" /\ s4 < C!Operations(s3) /\ s4' = s4 + 1
      /\ (s5' = "write" /\ s6' = s6) \/ (s5' = "undo" /\ s6' = s4')
      /\ UNCHANGED <<s2, s3, s7, s8, s9>>
  BY DEF C!RunNext, C!Journaled
<1>2. s4 + 1 \in 1 .. C!Operations(s3) /\ s4 \in Nat
  BY <1>1, OperationNumbers DEF Config, ConfigInv, ConfigTypes, ConfigCalls, ConfigOwned, ConfigLeft
<1>3. /\ s1' \subseteq C!Changes(s3)
      /\ \A c \in s1' : c \in s1 \/ c[1] = s4 + 1
      /\ C!Parts(s3) = 2 => \A c \in s1' : c[2] = 2 => <<c[1], 1>> \in s1'
  BY <1>2, Commands DEF C!RunNext
<1>4. \A c \in s1 : c[1] \in Nat /\ c[1] <= s4
  BY OperationNumbers DEF Config, ConfigInv, ConfigTypes, ConfigCalls, ConfigOwned, ConfigLeft, C!JournalCovers, C!Changes
<1>5. \A c \in s1' : c[1] <= s4'
  BY <1>1, <1>2, <1>3, <1>4
<1>6. s8 = "none" /\ s9 \notin Live
  BY <1>1 DEF Config, ConfigInv, ConfigTypes, ConfigCalls, ConfigOwned, ConfigLeft
<1>7. ConfigInv'
  <2>1. ConfigTypes(s1, s3, s4, s6)'
    BY <1>1, <1>2, <1>3, <1>5, <1>6, OperationNumbers DEF Config, ConfigInv, ConfigTypes
  <2>2. ConfigCalls(s4, s5, s8, s9)'
    BY <1>1, <1>2, <1>3, <1>5, <1>6, OperationNumbers DEF Config, ConfigInv, ConfigCalls, Live
  <2>3. ConfigOwned(s2, s3, s5, s7, s8)'
    BY <1>1, <1>2, <1>3, <1>5, <1>6, OperationNumbers DEF Config, ConfigInv, ConfigOwned
  <2>4. ConfigLeft(s1, s4, s5, s6, s7)'
    BY <1>1, <1>2, <1>3, <1>5, <1>6, OperationNumbers DEF Config, ConfigInv, ConfigLeft
  <2>. QED  BY <2>1, <2>2, <2>3, <2>4 DEF ConfigInv
<1>8. (C!ConfigBack /\ C!JournalCovers /\ C!NoDanglingPolicy)'
  BY <1>1, <1>3, <1>5 DEF C!ConfigBack, C!JournalCovers, C!NoDanglingPolicy
<1>. QED  BY <1>7, <1>8 DEF Config

LEMMA ConfigVerify ==
    ASSUME Config, C!Verify
    PROVE  Config'
<1>1. /\ s5 = "write" /\ s4 = C!Operations(s3) /\ UNCHANGED <<s1, s2, s3, s4, s7>>
      /\ \/ /\ s5' = "idle" /\ s8' = "active" /\ s6' = s6
            /\ s9' = IF s3 = "flapping" THEN "fault" ELSE s9
         \/ s5' = "undo" /\ s6' = s4 /\ UNCHANGED <<s8, s9>>
  BY DEF C!Verify
<1>2. s3 = "flapping" => s4 = 1
  BY <1>1 DEF C!Operations
<1>3. ConfigInv'
  <2>1. ConfigTypes(s1, s3, s4, s6)'
    BY <1>1, <1>2, OperationNumbers DEF Config, ConfigInv, C!JournalCovers, ConfigTypes
  <2>2. ConfigCalls(s4, s5, s8, s9)'
    BY <1>1, <1>2, OperationNumbers DEF Config, ConfigInv, C!JournalCovers, ConfigCalls, Live
  <2>3. ConfigOwned(s2, s3, s5, s7, s8)'
    BY <1>1, <1>2, OperationNumbers DEF Config, ConfigInv, C!JournalCovers, ConfigOwned
  <2>4. ConfigLeft(s1, s4, s5, s6, s7)'
    BY <1>1, <1>2, OperationNumbers DEF Config, ConfigInv, C!JournalCovers, ConfigLeft
  <2>. QED  BY <2>1, <2>2, <2>3, <2>4 DEF ConfigInv
<1>4. (C!ConfigBack /\ C!JournalCovers /\ C!NoDanglingPolicy)'
  BY <1>1 DEF Config, C!ConfigBack, C!JournalCovers, C!NoDanglingPolicy
<1>. QED  BY <1>3, <1>4 DEF Config

\* The controller writes and undoes its one operation, which is journaled.
LEMMA ConfigFlaps ==
    ASSUME Config, C!Flap \/ C!FlapStops
    PROVE  Config'
<1>1. /\ s9 \in Live /\ UNCHANGED <<s2, s3, s4, s5, s6, s7, s8>>
      /\ C!Written(1) \/ C!PartlyWritten(1) \/ C!PartlyUndone(1) \/ C!Undone(1)
      /\ s9' \in Live => s9 \in {"fault", "healthy"} /\ s9' \in {"fault", "healthy"}
  BY DEF C!Flap, C!FlapStops, Live
<1>2. s4 = 1 /\ s8 # "none" /\ s5 # "undo"
  BY <1>1 DEF Config, ConfigInv, ConfigTypes, ConfigCalls, ConfigOwned, ConfigLeft
<1>3. 1 \in 1 .. C!Operations(s3)
  BY OperationNumbers
<1>4. /\ s1' \subseteq C!Changes(s3)
      /\ \A c \in s1' : c \in s1 \/ c[1] = 1
      /\ C!Parts(s3) = 2 => \A c \in s1' : c[2] = 2 => <<c[1], 1>> \in s1'
  BY <1>1, <1>3, Commands
<1>5. ConfigInv'
  <2>1. ConfigTypes(s1, s3, s4, s6)'
    BY <1>1, <1>2, <1>4 DEF Config, ConfigInv, ConfigTypes
  <2>2. ConfigCalls(s4, s5, s8, s9)'
    BY <1>1, <1>2, <1>4 DEF Config, ConfigInv, ConfigCalls, Live
  <2>3. ConfigOwned(s2, s3, s5, s7, s8)'
    BY <1>1, <1>2, <1>4 DEF Config, ConfigInv, ConfigOwned
  <2>4. ConfigLeft(s1, s4, s5, s6, s7)'
    BY <1>1, <1>2, <1>4 DEF Config, ConfigInv, ConfigLeft
  <2>. QED  BY <2>1, <2>2, <2>3, <2>4 DEF ConfigInv
<1>6. (C!ConfigBack /\ C!JournalCovers /\ C!NoDanglingPolicy)'
  BY <1>1, <1>2, <1>4 DEF Config, C!ConfigBack, C!JournalCovers, C!NoDanglingPolicy
<1>. QED  BY <1>5, <1>6 DEF Config

LEMMA ConfigRecovers ==
    ASSUME Config, C!Recover \/ C!Stopped
    PROVE  Config'
<1>1. UNCHANGED <<s1, s2, s3, s4, s8>>
  BY DEF C!Recover, C!Stopped
<1>2. CASE C!Recover
  <2>1. /\ s5 = "idle" /\ s8 # "none" /\ s5' = "stop" /\ s6' = s4 /\ s7' = FALSE
        /\ s9' = IF s9 \in {"fault", "healthy"} THEN "stopping" ELSE s9
    BY <1>2 DEF C!Recover
  <2>2. ConfigTypes(s1, s3, s4, s6)'
    BY <1>1, <2>1, OperationNumbers DEF Config, ConfigInv, ConfigTypes
  <2>3. ConfigCalls(s4, s5, s8, s9)'
    BY <1>1, <2>1 DEF Config, ConfigInv, ConfigCalls, Live
  <2>4. ConfigOwned(s2, s3, s5, s7, s8)'
    BY <1>1, <2>1 DEF Config, ConfigInv, ConfigOwned
  <2>5. ConfigLeft(s1, s4, s5, s6, s7)'
    BY <1>1, <2>1 DEF Config, ConfigInv, ConfigLeft, C!JournalCovers
  <2>6. (C!ConfigBack /\ C!JournalCovers /\ C!NoDanglingPolicy)'
    BY <1>1, <2>1 DEF Config, ConfigInv, ConfigCalls, C!ConfigBack, C!JournalCovers, C!NoDanglingPolicy
  <2>. QED  BY <2>2, <2>3, <2>4, <2>5, <2>6 DEF Config, ConfigInv
<1>3. CASE C!Stopped
  <2>1. /\ s5 = "stop" /\ UNCHANGED <<s6, s7, s9>>
        /\ (s9 # "stopping" /\ s5' = "undo") \/ (s9 = "stopping" /\ s5' = "idle")
    BY <1>3 DEF C!Stopped
  <2>2. ConfigTypes(s1, s3, s4, s6)'
    BY <1>1, <2>1, OperationNumbers DEF Config, ConfigInv, ConfigTypes
  <2>3. ConfigCalls(s4, s5, s8, s9)'
    BY <1>1, <2>1 DEF Config, ConfigInv, ConfigCalls, Live
  <2>4. ConfigOwned(s2, s3, s5, s7, s8)'
    BY <1>1, <2>1 DEF Config, ConfigInv, ConfigOwned
  <2>5. ConfigLeft(s1, s4, s5, s6, s7)'
    BY <1>1, <2>1 DEF Config, ConfigInv, ConfigLeft, C!JournalCovers
  <2>6. (C!ConfigBack /\ C!JournalCovers /\ C!NoDanglingPolicy)'
    BY <1>1, <2>1 DEF Config, ConfigInv, ConfigCalls, C!ConfigBack, C!JournalCovers, C!NoDanglingPolicy
  <2>. QED  BY <2>2, <2>3, <2>4, <2>5, <2>6 DEF Config, ConfigInv
<1>. QED  BY <1>2, <1>3

\* An operation is undone as a whole, or the undo has an error.
LEMMA ConfigUndo ==
    ASSUME Config, C!Undo
    PROVE  Config' /\ s2' = s2
<1>1. /\ s5 = "undo" /\ s6 > 0 /\ s6' = s6 - 1 /\ UNCHANGED <<s3, s4, s5, s8, s9>>
      /\ (C!Undone(s6) /\ s7' = s7) \/ (C!PartlyUndone(s6) /\ s7' = TRUE)
  <2>1. s7 \in BOOLEAN
    BY DEF Config, ConfigInv, ConfigOwned
  <2>2. C!UndoErrors(FALSE) = s7 /\ C!UndoErrors(TRUE) = TRUE
    BY <2>1 DEF C!UndoErrors
  <2>. QED  BY <2>2 DEF C!Undo
<1>2. s6 \in 1 .. C!Operations(s3) /\ s6 \in Nat /\ s4 \in Nat /\ s6 <= s4
  BY <1>1, OperationNumbers DEF Config, ConfigInv, ConfigTypes, ConfigCalls, ConfigOwned, ConfigLeft
<1>3. s2' = s2
  <2>1. s2 \in BOOLEAN /\ (C!ReadsBack(s3) => s2 = FALSE)
    BY <1>1 DEF Config, ConfigInv, ConfigOwned
  <2>2. s2' = (s2 /\ ~C!ReadsBack(s3))
    BY DEF C!Undo
  <2>. QED  BY <2>1, <2>2
<1>4. /\ s1' \subseteq C!Changes(s3)
      /\ \A c \in s1' : c \in s1 \/ c[1] = s6
      /\ C!Parts(s3) = 2 => \A c \in s1' : c[2] = 2 => <<c[1], 1>> \in s1'
  BY <1>1, <1>2, Commands
<1>5. \A c \in s1 : c[1] \in Nat /\ c[1] <= s4
  BY OperationNumbers DEF Config, ConfigInv, ConfigTypes, ConfigCalls, ConfigOwned, ConfigLeft, C!JournalCovers, C!Changes
<1>6. \A c \in s1' : c[1] <= s4
  BY <1>2, <1>4, <1>5
<1>7. s7' = FALSE => \A c \in s1' : c[1] <= s6'
  <2>1. ASSUME s7' = FALSE  PROVE C!Undone(s6) /\ s7 = FALSE
    BY <1>1, <2>1
  <2>2. ASSUME s7' = FALSE, NEW c \in s1'  PROVE c[1] \in Nat /\ c[1] # s6 /\ c[1] <= s6
    BY <1>1, <1>2, <1>5, <2>1, <2>2, PartsUndone DEF Config, ConfigInv, ConfigTypes, ConfigCalls, ConfigOwned, ConfigLeft
  <2>3. ASSUME s7' = FALSE, NEW c \in s1'  PROVE c[1] <= s6'
    <3>1. c[1] \in Nat /\ c[1] # s6 /\ c[1] <= s6
      BY <2>2, <2>3
    <3>. QED  BY <1>1, <1>2, <3>1
  <2>. QED  BY <2>3
<1>8. ConfigInv'
  <2>1. ConfigTypes(s1, s3, s4, s6)'
    BY <1>1, <1>2, <1>3, <1>4, <1>7 DEF Config, ConfigInv, ConfigTypes
  <2>2. ConfigCalls(s4, s5, s8, s9)'
    BY <1>1, <1>2, <1>3, <1>4, <1>7 DEF Config, ConfigInv, ConfigCalls, Live
  <2>3. ConfigOwned(s2, s3, s5, s7, s8)'
    BY <1>1, <1>2, <1>3, <1>4, <1>7 DEF Config, ConfigInv, ConfigOwned
  <2>4. ConfigLeft(s1, s4, s5, s6, s7)'
    BY <1>1, <1>2, <1>3, <1>4, <1>7 DEF Config, ConfigInv, ConfigLeft
  <2>. QED  BY <2>1, <2>2, <2>3, <2>4 DEF ConfigInv
<1>9. (C!ConfigBack /\ C!JournalCovers /\ C!NoDanglingPolicy)'
  BY <1>1, <1>4, <1>6 DEF C!ConfigBack, C!JournalCovers, C!NoDanglingPolicy
<1>. QED  BY <1>3, <1>8, <1>9 DEF Config

\* The fault leaves the tracker only when nothing of it is in force.
LEMMA ConfigUndoEnds ==
    ASSUME Config, C!JournalUndone \/ C!RouteRemoved \/ C!NetemRemoved
    PROVE  Config'
<1>1. s5 = "undo" /\ s6 = 0 /\ s5' = "idle" /\ UNCHANGED <<s1, s2, s3, s4, s6, s7, s9>>
  BY DEF C!JournalUndone, C!RouteRemoved, C!NetemRemoved, C!UndoEnds
<1>2. \/ s8' = IF s8 = "none" THEN "residual" ELSE s8
      \/ s7 = FALSE /\ s8' = "none"
      \/ s1 = {} /\ s8' = "none"
  BY DEF C!JournalUndone, C!RouteRemoved, C!NetemRemoved, C!Kept
<1>3. \A c \in s1 : c[1] \in Nat /\ c[1] >= 1
  BY OperationNumbers DEF Config, ConfigInv, ConfigTypes, ConfigCalls, ConfigOwned, ConfigLeft, C!Changes
<1>4. s7 = FALSE => s1 = {}
  <2>1. s7 = FALSE => \A c \in s1 : c[1] <= 0
    BY <1>1 DEF Config, ConfigInv, ConfigLeft
  <2>. QED  BY <1>3, <2>1
<1>5. s9 \notin Live
  BY <1>1 DEF Config, ConfigInv, ConfigTypes, ConfigCalls, ConfigOwned, ConfigLeft
<1>6. s8' # "none" \/ s1' = {}
  BY <1>1, <1>2, <1>4
<1>7. ConfigInv'
  <2>1. ConfigTypes(s1, s3, s4, s6)'
    BY <1>1, <1>5 DEF Config, ConfigInv, ConfigTypes
  <2>2. ConfigCalls(s4, s5, s8, s9)'
    BY <1>1, <1>5 DEF Config, ConfigInv, ConfigCalls, Live
  <2>3. ConfigOwned(s2, s3, s5, s7, s8)'
    BY <1>1, <1>5 DEF Config, ConfigInv, ConfigOwned
  <2>4. ConfigLeft(s1, s4, s5, s6, s7)'
    BY <1>1, <1>5 DEF Config, ConfigInv, ConfigLeft
  <2>. QED  BY <2>1, <2>2, <2>3, <2>4 DEF ConfigInv
<1>8. (C!ConfigBack /\ C!JournalCovers /\ C!NoDanglingPolicy)'
  BY <1>1, <1>5, <1>6 DEF Config, C!ConfigBack, C!JournalCovers, C!NoDanglingPolicy, Live
<1>. QED  BY <1>7, <1>8 DEF Config

\* No step removes a static route or a qdisc that the fault does not own.
LEMMA ConfigStep ==
    ASSUME Config, C!Next
    PROVE  Config' /\ C!ForeignKeptStep
<1>. USE DEF C!ForeignKeptStep
<1>1. CASE C!PreparePolicy \/ C!PrepareAcl
  BY <1>1, ConfigBegin DEF C!PreparePolicy, C!PrepareAcl, C!ReadsBack, C!Begin
<1>2. CASE C!PrepareRoute \/ C!PrepareNetem
  <2>1. s2 \in BOOLEAN
    BY DEF Config, ConfigInv, ConfigOwned
  <2>2. s2 = FALSE \/ ~(~s2)
    BY <2>1
  <2>. QED  BY <1>2, <2>2, ConfigBegin DEF C!PrepareRoute, C!PrepareNetem, C!Begin
<1>3. CASE C!WriteOperation \/ C!WriteRoute \/ C!WriteNetem
  <2>1. PICK kinds : C!RunNext(kinds)
    BY <1>3 DEF C!WriteOperation, C!WriteRoute, C!WriteNetem
  <2>2. s2' = s2
    BY <2>1 DEF C!RunNext
  <2>. QED  BY <2>1, <2>2, ConfigRun
<1>4. CASE C!Verify
  BY <1>4, ConfigVerify DEF C!Verify
<1>5. CASE C!Flap \/ C!FlapStops
  BY <1>5, ConfigFlaps DEF C!Flap, C!FlapStops
<1>6. CASE C!Recover \/ C!Stopped
  BY <1>6, ConfigRecovers DEF C!Recover, C!Stopped
<1>7. CASE C!Undo
  BY <1>7, ConfigUndo
<1>8. CASE C!JournalUndone \/ C!RouteRemoved \/ C!NetemRemoved
  BY <1>8, ConfigUndoEnds DEF C!JournalUndone, C!RouteRemoved, C!NetemRemoved, C!UndoEnds
<1>. QED  BY <1>1, <1>2, <1>3, <1>4, <1>5, <1>6, <1>7, <1>8 DEF C!Next, C!Work

-----------------------------------------------------------------------------
(* The devices and the device_down fault (DeviceLifecycle,                   *)
(* runtime/apply_configs.py, handlers/system.py).                           *)

Steps == {"wait", "activate", "reconcile", "ok", "failed", "raised"}
StepEnds == {"ok", "failed", "raised"}

\* The activation of a running device has done what its step says.
Sound(b, s) ==
    /\ b.running /\ ~b.parked
    /\ s \in {"activate", "reconcile", "ok"} => b.sonic
    /\ s \in {"reconcile", "ok"} => b.active
    /\ s = "ok" => b.addresses

\* The device of a fault, before it is started again.
IsOut(d, main, target, tracked) ==
    d = target /\ (main = "settle" \/ (main = "ready" /\ tracked # "none"))

\* Every device but the one of a fault is as sound as its activation says;
\* between calls no activation is under way, and only the device of a fault
\* may have a failed one. A device that was to be stopped and still runs with
\* its interfaces was not touched.
DeviceTypes(box, step, target) ==
    box \in [Devices -> D!Boxes] /\ step \in [Devices -> Steps] /\ target \in Devices

DeviceSound(box, step, main, target, tracked) ==
    /\ \A d \in Devices : ~IsOut(d, main, target, tracked) => Sound(box[d], step[d])
    /\ main = "settle" /\ box[target].running /\ ~box[target].parked => Sound(box[target], "ok")

DeviceSteps(step, main, target, tracked) ==
    /\ main \notin {"deploy", "restart"} => \A d \in Devices : step[d] \in StepEnds
    /\ main \notin {"deploy", "broken"} => \A d \in Devices : d # target => step[d] = "ok"
    /\ main \in {"settle", "bgp"} \/ (main = "ready" /\ tracked = "none") => step[target] = "ok"

DeviceCalls(main, tracked) ==
    /\ main \in {"deploy", "broken", "settle"} => tracked = "none"
    /\ main \in {"restart", "bgp"} => tracked # "none"

DeviceInv ==
    /\ DeviceTypes(s1, s2, s5) /\ DeviceSound(s1, s2, s4, s5, s6)
    /\ DeviceSteps(s2, s4, s5, s6) /\ DeviceCalls(s4, s6)

Device == DeviceInv /\ D!ActiveIsRestartable

\* The boxes the handlers leave behind.
LEMMA BoxTypes ==
    /\ {D!Started, D!Stopped, [D!Stopped EXCEPT !.parked = FALSE],
        [D!Started EXCEPT !.parked = TRUE]} \subseteq D!Boxes
    /\ \A b \in D!Boxes, v \in BOOLEAN :
           /\ [b EXCEPT !.sonic = v] \in D!Boxes /\ [b EXCEPT !.active = v] \in D!Boxes
           /\ [b EXCEPT !.addresses = v] \in D!Boxes /\ [b EXCEPT !.bgp = v] \in D!Boxes
           /\ [b EXCEPT !.sonic = TRUE, !.addresses = v] \in D!Boxes
<1>1. D!Started \in D!Boxes /\ D!Stopped \in D!Boxes
  BY DEF D!Boxes, D!Started, D!Stopped
<1>2. [D!Stopped EXCEPT !.parked = FALSE] \in D!Boxes /\ [D!Started EXCEPT !.parked = TRUE] \in D!Boxes
  BY <1>1 DEF D!Boxes
<1>3. ASSUME NEW b \in D!Boxes, NEW v \in BOOLEAN
      PROVE  /\ [b EXCEPT !.sonic = v] \in D!Boxes /\ [b EXCEPT !.active = v] \in D!Boxes
             /\ [b EXCEPT !.addresses = v] \in D!Boxes /\ [b EXCEPT !.bgp = v] \in D!Boxes
             /\ [b EXCEPT !.sonic = TRUE, !.addresses = v] \in D!Boxes
  BY DEF D!Boxes
<1>. QED  BY <1>1, <1>2, <1>3

LEMMA DeviceInit ==
    ASSUME D!Init
    PROVE  Device
<1>. USE DEF D!Init
<1>1. DeviceTypes(s1, s2, s5)
  BY BoxTypes DEF DeviceTypes, Steps
<1>2. \A d \in Devices : s1[d] = D!Started /\ s2[d] = "wait"
  OBVIOUS
<1>3. DeviceSound(s1, s2, s4, s5, s6)
  BY <1>2 DEF DeviceSound, Sound, D!Started
<1>4. DeviceSteps(s2, s4, s5, s6) /\ DeviceCalls(s4, s6) /\ D!ActiveIsRestartable
  BY DEF DeviceSteps, DeviceCalls, D!ActiveIsRestartable
<1>. QED  BY <1>1, <1>3, <1>4 DEF Device, DeviceInv

\* What the devices do by themselves leaves sound ones sound.
LEMMA DeviceAlone ==
    ASSUME Device, NEW d \in Devices, D!SonicUp(d) \/ D!BgpUp(d)
    PROVE  Device'
<1>1. UNCHANGED <<s2, s4, s5, s6, s7>>
  BY DEF D!SonicUp, D!BgpUp
<1>2. s1 \in [Devices -> D!Boxes] /\ s5 \in Devices
  BY DEF Device, DeviceInv, DeviceTypes
<1>3. /\ s1' \in [Devices -> D!Boxes]
      /\ \A e \in Devices : s1'[e].running = s1[e].running /\ s1'[e].parked = s1[e].parked
      /\ \A e \in Devices : \/ s1'[e] = s1[e]
                            \/ s1[e].running /\ ~s1[e].sonic /\ s1'[e].sonic /\ s1'[e].active = s1[e].active
                            \/ /\ s1'[e].sonic = s1[e].sonic /\ s1'[e].active = s1[e].active
                               /\ s1'[e].addresses = s1[e].addresses
  <2>1. CASE D!SonicUp(d)
    <3>1. PICK a \in BOOLEAN : s1' = [s1 EXCEPT ![d] = [s1[d] EXCEPT !.sonic = TRUE, !.addresses = a]]
      BY <1>2, <2>1 DEF D!SonicUp, D!Boxes
    <3>2. s1' \in [Devices -> D!Boxes]
      BY <1>2, <3>1, BoxTypes
    <3>. QED  BY <1>2, <2>1, <3>1, <3>2, ZenonT(40) DEF D!SonicUp, D!Boxes
  <2>2. CASE D!BgpUp(d)
    <3>1. s1' = [s1 EXCEPT ![d] = [s1[d] EXCEPT !.bgp = TRUE]]
      BY <1>2, <2>2 DEF D!BgpUp
    <3>2. s1' \in [Devices -> D!Boxes]
      BY <1>2, <3>1, BoxTypes
    <3>. QED  BY <1>2, <3>1, <3>2 DEF D!Boxes
  <2>. QED  BY <2>1, <2>2
<1>4. ASSUME NEW e \in Devices, Sound(s1[e], s2[e])  PROVE Sound(s1[e]', s2[e])
  BY <1>1, <1>3, <1>4 DEF Sound
<1>5. Sound(s1[s5], "ok") => Sound(s1'[s5], "ok")
  BY <1>2, <1>3 DEF Sound
<1>6. DeviceTypes(s1, s2, s5)'
  BY <1>1, <1>3 DEF Device, DeviceInv, DeviceTypes
<1>7. DeviceSound(s1, s2, s4, s5, s6)'
  BY <1>1, <1>2, <1>3, <1>4, <1>5 DEF Device, DeviceInv, DeviceSound, IsOut
<1>8. DeviceSteps(s2, s4, s5, s6)' /\ DeviceCalls(s4, s6)'
  BY <1>1 DEF Device, DeviceInv, DeviceSteps, DeviceCalls
<1>9. D!ActiveIsRestartable'
  BY <1>1, <1>2, <1>3 DEF Device, D!ActiveIsRestartable
<1>. QED  BY <1>6, <1>7, <1>8, <1>9 DEF Device, DeviceInv

\* An activation under way is one of the deployment or of the device of the
\* fault after its start; a step of it leaves the device as sound as it says.
LEMMA DeviceActivates ==
    ASSUME Device, NEW d \in Devices, D!Activate(d)
    PROVE  Device'
<1>1. s1 \in [Devices -> D!Boxes] /\ s2 \in [Devices -> Steps] /\ s5 \in Devices
  BY DEF Device, DeviceInv, DeviceTypes
<1>2. s2[d] \in {"wait", "activate", "reconcile"} /\ UNCHANGED <<s4, s5, s6, s7>>
  BY DEF D!Activate, D!WaitForSonic, D!ActivateDevice, D!ReconcileInterfaces
<1>3. s4 = "deploy" \/ (s4 = "restart" /\ d = s5)
  BY <1>2 DEF Device, DeviceInv, DeviceSteps, StepEnds
<1>4. Sound(s1[d], s2[d])
  BY <1>3 DEF Device, DeviceInv, DeviceSound, IsOut
<1>5. /\ s1' \in [Devices -> D!Boxes] /\ s2' \in [Devices -> Steps]
      /\ \A e \in Devices : e # d => s1'[e] = s1[e] /\ s2'[e] = s2[e]
      /\ Sound(s1'[d], s2'[d])
  <2>1. CASE D!WaitForSonic(d)
    BY <1>1, <1>2, <1>4, <2>1 DEF D!WaitForSonic, D!Activation, Sound, Steps
  <2>2. CASE D!ActivateDevice(d)
    <3>1. s2[d] = "activate" /\ s1[d].sonic /\ s1[d].running /\ ~s1[d].parked
      BY <1>4, <2>2 DEF D!ActivateDevice, Sound
    <3>2. PICK b \in {s1[d], [s1[d] EXCEPT !.active = TRUE]}, s \in Steps :
              /\ s1' = [s1 EXCEPT ![d] = b] /\ s2' = [s2 EXCEPT ![d] = s]
              /\ (s = "reconcile" /\ b = [s1[d] EXCEPT !.active = TRUE]) \/ s \in {"failed", "raised"}
      BY <1>1, <2>2 DEF D!ActivateDevice, D!Activation, Steps, D!Boxes
    <3>3. b \in D!Boxes /\ b.sonic /\ b.running /\ ~b.parked /\ (s = "reconcile" => b.active)
      BY <1>1, <3>1, <3>2 DEF D!Boxes
    <3>. QED  BY <1>1, <3>2, <3>3 DEF Sound
  <2>3. CASE D!ReconcileInterfaces(d)
    <3>1. s2[d] = "reconcile" /\ s1[d].sonic /\ s1[d].active /\ s1[d].running /\ ~s1[d].parked
      BY <1>4, <2>3 DEF D!ReconcileInterfaces, Sound
    <3>2. PICK b \in {s1[d], [s1[d] EXCEPT !.addresses = TRUE]} : s1' = [s1 EXCEPT ![d] = b]
      BY <1>1, <2>3 DEF D!ReconcileInterfaces
    <3>3. b \in D!Boxes /\ b.sonic /\ b.active /\ b.running /\ ~b.parked
      BY <1>1, <3>1, <3>2 DEF D!Boxes
    <3>4. PICK s \in {"ok", "failed"} : s2' = [s2 EXCEPT ![d] = s] /\ (s = "ok" => s1'[d].addresses)
      BY <2>3 DEF D!ReconcileInterfaces, D!Reconciled, D!Activation
    <3>. QED  BY <1>1, <3>2, <3>3, <3>4 DEF Sound, Steps
  <2>. QED  BY <2>1, <2>2, <2>3 DEF D!Activate
<1>6. DeviceTypes(s1, s2, s5)'
  BY <1>1, <1>2, <1>5 DEF DeviceTypes
<1>7. DeviceSound(s1, s2, s4, s5, s6)'
  BY <1>2, <1>3, <1>5 DEF Device, DeviceInv, DeviceSound, IsOut
<1>8. DeviceSteps(s2, s4, s5, s6)' /\ DeviceCalls(s4, s6)'
  BY <1>2, <1>3, <1>5 DEF Device, DeviceInv, DeviceSteps, DeviceCalls
<1>9. D!ActiveIsRestartable'
  BY <1>2, <1>3 DEF D!ActiveIsRestartable
<1>. QED  BY <1>6, <1>7, <1>8, <1>9 DEF Device, DeviceInv

LEMMA DeviceApplied ==
    ASSUME Device, D!ApplyEnds
    PROVE  Device'
<1>1. /\ s4 = "deploy" /\ s4' \in {"ready", "broken"} /\ UNCHANGED <<s1, s2, s5, s6, s7>>
      /\ \A d \in Devices : s2[d] \in StepEnds
  BY DEF D!ApplyEnds, StepEnds
<1>2. s4' = "ready" => \A d \in Devices : s2[d] = "ok"
  BY <1>1 DEF D!ApplyEnds, D!Failed, StepEnds
<1>3. s6 = "none" /\ s5 \in Devices
  BY <1>1 DEF Device, DeviceInv, DeviceCalls, DeviceTypes
<1>4. DeviceTypes(s1, s2, s5)'
  BY <1>1 DEF Device, DeviceInv, DeviceTypes
<1>5. DeviceSound(s1, s2, s4, s5, s6)'
  BY <1>1, <1>3 DEF Device, DeviceInv, DeviceSound, IsOut
<1>6. DeviceSteps(s2, s4, s5, s6)' /\ DeviceCalls(s4, s6)' /\ D!ActiveIsRestartable'
  BY <1>1, <1>2, <1>3 DEF DeviceSteps, DeviceCalls, D!ActiveIsRestartable
<1>. QED  BY <1>4, <1>5, <1>6 DEF Device, DeviceInv

LEMMA DeviceInjects ==
    ASSUME Device, NEW d \in Devices, D!InjectDeviceDown(d)
    PROVE  Device'
<1>1. s1 \in [Devices -> D!Boxes] /\ s2 \in [Devices -> Steps] /\ s5 \in Devices
  BY DEF Device, DeviceInv, DeviceTypes
<1>2. /\ s4 = "ready" /\ s6 = "none" /\ s4' = "settle" /\ s5' = d
      /\ UNCHANGED <<s2, s6>>
  BY DEF D!InjectDeviceDown
<1>3. \A e \in Devices : s2[e] = "ok" /\ Sound(s1[e], "ok")
  BY <1>2 DEF Device, DeviceInv, DeviceSound, DeviceSteps, IsOut
<1>4. PICK after \in {s1[d], D!Stopped, [D!Stopped EXCEPT !.parked = FALSE], [s1[d] EXCEPT !.parked = TRUE]} :
          s1' = [s1 EXCEPT ![d] = after]
  BY DEF D!InjectDeviceDown
<1>5. after \in D!Boxes /\ (after.running /\ ~after.parked => after = s1[d])
  BY <1>1, <1>4 DEF D!Boxes, D!Stopped, D!Started
<1>6. s1' \in [Devices -> D!Boxes] /\ s1'[d] = after /\ \A e \in Devices : e # d => s1'[e] = s1[e]
  BY <1>1, <1>4, <1>5
<1>7. DeviceTypes(s1, s2, s5)'
  BY <1>1, <1>2, <1>6 DEF DeviceTypes
<1>8. DeviceSound(s1, s2, s4, s5, s6)'
  BY <1>2, <1>3, <1>5, <1>6 DEF DeviceSound, IsOut
<1>9. DeviceSteps(s2, s4, s5, s6)' /\ DeviceCalls(s4, s6)' /\ D!ActiveIsRestartable'
  BY <1>2, <1>3 DEF DeviceSteps, DeviceCalls, D!ActiveIsRestartable, StepEnds
<1>. QED  BY <1>7, <1>8, <1>9 DEF Device, DeviceInv

\* Only a device that reads as running with nothing parked is left without a
\* record, and only one that reads as stopped and parked is an injected fault.
LEMMA DeviceSettles ==
    ASSUME Device, D!SettledStop
    PROVE  Device'
<1>1. s1 \in [Devices -> D!Boxes] /\ s2 \in [Devices -> Steps] /\ s5 \in Devices
  BY DEF Device, DeviceInv, DeviceTypes
<1>2. s4 = "settle" /\ s4' = "ready" /\ UNCHANGED <<s1, s2, s5, s7>>
  BY DEF D!SettledStop
<1>3. /\ s6' = "none" => s1[s5].running /\ ~s1[s5].parked
      /\ s6' = "active" => ~s1[s5].running /\ s1[s5].parked
  BY <1>1 DEF D!SettledStop, D!Settled, D!Reads, D!Boxes
<1>4. \A d \in Devices : s2[d] = "ok"
  BY <1>2 DEF Device, DeviceInv, DeviceSteps
<1>5. DeviceTypes(s1, s2, s5)'
  BY <1>1, <1>2 DEF DeviceTypes
<1>6. DeviceSound(s1, s2, s4, s5, s6)'
  BY <1>2, <1>3, <1>4 DEF Device, DeviceInv, DeviceSound, IsOut
<1>7. DeviceSteps(s2, s4, s5, s6)' /\ DeviceCalls(s4, s6)' /\ D!ActiveIsRestartable'
  BY <1>1, <1>2, <1>3, <1>4 DEF DeviceSteps, DeviceCalls, D!ActiveIsRestartable, StepEnds
<1>. QED  BY <1>5, <1>6, <1>7 DEF Device, DeviceInv

LEMMA DeviceRefused ==
    ASSUME Device, D!RecoverRefused
    PROVE  Device'
<1>1. /\ s4 = "ready" /\ s4' = "ready" /\ s6 # "none" /\ s7' # "none"
      /\ UNCHANGED <<s1, s2, s5, s6>>
  BY DEF D!RecoverRefused, D!Report
<1>2. DeviceTypes(s1, s2, s5)' /\ DeviceSound(s1, s2, s4, s5, s6)'
  BY <1>1 DEF Device, DeviceInv, DeviceTypes, DeviceSound, IsOut
<1>3. DeviceSteps(s2, s4, s5, s6)' /\ DeviceCalls(s4, s6)' /\ D!ActiveIsRestartable'
  BY <1>1 DEF Device, DeviceInv, DeviceSteps, DeviceCalls, D!ActiveIsRestartable
<1>. QED  BY <1>2, <1>3 DEF Device, DeviceInv

LEMMA DeviceStarts ==
    ASSUME Device, D!StartDevice
    PROVE  Device'
<1>1. s1 \in [Devices -> D!Boxes] /\ s2 \in [Devices -> Steps] /\ s5 \in Devices
  BY DEF Device, DeviceInv, DeviceTypes
<1>2. s4 = "ready" /\ s6 # "none" /\ UNCHANGED <<s5, s6>>
  BY DEF D!StartDevice, D!Report
<1>3. \A d \in Devices : d # s5 => s2[d] = "ok" /\ Sound(s1[d], s2[d])
  BY <1>2 DEF Device, DeviceInv, DeviceSteps, DeviceSound, IsOut
<1>4. s2[s5] \in StepEnds
  BY <1>1, <1>2 DEF Device, DeviceInv, DeviceSteps
<1>5. CASE /\ s1' = [s1 EXCEPT ![s5] = D!Started] /\ s2' = [s2 EXCEPT ![s5] = "wait"]
           /\ s4' = "restart"
  <2>1. DeviceTypes(s1, s2, s5)'
    BY <1>1, <1>2, <1>5 DEF DeviceTypes, D!Started, D!Boxes, Steps
  <2>2. DeviceSound(s1, s2, s4, s5, s6)'
    BY <1>1, <1>2, <1>3, <1>5 DEF DeviceSound, IsOut, Sound, D!Started
  <2>3. DeviceSteps(s2, s4, s5, s6)' /\ DeviceCalls(s4, s6)' /\ D!ActiveIsRestartable'
    BY <1>1, <1>2, <1>3, <1>5 DEF DeviceSteps, DeviceCalls, D!ActiveIsRestartable
  <2>. QED  BY <2>1, <2>2, <2>3 DEF Device, DeviceInv
<1>6. CASE /\ \E b \in {D!Stopped, D!Started, [D!Stopped EXCEPT !.parked = FALSE],
                        [D!Started EXCEPT !.parked = TRUE]} : s1' = [s1 EXCEPT ![s5] = b]
           /\ s2' = s2 /\ s4' = "ready" /\ s7' # "none"
  <2>1. DeviceTypes(s1, s2, s5)'
    BY <1>1, <1>2, <1>6, BoxTypes DEF DeviceTypes
  <2>2. \A d \in Devices : d # s5 => s1'[d] = s1[d]
    BY <1>1, <1>6
  <2>3. DeviceSound(s1, s2, s4, s5, s6)'
    BY <1>2, <1>3, <1>6, <2>2 DEF DeviceSound, IsOut
  <2>4. DeviceSteps(s2, s4, s5, s6)' /\ DeviceCalls(s4, s6)' /\ D!ActiveIsRestartable'
    BY <1>1, <1>2, <1>3, <1>4, <1>6 DEF DeviceSteps, DeviceCalls, D!ActiveIsRestartable, StepEnds
  <2>. QED  BY <2>1, <2>3, <2>4 DEF Device, DeviceInv
<1>. QED  BY <1>5, <1>6 DEF D!StartDevice, D!Report

LEMMA DeviceRestarted ==
    ASSUME Device, D!RestartEnds
    PROVE  Device'
<1>1. /\ s4 = "restart" /\ s2[s5] \in StepEnds /\ UNCHANGED <<s1, s2, s5, s6>>
      /\ (s2[s5] = "ok" /\ s4' = "bgp") \/ (s4' = "ready" /\ s7' # "none")
  BY DEF D!RestartEnds, D!Report, StepEnds
<1>2. s6 # "none" /\ s5 \in Devices
  BY <1>1 DEF Device, DeviceInv, DeviceCalls, DeviceTypes
<1>3. DeviceTypes(s1, s2, s5)' /\ DeviceSound(s1, s2, s4, s5, s6)'
  BY <1>1, <1>2 DEF Device, DeviceInv, DeviceTypes, DeviceSound, IsOut
<1>4. DeviceSteps(s2, s4, s5, s6)' /\ DeviceCalls(s4, s6)' /\ D!ActiveIsRestartable'
  BY <1>1, <1>2 DEF Device, DeviceInv, DeviceSteps, DeviceCalls, D!ActiveIsRestartable, StepEnds
<1>. QED  BY <1>3, <1>4 DEF Device, DeviceInv

LEMMA DeviceSessions ==
    ASSUME Device, D!BgpWait
    PROVE  Device'
<1>1. /\ s4 = "bgp" /\ UNCHANGED <<s1, s2, s5>>
      /\ \/ s4' = "ready" /\ s6' = "none"
         \/ s4' = s4 /\ UNCHANGED <<s6, s7>>
         \/ s4' = "ready" /\ s6' = s6 /\ s7' # "none"
  BY DEF D!BgpWait, D!Report
<1>2. s6 # "none" /\ s5 \in Devices /\ s2[s5] = "ok"
  BY <1>1 DEF Device, DeviceInv, DeviceCalls, DeviceTypes, DeviceSteps
<1>3. DeviceTypes(s1, s2, s5)' /\ DeviceSound(s1, s2, s4, s5, s6)'
  BY <1>1, <1>2 DEF Device, DeviceInv, DeviceTypes, DeviceSound, IsOut
<1>4. DeviceSteps(s2, s4, s5, s6)' /\ DeviceCalls(s4, s6)' /\ D!ActiveIsRestartable'
  BY <1>1, <1>2 DEF Device, DeviceInv, DeviceSteps, DeviceCalls, D!ActiveIsRestartable, StepEnds
<1>. QED  BY <1>3, <1>4 DEF Device, DeviceInv

LEMMA DeviceStep ==
    ASSUME Device, D!Next
    PROVE  Device'
<1>1. ~D!SettleExpires
  BY DEF D!SettleExpires
<1>. QED
  BY <1>1, DeviceAlone, DeviceActivates, DeviceApplied, DeviceInjects, DeviceSettles, DeviceRefused,
     DeviceStarts, DeviceRestarted, DeviceSessions DEF D!Next, D!Handler

\* A fault leaves the record in no other way than with its sessions up.
LEMMA DeviceRecovered ==
    ASSUME Device, D!Next
    PROVE  D!RecoveredHasSessionsStep
<1>1. D!SettledStop => s6 = "none"
  BY DEF D!SettledStop, Device, DeviceInv, DeviceCalls
<1>2. D!BgpWait => D!RecoveredHasSessionsStep
  BY DEF D!BgpWait, D!Report, D!RecoveredHasSessionsStep
<1>3. ASSUME ~D!BgpWait, ~D!SettledStop  PROVE s6' = s6
  BY <1>3 DEF D!Next, D!Handler, D!SonicUp, D!BgpUp, D!Activate, D!WaitForSonic, D!ActivateDevice,
     D!ReconcileInterfaces, D!InjectDeviceDown, D!ApplyEnds, D!SettleExpires, D!RecoverRefused,
     D!StartDevice, D!RestartEnds, D!Report
<1>. QED  BY <1>1, <1>2, <1>3 DEF D!RecoveredHasSessionsStep

\* Between calls, without a fault on record, every device is back.
LEMMA DevicesBack ==
    ASSUME Device
    PROVE  D!DeviceBack /\ D!ReadyIsActive
BY DEF Device, DeviceInv, DeviceTypes, DeviceSound, DeviceSteps, IsOut, Sound, D!DeviceBack, D!ReadyIsActive

-----------------------------------------------------------------------------
(* Background traffic, where no request is late (TrafficControl,             *)
(* client_agent/deploy.py, traffic/controller.py).                          *)

\* What kinds of call a phase leaves, and which controller it runs for.
TrafficPhases ==
    /\ T!TypeOK /\ s10 = {}
    /\ s1 \in {"deploy", "undeploy"} => ~s5
    /\ ~s5 => s1 \in {"idle", "deploy", "undeploy"} /\ s7 = "none"
    /\ s1 \in {"reset", "load", "enable", "status", "rollback"} => s7 = "empty"
    /\ s1 = "disable" => s7 = "active"
    /\ \A c \in Senders :
          /\ s1 \in {"deploy", "reset", "load", "enable", "disable", "rollback"}
                => s2[c] \in {"first", "second", "ok", "failed"}
          /\ s1 = "undeploy" => s2[c] \in {"none", "first", "ok"}

\* Once every client answered the reset no old plan is left, so what is loaded,
\* enabled and waited for is the plan of this generation.
TrafficPlans ==
    /\ T!OnePlan
    /\ \A c \in Senders :
          /\ s1 = "reset" /\ s2[c] = "ok" => s4[c].generation = 0
          /\ s1 \in {"load", "enable", "status"} => s4[c].generation \in {0, s8}

\* Who still sends, and has not been told to stop.
TrafficSends ==
    \A c \in Senders : s4[c].enabled =>
        /\ s5
        /\ s1 \in {"rollback", "disable"} => s2[c] # "ok"
        /\ s1 = "idle" => s7 = "active" \/ s12

\* Who runs before the deployment has succeeded.
TrafficAgents ==
    ~s5 => \A c \in s3 \ s6 :
        \/ s1 = "deploy" /\ s2[c] \in {"ok", "second"}
        \/ s1 = "undeploy" /\ s2[c] = "first"

Traffic == TrafficPhases /\ TrafficPlans /\ TrafficSends /\ TrafficAgents

\* What a request does to an agent, and what it answers.
LEMMA Handled ==
    ASSUME NEW a \in T!Agents, NEW op \in {"reset", "load", "enable", "status", "disable"},
           NEW g \in 0 .. MaxGeneration, NEW r \in T!Handle(a, op, g)
    PROVE  /\ r[1] \in T!Agents /\ r[2] \in {"ok", "failed", "unready"}
           /\ r[2] = "unready" => op = "status"
           /\ op = "reset" => r[1] = T!Blank
           /\ op = "load" => r[1].generation \in {0, g} /\ ~r[1].enabled
           /\ op \in {"enable", "disable", "status"} => r[1].generation = a.generation
           /\ op \in {"disable", "status"} /\ r[1].enabled => a.enabled
           /\ op = "enable" /\ r[1].enabled => a.enabled \/ a.generation = g
           /\ op = "disable" /\ r[2] = "ok" => ~r[1].enabled
<1>1. /\ a.generation \in 0 .. MaxGeneration /\ a.enabled \in BOOLEAN /\ a.ready \in BOOLEAN
      /\ T!Blank \in T!Agents
  BY LabAssumption DEF T!Agents, T!Blank
<1>2. CASE op = "reset"
  BY <1>1, <1>2 DEF T!Handle
<1>3. CASE op = "load"
  <2>. DEFINE loaded == [T!Blank EXCEPT !.generation = g]
  <2>1. r = <<loaded, "ok">> \/ r = <<T!Blank, "failed">>
    BY <1>3 DEF T!Handle
  <2>2. /\ loaded \in T!Agents /\ loaded.generation = g /\ ~loaded.enabled
        /\ T!Blank.generation = 0 /\ ~T!Blank.enabled
    BY <1>1 DEF T!Agents, T!Blank
  <2>. HIDE DEF loaded
  <2>. QED  BY <1>1, <1>3, <2>1, <2>2
<1>4. CASE op = "enable"
  <2>. DEFINE started == [a EXCEPT !.enabled = TRUE, !.ready = FALSE]
  <2>1. T!Handle(a, op, g) = IF a.generation # g THEN {<<a, "failed">>}
                             ELSE IF a.enabled THEN {<<a, "ok">>} ELSE {<<started, "ok">>}
    BY <1>4 DEF T!Handle
  <2>2. r = <<a, "failed">> \/ r = <<a, "ok">> \/ (r = <<started, "ok">> /\ a.generation = g)
    BY <2>1
  <2>3. started \in T!Agents /\ started.generation = a.generation
    BY <1>1 DEF T!Agents
  <2>. HIDE DEF started
  <2>. QED  BY <1>1, <1>4, <2>2, <2>3
<1>5. CASE op = "disable"
  <2>1. r = <<a, "failed">> \/ r = <<[a EXCEPT !.enabled = FALSE, !.ready = FALSE], "ok">>
    BY <1>5 DEF T!Handle
  <2>2. \/ r[1] = a /\ r[2] = "failed"
        \/ r[1] = [a EXCEPT !.enabled = FALSE, !.ready = FALSE] /\ r[2] = "ok"
    BY <2>1
  <2>. QED  BY <1>1, <1>5, <2>2 DEF T!Agents
<1>6. CASE op = "status"
  BY <1>1, <1>6 DEF T!Handle, T!Agents, T!Blank
<1>. QED  BY <1>2, <1>3, <1>4, <1>5, <1>6

LEMMA TrafficInit ==
    ASSUME T!Init
    PROVE  Traffic
<1>1. T!TypeOK
  <2>1. T!Blank \in T!Agents /\ 0 \in 0 .. MaxGeneration
    BY LabAssumption DEF T!Agents, T!Blank
  <2>2. s2 \in [Senders -> T!Calls] /\ s4 \in [Senders -> T!Agents]
    BY <2>1 DEF T!Init, T!Calls
  <2>3. s1 \in T!Phases /\ s3 \subseteq Senders /\ s6 \subseteq Senders /\ s10 = {}
    BY DEF T!Init, T!Phases
  <2>4. s5 \in BOOLEAN /\ s12 \in BOOLEAN /\ s7 \in {"none", "empty", "active"}
    BY DEF T!Init
  <2>5. s8 \in 0 .. MaxGeneration /\ s9 \in 0 .. MaxGeneration /\ s11 \in 0 .. 0
    BY <2>1 DEF T!Init
  <2>. QED  BY <2>2, <2>3, <2>4, <2>5 DEF T!TypeOK
<1>. QED
  BY <1>1 DEF T!Init, T!Blank, Traffic, TrafficPhases, TrafficPlans, T!OnePlan, TrafficSends, TrafficAgents

\* One request, answered, lost, or applied with its answer lost.
LEMMA Requested ==
    ASSUME Traffic, NEW k \in Senders,
           T!Answered(k) \/ T!AnswerLost(k) \/ T!RequestLost(k) \/ T!RequestLate(k)
    PROVE  \E a \in T!Agents, v \in {"second", "failed", "ok", "unready"} :
              /\ s4' = [s4 EXCEPT ![k] = a] /\ s2' = [s2 EXCEPT ![k] = v]
              /\ UNCHANGED <<s1, s3, s5, s6, s7, s8, s9, s10, s11, s12>>
              /\ s1 \in {"reset", "load", "enable", "status", "disable", "rollback"}
              /\ s1 # "status" => v # "unready"
              /\ a.generation = 0 \/ a.generation = s4[k].generation
                 \/ (s1 = "load" /\ a.generation = s8)
              /\ a.enabled => s4[k].enabled \/ s1 = "enable"
              /\ s1 \in {"reset", "rollback"} /\ v = "ok" => a.generation = 0 /\ ~a.enabled
              /\ s1 = "disable" /\ v = "ok" => ~a.enabled
              /\ s2[k] \in {"first", "second"}
<1>. DEFINE Does(a, v) ==
              /\ s4' = [s4 EXCEPT ![k] = a] /\ s2' = [s2 EXCEPT ![k] = v]
              /\ UNCHANGED <<s1, s3, s5, s6, s7, s8, s9, s10, s11, s12>>
              /\ s1 \in {"reset", "load", "enable", "status", "disable", "rollback"}
              /\ s1 # "status" => v # "unready"
              /\ a.generation = 0 \/ a.generation = s4[k].generation
                 \/ (s1 = "load" /\ a.generation = s8)
              /\ a.enabled => s4[k].enabled \/ s1 = "enable"
              /\ s1 \in {"reset", "rollback"} /\ v = "ok" => a.generation = 0 /\ ~a.enabled
              /\ s1 = "disable" /\ v = "ok" => ~a.enabled
              /\ s2[k] \in {"first", "second"}
<1>1. /\ s4 \in [Senders -> T!Agents] /\ s8 \in 0 .. MaxGeneration /\ s2 \in [Senders -> T!Calls]
      /\ s11 \in 0 .. 0
  BY DEF Traffic, TrafficPhases, T!TypeOK
<1>2. ~T!RequestLate(k)
  BY <1>1 DEF T!RequestLate
<1>3. /\ s1 \in {"reset", "load", "enable", "status", "disable", "rollback"}
      /\ s2[k] \in {"first", "second"}
      /\ T!Op \in {"reset", "load", "enable", "status", "disable"}
      /\ T!Op = "reset" <=> s1 \in {"reset", "rollback"}
      /\ \A o \in {"load", "enable", "status", "disable"} : T!Op = o <=> s1 = o
  BY <1>2 DEF T!Answered, T!AnswerLost, T!RequestLost, T!Pending, T!Ops, T!Op
<1>4. s4[k] = [s4[k] EXCEPT !.generation = @] /\ s4 = [s4 EXCEPT ![k] = s4[k]] /\ s4[k] \in T!Agents
  BY <1>1 DEF T!Agents
<1>5. T!Blank.generation = 0 /\ ~T!Blank.enabled
  BY DEF T!Blank
<1>6. \A r \in T!Handle(s4[k], T!Op, s8) :
              /\ r[1] \in T!Agents /\ r[2] \in {"ok", "failed", "unready"}
              /\ s1 # "status" => r[2] # "unready"
              /\ r[1].generation = 0 \/ r[1].generation = s4[k].generation
                 \/ (s1 = "load" /\ r[1].generation = s8)
              /\ r[1].enabled => s4[k].enabled \/ s1 = "enable"
              /\ s1 \in {"reset", "rollback"} => r[1].generation = 0 /\ ~r[1].enabled
              /\ s1 = "disable" /\ r[2] = "ok" => ~r[1].enabled
  <2>. SUFFICES ASSUME NEW r \in T!Handle(s4[k], T!Op, s8)
                PROVE  /\ r[1] \in T!Agents /\ r[2] \in {"ok", "failed", "unready"}
                       /\ s1 # "status" => r[2] # "unready"
                       /\ r[1].generation = 0 \/ r[1].generation = s4[k].generation
                          \/ (s1 = "load" /\ r[1].generation = s8)
                       /\ r[1].enabled => s4[k].enabled \/ s1 = "enable"
                       /\ s1 \in {"reset", "rollback"} => r[1].generation = 0 /\ ~r[1].enabled
                       /\ s1 = "disable" /\ r[2] = "ok" => ~r[1].enabled
    OBVIOUS
  <2>1. T!Op \in {"reset", "load", "enable", "status", "disable"} /\ r \in T!Handle(s4[k], T!Op, s8)
    BY <1>3
  <2>2. /\ T!Op = "reset" <=> s1 \in {"reset", "rollback"}
        /\ \A o \in {"load", "enable", "status", "disable"} : T!Op = o <=> s1 = o
    BY <1>3
  <2>3. /\ r[1] \in T!Agents /\ r[2] \in {"ok", "failed", "unready"}
        /\ r[2] = "unready" => T!Op = "status"
        /\ T!Op = "reset" => r[1] = T!Blank
        /\ T!Op = "load" => r[1].generation \in {0, s8} /\ ~r[1].enabled
        /\ T!Op \in {"enable", "disable", "status"} => r[1].generation = s4[k].generation
        /\ T!Op \in {"disable", "status"} /\ r[1].enabled => s4[k].enabled
        /\ T!Op = "disable" /\ r[2] = "ok" => ~r[1].enabled
    <3>1. s4[k] \in T!Agents /\ s8 \in 0 .. MaxGeneration
      BY <1>1
    <3>. QED  BY <2>1, <3>1, Handled
  <2>. QED  BY <1>5, <2>1, <2>2, <2>3
<1>7. T!GiveUp(k) => s2' = [s2 EXCEPT ![k] = "second"] \/ s2' = [s2 EXCEPT ![k] = "failed"]
  BY DEF T!GiveUp
<1>8. CASE T!Answered(k)
  <2>1. PICK r \in T!Handle(s4[k], T!Op, s8) :
            s4' = [s4 EXCEPT ![k] = r[1]] /\ s2' = [s2 EXCEPT ![k] = r[2]]
    BY <1>8 DEF T!Answered
  <2>2. Does(r[1], r[2])
    BY <1>3, <1>6, <1>8, <2>1 DEF T!Answered
  <2>. QED  BY <1>6, <2>2
<1>9. CASE T!AnswerLost(k)
  <2>1. PICK r \in T!Handle(s4[k], T!Op, s8) : s4' = [s4 EXCEPT ![k] = r[1]]
    BY <1>9 DEF T!AnswerLost
  <2>2. Does(r[1], "second") \/ Does(r[1], "failed")
    BY <1>3, <1>6, <1>7, <1>9, <2>1 DEF T!AnswerLost
  <2>. QED  BY <1>6, <2>2
<1>10. CASE T!RequestLost(k)
  <2>1. s4' = [s4 EXCEPT ![k] = s4[k]]
    BY <1>4, <1>10 DEF T!RequestLost
  <2>2. Does(s4[k], "second") \/ Does(s4[k], "failed")
    BY <1>3, <1>7, <1>10, <2>1 DEF T!RequestLost
  <2>. QED  BY <1>4, <2>2
<1>. QED  BY <1>2, <1>8, <1>9, <1>10

LEMMA TrafficRequests ==
    ASSUME Traffic, NEW k \in Senders,
           T!Answered(k) \/ T!AnswerLost(k) \/ T!RequestLost(k) \/ T!RequestLate(k)
    PROVE  Traffic'
<1>1. PICK a \in T!Agents, v \in {"second", "failed", "ok", "unready"} :
              /\ s4' = [s4 EXCEPT ![k] = a] /\ s2' = [s2 EXCEPT ![k] = v]
              /\ UNCHANGED <<s1, s3, s5, s6, s7, s8, s9, s10, s11, s12>>
              /\ s1 \in {"reset", "load", "enable", "status", "disable", "rollback"}
              /\ s1 # "status" => v # "unready"
              /\ a.generation = 0 \/ a.generation = s4[k].generation
                 \/ (s1 = "load" /\ a.generation = s8)
              /\ a.enabled => s4[k].enabled \/ s1 = "enable"
              /\ s1 \in {"reset", "rollback"} /\ v = "ok" => a.generation = 0 /\ ~a.enabled
              /\ s1 = "disable" /\ v = "ok" => ~a.enabled
              /\ s2[k] \in {"first", "second"}
  BY Requested
<1>2. /\ s4 \in [Senders -> T!Agents] /\ s2 \in [Senders -> T!Calls] /\ s5
      /\ T!TypeOK
  BY <1>1 DEF Traffic, TrafficPhases, T!TypeOK
<1>3. /\ \A c \in Senders : /\ s4'[c] = IF c = k THEN a ELSE s4[c]
                            /\ s2'[c] = IF c = k THEN v ELSE s2[c]
      /\ s4' \in [Senders -> T!Agents] /\ s2' \in [Senders -> T!Calls]
  BY <1>1, <1>2 DEF T!Calls
<1>4. T!TypeOK'
  BY <1>1, <1>2, <1>3 DEF T!TypeOK
<1>5. TrafficPhases'
  BY <1>1, <1>3, <1>4 DEF Traffic, TrafficPhases
<1>6. TrafficPlans'
  <2>1. \A c \in Senders :
          /\ s1' = "reset" /\ s2'[c] = "ok" => s4'[c].generation = 0
          /\ s1' \in {"load", "enable", "status"} => s4'[c].generation \in {0, s8'}
    BY <1>1, <1>3 DEF Traffic, TrafficPlans
  <2>2. ASSUME NEW c \in Senders, NEW d \in Senders, s4'[c].generation # 0, s4'[d].generation # 0
        PROVE  s4'[c].generation = s4'[d].generation
    <3>1. CASE s1 = "load"
      BY <1>1, <2>1, <2>2, <3>1
    <3>2. CASE s1 # "load"
      <4>1. s4[c].generation # 0 /\ s4'[c].generation = s4[c].generation
        BY <1>1, <1>3, <2>2, <3>2
      <4>2. s4[d].generation # 0 /\ s4'[d].generation = s4[d].generation
        BY <1>1, <1>3, <2>2, <3>2
      <4>. QED  BY <4>1, <4>2 DEF Traffic, TrafficPlans, T!OnePlan
    <3>. QED  BY <3>1, <3>2
  <2>. QED  BY <2>1, <2>2 DEF TrafficPlans, T!OnePlan
<1>7. TrafficSends' /\ TrafficAgents'
  BY <1>1, <1>2, <1>3 DEF Traffic, TrafficSends, TrafficAgents
<1>. QED  BY <1>5, <1>6, <1>7 DEF Traffic

\* The deployment of the agents.
LEMMA TrafficDeploys ==
    ASSUME Traffic, \/ T!Deploy \/ T!DeployEnds \/ T!UndeployEnds
                    \/ \E k \in Senders : T!StartClient(k) \/ T!StopClient(k)
    PROVE  Traffic'
<1>0. /\ s4 \in [Senders -> T!Agents] /\ s2 \in [Senders -> T!Calls] /\ T!TypeOK
      /\ T!Blank \in T!Agents /\ T!Blank.generation = 0 /\ ~T!Blank.enabled
  BY LabAssumption DEF Traffic, TrafficPhases, T!TypeOK, T!Agents, T!Blank
<1>1. CASE T!Deploy
  <2>1. /\ s1' = "deploy" /\ s1 = "idle" /\ ~s5 /\ \A c \in Senders : s2'[c] \in {"first", "failed"}
        /\ s2' \in [Senders -> T!Calls]
        /\ UNCHANGED <<s3, s4, s5, s6, s7, s8, s9, s10, s11, s12>>
    BY <1>1 DEF T!Deploy, T!Calls
  <2>2. T!TypeOK'
    BY <1>0, <2>1 DEF T!TypeOK, T!Phases
  <2>. QED
    BY <2>1, <2>2 DEF Traffic, TrafficPhases, TrafficPlans, T!OnePlan, TrafficSends, TrafficAgents
<1>2. CASE T!DeployEnds
  <2>1. /\ s1 = "deploy" /\ \A c \in Senders : s2[c] # "first"
        /\ UNCHANGED <<s3, s4, s6, s7, s8, s9, s10, s11, s12>>
        /\ \/ s1' = "idle" /\ s5' /\ s5' \in BOOLEAN /\ s2' = [c \in Senders |-> "none"]
           \/ /\ s1' = "undeploy" /\ s5' = s5
              /\ s2' = [c \in Senders |-> IF c \in T!Scheduled THEN "first" ELSE "none"]
    BY <1>2 DEF T!DeployEnds, T!Rest
  <2>2. T!Scheduled = {c \in Senders : s2[c] \in {"ok", "second"}}
    BY DEF T!Scheduled
  <2>3. /\ s2' \in [Senders -> T!Calls] /\ ~s5
        /\ \A c \in Senders : s2'[c] \in {"none", "first"}
        /\ s1' = "undeploy" => \A c \in Senders : s2[c] \in {"ok", "second"} => s2'[c] = "first"
    BY <2>1, <2>2 DEF T!Calls, Traffic, TrafficPhases
  <2>4. T!TypeOK'
    BY <1>0, <2>1, <2>3 DEF T!TypeOK, T!Phases
  <2>5. TrafficPhases' /\ TrafficPlans' /\ TrafficSends'
    BY <2>1, <2>3, <2>4 DEF Traffic, TrafficPhases, TrafficPlans, T!OnePlan, TrafficSends
  <2>6. TrafficAgents'
    BY <1>0, <2>1, <2>3 DEF Traffic, TrafficAgents, T!TypeOK
  <2>. QED  BY <2>5, <2>6 DEF Traffic
<1>3. CASE T!UndeployEnds
  <2>1. /\ s1 = "undeploy" /\ s1' = "idle" /\ \A c \in Senders : s2[c] # "first"
        /\ s2' = [c \in Senders |-> "none"]
        /\ UNCHANGED <<s3, s4, s5, s6, s7, s8, s9, s10, s11, s12>>
    BY <1>3 DEF T!UndeployEnds, T!Rest, T!Settled
  <2>2. s2' \in [Senders -> T!Calls] /\ ~s5
    BY <2>1 DEF T!Calls, Traffic, TrafficPhases
  <2>3. T!TypeOK'
    BY <1>0, <2>1, <2>2 DEF T!TypeOK, T!Phases
  <2>4. TrafficPhases' /\ TrafficPlans' /\ TrafficSends'
    BY <2>1, <2>2, <2>3 DEF Traffic, TrafficPhases, TrafficPlans, T!OnePlan, TrafficSends
  <2>5. TrafficAgents'
    BY <1>0, <2>1, <2>2 DEF Traffic, TrafficAgents, T!TypeOK
  <2>. QED  BY <2>4, <2>5 DEF Traffic
<1>4. ASSUME NEW k \in Senders, T!StartClient(k)  PROVE Traffic'
  <2>1. /\ s1 = "deploy" /\ s4' = [s4 EXCEPT ![k] = T!Blank] /\ s6' = s6 \ {k}
        /\ s2' = [s2 EXCEPT ![k] = "ok"] \/ s2' = [s2 EXCEPT ![k] = "second"]
        /\ s3' \in {s3 \ {k}, s3 \cup {k}}
        /\ UNCHANGED <<s1, s5, s7, s8, s9, s10, s11, s12>>
    BY <1>4 DEF T!StartClient
  <2>2. /\ \A c \in Senders : /\ s4'[c] = IF c = k THEN T!Blank ELSE s4[c]
                              /\ c # k => s2'[c] = s2[c]
        /\ s2'[k] \in {"ok", "second"} /\ ~s5
        /\ s4' \in [Senders -> T!Agents] /\ s2' \in [Senders -> T!Calls]
    BY <1>0, <2>1 DEF T!Calls, Traffic, TrafficPhases
  <2>3. T!TypeOK'
    BY <1>0, <2>1, <2>2 DEF T!TypeOK, T!Phases
  <2>4. TrafficPhases'
    BY <2>1, <2>2, <2>3 DEF Traffic, TrafficPhases
  <2>5. TrafficPlans' /\ TrafficSends'
    BY <1>0, <2>1, <2>2 DEF Traffic, TrafficPlans, T!OnePlan, TrafficSends
  <2>6. TrafficAgents'
    BY <1>0, <2>1, <2>2 DEF Traffic, TrafficAgents, T!TypeOK
  <2>. QED  BY <2>4, <2>5, <2>6 DEF Traffic
<1>5. ASSUME NEW k \in Senders, T!StopClient(k)  PROVE Traffic'
  <2>1. /\ s1 = "undeploy" /\ s2' = [s2 EXCEPT ![k] = "ok"]
        /\ s3' \subseteq s3 /\ s6 \subseteq s6' /\ s6' \subseteq s6 \cup {k}
        /\ k \in s3' => k \in s6'
        /\ UNCHANGED <<s1, s4, s5, s7, s8, s9, s10, s11, s12>>
    BY <1>5 DEF T!StopClient
  <2>2. /\ \A c \in Senders : s2'[c] = IF c = k THEN "ok" ELSE s2[c]
        /\ s2' \in [Senders -> T!Calls] /\ ~s5
    BY <1>0, <2>1 DEF T!Calls, Traffic, TrafficPhases
  <2>3. T!TypeOK'
    BY <1>0, <2>1, <2>2 DEF T!TypeOK, T!Phases
  <2>4. TrafficPhases' /\ TrafficPlans' /\ TrafficSends'
    BY <2>1, <2>2, <2>3 DEF Traffic, TrafficPhases, TrafficPlans, T!OnePlan, TrafficSends
  <2>5. TrafficAgents'
    BY <1>0, <2>1, <2>2 DEF Traffic, TrafficAgents, T!TypeOK
  <2>. QED  BY <2>4, <2>5 DEF Traffic
<1>. QED  BY <1>1, <1>2, <1>3, <1>4, <1>5

\* The phases of start_matrix and stop_all.
LEMMA TrafficMoves ==
    ASSUME Traffic, \/ T!StartMatrix \/ T!PhaseEnds \/ T!StatusEnds \/ T!RollbackEnds
                    \/ T!StopAll \/ T!StopEnds
    PROVE  Traffic'
<1>. DEFINE First == [c \in Senders |-> "first"]
            None == [c \in Senders |-> "none"]
<1>0. /\ T!TypeOK /\ s4 \in [Senders -> T!Agents]
      /\ First \in [Senders -> T!Calls] /\ None \in [Senders -> T!Calls]
      /\ \A c \in Senders : First[c] = "first"
      /\ 0 \in 0 .. MaxGeneration
  BY LabAssumption DEF Traffic, TrafficPhases, T!TypeOK, T!Calls
<1>. HIDE DEF First, None
<1>1. T!Failures = {c \in Senders : s2[c] = "failed"}
      /\ (T!Settled => \A c \in Senders : s2[c] \in {"none", "ok", "unready", "failed"})
  BY DEF T!Failures, T!Settled
<1>2. CASE T!StartMatrix
  <2>1. /\ s1 = "idle" /\ s5 /\ s7' = "empty" /\ s9 < MaxGeneration /\ s8' = s9 + 1 /\ s9' = s9 + 1
        /\ s1' = "reset" /\ s2' = First
        /\ UNCHANGED <<s3, s4, s5, s6, s10, s11, s12>>
    BY <1>2 DEF T!StartMatrix, T!Send, First
  <2>2. s8' \in 0 .. MaxGeneration
    BY <1>0, <2>1, LabAssumption DEF T!TypeOK
  <2>3. T!TypeOK'
    BY <1>0, <2>1, <2>2 DEF T!TypeOK, T!Phases, T!Ops
  <2>. QED
    BY <1>0, <2>1, <2>3 DEF Traffic, TrafficPhases, TrafficPlans, T!OnePlan, TrafficSends, TrafficAgents
<1>3. CASE T!PhaseEnds
  <2>1. /\ s1 \in {"reset", "load", "enable"} /\ T!Settled /\ s2' = First
        /\ \/ s1' = "rollback"
           \/ T!Failures = {} /\ s1 = "reset" /\ s1' = "load"
           \/ T!Failures = {} /\ s1 = "load" /\ s1' = "enable"
           \/ T!Failures = {} /\ s1 = "enable" /\ s1' = "status"
        /\ UNCHANGED <<s3, s4, s5, s6, s7, s8, s9, s10, s11, s12>>
    BY <1>3 DEF T!PhaseEnds, T!Send, T!NextPhase, First
  <2>2. s1' = "load" => \A c \in Senders : s2[c] = "ok"
    BY <1>1, <2>1 DEF Traffic, TrafficPhases
  <2>3. s5 /\ s5'
    BY <2>1 DEF Traffic, TrafficPhases
  <2>4. T!TypeOK'
    BY <1>0, <2>1 DEF T!TypeOK, T!Phases, T!Ops
  <2>5. TrafficPhases'
    BY <1>0, <2>1, <2>3, <2>4 DEF Traffic, TrafficPhases
  <2>6. TrafficPlans'
    BY <2>1, <2>2 DEF Traffic, TrafficPlans, T!OnePlan
  <2>7. TrafficSends' /\ TrafficAgents'
    BY <1>0, <2>1, <2>3 DEF Traffic, TrafficSends, TrafficAgents
  <2>. QED  BY <2>5, <2>6, <2>7 DEF Traffic
<1>4. CASE T!StatusEnds
  <2>1. /\ s1 = "status" /\ UNCHANGED <<s3, s4, s5, s6, s8, s9, s10, s11>>
        /\ \/ s1' = "idle" /\ s2' = None /\ s7' = "active" /\ s12' = FALSE
           \/ s1' \in {"status", "rollback"} /\ s2' = First /\ UNCHANGED <<s7, s12>>
    BY <1>4 DEF T!StatusEnds, T!Rest, T!Send, First, None
  <2>2. s5 /\ s5'
    BY <2>1 DEF Traffic, TrafficPhases
  <2>3. T!TypeOK'
    BY <1>0, <2>1 DEF T!TypeOK, T!Phases, T!Ops
  <2>4. TrafficPhases'
    BY <1>0, <2>1, <2>2, <2>3 DEF Traffic, TrafficPhases
  <2>5. TrafficPlans'
    BY <2>1 DEF Traffic, TrafficPlans, T!OnePlan
  <2>6. TrafficSends' /\ TrafficAgents'
    BY <1>0, <2>1, <2>2 DEF Traffic, TrafficSends, TrafficAgents
  <2>. QED  BY <2>4, <2>5, <2>6 DEF Traffic
<1>5. CASE T!RollbackEnds
  <2>1. /\ s1 = "rollback" /\ s1' = "idle" /\ s2' = None /\ s8' = 0 /\ T!Settled
        /\ s12' = (T!Failures # {})
        /\ UNCHANGED <<s3, s4, s5, s6, s7, s9, s10, s11>>
    BY <1>5 DEF T!RollbackEnds, T!Rest, None
  <2>2. s5 /\ s5' /\ s7 = "empty"
    BY <2>1 DEF Traffic, TrafficPhases
  <2>3. s12' \in BOOLEAN
    BY <2>1
  <2>4. T!TypeOK'
    BY <1>0, <2>1, <2>3 DEF T!TypeOK, T!Phases, T!Ops
  <2>5. TrafficPhases'
    BY <1>0, <2>1, <2>2, <2>4 DEF Traffic, TrafficPhases
  <2>6. TrafficPlans'
    BY <2>1 DEF Traffic, TrafficPlans, T!OnePlan
  <2>7. ~s12' => \A c \in Senders : s2[c] = "ok"
    BY <1>1, <2>1 DEF Traffic, TrafficPhases
  <2>8. TrafficSends' /\ TrafficAgents'
    BY <1>0, <2>1, <2>2, <2>7 DEF Traffic, TrafficSends, TrafficAgents
  <2>. QED  BY <2>5, <2>6, <2>8 DEF Traffic
<1>6. CASE T!StopAll
  <2>1. /\ s1 = "idle" /\ s7 # "none" /\ UNCHANGED <<s3, s4, s5, s6, s8, s9, s10, s11, s12>>
        /\ \/ s7 = "active" /\ s1' = "disable" /\ s2' = First /\ s7' = s7
           \/ s7 # "active" /\ UNCHANGED <<s1, s2>> /\ s7' = "none"
    BY <1>6 DEF T!StopAll, T!Send, First
  <2>2. s5 /\ s5'
    BY <2>1 DEF Traffic, TrafficPhases
  <2>3. T!TypeOK'
    BY <1>0, <2>1 DEF T!TypeOK, T!Phases, T!Ops
  <2>4. TrafficPhases'
    BY <1>0, <2>1, <2>2, <2>3 DEF Traffic, TrafficPhases
  <2>5. TrafficPlans'
    BY <2>1 DEF Traffic, TrafficPlans, T!OnePlan
  <2>6. TrafficSends' /\ TrafficAgents'
    BY <1>0, <2>1, <2>2 DEF Traffic, TrafficSends, TrafficAgents
  <2>. QED  BY <2>4, <2>5, <2>6 DEF Traffic
<1>7. CASE T!StopEnds
  <2>1. /\ s1 = "disable" /\ s1' = "idle" /\ s2' = None /\ T!Settled
        /\ UNCHANGED <<s3, s4, s5, s6, s9, s10, s11, s12>>
        /\ \/ T!Failures = {} /\ s7' = "none" /\ s8' = 0
           \/ T!Failures # {} /\ UNCHANGED <<s7, s8>>
    BY <1>7 DEF T!StopEnds, T!Rest, None
  <2>2. s5 /\ s5' /\ s7 = "active"
    BY <2>1 DEF Traffic, TrafficPhases
  <2>3. T!TypeOK'
    BY <1>0, <2>1 DEF T!TypeOK, T!Phases, T!Ops
  <2>4. TrafficPhases'
    BY <1>0, <2>1, <2>2, <2>3 DEF Traffic, TrafficPhases
  <2>5. TrafficPlans'
    BY <2>1 DEF Traffic, TrafficPlans, T!OnePlan
  <2>6. s7' = "none" => \A c \in Senders : s2[c] = "ok"
    BY <1>1, <2>1, <2>2 DEF Traffic, TrafficPhases
  <2>7. TrafficSends' /\ TrafficAgents'
    BY <1>0, <2>1, <2>2, <2>6 DEF Traffic, TrafficSends, TrafficAgents
  <2>. QED  BY <2>4, <2>5, <2>7 DEF Traffic
<1>. QED  BY <1>2, <1>3, <1>4, <1>5, <1>6, <1>7

LEMMA TrafficFlows ==
    ASSUME Traffic, NEW k \in Senders, T!FlowsChange(k)
    PROVE  Traffic'
<1>1. /\ T!TypeOK /\ s4 \in [Senders -> T!Agents]
  BY DEF Traffic, TrafficPhases, T!TypeOK
<1>2. /\ s4' = [s4 EXCEPT ![k].ready = ~@]
      /\ UNCHANGED <<s1, s2, s3, s5, s6, s7, s8, s9, s10, s11, s12>>
  BY DEF T!FlowsChange
<1>3. /\ s4' \in [Senders -> T!Agents]
      /\ \A c \in Senders : /\ s4'[c].generation = s4[c].generation
                            /\ s4'[c].enabled = s4[c].enabled
  BY <1>1, <1>2 DEF T!Agents
<1>4. T!TypeOK'
  BY <1>1, <1>2, <1>3 DEF T!TypeOK
<1>5. TrafficPhases' /\ TrafficPlans'
  BY <1>2, <1>3, <1>4 DEF Traffic, TrafficPhases, TrafficPlans, T!OnePlan
<1>6. TrafficSends' /\ TrafficAgents'
  BY <1>2, <1>3 DEF Traffic, TrafficSends, TrafficAgents
<1>. QED  BY <1>5, <1>6 DEF Traffic

LEMMA TrafficStep ==
    ASSUME Traffic, T!Next
    PROVE  Traffic'
<1>1. s10 = {}
  BY DEF Traffic, TrafficPhases
<1>. QED
  BY <1>1, TrafficRequests, TrafficDeploys, TrafficMoves, TrafficFlows DEF T!Next

LEMMA TrafficOwned ==
    ASSUME Traffic
    PROVE  T!OnePlan /\ T!StoppedIsSilent /\ T!FailedDeployReports
<1>1. s3 \subseteq Senders /\ T!OnePlan
  BY DEF Traffic, TrafficPhases, TrafficPlans, T!TypeOK
<1>. QED
  BY <1>1 DEF Traffic, TrafficSends, TrafficAgents, T!StoppedIsSilent, T!FailedDeployReports

-----------------------------------------------------------------------------
(* Background traffic, where the agent may apply one request after the       *)
(* controller has given it up.                                              *)

\* No given-up load_plan was or will be applied.
NoLateLoad == s11 = 0 \/ \E m \in s10 : m.op # "load"

DelayedPhases ==
    /\ TL!TypeOK
    /\ s11 = 0 => s10 = {}
    /\ \A m, n \in s10 : m = n
    /\ \A m \in s10 : m.op # "status" /\ (m.op = "enable" => m.generation # 0)
    /\ s1 \in {"reset", "load", "enable", "status"} => s8 # 0
    /\ s1 = "reset" => \A c \in Clients : s2[c] \in {"first", "second", "ok", "failed"}

\* Only the plan of this generation is enabled once all old ones were reset.
\* A late load_plan can bring one old plan back, but stops its sender; without
\* it there is one plan, which is all a late enable can start.
DelayedPlans ==
    /\ TL!OneSender
    /\ NoLateLoad => TL!OnePlan
    /\ \A c \in Clients :
          /\ s4[c].enabled => s4[c].generation # 0
          /\ s1 = "reset" /\ s2[c] = "ok" =>
                ~s4[c].enabled /\ (NoLateLoad => s4[c].generation = 0)
          /\ s1 \in {"load", "enable", "status"} =>
                /\ s4[c].enabled => s4[c].generation = s8
                /\ NoLateLoad => s4[c].generation \in {0, s8}

Delayed == DelayedPhases /\ DelayedPlans

LEMMA SameAgent ==
    /\ TL!Agents = T!Agents /\ TL!Blank = T!Blank
    /\ \A a, op, g : TL!Handle(a, op, g) = T!Handle(a, op, g)
<1>1. TL!Agents = T!Agents /\ TL!Blank = T!Blank
  BY DEF TL!Agents, T!Agents, TL!Blank, T!Blank
<1>2. ASSUME NEW a, NEW op, NEW g  PROVE TL!Handle(a, op, g) = T!Handle(a, op, g)
  BY DEF TL!Handle, T!Handle, TL!Blank, T!Blank
<1>. QED  BY <1>1, <1>2

LEMMA DelayedInit ==
    ASSUME TL!Init
    PROVE  Delayed
<1>1. TL!TypeOK
  <2>1. TL!Blank \in TL!Agents /\ 0 \in 0 .. MaxGeneration
    BY LabAssumption DEF TL!Agents, TL!Blank
  <2>2. s2 \in [Clients -> TL!Calls] /\ s4 \in [Clients -> TL!Agents]
    BY <2>1 DEF TL!Init, TL!Calls
  <2>3. s1 \in TL!Phases /\ s3 \subseteq Clients /\ s6 \subseteq Clients /\ s10 = {}
    BY DEF TL!Init, TL!Phases
  <2>4. s5 \in BOOLEAN /\ s12 \in BOOLEAN /\ s7 \in {"none", "empty", "active"}
    BY DEF TL!Init
  <2>5. s8 \in 0 .. MaxGeneration /\ s9 \in 0 .. MaxGeneration /\ s11 \in 0 .. 1
    BY <2>1 DEF TL!Init
  <2>. QED  BY <2>2, <2>3, <2>4, <2>5 DEF TL!TypeOK
<1>2. \A c \in Clients : s4[c].generation = 0 /\ ~s4[c].enabled
  BY DEF TL!Init, TL!Blank
<1>. QED
  BY <1>1, <1>2 DEF TL!Init, Delayed, DelayedPhases, DelayedPlans, TL!OnePlan, TL!OneSender

\* What is loaded and enabled changes only at one client, whose new state is
\* one that a request leaves.
LEMMA DelayedAgent ==
    ASSUME Delayed, NEW k \in Clients, NEW a \in T!Agents,
           s4' = [s4 EXCEPT ![k] = a], UNCHANGED <<s1, s8>>,
           NoLateLoad' => NoLateLoad,
           \A c \in Clients : s2'[c] = "ok" => s2[c] = "ok" \/ c = k,
           s1 = "reset" /\ s2'[k] = "ok" => ~a.enabled /\ (NoLateLoad' => a.generation = 0),
           NoLateLoad' => a.generation = 0 \/ a.generation = s4[k].generation
                          \/ (s1 = "load" /\ a.generation = s8),
           a.enabled => /\ a.generation # 0
                        /\ \/ s4[k].enabled /\ a.generation = s4[k].generation
                           \/ s1 = "enable" /\ a.generation = s8
                           \/ NoLateLoad /\ a.generation = s4[k].generation
    PROVE  DelayedPlans'
<1>1. s4 \in [Clients -> T!Agents]
  BY SameAgent DEF Delayed, DelayedPhases, TL!TypeOK
<1>2. \A c \in Clients : s4'[c] = IF c = k THEN a ELSE s4[c]
  BY <1>1
<1>3. \A c \in Clients :
          /\ s4'[c].enabled => s4'[c].generation # 0
          /\ s1' = "reset" /\ s2'[c] = "ok" =>
                ~s4'[c].enabled /\ (NoLateLoad' => s4'[c].generation = 0)
          /\ s1' \in {"load", "enable", "status"} =>
                /\ s4'[c].enabled => s4'[c].generation = s8'
                /\ NoLateLoad' => s4'[c].generation \in {0, s8'}
  <2>. SUFFICES ASSUME NEW c \in Clients
                PROVE  /\ s4'[c].enabled => s4'[c].generation # 0
                       /\ s1' = "reset" /\ s2'[c] = "ok" =>
                             ~s4'[c].enabled /\ (NoLateLoad' => s4'[c].generation = 0)
                       /\ s1' \in {"load", "enable", "status"} =>
                             /\ s4'[c].enabled => s4'[c].generation = s8'
                             /\ NoLateLoad' => s4'[c].generation \in {0, s8'}
    OBVIOUS
  <2>1. CASE c # k
    BY <1>2, <2>1 DEF Delayed, DelayedPlans
  <2>2. CASE c = k
    BY <1>2, <2>2 DEF Delayed, DelayedPlans
  <2>. QED  BY <2>1, <2>2
<1>4. ASSUME NEW c \in Clients, c # k, a.enabled, s4[c].enabled
      PROVE  a.generation = s4[c].generation
  <2>1. s4[c].generation # 0
    BY <1>4 DEF Delayed, DelayedPlans
  <2>2. CASE s4[k].enabled /\ a.generation = s4[k].generation
    BY <1>4, <2>2 DEF Delayed, DelayedPlans, TL!OneSender
  <2>3. CASE s1 = "enable" /\ a.generation = s8
    BY <1>4, <2>3 DEF Delayed, DelayedPlans
  <2>4. CASE NoLateLoad /\ a.generation = s4[k].generation
    <3>1. a.generation # 0
      BY <1>4
    <3>. QED  BY <1>4, <2>1, <2>4, <3>1 DEF Delayed, DelayedPlans, TL!OnePlan
  <2>. QED  BY <1>4, <2>2, <2>3, <2>4
<1>5. TL!OneSender'
  <2>. SUFFICES ASSUME NEW c \in Clients, NEW d \in Clients, s4'[c].enabled, s4'[d].enabled
                PROVE  s4'[c].generation = s4'[d].generation
    BY DEF TL!OneSender
  <2>. QED  BY <1>2, <1>4 DEF Delayed, DelayedPlans, TL!OneSender
<1>6. ASSUME NoLateLoad'  PROVE TL!OnePlan'
  <2>. SUFFICES ASSUME NEW c \in Clients, NEW d \in Clients, s4'[c].generation # 0, s4'[d].generation # 0
                PROVE  s4'[c].generation = s4'[d].generation
    BY DEF TL!OnePlan
  <2>1. CASE s1 = "load"
    <3>1. s4'[c].generation = s8' /\ s4'[d].generation = s8'
      BY <1>3, <1>6, <2>1
    <3>. QED  BY <3>1
  <2>2. CASE s1 # "load"
    <3>1. s4[c].generation # 0 /\ s4'[c].generation = s4[c].generation
      BY <1>2, <1>6, <2>2
    <3>2. s4[d].generation # 0 /\ s4'[d].generation = s4[d].generation
      BY <1>2, <1>6, <2>2
    <3>. QED  BY <1>6, <3>1, <3>2 DEF Delayed, DelayedPlans, TL!OnePlan
  <2>. QED  BY <2>1, <2>2
<1>. QED  BY <1>3, <1>5, <1>6 DEF DelayedPlans

\* One request, answered, lost, applied with its answer lost, or given up and
\* applied later.
LEMMA DelayedRequested ==
    ASSUME Delayed, NEW k \in Clients,
           TL!Answered(k) \/ TL!AnswerLost(k) \/ TL!RequestLost(k) \/ TL!RequestLate(k)
    PROVE  \E a \in T!Agents, v \in {"second", "failed", "ok", "unready"} :
              /\ s4' = [s4 EXCEPT ![k] = a] /\ s2' = [s2 EXCEPT ![k] = v]
              /\ UNCHANGED <<s1, s3, s5, s6, s7, s8, s9, s12>>
              /\ \/ UNCHANGED <<s10, s11>>
                 \/ /\ s11 = 0 /\ s11' = 1 /\ v # "ok"
                    /\ s10' = s10 \cup {[client |-> k, op |-> TL!Op, generation |-> s8]}
              /\ s1 # "status" => v # "unready"
              /\ a.generation = 0 \/ a.generation = s4[k].generation
                 \/ (s1 = "load" /\ a.generation = s8)
              /\ a.enabled => /\ a.generation = s4[k].generation
                              /\ s4[k].enabled \/ (s1 = "enable" /\ a.generation = s8)
              /\ s1 = "reset" /\ v = "ok" => a.generation = 0 /\ ~a.enabled
              /\ TL!Op \in {"reset", "load", "enable", "status", "disable"}
              /\ v = "ok" \/ UNCHANGED s11 \/ TL!Op # "status"
              /\ TL!Op = "enable" => s1 = "enable"
<1>. DEFINE Late == /\ s11 = 0 /\ s11' = 1 /\ TL!Op # "status"
                    /\ s10' = s10 \cup {[client |-> k, op |-> TL!Op, generation |-> s8]}
            Sane(a, v) ==
              /\ s1 # "status" => v # "unready"
              /\ a.generation = 0 \/ a.generation = s4[k].generation
                 \/ (s1 = "load" /\ a.generation = s8)
              /\ a.enabled => /\ a.generation = s4[k].generation
                              /\ s4[k].enabled \/ (s1 = "enable" /\ a.generation = s8)
              /\ s1 = "reset" /\ v = "ok" => a.generation = 0 /\ ~a.enabled
<1>1. /\ s4 \in [Clients -> T!Agents] /\ s8 \in 0 .. MaxGeneration /\ s11 \in 0 .. 1
  BY SameAgent DEF Delayed, DelayedPhases, TL!TypeOK
<1>2. UNCHANGED <<s1, s3, s5, s6, s7, s8, s9, s12>>
  BY DEF TL!Answered, TL!AnswerLost, TL!RequestLost, TL!RequestLate
<1>3. /\ TL!Op \in {"reset", "load", "enable", "status", "disable"}
      /\ s1 = "reset" => TL!Op = "reset"
      /\ \A o \in {"load", "enable", "status", "disable"} : TL!Op = o <=> s1 = o
  BY DEF TL!Answered, TL!AnswerLost, TL!RequestLost, TL!RequestLate, TL!Pending, TL!Ops, TL!Op
<1>4. s4 = [s4 EXCEPT ![k] = s4[k]] /\ s4[k] \in T!Agents
  BY <1>1
<1>5. T!Blank.generation = 0 /\ ~T!Blank.enabled
  BY DEF T!Blank
<1>6. \A r \in TL!Handle(s4[k], TL!Op, s8) :
              r[1] \in T!Agents /\ r[2] \in {"ok", "failed", "unready"} /\ Sane(r[1], r[2])
              /\ Sane(r[1], "second") /\ Sane(r[1], "failed")
  <2>. SUFFICES ASSUME NEW r \in TL!Handle(s4[k], TL!Op, s8)
                PROVE  r[1] \in T!Agents /\ r[2] \in {"ok", "failed", "unready"} /\ Sane(r[1], r[2])
                       /\ Sane(r[1], "second") /\ Sane(r[1], "failed")
    OBVIOUS
  <2>1. r \in T!Handle(s4[k], TL!Op, s8)
    BY SameAgent
  <2>2. /\ r[1] \in T!Agents /\ r[2] \in {"ok", "failed", "unready"}
        /\ r[2] = "unready" => TL!Op = "status"
        /\ TL!Op = "reset" => r[1] = T!Blank
        /\ TL!Op = "load" => r[1].generation \in {0, s8} /\ ~r[1].enabled
        /\ TL!Op \in {"enable", "disable", "status"} => r[1].generation = s4[k].generation
        /\ TL!Op \in {"disable", "status"} /\ r[1].enabled => s4[k].enabled
        /\ TL!Op = "enable" /\ r[1].enabled => s4[k].enabled \/ s4[k].generation = s8
    BY <1>1, <1>3, <1>4, <2>1, Handled
  <2>. QED  BY <1>3, <1>5, <2>2
<1>7. TL!GiveUp(k) => s2' = [s2 EXCEPT ![k] = "second"] \/ s2' = [s2 EXCEPT ![k] = "failed"]
  BY DEF TL!GiveUp
<1>8. Sane(s4[k], "second") /\ Sane(s4[k], "failed")
  OBVIOUS
<1>9. \E a \in T!Agents, v \in {"second", "failed", "ok", "unready"} :
         /\ s4' = [s4 EXCEPT ![k] = a] /\ s2' = [s2 EXCEPT ![k] = v] /\ Sane(a, v)
         /\ UNCHANGED <<s10, s11>> \/ (Late /\ v # "ok")
  <2>. HIDE DEF Sane, Late
  <2>1. CASE TL!Answered(k)
    <3>1. PICK r \in TL!Handle(s4[k], TL!Op, s8) :
              s4' = [s4 EXCEPT ![k] = r[1]] /\ s2' = [s2 EXCEPT ![k] = r[2]]
      BY <2>1 DEF TL!Answered
    <3>2. UNCHANGED <<s10, s11>>
      BY <2>1 DEF TL!Answered
    <3>. QED  BY <1>6, <3>1, <3>2
  <2>2. CASE TL!AnswerLost(k)
    <3>1. PICK r \in TL!Handle(s4[k], TL!Op, s8) : s4' = [s4 EXCEPT ![k] = r[1]]
      BY <2>2 DEF TL!AnswerLost
    <3>2. UNCHANGED <<s10, s11>> /\ TL!GiveUp(k)
      BY <2>2 DEF TL!AnswerLost
    <3>. QED  BY <1>6, <1>7, <3>1, <3>2
  <2>3. CASE TL!RequestLost(k)
    <3>1. s4' = [s4 EXCEPT ![k] = s4[k]] /\ UNCHANGED <<s10, s11>> /\ TL!GiveUp(k)
      BY <1>4, <2>3 DEF TL!RequestLost
    <3>. QED  BY <1>4, <1>7, <1>8, <3>1
  <2>4. CASE TL!RequestLate(k)
    <3>1. s4' = [s4 EXCEPT ![k] = s4[k]] /\ Late /\ TL!GiveUp(k)
      BY <1>1, <1>4, <2>4 DEF TL!RequestLate, Late
    <3>. QED  BY <1>4, <1>7, <1>8, <3>1
  <2>. QED  BY <2>1, <2>2, <2>3, <2>4
<1>. QED  BY <1>2, <1>3, <1>9

LEMMA DelayedRequests ==
    ASSUME Delayed, NEW k \in Clients,
           TL!Answered(k) \/ TL!AnswerLost(k) \/ TL!RequestLost(k) \/ TL!RequestLate(k)
    PROVE  Delayed'
<1>. DEFINE m == [client |-> k, op |-> TL!Op, generation |-> s8]
<1>1. PICK a \in T!Agents, v \in {"second", "failed", "ok", "unready"} :
              /\ s4' = [s4 EXCEPT ![k] = a] /\ s2' = [s2 EXCEPT ![k] = v]
              /\ UNCHANGED <<s1, s3, s5, s6, s7, s8, s9, s12>>
              /\ \/ UNCHANGED <<s10, s11>>
                 \/ s11 = 0 /\ s11' = 1 /\ v # "ok" /\ s10' = s10 \cup {m}
              /\ s1 # "status" => v # "unready"
              /\ a.generation = 0 \/ a.generation = s4[k].generation
                 \/ (s1 = "load" /\ a.generation = s8)
              /\ a.enabled => /\ a.generation = s4[k].generation
                              /\ s4[k].enabled \/ (s1 = "enable" /\ a.generation = s8)
              /\ s1 = "reset" /\ v = "ok" => a.generation = 0 /\ ~a.enabled
              /\ TL!Op \in {"reset", "load", "enable", "status", "disable"}
              /\ v = "ok" \/ UNCHANGED s11 \/ TL!Op # "status"
              /\ TL!Op = "enable" => s1 = "enable"
  BY DelayedRequested
<1>2. /\ s4 \in [Clients -> T!Agents] /\ s2 \in [Clients -> TL!Calls] /\ TL!TypeOK
      /\ s8 \in 0 .. MaxGeneration /\ s11 \in 0 .. 1
      /\ (s11 = 0 => s10 = {}) /\ (s1 \in {"reset", "load", "enable", "status"} => s8 # 0)
  BY SameAgent DEF Delayed, DelayedPhases, TL!TypeOK
<1>3. /\ \A c \in Clients : s2'[c] = IF c = k THEN v ELSE s2[c]
      /\ s4' \in [Clients -> TL!Agents] /\ s2' \in [Clients -> TL!Calls]
  BY <1>1, <1>2, SameAgent DEF TL!Calls
<1>4. /\ m.op = TL!Op /\ m.generation = s8
      /\ m \in [client : Clients, op : TL!Ops, generation : 0 .. MaxGeneration]
  BY <1>1, <1>2 DEF TL!Ops
<1>. HIDE DEF m
<1>5. s11 # s11' => s10 = {} /\ s10' = {m} /\ s11' = 1 /\ s11 = 0
  BY <1>1, <1>2
<1>6. TL!TypeOK'
  BY <1>1, <1>2, <1>3, <1>4, <1>5 DEF TL!TypeOK
<1>7. DelayedPhases'
  BY <1>1, <1>2, <1>3, <1>4, <1>5, <1>6 DEF Delayed, DelayedPhases
<1>8. DelayedPlans'
  <2>1. NoLateLoad' => NoLateLoad
    BY <1>1 DEF NoLateLoad
  <2>2. a.enabled => a.generation # 0
    BY <1>1, <1>2 DEF Delayed, DelayedPlans
  <2>. QED  BY <1>1, <1>3, <2>1, <2>2, DelayedAgent
<1>. QED  BY <1>7, <1>8 DEF Delayed

LEMMA DelayedApplies ==
    ASSUME Delayed, NEW m \in s10, TL!ApplyLate(m)
    PROVE  Delayed'
<1>1. /\ s4 \in [Clients -> T!Agents] /\ TL!TypeOK /\ m.client \in Clients
      /\ m.op \in {"reset", "load", "enable", "status", "disable"}
      /\ m.generation \in 0 .. MaxGeneration /\ (m.op = "enable" => m.generation # 0)
  BY SameAgent DEF Delayed, DelayedPhases, TL!TypeOK, TL!Ops
<1>2. /\ s10' = s10 \ {m}
      /\ UNCHANGED <<s1, s2, s3, s5, s6, s7, s8, s9, s11, s12>>
  BY DEF TL!ApplyLate
<1>3. PICK r \in TL!Handle(s4[m.client], m.op, m.generation) : s4' = [s4 EXCEPT ![m.client] = r[1]]
  BY DEF TL!ApplyLate
<1>. DEFINE k == m.client
            a == r[1]
<1>4. /\ a \in T!Agents
      /\ m.op = "reset" => a = T!Blank
      /\ m.op = "load" => a.generation \in {0, m.generation} /\ ~a.enabled
      /\ m.op \in {"enable", "disable", "status"} => a.generation = s4[k].generation
      /\ m.op \in {"disable", "status"} /\ a.enabled => s4[k].enabled
      /\ m.op = "enable" /\ a.enabled => s4[k].enabled \/ s4[k].generation = m.generation
  <2>1. s4[k] \in T!Agents /\ r \in T!Handle(s4[k], m.op, m.generation)
    BY <1>1, SameAgent
  <2>. QED  BY <1>1, <2>1, Handled
<1>5. T!Blank.generation = 0 /\ ~T!Blank.enabled
  BY DEF T!Blank
<1>6. s10' = {} /\ ~NoLateLoad' /\ (m.op # "load" => NoLateLoad)
  BY <1>2 DEF Delayed, DelayedPhases, NoLateLoad
<1>. HIDE DEF k, a
<1>7. a.enabled => /\ a.generation # 0 /\ a.generation = s4[k].generation
                   /\ s4[k].enabled \/ (NoLateLoad /\ m.op = "enable" /\ s4[k].generation = m.generation)
  BY <1>1, <1>4, <1>5, <1>6 DEF Delayed, DelayedPlans, k
<1>8. TL!TypeOK'
  BY <1>1, <1>2, <1>3, <1>4, <1>6, SameAgent DEF TL!TypeOK, a
<1>9. DelayedPhases'
  BY <1>2, <1>6, <1>8 DEF Delayed, DelayedPhases
<1>10. s1 = "reset" /\ s2[k] = "ok" => ~a.enabled
  BY <1>1, <1>7 DEF Delayed, DelayedPlans, k
<1>11. DelayedPlans'
  BY <1>1, <1>2, <1>3, <1>4, <1>6, <1>7, <1>10, DelayedAgent DEF k, a
<1>. QED  BY <1>9, <1>11 DEF Delayed

\* Every other step leaves what is loaded and enabled alone, or clears it.
LEMMA DelayedKeeps ==
    ASSUME Delayed, UNCHANGED <<s10, s11>>, TL!TypeOK',
           \A c \in Clients :
              /\ s4'[c] = s4[c] \/ s4'[c] = T!Blank
              /\ s1' = "reset" => s2'[c] = "first",
           s1' \in {"reset", "load", "enable", "status"} => s8' # 0,
           s1' = "load" => s1 = "reset" /\ \A c \in Clients : s2[c] = "ok",
           s1' \in {"enable", "status"} => s1 \in {"load", "enable", "status"} /\ s8' = s8
    PROVE  Delayed'
<1>1. NoLateLoad' => NoLateLoad
  BY DEF NoLateLoad
<1>2. DelayedPhases'
  BY DEF Delayed, DelayedPhases
<1>0. T!Blank.generation = 0 /\ ~T!Blank.enabled
  BY DEF T!Blank
<1>3. TL!OneSender' /\ (NoLateLoad' => TL!OnePlan')
  BY <1>0, <1>1 DEF Delayed, DelayedPlans, TL!OneSender, TL!OnePlan
<1>4. DelayedPlans'
  BY <1>0, <1>1, <1>3 DEF Delayed, DelayedPlans
<1>. QED  BY <1>2, <1>4 DEF Delayed

LEMMA DelayedMoves ==
    ASSUME Delayed, \/ TL!Deploy \/ TL!DeployEnds \/ TL!UndeployEnds
                    \/ TL!StartMatrix \/ TL!PhaseEnds \/ TL!StatusEnds \/ TL!RollbackEnds
                    \/ TL!StopAll \/ TL!StopEnds
    PROVE  Delayed'
<1>. DEFINE First == [c \in Clients |-> "first"]
            None == [c \in Clients |-> "none"]
<1>0. /\ TL!TypeOK /\ s8 \in 0 .. MaxGeneration /\ s9 \in 0 .. MaxGeneration
      /\ First \in [Clients -> TL!Calls] /\ None \in [Clients -> TL!Calls]
      /\ \A c \in Clients : First[c] = "first"
      /\ 0 \in 0 .. MaxGeneration
  BY LabAssumption DEF Delayed, DelayedPhases, TL!TypeOK, TL!Calls
<1>. HIDE DEF First, None
<1>1. CASE TL!Deploy \/ TL!DeployEnds \/ TL!UndeployEnds
  <2>1. /\ s1' \in {"deploy", "undeploy", "idle"} /\ s2' \in [Clients -> TL!Calls]
        /\ s5' \in BOOLEAN
        /\ UNCHANGED <<s3, s4, s6, s7, s8, s9, s10, s11, s12>>
    <3>1. CASE TL!Deploy
      BY <1>0, <3>1 DEF TL!Deploy, TL!Calls, TL!TypeOK
    <3>2. CASE TL!DeployEnds
      <4>1. \/ s2' = [c \in Clients |-> "none"]
            \/ s2' = [c \in Clients |-> IF c \in TL!Scheduled THEN "first" ELSE "none"]
        BY <3>2 DEF TL!DeployEnds, TL!Rest
      <4>2. s2' \in [Clients -> TL!Calls]
        BY <4>1 DEF TL!Calls
      <4>3. /\ s1' \in {"undeploy", "idle"} /\ s5' \in BOOLEAN
            /\ UNCHANGED <<s3, s4, s6, s7, s8, s9, s10, s11, s12>>
        BY <1>0, <3>2 DEF TL!DeployEnds, TL!Rest, TL!TypeOK
      <4>. QED  BY <4>2, <4>3
    <3>3. CASE TL!UndeployEnds
      BY <1>0, <3>3 DEF TL!UndeployEnds, TL!Rest, TL!Calls, TL!TypeOK
    <3>. QED  BY <1>1, <3>1, <3>2, <3>3
  <2>2. TL!TypeOK'
    BY <1>0, <2>1 DEF TL!TypeOK, TL!Phases
  <2>. QED  BY <2>1, <2>2, DelayedKeeps
<1>2. CASE TL!StartMatrix
  <2>1. /\ s7' = "empty" /\ s9 < MaxGeneration /\ s8' = s9 + 1 /\ s9' = s9 + 1
        /\ s1' = "reset" /\ s2' = First
        /\ UNCHANGED <<s3, s4, s5, s6, s10, s11, s12>>
    BY <1>2 DEF TL!StartMatrix, TL!Send, First
  <2>2. s8' \in 0 .. MaxGeneration /\ s8' # 0
    BY <1>0, <2>1, LabAssumption
  <2>3. TL!TypeOK'
    BY <1>0, <2>1, <2>2 DEF TL!TypeOK, TL!Phases, TL!Ops
  <2>. QED  BY <1>0, <2>1, <2>2, <2>3, DelayedKeeps
<1>3. CASE TL!PhaseEnds
  <2>1. /\ s1 \in {"reset", "load", "enable"} /\ TL!Settled /\ s2' = First
        /\ \/ s1' = "rollback"
           \/ TL!Failures = {} /\ s1 = "reset" /\ s1' = "load"
           \/ TL!Failures = {} /\ s1 = "load" /\ s1' = "enable"
           \/ TL!Failures = {} /\ s1 = "enable" /\ s1' = "status"
        /\ UNCHANGED <<s3, s4, s5, s6, s7, s8, s9, s10, s11, s12>>
    BY <1>3 DEF TL!PhaseEnds, TL!Send, TL!NextPhase, First
  <2>2. s1' = "load" => s1 = "reset" /\ \A c \in Clients : s2[c] = "ok"
    BY <2>1 DEF Delayed, DelayedPhases, TL!Failures, TL!Settled
  <2>3. TL!TypeOK'
    BY <1>0, <2>1 DEF TL!TypeOK, TL!Phases, TL!Ops
  <2>4. s8 # 0
    BY <2>1 DEF Delayed, DelayedPhases
  <2>. QED  BY <1>0, <2>1, <2>2, <2>3, <2>4, DelayedKeeps
<1>4. CASE TL!StatusEnds
  <2>1. /\ s1 = "status" /\ UNCHANGED <<s3, s4, s5, s6, s8, s9, s10, s11>>
        /\ \/ s1' = "idle" /\ s2' = None /\ s7' = "active" /\ s12' = FALSE
           \/ s1' \in {"status", "rollback"} /\ s2' = First /\ UNCHANGED <<s7, s12>>
    BY <1>4 DEF TL!StatusEnds, TL!Rest, TL!Send, First, None
  <2>2. TL!TypeOK'
    BY <1>0, <2>1 DEF TL!TypeOK, TL!Phases, TL!Ops
  <2>3. s8 # 0
    BY <2>1 DEF Delayed, DelayedPhases
  <2>. QED  BY <1>0, <2>1, <2>2, <2>3, DelayedKeeps
<1>5. CASE TL!RollbackEnds
  <2>1. /\ s1' = "idle" /\ s2' = None /\ s8' = 0 /\ s12' \in BOOLEAN
        /\ UNCHANGED <<s3, s4, s5, s6, s7, s9, s10, s11>>
    BY <1>5 DEF TL!RollbackEnds, TL!Rest, None
  <2>2. TL!TypeOK'
    BY <1>0, <2>1 DEF TL!TypeOK, TL!Phases
  <2>. QED  BY <2>1, <2>2, DelayedKeeps
<1>6. CASE TL!StopAll \/ TL!StopEnds
  <2>1. /\ s1' \in {"idle", "disable"} /\ s2' \in {First, None, s2}
        /\ s7' \in {s7, "none"} /\ s8' \in {0, s8}
        /\ UNCHANGED <<s3, s4, s5, s6, s9, s10, s11, s12>>
    BY <1>6 DEF TL!StopAll, TL!StopEnds, TL!Send, TL!Rest, First, None
  <2>2. TL!TypeOK'
    BY <1>0, <2>1 DEF TL!TypeOK, TL!Phases, TL!Ops
  <2>. QED  BY <2>1, <2>2, DelayedKeeps
<1>. QED  BY <1>1, <1>2, <1>3, <1>4, <1>5, <1>6

LEMMA DelayedClients ==
    ASSUME Delayed, NEW k \in Clients,
           TL!StartClient(k) \/ TL!StopClient(k) \/ TL!FlowsChange(k)
    PROVE  Delayed'
<1>0. /\ TL!TypeOK /\ s4 \in [Clients -> T!Agents] /\ s2 \in [Clients -> TL!Calls]
      /\ T!Blank \in T!Agents /\ T!Blank.generation = 0 /\ ~T!Blank.enabled
  BY LabAssumption, SameAgent DEF Delayed, DelayedPhases, TL!TypeOK, T!Agents, T!Blank
<1>1. CASE TL!StartClient(k)
  <2>1. /\ s1 = "deploy" /\ s4' = [s4 EXCEPT ![k] = T!Blank] /\ s6' = s6 \ {k}
        /\ s2' = [s2 EXCEPT ![k] = "ok"] \/ s2' = [s2 EXCEPT ![k] = "second"]
        /\ s3' \subseteq s3 \cup {k}
        /\ UNCHANGED <<s1, s5, s7, s8, s9, s10, s11, s12>>
    BY <1>1, SameAgent DEF TL!StartClient
  <2>2. s4' \in [Clients -> T!Agents] /\ s2' \in [Clients -> TL!Calls]
    BY <1>0, <2>1 DEF TL!Calls
  <2>3. TL!TypeOK'
    BY <1>0, <2>1, <2>2, SameAgent DEF TL!TypeOK
  <2>4. \A c \in Clients : s4'[c] = IF c = k THEN T!Blank ELSE s4[c]
    BY <1>0, <2>1
  <2>. QED  BY <1>0, <2>1, <2>3, <2>4, DelayedKeeps
<1>2. CASE TL!StopClient(k)
  <2>1. /\ s1 = "undeploy" /\ s2' = [s2 EXCEPT ![k] = "ok"]
        /\ s3' \subseteq s3 /\ s6' \subseteq s6 \cup {k}
        /\ UNCHANGED <<s1, s4, s5, s7, s8, s9, s10, s11, s12>>
    BY <1>2 DEF TL!StopClient
  <2>2. s2' \in [Clients -> TL!Calls]
    BY <1>0, <2>1 DEF TL!Calls
  <2>3. TL!TypeOK'
    BY <1>0, <2>1, <2>2 DEF TL!TypeOK
  <2>. QED  BY <2>1, <2>3, DelayedKeeps
<1>3. CASE TL!FlowsChange(k)
  <2>1. /\ s4' = [s4 EXCEPT ![k].ready = ~@]
        /\ UNCHANGED <<s1, s2, s3, s5, s6, s7, s8, s9, s10, s11, s12>>
    BY <1>3 DEF TL!FlowsChange
  <2>. DEFINE a == [s4[k] EXCEPT !.ready = ~@]
  <2>2. /\ a \in T!Agents /\ a.generation = s4[k].generation /\ a.enabled = s4[k].enabled
        /\ s4' = [s4 EXCEPT ![k] = a]
    BY <1>0, <2>1 DEF T!Agents
  <2>. HIDE DEF a
  <2>3. s4' \in [Clients -> T!Agents]
    BY <1>0, <2>2
  <2>4. TL!TypeOK'
    BY <1>0, <2>1, <2>3, SameAgent DEF TL!TypeOK
  <2>5. DelayedPhases'
    BY <2>1, <2>4 DEF Delayed, DelayedPhases
  <2>6. a.enabled => a.generation # 0 /\ s4[k].enabled
    BY <2>2 DEF Delayed, DelayedPlans
  <2>7. NoLateLoad' => NoLateLoad
    BY <2>1 DEF NoLateLoad
  <2>8. s1 = "reset" /\ s2'[k] = "ok" => ~a.enabled /\ (NoLateLoad' => a.generation = 0)
    BY <2>1, <2>2, <2>7 DEF Delayed, DelayedPlans
  <2>9. DelayedPlans'
    BY <2>1, <2>2, <2>6, <2>7, <2>8, DelayedAgent
  <2>. QED  BY <2>5, <2>9 DEF Delayed
<1>. QED  BY <1>1, <1>2, <1>3

LEMMA DelayedStep ==
    ASSUME Delayed, TL!Next
    PROVE  Delayed'
BY DelayedRequests, DelayedApplies, DelayedMoves, DelayedClients DEF TL!Next

-----------------------------------------------------------------------------
(* Faults of a link (LinkFaults, handlers/link.py, services/periodic.py,     *)
(* injector.py).  What a command does to the link and how a call walks over  *)
(* its ends does not depend on the number of faults, which is n below.       *)

Links == {"target", "peer"}

\* What a walk has left to do, or has done.
Empty == <<>>
First == <<"target">>
Second == <<"peer">>
Both == <<"target", "peer">>
Back == <<"peer", "target">>

LEMMA Lefts ==
    /\ Empty # First /\ Empty # Second /\ Empty # Both /\ Empty # Back
    /\ First # Second /\ First # Both /\ First # Back /\ Second # Both /\ Second # Back /\ Both # Back
BY DEF Empty, First, Second, Both, Back

LEMMA Walked ==
    /\ Head(First) = "target" /\ Head(Second) = "peer" /\ Head(Both) = "target" /\ Head(Back) = "peer"
    /\ Tail(First) = Empty /\ Tail(Second) = Empty /\ Tail(Both) = Second /\ Tail(Back) = First
    /\ Append(Empty, "target") = First /\ Append(First, "peer") = Both
    /\ L!LastFirst(First) = First /\ L!LastFirst(Both) = Back
    /\ L!Endpoints = Both /\ L!Idle.left = Empty
<1>1. /\ Head(First) = "target" /\ Head(Second) = "peer" /\ Head(Both) = "target" /\ Head(Back) = "peer"
  BY DEF First, Second, Both, Back
<1>2. Tail(First) = Empty /\ Tail(Second) = Empty
  BY DEF First, Second, Empty
<1>3. Tail(Both) = Second /\ Tail(Back) = First
  BY DEF First, Second, Both, Back
<1>4. Append(Empty, "target") = First
  BY DEF First, Empty
<1>5. Append(First, "peer") = Both
  <2>1. First \in Seq(Links) /\ Both \in Seq(Links) /\ Len(First) = 1 /\ Len(Both) = 2
        /\ First[1] = "target" /\ Both[1] = "target" /\ Both[2] = "peer"
    BY DEF First, Both, Links
  <2>. DEFINE s == Append(First, "peer")
  <2>5. "peer" \in Links /\ First \in Seq(Links)
    BY <2>1 DEF Links
  <2>6. /\ s \in Seq(Links) /\ Len(s) = Len(First) + 1 /\ s[Len(First) + 1] = "peer"
        /\ \A i \in 1 .. Len(First) : s[i] = First[i]
    BY <2>5, AppendProperties
  <2>2. s \in Seq(Links) /\ Len(s) = 2 /\ s[1] = "target" /\ s[2] = "peer"
    BY <2>1, <2>6
  <2>. HIDE DEF s
  <2>3. \A i \in 1 .. Len(s) : s[i] = Both[i]
    BY <2>1, <2>2
  <2>4. s = Both
    BY <2>1, <2>2, <2>3, SeqEqual
  <2>. QED  BY <2>4 DEF s
<1>6. L!LastFirst(First) = First
  BY DEF L!LastFirst, First
<1>7. L!LastFirst(Both) = Back
  BY DEF L!LastFirst, Both, Back
<1>8. L!Endpoints = Both /\ L!Idle.left = Empty
  BY DEF L!Endpoints, Both, L!Idle, Empty
<1>. QED  BY <1>1, <1>2, <1>3, <1>4, <1>5, <1>6, <1>7, <1>8

LEMMA EndsLeft ==
    /\ L!Range(Empty) = {} /\ L!Range(First) = {"target"} /\ L!Range(Second) = {"peer"}
    /\ L!Range(Both) = Links /\ L!Range(Back) = Links
BY DEF L!Range, Empty, First, Second, Both, Back, Links

\* A call of _set_physical_link(), with any route snapshot.
IsJob(j) ==
    /\ j = [phase |-> j.phase, enabled |-> j.enabled, left |-> j.left, attempted |-> j.attempted,
            errors |-> j.errors, residual |-> j.residual, snapshot |-> j.snapshot]
    /\ j.phase \in {"idle", "set", "routes", "compensate", "comp_routes"}
    /\ j.enabled \in BOOLEAN /\ j.errors \in BOOLEAN /\ j.residual \in BOOLEAN

\* Its walk over the ends: down until the first error, then up again those it
\* attempted, the last one first; or up, over all errors.
Walk(j) ==
    /\ IsJob(j)
    /\ j.phase \in {"set", "routes"} /\ (j.enabled \/ ~j.errors) =>
          \/ j.left = Both /\ j.attempted = Empty
          \/ j.left = Second /\ j.attempted = First
          \/ j.left = Empty /\ j.attempted = Both
    /\ j.phase = "set" /\ ~j.enabled /\ j.errors => j.left = Empty
    /\ j.phase = "routes" => j.enabled /\ j.left # Empty
    /\ j.phase \in {"compensate", "comp_routes"} =>
          ~j.enabled /\ j.errors /\ j.left \in {First, Back, Empty}
    /\ j.phase = "comp_routes" => j.left # Empty

LEMMA NextEnd ==
    ASSUME NEW j, Walk(j), j.phase # "idle", j.left # Empty
    PROVE  /\ Head(j.left) \in Links
           /\ L!Range(j.left) = {Head(j.left)} \cup L!Range(Tail(j.left))
           /\ Head(j.left) \notin L!Range(Tail(j.left)) /\ L!Range(j.left) \subseteq Links
           /\ j.phase = "set" /\ ~j.enabled => L!Range(L!LastFirst(Append(j.attempted, Head(j.left)))) =
                                                 Links \ L!Range(Tail(j.left))
<1>1. j.left \in {First, Second, Both, Back}
  BY DEF Walk, IsJob
<1>2. CASE j.left = First
  BY <1>2, Lefts, Walked, EndsLeft DEF Walk, Links
<1>3. CASE j.left = Second
  BY <1>3, Lefts, Walked, EndsLeft DEF Walk, Links
<1>4. CASE j.left = Both
  BY <1>4, Lefts, Walked, EndsLeft DEF Walk, Links
<1>5. CASE j.left = Back
  BY <1>5, Lefts, Walked, EndsLeft DEF Walk, Links
<1>. QED  BY <1>1, <1>2, <1>3, <1>4, <1>5

\* One end is done.
LEMMA AfterEnd ==
    ASSUME NEW j, Walk(j), j.phase \in {"set", "compensate"}, j.left # Empty, NEW ok \in BOOLEAN
    PROVE  LET r == L!After(j, Head(j.left), ok)
           IN  /\ Walk(r) /\ (r.enabled <=> j.enabled) /\ r.snapshot = j.snapshot
               /\ r.phase \in {"set", "compensate"}
               /\ j.phase = "compensate" => /\ r.phase = "compensate" /\ r.left = Tail(j.left)
                                            /\ (r.residual <=> j.residual \/ ~ok)
                                            /\ r.errors
               /\ j.phase = "set" /\ (j.enabled \/ ok) =>
                     /\ r.phase = "set" /\ r.left = Tail(j.left) /\ (r.errors <=> j.errors \/ ~ok)
               /\ j.phase = "set" /\ ~j.enabled =>
                     /\ ~j.errors
                     /\ ~ok => /\ r.phase = "compensate" /\ r.errors
                               /\ r.left = L!LastFirst(Append(j.attempted, Head(j.left)))
<1>. DEFINE e == Head(j.left)
            r == L!After(j, e, ok)
<1>1. IsJob(j)
  BY DEF Walk
<1>2. CASE j.phase = "compensate"
  <2>1. r = [j EXCEPT !.left = Tail(@), !.residual = @ \/ ~ok]
    BY <1>2 DEF L!After
  <2>2. /\ r.phase = "compensate" /\ r.left = Tail(j.left) /\ (r.residual <=> j.residual \/ ~ok)
        /\ (r.enabled <=> j.enabled) /\ (r.errors <=> j.errors) /\ r.snapshot = j.snapshot /\ IsJob(r)
    BY <1>1, <1>2, <2>1 DEF IsJob
  <2>3. Tail(j.left) \in {First, Empty}
    BY <1>2, Walked DEF Walk
  <2>. HIDE DEF e, r
  <2>4. Walk(r)
    BY <1>2, <2>2, <2>3 DEF Walk
  <2>. QED  BY <1>2, <2>2, <2>4 DEF e, r, Walk
<1>3. CASE j.phase = "set" /\ ~ok /\ ~j.enabled
  <2>1. r = [j EXCEPT !.errors = TRUE, !.phase = "compensate", !.left = L!LastFirst(Append(j.attempted, e))]
    BY <1>3 DEF L!After, L!Compensation
  <2>2. /\ r.phase = "compensate" /\ r.left = L!LastFirst(Append(j.attempted, e)) /\ r.errors
        /\ (r.enabled <=> j.enabled) /\ r.snapshot = j.snapshot /\ IsJob(r)
    BY <1>1, <1>3, <2>1 DEF IsJob
  <2>3. ~j.errors
    BY <1>3 DEF Walk
  <2>4. r.left \in {First, Back}
    <3>1. (j.left = Both /\ j.attempted = Empty) \/ (j.left = Second /\ j.attempted = First)
      BY <1>3, <2>3 DEF Walk
    <3>2. r.left = L!LastFirst(Append(j.attempted, Head(j.left)))
      BY <2>2
    <3>. QED  BY <3>1, <3>2, Walked
  <2>. HIDE DEF r
  <2>5. Walk(r)
    BY <1>3, <2>2, <2>4 DEF Walk
  <2>. QED  BY <1>3, <2>2, <2>3, <2>5 DEF r
<1>4. CASE j.phase = "set" /\ (ok \/ j.enabled)
  <2>1. r = [j EXCEPT !.left = Tail(@), !.attempted = Append(@, e), !.errors = @ \/ ~ok]
    BY <1>4 DEF L!After
  <2>2. /\ r.phase = "set" /\ r.left = Tail(j.left) /\ r.attempted = Append(j.attempted, e)
        /\ (r.errors <=> j.errors \/ ~ok)
        /\ (r.enabled <=> j.enabled) /\ r.snapshot = j.snapshot /\ IsJob(r)
    BY <1>1, <1>4, <2>1 DEF IsJob
  <2>3. ~j.enabled => ~j.errors
    BY <1>4 DEF Walk
  <2>. HIDE DEF r
  <2>4. (r.left = Second /\ r.attempted = First) \/ (r.left = Empty /\ r.attempted = Both)
    <3>1. (j.left = Both /\ j.attempted = Empty) \/ (j.left = Second /\ j.attempted = First)
      BY <1>4, <2>3 DEF Walk
    <3>. QED  BY <2>2, <3>1, Walked DEF e
  <2>5. Walk(r)
    BY <1>4, <2>2, <2>3, <2>4 DEF Walk
  <2>. QED  BY <1>4, <2>2, <2>3, <2>5 DEF r
<1>. QED  BY <1>2, <1>3, <1>4

\* Of the ends (up) and of the routes (back) that a shutdown has not come to
\* yet, or has brought back; and that a restoration has brought back.
Lowered(j, up) ==
    /\ ~j.errors => L!Range(j.left) \subseteq up
    /\ j.errors /\ ~j.residual => Links \ L!Range(j.left) \subseteq up
    /\ j.phase = "comp_routes" /\ ~j.residual => Head(j.left) \in up

Raised(j, up) ==
    ~j.errors => /\ Links \ L!Range(j.left) \subseteq up
                 /\ j.phase = "routes" => Head(j.left) \in up

Kept(j, back) ==
    /\ ~j.errors => j.snapshot \cap L!Range(j.left) \subseteq back
    /\ j.errors /\ ~j.residual => (j.snapshot \cap Links) \ L!Range(j.left) \subseteq back

Regained(j, back) == ~j.errors => (j.snapshot \cap Links) \ L!Range(j.left) \subseteq back

StepsTo(j, r) ==
    /\ Walk(r) /\ j.phase # "idle" /\ r.phase # "idle"
    /\ (r.enabled <=> j.enabled) /\ r.snapshot = j.snapshot
    /\ s1 \subseteq Links => s1' \subseteq Links
    /\ s2 \subseteq Links => s2' \subseteq Links
    /\ j.enabled => /\ s2 \subseteq s2'
                    /\ Raised(j, s1) => Raised(r, s1')
                    /\ Regained(j, s2) => Regained(r, s2')
    /\ ~j.enabled => /\ Lowered(j, s1) => Lowered(r, s1')
                     /\ Kept(j, s2) => Kept(r, s2')

\* An end is taken down or brought up.
LEMMA AdminSet ==
    ASSUME NEW p, Walk(s3[p]), L!SetAdmin(p)
    PROVE  \E r : s3' = [s3 EXCEPT ![p] = r] /\ StepsTo(s3[p], r) /\ UNCHANGED <<s4, s5, s6, s7, s8>>
<1>. DEFINE j == s3[p]
            e == Head(j.left)
            on == j.enabled \/ j.phase = "compensate"
            next == [j EXCEPT !.phase = IF @ = "set" THEN "routes" ELSE "comp_routes"]
<1>1. /\ j.phase \in {"set", "compensate"} /\ j.left # Empty /\ UNCHANGED <<s4, s5, s6, s7, s8>>
      /\ \/ L!Effect(e, on) /\ on /\ e \in j.snapshot /\ s3' = [s3 EXCEPT ![p] = next]
         \/ L!Effect(e, on) /\ ~(on /\ e \in j.snapshot) /\ s3' = [s3 EXCEPT ![p] = L!After(j, e, TRUE)]
         \/ (L!Effect(e, on) \/ UNCHANGED <<s1, s2>>) /\ s3' = [s3 EXCEPT ![p] = L!After(j, e, FALSE)]
  BY DEF L!SetAdmin, Empty
<1>2. /\ e \in Links /\ L!Range(j.left) = {e} \cup L!Range(Tail(j.left))
      /\ e \notin L!Range(Tail(j.left)) /\ L!Range(j.left) \subseteq Links
      /\ j.phase = "set" /\ ~j.enabled => L!Range(L!LastFirst(Append(j.attempted, e))) =
                                            Links \ L!Range(Tail(j.left))
  BY <1>1, NextEnd
<1>3. /\ L!Effect(e, on) /\ on => s1' = s1 \cup {e} /\ s2' = s2
      /\ L!Effect(e, on) /\ ~on => s1' = s1 \ {e} /\ s2' = s2 \ {e}
  BY DEF L!Effect
<1>4. CASE L!Effect(e, on) /\ on /\ e \in j.snapshot /\ s3' = [s3 EXCEPT ![p] = next]
  <2>1. /\ next.phase = IF j.phase = "set" THEN "routes" ELSE "comp_routes"
        /\ next.left = j.left /\ next.attempted = j.attempted /\ next.snapshot = j.snapshot
        /\ (next.enabled <=> j.enabled) /\ (next.errors <=> j.errors) /\ (next.residual <=> j.residual)
        /\ IsJob(next)
    BY <1>1 DEF Walk, IsJob
  <2>. HIDE DEF next, j, e
  <2>2. Walk(next)
    BY <1>1, <1>4, <2>1 DEF Walk, j
  <2>3. StepsTo(j, next)
    BY <1>1, <1>2, <1>3, <1>4, <2>1, <2>2 DEF StepsTo, Raised, Lowered, Kept, Regained, e
  <2>. QED  BY <1>1, <1>4, <2>3 DEF j
<1>5. CASE L!Effect(e, on) /\ ~(on /\ e \in j.snapshot) /\ s3' = [s3 EXCEPT ![p] = L!After(j, e, TRUE)]
  <2>. DEFINE r == L!After(j, e, TRUE)
  <2>1. /\ Walk(r) /\ (r.enabled <=> j.enabled) /\ r.snapshot = j.snapshot
        /\ r.phase \in {"set", "compensate"}
        /\ j.phase = "compensate" => /\ r.phase = "compensate" /\ r.left = Tail(j.left)
                                     /\ (r.residual <=> j.residual) /\ r.errors
        /\ j.phase = "set" => /\ r.phase = "set" /\ r.left = Tail(j.left) /\ (r.errors <=> j.errors)
                              /\ ~j.enabled => ~j.errors
        /\ j.phase = "compensate" => j.errors /\ ~j.enabled
    BY <1>1, AfterEnd DEF Walk
  <2>. HIDE DEF r, j, e
  <2>2. StepsTo(j, r)
    BY <1>1, <1>2, <1>3, <1>5, <2>1 DEF StepsTo, Raised, Lowered, Kept, Regained, on
  <2>. QED  BY <1>1, <1>5, <2>2 DEF j, r
<1>6. CASE (L!Effect(e, on) \/ UNCHANGED <<s1, s2>>) /\ s3' = [s3 EXCEPT ![p] = L!After(j, e, FALSE)]
  <2>. DEFINE r == L!After(j, e, FALSE)
  <2>1. /\ Walk(r) /\ (r.enabled <=> j.enabled) /\ r.snapshot = j.snapshot
        /\ r.phase \in {"set", "compensate"}
        /\ j.phase = "compensate" => r.phase = "compensate" /\ r.residual /\ r.errors
        /\ j.phase = "set" /\ j.enabled => r.phase = "set" /\ r.left = Tail(j.left) /\ r.errors
        /\ j.phase = "set" /\ ~j.enabled =>
              /\ ~j.errors /\ r.phase = "compensate" /\ r.errors
              /\ r.left = L!LastFirst(Append(j.attempted, e))
        /\ j.phase = "compensate" => j.errors /\ ~j.enabled
    BY <1>1, AfterEnd DEF Walk
  <2>. HIDE DEF r, j, e
  <2>2. StepsTo(j, r)
    BY <1>1, <1>2, <1>3, <1>6, <2>1 DEF StepsTo, Raised, Lowered, Kept, Regained, on
  <2>. QED  BY <1>1, <1>6, <2>2 DEF j, r
<1>. QED  BY <1>1, <1>4, <1>5, <1>6

\* The routes of an end that was brought up are put back.
LEMMA RoutesRestored ==
    ASSUME NEW p, Walk(s3[p]), L!RestoreRoutes(p)
    PROVE  \E r : s3' = [s3 EXCEPT ![p] = r] /\ StepsTo(s3[p], r) /\ UNCHANGED <<s4, s5, s6, s7, s8>>
<1>. DEFINE j == s3[p]
            e == Head(j.left)
            before == [j EXCEPT !.phase = IF @ = "routes" THEN "set" ELSE "compensate"]
<1>1. /\ j.phase \in {"routes", "comp_routes"} /\ UNCHANGED <<s1, s4, s5, s6, s7, s8>>
      /\ \/ e \in s1 /\ s2' = s2 \cup {e} /\ s3' = [s3 EXCEPT ![p] = L!After(before, e, TRUE)]
         \/ s2' \in {s2, s2 \cup {e}} /\ s3' = [s3 EXCEPT ![p] = L!After(before, e, FALSE)]
  BY DEF L!RestoreRoutes
<1>2. j.left # Empty /\ IsJob(j)
  BY <1>1 DEF Walk
<1>3. /\ e \in Links /\ L!Range(j.left) = {e} \cup L!Range(Tail(j.left))
      /\ e \notin L!Range(Tail(j.left)) /\ L!Range(j.left) \subseteq Links
  BY <1>1, <1>2, NextEnd
<1>4. /\ before.phase = IF j.phase = "routes" THEN "set" ELSE "compensate"
      /\ before.left = j.left /\ before.attempted = j.attempted /\ before.snapshot = j.snapshot
      /\ (before.enabled <=> j.enabled) /\ (before.errors <=> j.errors)
      /\ (before.residual <=> j.residual) /\ IsJob(before)
  BY <1>1, <1>2 DEF IsJob
<1>. HIDE DEF before, j, e
<1>5. Walk(before)
  BY <1>1, <1>2, <1>4 DEF Walk, j
<1>6. ASSUME NEW ok \in BOOLEAN, s3' = [s3 EXCEPT ![p] = L!After(before, e, ok)],
             ok => e \in s1 /\ s2' = s2 \cup {e}, s2' \in {s2, s2 \cup {e}}
      PROVE  StepsTo(j, L!After(before, e, ok))
  <2>. DEFINE r == L!After(before, e, ok)
  <2>1. /\ before.phase \in {"set", "compensate"} /\ before.left # Empty /\ e = Head(before.left)
        /\ before.phase = "set" <=> j.phase = "routes"
        /\ before.phase = "compensate" <=> j.phase = "comp_routes"
    BY <1>1, <1>2, <1>4 DEF e
  <2>2. /\ Walk(r) /\ (r.enabled <=> before.enabled) /\ r.snapshot = before.snapshot
        /\ r.phase \in {"set", "compensate"}
        /\ before.phase = "compensate" => /\ r.phase = "compensate" /\ r.left = Tail(before.left)
                                          /\ (r.residual <=> before.residual \/ ~ok) /\ r.errors
        /\ before.phase = "set" /\ (before.enabled \/ ok) =>
              r.phase = "set" /\ r.left = Tail(before.left) /\ (r.errors <=> before.errors \/ ~ok)
    BY <1>5, <2>1, AfterEnd
  <2>3. /\ j.phase = "comp_routes" => j.errors /\ ~j.enabled
        /\ j.phase = "routes" => j.enabled
    BY DEF Walk, j
  <2>. HIDE DEF r
  <2>4. StepsTo(j, r)
    BY <1>1, <1>3, <1>4, <1>6, <2>1, <2>2, <2>3 DEF StepsTo, Raised, Lowered, Kept, Regained, e
  <2>. QED  BY <2>4 DEF r
<1>. QED  BY <1>1, <1>6 DEF j

LEMMA CompensationEnds ==
    ASSUME NEW p, Walk(s3[p]), L!Compensated(p)
    PROVE  \E r : s3' = [s3 EXCEPT ![p] = r] /\ StepsTo(s3[p], r) /\ UNCHANGED <<s4, s5, s6, s7, s8>>
<1>. DEFINE j == s3[p]
            r == [j EXCEPT !.phase = "set"]
<1>1. /\ j.phase = "compensate" /\ j.left = Empty /\ UNCHANGED <<s1, s2, s4, s5, s6, s7, s8>>
      /\ s3' = [s3 EXCEPT ![p] = r]
  BY DEF L!Compensated, Empty
<1>2. /\ r.phase = "set" /\ r.left = j.left /\ r.attempted = j.attempted /\ r.snapshot = j.snapshot
      /\ (r.enabled <=> j.enabled) /\ (r.errors <=> j.errors) /\ (r.residual <=> j.residual)
      /\ IsJob(r)
  BY DEF Walk, IsJob
<1>. HIDE DEF r, j
<1>3. j.errors /\ ~j.enabled /\ Walk(r)
  BY <1>1, <1>2 DEF Walk, j
<1>4. StepsTo(j, r)
  BY <1>1, <1>2, <1>3 DEF StepsTo, Lowered, Kept
<1>. QED  BY <1>1, <1>4 DEF j

LEMMA WalkStep ==
    ASSUME NEW p, Walk(s3[p]), L!Step(p)
    PROVE  \E r : s3' = [s3 EXCEPT ![p] = r] /\ StepsTo(s3[p], r) /\ UNCHANGED <<s4, s5, s6, s7, s8>>
BY AdminSet, RoutesRestored, CompensationEnds DEF L!Step

\* What the tracker keeps of one of n faults, and what the caller does.
FaultsOf(n) ==
    [id : 1 .. n, type : {"link_down", "link_flapping"}, residual : BOOLEAN,
     task : BOOLEAN, snapshot : SUBSET Links]

Calls(n) ==
    [op : {"idle", "inject", "next", "join", "restore"}, fault : 0 .. n,
     type : {"none", "link_down", "link_flapping"}, snapshot : SUBSET Links,
     todo : Seq(FaultsOf(n)), remaining : Seq(FaultsOf(n))]

ControllerStates == {"none", "down", "healthy", "up", "fault", "done"}

LinkTypes(n) ==
    /\ s1 \subseteq Links /\ s2 \subseteq Links
    /\ s3 = [p \in 0 .. n |-> s3[p]] /\ \A p \in 0 .. n : Walk(s3[p])
    /\ s4 \in Calls(n) /\ s5 \in [1 .. n -> ControllerStates] /\ s8 \in 0 .. n
    /\ s4.op \in {"idle", "inject"} => s7 \in Seq(FaultsOf(n))

\* The call of the injector that runs has the walk of its own step, and a
\* controller walks in one of its phases only.
LinkCalls(n) ==
    /\ s4.op \in {"idle", "next", "join"} => s3[0].phase = "idle"
    /\ s4.op = "inject" =>
          /\ s3[0].phase # "idle" /\ ~s3[0].enabled /\ s3[0].snapshot = s4.snapshot
          /\ s4.fault = s8 /\ s8 \in 1 .. n /\ s5[s8] = "none" /\ s4.type # "none"
    /\ s4.op = "restore" =>
          s3[0].phase # "idle" /\ s3[0].enabled /\ s3[0].snapshot = Head(s4.todo).snapshot
    /\ s4.op \in {"join", "restore"} => s4.todo # Empty
    /\ \A i \in 1 .. n : /\ i > s8 => s5[i] = "none"
                         /\ s3[i].phase # "idle" => s5[i] \in {"healthy", "fault"}

\* The faults that are tracked now or will be when the call ends.
Watched ==
    CASE s4.op \in {"idle", "inject"} -> L!Range(s7)
      [] s4.op \in {"next", "join"} -> L!Range(s4.todo) \cup L!Range(s4.remaining)
      [] s4.op = "restore" -> L!Range(Tail(s4.todo)) \cup L!Range(s4.remaining)

\* A controller that is not gone has its fault there.
LinkWatched(n) ==
    \A i \in 1 .. n : s5[i] \notin {"none", "done"} => \E f \in Watched : f.id = i /\ f.task

\* No other fault is left than the one the call is at: then the ends are up as
\* far as the call has come.
OnlyFault ==
    /\ s4.op # "join" /\ (s4.op \in {"idle", "inject"} => s7 = Empty)
    /\ s4.op = "next" => s4.todo = Empty /\ s4.remaining = Empty
    /\ s4.op = "restore" => Tail(s4.todo) = Empty /\ s4.remaining = Empty

LinkUp ==
    OnlyFault => /\ s4.op = "inject" => Lowered(s3[0], s1)
                 /\ s4.op = "restore" => Raised(s3[0], s1)
                 /\ s4.op \in {"idle", "next"} => s1 = Links

LinkSafe(n) == LinkTypes(n) /\ LinkCalls(n) /\ LinkWatched(n) /\ LinkUp

LEMMA OneMore ==
    ASSUME NEW F, NEW q \in Seq(F), NEW f \in F
    PROVE  /\ Append(q, f) \in Seq(F) /\ Append(q, f) # Empty
           /\ L!Range(Append(q, f)) = L!Range(q) \cup {f}
<1>1. /\ Append(q, f) \in Seq(F) /\ Len(Append(q, f)) = Len(q) + 1
      /\ \A k \in 1 .. Len(q) : Append(q, f)[k] = q[k]
      /\ Append(q, f)[Len(q) + 1] = f /\ Len(q) \in Nat
  BY AppendProperties, LenProperties
<1>2. Append(q, f) # Empty
  BY <1>1 DEF Empty
<1>3. 1 .. Len(q) + 1 = 1 .. Len(q) \cup {Len(q) + 1}
  BY <1>1
<1>. QED  BY <1>1, <1>2, <1>3 DEF L!Range

LEMMA DomainOf == ASSUME NEW F, NEW q \in Seq(F)  PROVE DOMAIN q = 1 .. Len(q)
BY LenProperties

LEMMA OneLess ==
    ASSUME NEW F, NEW q \in Seq(F), q # Empty
    PROVE  /\ Head(q) \in F /\ Tail(q) \in Seq(F)
           /\ L!Range(q) = {Head(q)} \cup L!Range(Tail(q))
<1>1. /\ Head(q) = q[1] /\ Head(q) \in F /\ Tail(q) \in Seq(F) /\ Len(Tail(q)) = Len(q) - 1
      /\ \A k \in 1 .. Len(Tail(q)) : Tail(q)[k] = q[k + 1]
      /\ Len(q) \in Nat /\ Len(q) > 0
  BY HeadTailProperties, EmptySeq, LenProperties DEF Empty
<1>2. L!Range(q) = {q[k] : k \in 1 .. Len(q)} /\ L!Range(Tail(q)) = {Tail(q)[k] : k \in 1 .. Len(Tail(q))}
  BY <1>1, DomainOf DEF L!Range
<1>3. ASSUME NEW x \in L!Range(q)  PROVE x \in {Head(q)} \cup L!Range(Tail(q))
  <2>1. PICK k \in 1 .. Len(q) : x = q[k]
    BY <1>2, <1>3
  <2>2. CASE k = 1
    BY <1>1, <2>1, <2>2
  <2>3. CASE k > 1
    <3>1. k - 1 \in 1 .. Len(Tail(q)) /\ Tail(q)[k - 1] = q[(k - 1) + 1] /\ (k - 1) + 1 = k
      BY <1>1, <2>1, <2>3
    <3>. QED  BY <1>2, <2>1, <3>1
  <2>. QED  BY <2>1, <2>2, <2>3
<1>4. ASSUME NEW x \in {Head(q)} \cup L!Range(Tail(q))  PROVE x \in L!Range(q)
  <2>1. CASE x = Head(q)
    BY <1>1, <1>2, <2>1
  <2>2. CASE x \in L!Range(Tail(q))
    <3>1. PICK k \in 1 .. Len(Tail(q)) : x = Tail(q)[k]
      BY <1>2, <2>2
    <3>2. k + 1 \in 1 .. Len(q) /\ x = q[k + 1]
      BY <1>1, <3>1
    <3>. QED  BY <1>2, <3>2
  <2>. QED  BY <1>4, <2>1, <2>2
<1>. QED  BY <1>1, <1>3, <1>4

\* A walk that begins.
LEMMA WalkBegins ==
    ASSUME NEW on \in BOOLEAN, NEW snapshot
    PROVE  LET j == L!SetLink(on, snapshot)
           IN  /\ Walk(j) /\ j.phase = "set" /\ (j.enabled <=> on) /\ j.snapshot = snapshot
               /\ ~j.errors /\ j.left = Both
<1>. DEFINE j == L!SetLink(on, snapshot)
<1>1. j = [L!Idle EXCEPT !.phase = "set", !.enabled = on, !.left = Both, !.snapshot = snapshot]
  BY Walked DEF L!SetLink
<1>2. /\ j.phase = "set" /\ (j.enabled <=> on) /\ j.left = Both /\ j.attempted = Empty
      /\ ~j.errors /\ ~j.residual /\ j.snapshot = snapshot /\ IsJob(j)
  BY <1>1 DEF IsJob, L!Idle, Empty
<1>. HIDE DEF j
<1>3. Walk(j)
  BY <1>2 DEF Walk
<1>. QED  BY <1>2, <1>3 DEF j

LEMMA WalkOfNobody == Walk(L!Idle) /\ L!Idle.phase = "idle"
<1>1. IsJob(L!Idle) /\ L!Idle.phase = "idle"
  BY DEF L!Idle, IsJob
<1>. QED  BY <1>1 DEF Walk

\* A call begins as a record of its own.
LEMMA Caller ==
    ASSUME NEW n \in Nat, LinkTypes(n)
    PROVE  /\ s4.op \in {"idle", "inject", "next", "join", "restore"} /\ s4.fault \in 0 .. n
           /\ s4.type \in {"none", "link_down", "link_flapping"} /\ s4.snapshot \subseteq Links
           /\ s4.todo \in Seq(FaultsOf(n)) /\ s4.remaining \in Seq(FaultsOf(n))
           /\ s4 = [op |-> s4.op, fault |-> s4.fault, type |-> s4.type, snapshot |-> s4.snapshot,
                    todo |-> s4.todo, remaining |-> s4.remaining]
BY DEF LinkTypes, Calls

LEMMA LinkInit ==
    ASSUME NEW n \in Nat, s1 = Links, s2 \subseteq Links, s3 = [p \in 0 .. n |-> L!Idle],
           s4 = L!Rest, s5 = [i \in 1 .. n |-> "none"], s7 = Empty, s8 = 0
    PROVE  LinkSafe(n)
<1>1. s4 \in Calls(n) /\ s4.op = "idle"
  <2>1. <<>> \in Seq(FaultsOf(n))
    OBVIOUS
  <2>. QED  BY <2>1 DEF Calls, L!Rest
<1>2. s7 \in Seq(FaultsOf(n))
  BY DEF Empty
<1>3. \A p \in 0 .. n : Walk(s3[p]) /\ s3[p].phase = "idle"
  BY WalkOfNobody
<1>4. LinkTypes(n)
  BY <1>1, <1>2, <1>3 DEF LinkTypes, ControllerStates
<1>5. LinkCalls(n) /\ LinkWatched(n) /\ LinkUp
  BY <1>1, <1>3 DEF LinkCalls, LinkWatched, LinkUp
<1>. QED  BY <1>4, <1>5 DEF LinkSafe

LEMMA NobodyElse ==
    ASSUME NEW n \in Nat, LinkSafe(n), NEW i \in 1 .. n, s5[i] \notin {"none", "done"}
    PROVE  ~OnlyFault
<1>1. PICK f \in Watched : f.id = i
  BY DEF LinkSafe, LinkWatched
<1>2. s4.op \in {"idle", "inject", "next", "join", "restore"}
  BY Caller DEF LinkSafe
<1>. QED  BY <1>1, <1>2, EndsLeft DEF OnlyFault, Watched

\* A call that walks on.
LEMMA LinkWalks ==
    ASSUME NEW n \in Nat, LinkSafe(n), NEW p \in 0 .. n, L!Step(p)
    PROVE  LinkSafe(n)'
<1>1. /\ s3 = [q \in 0 .. n |-> s3[q]] /\ \A q \in 0 .. n : Walk(s3[q])
      /\ s1 \subseteq Links /\ s2 \subseteq Links
  BY DEF LinkSafe, LinkTypes
<1>2. PICK r : s3' = [s3 EXCEPT ![p] = r] /\ StepsTo(s3[p], r) /\ UNCHANGED <<s4, s5, s6, s7, s8>>
  BY <1>1, WalkStep
<1>3. /\ s3' = [q \in 0 .. n |-> s3'[q]] /\ s3'[p] = r
      /\ \A q \in 0 .. n : q # p => s3'[q] = s3[q]
  BY <1>1, <1>2
<1>4. /\ Walk(r) /\ s3[p].phase # "idle" /\ r.phase # "idle" /\ (r.enabled <=> s3[p].enabled)
      /\ r.snapshot = s3[p].snapshot /\ s1' \subseteq Links /\ s2' \subseteq Links
      /\ s3[p].enabled => (Raised(s3[p], s1) => Raised(r, s1'))
      /\ ~s3[p].enabled => (Lowered(s3[p], s1) => Lowered(r, s1'))
  BY <1>1, <1>2 DEF StepsTo
<1>5. LinkTypes(n)'
  <2>1. \A q \in 0 .. n : Walk(s3'[q])
    BY <1>1, <1>3, <1>4
  <2>. QED  BY <1>2, <1>3, <1>4, <2>1 DEF LinkSafe, LinkTypes
<1>6. LinkCalls(n)'
  <2>1. LinkCalls(n) /\ 0 \in 0 .. n /\ 1 .. n \subseteq 0 .. n
    BY DEF LinkSafe
  <2>. QED  BY <1>2, <1>3, <1>4, <2>1 DEF LinkCalls
<1>7. LinkWatched(n)' /\ (OnlyFault' => OnlyFault)
  BY <1>2 DEF LinkSafe, LinkWatched, Watched, OnlyFault
<1>8. LinkUp'
  <2>1. CASE p = 0
    <3>1. /\ s4.op \notin {"idle", "next", "join"} /\ (s4.op = "inject" => ~s3[0].enabled)
          /\ s4.op = "restore" => s3[0].enabled
      BY <1>4, <2>1 DEF LinkSafe, LinkCalls
    <3>. QED  BY <1>2, <1>3, <1>4, <1>7, <2>1, <3>1 DEF LinkUp, LinkSafe
  <2>2. CASE p # 0
    <3>1. p \in 1 .. n /\ s5[p] \notin {"none", "done"}
      BY <1>4, <2>2 DEF LinkSafe, LinkCalls
    <3>. QED  BY <1>7, <3>1, NobodyElse DEF LinkUp
  <2>. QED  BY <2>1, <2>2
<1>. QED  BY <1>5, <1>6, <1>7, <1>8 DEF LinkSafe

\* The start of an injection, whatever the bound on their number.
Injects(type, n) ==
    /\ s4.op = "idle" /\ s8 < n /\ s8' = s8 + 1 /\ s1 = Links
    /\ s4' = [L!Rest EXCEPT !.op = "inject", !.fault = s8 + 1, !.type = type, !.snapshot = s2]
    /\ s3' = [s3 EXCEPT ![0] = L!SetLink(FALSE, s2)]
    /\ UNCHANGED <<s1, s2, s5, s6, s7>>

LEMMA LinkInjects ==
    ASSUME NEW n \in Nat, LinkSafe(n), NEW type \in {"link_down", "link_flapping"}, Injects(type, n)
    PROVE  LinkSafe(n)'
<1>. DEFINE j == L!SetLink(FALSE, s2)
<1>1. /\ Walk(j) /\ j.phase = "set" /\ ~j.enabled /\ j.snapshot = s2 /\ ~j.errors /\ j.left = Both
  BY WalkBegins
<1>. HIDE DEF j
<1>2. /\ s3 = [q \in 0 .. n |-> s3[q]] /\ \A q \in 0 .. n : Walk(s3[q])
      /\ s1 \subseteq Links /\ s2 \subseteq Links /\ s8 \in 0 .. n /\ s7 \in Seq(FaultsOf(n))
      /\ s5 \in [1 .. n -> ControllerStates] /\ 0 \in 0 .. n
  BY DEF LinkSafe, LinkTypes, Injects
<1>3. /\ s3' = [q \in 0 .. n |-> s3'[q]] /\ s3'[0] = j
      /\ \A q \in 0 .. n : q # 0 => s3'[q] = s3[q]
  BY <1>2 DEF Injects, j
<1>4. s4' = [op |-> "inject", fault |-> s8 + 1, type |-> type, snapshot |-> s2, todo |-> <<>>,
             remaining |-> <<>>]
  BY DEF Injects, L!Rest
<1>5. s8' = s8 + 1 /\ s8 < n /\ s1 = Links /\ UNCHANGED <<s1, s2, s5, s6, s7>>
  BY DEF Injects
<1>6. /\ s4'.op = "inject" /\ s4'.fault = s8 + 1 /\ s4'.type = type /\ s4'.snapshot = s2
      /\ s4' \in Calls(n)
  <2>1. <<>> \in Seq(FaultsOf(n)) /\ s8 + 1 \in 0 .. n
    BY <1>2, <1>5
  <2>. QED  BY <1>2, <1>4, <2>1 DEF Calls
<1>7. LinkTypes(n)'
  <2>1. \A q \in 0 .. n : Walk(s3'[q])
    BY <1>1, <1>2, <1>3
  <2>. QED  BY <1>2, <1>3, <1>5, <1>6, <2>1 DEF LinkTypes
<1>8. LinkCalls(n)'
  <2>1. \A i \in 1 .. n : (i > s8 => s5[i] = "none")
                          /\ (s3[i].phase # "idle" => s5[i] \in {"healthy", "fault"})
    BY DEF LinkSafe, LinkCalls
  <2>2. s8 + 1 \in 1 .. n /\ s5[s8 + 1] = "none"
    BY <1>2, <1>5, <2>1
  <2>3. \A i \in 1 .. n : i # 0 /\ i \in 0 .. n /\ (i > s8 + 1 => i > s8)
    BY <1>2
  <2>4. \A i \in 1 .. n : (i > s8' => s5'[i] = "none")
                          /\ (s3'[i].phase # "idle" => s5'[i] \in {"healthy", "fault"})
    BY <1>2, <1>3, <1>5, <2>1, <2>3
  <2>. QED  BY <1>1, <1>3, <1>5, <1>6, <2>2, <2>4 DEF LinkCalls
<1>9. LinkWatched(n)'
  BY <1>5, <1>6 DEF LinkSafe, LinkWatched, Watched, Injects
<1>10. LinkUp'
  BY <1>1, <1>3, <1>5, <1>6, EndsLeft DEF LinkUp, Lowered
<1>. QED  BY <1>7, <1>8, <1>9, <1>10 DEF LinkSafe

\* What the steps below start from.
LEMMA LinkFacts ==
    ASSUME NEW n \in Nat, LinkSafe(n)
    PROVE  /\ s3 = [q \in 0 .. n |-> s3[q]] /\ (\A q \in 0 .. n : Walk(s3[q]))
           /\ s1 \subseteq Links /\ s2 \subseteq Links /\ s5 \in [1 .. n -> ControllerStates]
           /\ s8 \in 0 .. n /\ 0 \in 0 .. n /\ (\A i \in 1 .. n : i \in 0 .. n /\ i # 0)
           /\ \A i \in 1 .. n : (i > s8 => s5[i] = "none")
                             /\ (s3[i].phase # "idle" => s5[i] \in {"healthy", "fault"})
<1>1. /\ s3 = [q \in 0 .. n |-> s3[q]] /\ (\A q \in 0 .. n : Walk(s3[q]))
      /\ s1 \subseteq Links /\ s2 \subseteq Links /\ s5 \in [1 .. n -> ControllerStates] /\ s8 \in 0 .. n
  BY DEF LinkSafe, LinkTypes
<1>2. 0 \in 0 .. n /\ (\A i \in 1 .. n : i \in 0 .. n /\ i # 0)
  OBVIOUS
<1>3. \A i \in 1 .. n : (i > s8 => s5[i] = "none")
                      /\ (s3[i].phase # "idle" => s5[i] \in {"healthy", "fault"})
  BY DEF LinkSafe, LinkCalls
<1>. QED  BY <1>1, <1>2, <1>3

\* The caller's walk ends with its call, and begins with one.
LEMMA OwnWalk ==
    ASSUME NEW n \in Nat, LinkSafe(n), NEW j, Walk(j), s3' = [s3 EXCEPT ![0] = j]
    PROVE  /\ s3' = [q \in 0 .. n |-> s3'[q]] /\ (\A q \in 0 .. n : Walk(s3'[q]))
           /\ s3'[0] = j /\ (\A q \in 1 .. n : s3'[q] = s3[q])
<1>1. /\ s3 = [q \in 0 .. n |-> s3[q]] /\ (\A q \in 0 .. n : Walk(s3[q]))
      /\ 0 \in 0 .. n /\ (\A i \in 1 .. n : i \in 0 .. n /\ i # 0)
  BY LinkFacts
<1>2. s3' = [q \in 0 .. n |-> s3'[q]] /\ s3'[0] = j /\ \A q \in 0 .. n : q # 0 => s3'[q] = s3[q]
  BY <1>1
<1>. QED  BY <1>1, <1>2

LEMMA LinkInjectEnds ==
    ASSUME NEW n \in Nat, LinkSafe(n), L!InjectEnds
    PROVE  LinkSafe(n)'
<1>. DEFINE j == s3[0]
            ok == L!Fault(FALSE)
            left == L!Fault(TRUE)
<1>1. /\ s4.op = "inject" /\ j.phase = "set" /\ j.left = Empty
      /\ s7' = IF ~j.errors THEN Append(s7, ok) ELSE IF j.residual THEN Append(s7, left) ELSE s7
      /\ s5' = IF ~j.errors /\ s4.type = "link_flapping" THEN [s5 EXCEPT ![s4.fault] = "down"] ELSE s5
      /\ s4' = L!Rest /\ s3' = [s3 EXCEPT ![0] = L!Idle] /\ UNCHANGED <<s1, s2, s6, s8>>
  BY DEF L!InjectEnds, L!Ended, L!Residual, Empty
<1>2. /\ s4.type \in {"link_down", "link_flapping"} /\ s4.snapshot \subseteq Links
      /\ s4.fault = s8 /\ s8 \in 1 .. n /\ s5[s8] = "none" /\ ~j.enabled
  BY <1>1, Caller DEF LinkSafe, LinkCalls
<1>3. s7 \in Seq(FaultsOf(n))
  BY <1>1 DEF LinkSafe, LinkTypes
<1>4. ok \in FaultsOf(n) /\ left \in FaultsOf(n)
  BY <1>2 DEF L!Fault, FaultsOf
<1>5. ok.id = s8 /\ (ok.task <=> s4.type = "link_flapping")
  BY <1>2 DEF L!Fault
<1>6. /\ s4'.op = "idle" /\ s4' \in Calls(n)
  <2>1. <<>> \in Seq(FaultsOf(n))
    OBVIOUS
  <2>. QED  BY <1>1, <2>1 DEF Calls, L!Rest
<1>. HIDE DEF ok, left
<1>7. /\ s7' \in Seq(FaultsOf(n)) /\ L!Range(s7) \subseteq L!Range(s7')
      /\ ~j.errors => ok \in L!Range(s7')
      /\ s7' = Empty => s7 = Empty /\ j.errors /\ ~j.residual
  BY <1>1, <1>3, <1>4, OneMore
<1>8. /\ s3' = [q \in 0 .. n |-> s3'[q]] /\ (\A q \in 0 .. n : Walk(s3'[q]))
      /\ s3'[0] = L!Idle /\ (\A q \in 1 .. n : s3'[q] = s3[q])
  BY <1>1, WalkOfNobody, OwnWalk
<1>9. /\ s5' \in [1 .. n -> ControllerStates]
      /\ \A i \in 1 .. n : s5'[i] # s5[i] => i = s8 /\ s5'[i] = "down" /\ ~j.errors /\ s4.type = "link_flapping"
  BY <1>1, <1>2, LinkFacts DEF ControllerStates
<1>10. LinkTypes(n)'
  BY <1>1, <1>6, <1>7, <1>8, <1>9, LinkFacts DEF LinkTypes
<1>11. LinkCalls(n)'
  <2>1. \A i \in 1 .. n : (i > s8 => s5[i] = "none")
                          /\ (s3[i].phase # "idle" => s5[i] \in {"healthy", "fault"})
    BY LinkFacts
  <2>2. \A i \in 1 .. n : i = s8 => ~(i > s8) /\ s3[i].phase = "idle"
    BY <1>2, <2>1
  <2>. QED  BY <1>1, <1>6, <1>8, <1>9, <2>1, <2>2, WalkOfNobody DEF LinkCalls
<1>12. LinkWatched(n)'
  BY <1>1, <1>5, <1>6, <1>7, <1>9 DEF LinkSafe, LinkWatched, Watched
<1>13. LinkUp'
  <2>1. OnlyFault' => OnlyFault /\ j.errors /\ ~j.residual
    BY <1>1, <1>6, <1>7 DEF OnlyFault
  <2>2. OnlyFault /\ j.errors /\ ~j.residual => s1 = Links
    BY <1>1, EndsLeft, LinkFacts DEF LinkSafe, LinkUp, Lowered
  <2>. QED  BY <1>1, <1>6, <2>1, <2>2 DEF LinkUp
<1>. QED  BY <1>10, <1>11, <1>12, <1>13 DEF LinkSafe

\* A step of a controller: the caller is where it was, and the controller
\* watched as before.
LEMMA ControllerSteps ==
    ASSUME NEW n \in Nat, LinkSafe(n), NEW i \in 1 .. n, s5[i] \notin {"none", "done"},
           NEW c \in ControllerStates \ {"none"}, s5' = [s5 EXCEPT ![i] = c],
           NEW j, Walk(j), s3' = [s3 EXCEPT ![i] = j], j.phase # "idle" => c \in {"healthy", "fault"},
           s1' \subseteq Links, s2' \subseteq Links, UNCHANGED <<s4, s7, s8>>
    PROVE  LinkSafe(n)'
<1>1. /\ s3' = [q \in 0 .. n |-> s3'[q]] /\ s3'[i] = j /\ \A q \in 0 .. n : q # i => s3'[q] = s3[q]
  BY LinkFacts
<1>2. s5' \in [1 .. n -> ControllerStates] /\ s5'[i] = c /\ \A k \in 1 .. n : k # i => s5'[k] = s5[k]
  BY LinkFacts DEF ControllerStates
<1>3. LinkTypes(n)'
  <2>1. \A q \in 0 .. n : Walk(s3'[q])
    BY <1>1, LinkFacts
  <2>. QED  BY <1>1, <1>2, <2>1 DEF LinkSafe, LinkTypes
<1>4. LinkCalls(n)'
  <2>1. i # 0 /\ s3'[0] = s3[0]
    BY <1>1, LinkFacts
  <2>2. \A k \in 1 .. n : (k > s8 => s5'[k] = "none")
                          /\ (s3'[k].phase # "idle" => s5'[k] \in {"healthy", "fault"})
    BY <1>1, <1>2, LinkFacts
  <2>3. s4.op = "inject" => s8 # i
    BY DEF LinkSafe, LinkCalls
  <2>. QED  BY <1>2, <2>1, <2>2, <2>3 DEF LinkSafe, LinkCalls
<1>5. LinkWatched(n)' /\ (OnlyFault' => OnlyFault)
  BY <1>2 DEF LinkSafe, LinkWatched, Watched, OnlyFault
<1>6. LinkUp'
  BY <1>5, NobodyElse DEF LinkUp
<1>. QED  BY <1>3, <1>4, <1>5, <1>6 DEF LinkSafe

LEMMA LinkToggles ==
    ASSUME NEW n \in Nat, LinkSafe(n), NEW i \in 1 .. n, L!Controller(i)
    PROVE  LinkSafe(n)'
<1>1. CASE L!Toggle(i)
  <2>1. PICK f : s3' = [s3 EXCEPT ![i] = L!SetLink(s5[i] = "down", f.snapshot)]
    BY <1>1 DEF L!Toggle
  <2>. DEFINE c == IF s5[i] = "down" THEN "healthy" ELSE "fault"
              j == L!SetLink(s5[i] = "down", f.snapshot)
  <2>2. s5[i] \in {"down", "up"} /\ s5' = [s5 EXCEPT ![i] = c] /\ UNCHANGED <<s1, s2, s4, s7, s8>>
    BY <1>1 DEF L!Toggle
  <2>3. Walk(j) /\ c \in {"healthy", "fault"}
    BY WalkBegins
  <2>. HIDE DEF c, j
  <2>4. c \in ControllerStates \ {"none"}
    BY <2>3 DEF ControllerStates
  <2>5. s3' = [s3 EXCEPT ![i] = j]
    BY <2>1 DEF j
  <2>. QED  BY <2>2, <2>3, <2>4, <2>5, LinkFacts, ControllerSteps
<1>2. CASE L!Toggled(i)
  <2>. DEFINE c == IF s3[i].errors THEN "done" ELSE IF s5[i] = "healthy" THEN "up" ELSE "down"
  <2>1. /\ s5[i] \in {"healthy", "fault"} /\ s5' = [s5 EXCEPT ![i] = c]
        /\ s3' = [s3 EXCEPT ![i] = L!Idle] /\ UNCHANGED <<s1, s2, s4, s7, s8>>
    BY <1>2 DEF L!Toggled
  <2>2. c \in ControllerStates \ {"none"}
    BY DEF ControllerStates
  <2>. HIDE DEF c
  <2>. QED  BY <2>1, <2>2, LinkFacts, WalkOfNobody, ControllerSteps
<1>3. CASE L!Cancelled(i)
  <2>1. /\ s5[i] \notin {"none", "done"} /\ s5' = [s5 EXCEPT ![i] = "done"]
        /\ s3' = [s3 EXCEPT ![i] = L!Idle] /\ UNCHANGED <<s4, s7, s8>>
        /\ \/ UNCHANGED <<s1, s2>>
           \/ /\ s3[i].phase # "idle" /\ s3[i].left # Empty
              /\ L!Effect(Head(s3[i].left), s3[i].enabled \/ s3[i].phase = "compensate")
    BY <1>3 DEF L!Cancelled, Empty
  <2>2. s1' \subseteq Links /\ s2' \subseteq Links
    <3>1. Walk(s3[i]) /\ s1 \subseteq Links /\ s2 \subseteq Links
      BY LinkFacts
    <3>2. s3[i].phase # "idle" /\ s3[i].left # Empty => Head(s3[i].left) \in Links
      BY <3>1, NextEnd
    <3>. QED  BY <2>1, <3>1, <3>2 DEF L!Effect
  <2>3. "done" \in ControllerStates \ {"none"}
    BY DEF ControllerStates
  <2>. QED  BY <2>1, <2>2, <2>3, WalkOfNobody, ControllerSteps
<1>. QED  BY <1>1, <1>2, <1>3 DEF L!Controller

\* A step of the caller that leaves its walk and the link alone.
LEMMA CallerMoves ==
    ASSUME NEW n \in Nat, LinkSafe(n), UNCHANGED <<s1, s2, s3, s5, s8>>,
           s4' \in Calls(n), s4.op \in {"idle", "next", "join"}, s4'.op \in {"idle", "next", "join"},
           s4'.op = "idle" => s7' \in Seq(FaultsOf(n)), s4'.op = "join" => s4'.todo # Empty,
           \A f \in Watched : f \in Watched', OnlyFault' => OnlyFault
    PROVE  LinkSafe(n)'
<1>1. LinkTypes(n)'
  BY DEF LinkSafe, LinkTypes
<1>2. LinkCalls(n)'
  <2>1. s3[0].phase = "idle"
    BY DEF LinkSafe, LinkCalls
  <2>2. \A i \in 1 .. n : (i > s8' => s5'[i] = "none")
                          /\ (s3'[i].phase # "idle" => s5'[i] \in {"healthy", "fault"})
    BY LinkFacts
  <2>. QED  BY <2>1, <2>2 DEF LinkCalls
<1>3. LinkWatched(n)'
  BY DEF LinkSafe, LinkWatched
<1>4. LinkUp'
  <2>1. OnlyFault => s4.op # "join"
    BY DEF OnlyFault
  <2>. QED  BY <2>1 DEF LinkSafe, LinkUp
<1>. QED  BY <1>1, <1>2, <1>3, <1>4 DEF LinkSafe

LEMMA LinkRecovers ==
    ASSUME NEW n \in Nat, LinkSafe(n), L!RecoverAll \/ L!StopBackground \/ L!JoinTimesOut \/ L!RecoverAllEnds
    PROVE  LinkSafe(n)'
<1>1. /\ s4.todo \in Seq(FaultsOf(n)) /\ s4.remaining \in Seq(FaultsOf(n))
      /\ s4.fault \in 0 .. n /\ s4.type \in {"none", "link_down", "link_flapping"} /\ s4.snapshot \subseteq Links
      /\ s4 = [op |-> s4.op, fault |-> s4.fault, type |-> s4.type, snapshot |-> s4.snapshot,
               todo |-> s4.todo, remaining |-> s4.remaining]
  BY Caller DEF LinkSafe
<1>2. <<>> \in Seq(FaultsOf(n)) /\ L!Range(<<>>) = {}
  BY EndsLeft DEF Empty
<1>3. CASE L!RecoverAll
  <2>1. s4.op = "idle" /\ s7 # Empty /\ UNCHANGED <<s1, s2, s3, s5, s8>> /\ s7 \in Seq(FaultsOf(n))
    BY <1>3 DEF L!RecoverAll, Empty, LinkSafe, LinkTypes
  <2>4. s4' = [op |-> "next", fault |-> 0, type |-> "none", snapshot |-> {}, todo |-> s7, remaining |-> <<>>]
    BY <1>3 DEF L!RecoverAll, L!Rest
  <2>2. /\ s4' \in Calls(n) /\ s4'.op = "next" /\ s4'.todo = s7 /\ s4'.remaining = Empty
    BY <1>2, <2>1, <2>4 DEF Calls, Empty
  <2>3. (\A f \in Watched : f \in Watched') /\ ~OnlyFault'
    BY <2>1, <2>2 DEF Watched, OnlyFault
  <2>. QED  BY <2>1, <2>2, <2>3, CallerMoves
<1>4. CASE L!StopBackground
  <2>1. s4.op = "next" /\ s4.todo # Empty /\ UNCHANGED <<s1, s2, s3, s5, s8>>
    BY <1>4 DEF L!StopBackground, Empty
  <2>2. /\ s4' \in Calls(n) /\ s4'.op = "join" /\ s4'.todo = s4.todo /\ s4'.remaining = s4.remaining
    BY <1>1, <1>4 DEF L!StopBackground, Calls
  <2>3. (\A f \in Watched : f \in Watched') /\ ~OnlyFault'
    BY <2>1, <2>2 DEF Watched, OnlyFault
  <2>. QED  BY <2>1, <2>2, <2>3, CallerMoves
<1>5. CASE L!JoinTimesOut
  <2>. DEFINE q == Append(s4.remaining, Head(s4.todo))
  <2>1. s4.op = "join" /\ s4.todo # Empty /\ UNCHANGED <<s1, s2, s3, s5, s8>>
    BY <1>5 DEF L!JoinTimesOut, LinkSafe, LinkCalls
  <2>2. /\ Head(s4.todo) \in FaultsOf(n) /\ Tail(s4.todo) \in Seq(FaultsOf(n))
        /\ L!Range(s4.todo) = {Head(s4.todo)} \cup L!Range(Tail(s4.todo))
    BY <1>1, <2>1, OneLess
  <2>3. /\ q \in Seq(FaultsOf(n)) /\ q # Empty /\ L!Range(q) = L!Range(s4.remaining) \cup {Head(s4.todo)}
    BY <1>1, <2>2, OneMore
  <2>4. s4' = [s4 EXCEPT !.op = "next", !.todo = Tail(s4.todo), !.remaining = q]
    BY <1>5 DEF L!JoinTimesOut
  <2>. HIDE DEF q
  <2>5. /\ s4' \in Calls(n) /\ s4'.op = "next" /\ s4'.todo = Tail(s4.todo) /\ s4'.remaining = q
    BY <1>1, <2>2, <2>3, <2>4 DEF Calls
  <2>6. (\A f \in Watched : f \in Watched') /\ ~OnlyFault'
    BY <2>1, <2>2, <2>3, <2>5 DEF Watched, OnlyFault
  <2>. QED  BY <2>1, <2>5, <2>6, CallerMoves
<1>6. CASE L!RecoverAllEnds
  <2>1. s4.op = "next" /\ s4.todo = Empty /\ UNCHANGED <<s1, s2, s3, s5, s8>> /\ s7' = s4.remaining
    BY <1>6 DEF L!RecoverAllEnds, Empty
  <2>2. s4' \in Calls(n) /\ s4'.op = "idle"
    BY <1>2, <1>6 DEF L!RecoverAllEnds, L!Rest, Calls
  <2>3. (\A f \in Watched : f \in Watched') /\ (OnlyFault' => OnlyFault)
    BY <2>1, <2>2, EndsLeft DEF Watched, OnlyFault
  <2>. QED  BY <1>1, <2>1, <2>2, <2>3, CallerMoves
<1>. QED  BY <1>3, <1>4, <1>5, <1>6

\* A fault whose controller is gone is restored.
LEMMA LinkJoined ==
    ASSUME NEW n \in Nat, LinkSafe(n), L!Joined
    PROVE  LinkSafe(n)'
<1>. DEFINE f == Head(s4.todo)
            j == L!SetLink(TRUE, f.snapshot)
<1>1. /\ s4.op = "join" /\ (f.task => s5[f.id] = "done") /\ s4' = [s4 EXCEPT !.op = "restore"]
      /\ s3' = [s3 EXCEPT ![0] = j] /\ UNCHANGED <<s1, s2, s5, s6, s7, s8>>
  BY DEF L!Joined
<1>2. /\ s4.todo \in Seq(FaultsOf(n)) /\ s4.todo # Empty
      /\ s4'.op = "restore" /\ s4'.todo = s4.todo /\ s4'.remaining = s4.remaining /\ s4' \in Calls(n)
  BY <1>1, Caller DEF LinkSafe, LinkCalls, Calls
<1>3. L!Range(s4.todo) = {f} \cup L!Range(Tail(s4.todo))
  BY <1>2, OneLess
<1>4. /\ Walk(j) /\ j.phase = "set" /\ j.enabled /\ j.snapshot = f.snapshot /\ ~j.errors /\ j.left = Both
  BY WalkBegins
<1>. HIDE DEF j, f
<1>5. /\ s3' = [q \in 0 .. n |-> s3'[q]] /\ (\A q \in 0 .. n : Walk(s3'[q]))
      /\ s3'[0] = j /\ (\A q \in 1 .. n : s3'[q] = s3[q])
  BY <1>1, <1>4, OwnWalk
<1>6. LinkTypes(n)'
  BY <1>1, <1>2, <1>5, LinkFacts DEF LinkTypes
<1>7. LinkCalls(n)'
  <2>1. \A i \in 1 .. n : (i > s8' => s5'[i] = "none")
                          /\ (s3'[i].phase # "idle" => s5'[i] \in {"healthy", "fault"})
    BY <1>1, <1>5, LinkFacts
  <2>2. s3'[0].phase # "idle" /\ s3'[0].enabled /\ s3'[0].snapshot = Head(s4'.todo).snapshot
    BY <1>2, <1>4, <1>5 DEF f
  <2>. QED  BY <1>2, <2>1, <2>2 DEF LinkCalls
<1>8. LinkWatched(n)'
  <2>1. ASSUME NEW i \in 1 .. n, s5'[i] \notin {"none", "done"}
        PROVE  \E g \in Watched' : g.id = i /\ g.task
    <3>1. PICK g \in L!Range(s4.todo) \cup L!Range(s4.remaining) : g.id = i /\ g.task
      BY <1>1, <2>1 DEF LinkSafe, LinkWatched, Watched
    <3>2. g # f
      BY <1>1, <2>1, <3>1
    <3>. QED  BY <1>2, <1>3, <3>1, <3>2 DEF Watched
  <2>. QED  BY <2>1 DEF LinkWatched
<1>9. LinkUp'
  BY <1>2, <1>4, <1>5, EndsLeft DEF LinkUp, Raised
<1>. QED  BY <1>6, <1>7, <1>8, <1>9 DEF LinkSafe

\* The end of a restoration, but for what it removes from the tracker: the end
\* of recover_all() replaces that.
Restores ==
    /\ s4.op = "restore" /\ s3[0].phase = "set" /\ s3[0].left = Empty
    /\ s4' = IF s3[0].errors
             THEN [s4 EXCEPT !.op = "next", !.todo = Tail(s4.todo),
                             !.remaining = Append(s4.remaining, Head(s4.todo))]
             ELSE [s4 EXCEPT !.op = "next", !.todo = Tail(s4.todo)]
    /\ s3' = [s3 EXCEPT ![0] = L!Idle]
    /\ UNCHANGED <<s1, s2, s5, s6, s8>>

LEMMA LinkRestores ==
    ASSUME NEW n \in Nat, LinkSafe(n), Restores
    PROVE  LinkSafe(n)'
<1>. DEFINE f == Head(s4.todo)
            j == s3[0]
            more == Append(s4.remaining, f)
<1>1. /\ s4.todo \in Seq(FaultsOf(n)) /\ s4.remaining \in Seq(FaultsOf(n))
      /\ s4.fault \in 0 .. n /\ s4.type \in {"none", "link_down", "link_flapping"} /\ s4.snapshot \subseteq Links
      /\ s4 = [op |-> s4.op, fault |-> s4.fault, type |-> s4.type, snapshot |-> s4.snapshot,
               todo |-> s4.todo, remaining |-> s4.remaining]
  BY Caller DEF LinkSafe
<1>2. s4.op = "restore" /\ s4.todo # Empty
  BY DEF Restores, LinkSafe, LinkCalls
<1>3. f \in FaultsOf(n) /\ Tail(s4.todo) \in Seq(FaultsOf(n))
  BY <1>1, <1>2, OneLess
<1>4. more \in Seq(FaultsOf(n)) /\ more # Empty /\ L!Range(more) = L!Range(s4.remaining) \cup {f}
  BY <1>1, <1>3, OneMore
<1>5. /\ s4' = IF j.errors THEN [s4 EXCEPT !.op = "next", !.todo = Tail(s4.todo), !.remaining = more]
               ELSE [s4 EXCEPT !.op = "next", !.todo = Tail(s4.todo)]
      /\ j.left = Empty /\ s3' = [s3 EXCEPT ![0] = L!Idle] /\ UNCHANGED <<s1, s2, s5, s8>>
  BY DEF Restores
<1>. HIDE DEF more, f
<1>6. /\ s4' \in Calls(n) /\ s4'.op = "next" /\ s4'.todo = Tail(s4.todo)
      /\ s4'.remaining = IF j.errors THEN more ELSE s4.remaining
  BY <1>1, <1>3, <1>4, <1>5 DEF Calls
<1>7. /\ s3' = [q \in 0 .. n |-> s3'[q]] /\ (\A q \in 0 .. n : Walk(s3'[q]))
      /\ s3'[0] = L!Idle /\ (\A q \in 1 .. n : s3'[q] = s3[q])
  BY <1>5, WalkOfNobody, OwnWalk
<1>8. LinkTypes(n)'
  BY <1>5, <1>6, <1>7, LinkFacts DEF LinkTypes
<1>9. LinkCalls(n)'
  <2>1. \A i \in 1 .. n : (i > s8' => s5'[i] = "none")
                          /\ (s3'[i].phase # "idle" => s5'[i] \in {"healthy", "fault"})
    BY <1>5, <1>7, LinkFacts
  <2>. QED  BY <1>6, <1>7, <2>1, WalkOfNobody DEF LinkCalls
<1>10. LinkWatched(n)'
  <2>1. Watched \subseteq Watched'
    BY <1>2, <1>4, <1>6 DEF Watched
  <2>. QED  BY <1>5, <2>1 DEF LinkSafe, LinkWatched
<1>11. LinkUp'
  <2>1. OnlyFault' => OnlyFault /\ ~j.errors
    BY <1>2, <1>4, <1>6 DEF OnlyFault
  <2>2. OnlyFault /\ ~j.errors => s1 = Links
    BY <1>2, <1>5, EndsLeft, LinkFacts DEF LinkSafe, LinkUp, Raised
  <2>. QED  BY <1>5, <1>6, <2>1, <2>2 DEF LinkUp
<1>. QED  BY <1>8, <1>9, <1>10, <1>11 DEF LinkSafe

\* The steps of n faults of the types, whatever the tracker holds in between.
LinkMoves(n, types) ==
    \/ \E p \in 0 .. n : L!Step(p)
    \/ \E type \in types : Injects(type, n)
    \/ L!InjectEnds
    \/ \E i \in 1 .. n : L!Controller(i)
    \/ L!RecoverAll \/ L!StopBackground \/ L!JoinTimesOut \/ L!RecoverAllEnds
    \/ L!Joined \/ Restores

LEMMA LinkStays ==
    ASSUME NEW n \in Nat, LinkSafe(n), NEW types \in SUBSET {"link_down", "link_flapping"}, LinkMoves(n, types)
    PROVE  LinkSafe(n)'
BY LinkWalks, LinkInjects, LinkInjectEnds, LinkToggles, LinkRecovers, LinkJoined, LinkRestores
   DEF LinkMoves

LEMMA LinkRestored == L!Recovered => Restores
<1>. SUFFICES ASSUME L!Recovered  PROVE Restores
  OBVIOUS
<1>. DEFINE f == Head(s4.todo)
<1>1. /\ s4.op = "restore" /\ L!Ended(s3[0]) /\ s3' = [s3 EXCEPT ![0] = L!Idle] /\ UNCHANGED <<s1, s2, s5, s6, s8>>
      /\ s3[0].errors => s4' = [s4 EXCEPT !.op = "next", !.todo = Tail(@), !.remaining = Append(@, f)]
      /\ ~s3[0].errors => s4' = [s4 EXCEPT !.op = "next", !.todo = Tail(@)]
  BY DEF L!Recovered
<1>. QED  BY <1>1 DEF Restores, L!Ended, Empty

LEMMA LinkActs == L!Next => LinkMoves(MaxLinkFaults, {"link_down", "link_flapping"})
<1>1. ASSUME NEW type, L!Inject(type)  PROVE Injects(type, MaxLinkFaults)
  BY <1>1 DEF L!Inject, Injects, L!Ends, Links
<1>2. L!Procs = 0 .. MaxLinkFaults /\ L!Ids = 1 .. MaxLinkFaults /\ ~L!InjectExpires
  BY DEF L!Procs, L!Ids, L!InjectExpires
<1>. QED  BY <1>1, <1>2, LinkRestored DEF L!Next, L!Injecting, L!Recovering, LinkMoves

\* Both kinds of behaviour take the same steps: the client ends, the number of
\* faults and their types are constants that no step but an injection reads.
LEMMA RoutesActs == LR!Next => LinkMoves(MaxRouteFaults, {"link_down"})
<1>1. ASSUME NEW p, LR!Step(p)  PROVE L!Step(p)
  <2>1. LR!SetAdmin(p) => L!SetAdmin(p)
    BY DEF LR!SetAdmin, L!SetAdmin, LR!MayRun, L!MayRun, LR!Effect, L!Effect, LR!After, L!After,
       LR!Compensation, L!Compensation, LR!LastFirst, L!LastFirst
  <2>2. LR!RestoreRoutes(p) => L!RestoreRoutes(p)
    BY DEF LR!RestoreRoutes, L!RestoreRoutes, LR!MayRun, L!MayRun, LR!After, L!After,
       LR!Compensation, L!Compensation, LR!LastFirst, L!LastFirst
  <2>3. LR!Compensated(p) => L!Compensated(p)
    BY DEF LR!Compensated, L!Compensated
  <2>. QED  BY <1>1, <2>1, <2>2, <2>3 DEF LR!Step, L!Step
<1>2. ASSUME NEW type, LR!Inject(type)  PROVE Injects(type, MaxRouteFaults)
  BY <1>2 DEF LR!Inject, Injects, LR!Ends, Links, LR!Rest, L!Rest, LR!SetLink, L!SetLink,
     LR!Idle, L!Idle, LR!Endpoints, L!Endpoints
<1>3. LR!InjectEnds => L!InjectEnds
  BY DEF LR!InjectEnds, L!InjectEnds, LR!Ended, L!Ended, LR!Residual, L!Residual, LR!Fault, L!Fault,
     LR!Rest, L!Rest, LR!Idle, L!Idle
<1>4. ASSUME NEW i, LR!Controller(i)  PROVE L!Controller(i)
  <2>1. LR!Toggle(i) => L!Toggle(i)
    BY DEF LR!Toggle, L!Toggle, LR!SetLink, L!SetLink, LR!Idle, L!Idle, LR!Endpoints, L!Endpoints,
       LR!Range, L!Range
  <2>2. LR!Toggled(i) => L!Toggled(i)
    BY DEF LR!Toggled, L!Toggled, LR!Ended, L!Ended, LR!Idle, L!Idle
  <2>3. LR!Cancelled(i) => L!Cancelled(i)
    BY DEF LR!Cancelled, L!Cancelled, LR!Ended, L!Ended, LR!Idle, L!Idle, LR!Effect, L!Effect
  <2>. QED  BY <1>4, <2>1, <2>2, <2>3 DEF LR!Controller, L!Controller
<1>5. /\ LR!RecoverAll => L!RecoverAll
      /\ LR!StopBackground => L!StopBackground
      /\ LR!JoinTimesOut => L!JoinTimesOut
      /\ LR!RecoverAllEnds => L!RecoverAllEnds
      /\ LR!Joined => L!Joined
  BY DEF LR!RecoverAll, L!RecoverAll, LR!StopBackground, L!StopBackground, LR!JoinTimesOut, L!JoinTimesOut,
     LR!RecoverAllEnds, L!RecoverAllEnds, LR!Joined, L!Joined, LR!Rest, L!Rest, LR!SetLink, L!SetLink,
     LR!Idle, L!Idle, LR!Endpoints, L!Endpoints
<1>6. LR!Recovered => Restores
  <2>. SUFFICES ASSUME LR!Recovered  PROVE Restores
    OBVIOUS
  <2>. DEFINE f == Head(s4.todo)
  <2>1. /\ s4.op = "restore" /\ LR!Ended(s3[0]) /\ s3' = [s3 EXCEPT ![0] = LR!Idle] /\ UNCHANGED <<s1, s2, s5, s6, s8>>
        /\ s3[0].errors => s4' = [s4 EXCEPT !.op = "next", !.todo = Tail(@), !.remaining = Append(@, f)]
        /\ ~s3[0].errors => s4' = [s4 EXCEPT !.op = "next", !.todo = Tail(@)]
    BY DEF LR!Recovered
  <2>2. LR!Idle = L!Idle
    BY DEF LR!Idle, L!Idle
  <2>. QED  BY <2>1, <2>2 DEF Restores, LR!Ended, Empty
<1>7. LR!Procs = 0 .. MaxRouteFaults /\ LR!Ids = 1 .. MaxRouteFaults /\ ~LR!InjectExpires
  BY DEF LR!Procs, LR!Ids, LR!InjectExpires
<1>. QED  BY <1>1, <1>2, <1>3, <1>4, <1>5, <1>6, <1>7 DEF LR!Next, LR!Injecting, LR!Recovering, LinkMoves

\* The routes of the ends are in the snapshots of the faults.
Saved(faults, ends) == \A e \in ends : \E f \in faults : e \in f.snapshot

\* With faults that need no controller, every route that is gone is in the
\* snapshot of a fault that is tracked or will be when the call ends, or comes
\* back with the call.
RoutesKept(n) ==
    /\ \A i \in 1 .. n : s5[i] = "none"
    /\ s4.op = "idle" => Saved(L!Range(s7), Links \ s2)
    /\ s4.op = "inject" => /\ s4.type = "link_down" /\ Saved(L!Range(s7), Links \ s4.snapshot)
                           /\ Kept(s3[0], s2)
    /\ s4.op \in {"next", "join", "restore"} =>
          Saved(L!Range(s4.todo) \cup L!Range(s4.remaining), Links \ s2)
    /\ s4.op = "restore" => Regained(s3[0], s2)

RoutesSafe(n) == LinkSafe(n) /\ RoutesKept(n)

LEMMA RoutesWalk ==
    ASSUME NEW n \in Nat, RoutesSafe(n), NEW p \in 0 .. n, L!Step(p)
    PROVE  RoutesKept(n)'
<1>0. LinkSafe(n) /\ RoutesKept(n)
  BY DEF RoutesSafe
<1>1. Walk(s3[p]) /\ s3 = [q \in 0 .. n |-> s3[q]] /\ 0 \in 0 .. n
  BY <1>0, LinkFacts
<1>2. PICK r : s3' = [s3 EXCEPT ![p] = r] /\ StepsTo(s3[p], r) /\ UNCHANGED <<s4, s5, s6, s7, s8>>
  BY <1>1, WalkStep
<1>3. s3[p].phase # "idle" /\ p = 0
  <2>1. s3[p].phase # "idle"
    BY <1>2 DEF StepsTo
  <2>2. p \in 1 .. n => s5[p] = "none" /\ s5[p] \in {"healthy", "fault"}
    BY <1>0, <2>1, LinkFacts DEF RoutesKept
  <2>. QED  BY <2>1, <2>2
<1>4. s3'[0] = r
  BY <1>1, <1>2, <1>3
<1>5. /\ s4.op \in {"inject", "restore"}
      /\ s4.op = "inject" => ~s3[0].enabled
      /\ s4.op = "restore" => s3[0].enabled
  BY <1>0, <1>3, Caller DEF LinkSafe, LinkCalls
<1>6. /\ s3[0].enabled => s2 \subseteq s2' /\ (Regained(s3[0], s2) => Regained(r, s2'))
      /\ ~s3[0].enabled => (Kept(s3[0], s2) => Kept(r, s2'))
  BY <1>2, <1>3 DEF StepsTo
<1>7. CASE s4.op = "inject"
  BY <1>0, <1>2, <1>4, <1>5, <1>6, <1>7 DEF RoutesKept
<1>8. CASE s4.op = "restore"
  BY <1>0, <1>2, <1>4, <1>5, <1>6, <1>8 DEF RoutesKept, Saved
<1>. QED  BY <1>5, <1>7, <1>8

LEMMA RoutesInject ==
    ASSUME NEW n \in Nat, RoutesSafe(n), Injects("link_down", n)
    PROVE  RoutesKept(n)'
<1>. DEFINE j == L!SetLink(FALSE, s2)
<1>0. LinkSafe(n) /\ RoutesKept(n)
  BY DEF RoutesSafe
<1>1. /\ j.phase = "set" /\ ~j.enabled /\ j.snapshot = s2 /\ ~j.errors
  BY WalkBegins
<1>. HIDE DEF j
<1>2. s4'.op = "inject" /\ s4'.type = "link_down" /\ s4'.snapshot = s2
  BY DEF Injects, L!Rest
<1>3. s3'[0] = j /\ UNCHANGED <<s2, s5, s7>> /\ s4.op = "idle"
  BY <1>0, LinkFacts DEF Injects, j
<1>. QED  BY <1>0, <1>1, <1>2, <1>3 DEF RoutesKept, Kept

LEMMA RoutesInjectEnds ==
    ASSUME NEW n \in Nat, RoutesSafe(n), L!InjectEnds
    PROVE  RoutesKept(n)'
<1>. DEFINE j == s3[0]
            ok == L!Fault(FALSE)
            left == L!Fault(TRUE)
<1>0. LinkSafe(n) /\ RoutesKept(n) /\ s4.op = "inject"
  BY DEF RoutesSafe, L!InjectEnds
<1>1. /\ j.left = Empty
      /\ s7' = IF ~j.errors THEN Append(s7, ok) ELSE IF j.residual THEN Append(s7, left) ELSE s7
      /\ s4'.op = "idle" /\ UNCHANGED s2
      /\ s5' = IF ~j.errors /\ s4.type = "link_flapping" THEN [s5 EXCEPT ![s4.fault] = "down"] ELSE s5
  BY DEF L!InjectEnds, L!Ended, L!Residual, Empty, L!Rest
<1>2. /\ s4.type = "link_down" /\ s4.snapshot \subseteq Links /\ s8 \in 1 .. n /\ s4.fault = s8
      /\ j.snapshot = s4.snapshot
  BY <1>0, Caller DEF LinkSafe, LinkCalls, RoutesKept
<1>3. s7 \in Seq(FaultsOf(n))
  BY <1>0 DEF LinkSafe, LinkTypes
<1>4. /\ ok \in FaultsOf(n) /\ left \in FaultsOf(n)
      /\ ok.snapshot = s4.snapshot /\ left.snapshot = s4.snapshot
  BY <1>2 DEF L!Fault, FaultsOf
<1>. HIDE DEF ok, left
<1>5. /\ L!Range(s7) \subseteq L!Range(s7')
      /\ ~j.errors => ok \in L!Range(s7')
      /\ j.errors /\ j.residual => left \in L!Range(s7')
  BY <1>1, <1>3, <1>4, OneMore
<1>6. j.errors /\ ~j.residual => s4.snapshot \subseteq s2
  BY <1>0, <1>1, <1>2, EndsLeft DEF RoutesKept, Kept
<1>7. Saved(L!Range(s7), Links \ s4.snapshot)
  BY <1>0 DEF RoutesKept
<1>8. Saved(L!Range(s7'), Links \ s2')
  BY <1>1, <1>4, <1>5, <1>6, <1>7 DEF Saved
<1>9. s5' = s5
  BY <1>1, <1>2
<1>. QED  BY <1>0, <1>1, <1>8, <1>9 DEF RoutesKept

LEMMA RoutesRecover ==
    ASSUME NEW n \in Nat, RoutesSafe(n), L!RecoverAll \/ L!StopBackground \/ L!JoinTimesOut \/ L!RecoverAllEnds
    PROVE  RoutesKept(n)'
<1>0. LinkSafe(n) /\ RoutesKept(n)
  BY DEF RoutesSafe
<1>1. /\ s4.todo \in Seq(FaultsOf(n)) /\ s4.remaining \in Seq(FaultsOf(n))
      /\ s4 = [op |-> s4.op, fault |-> s4.fault, type |-> s4.type, snapshot |-> s4.snapshot,
               todo |-> s4.todo, remaining |-> s4.remaining]
  BY <1>0, Caller DEF LinkSafe
<1>2. CASE L!RecoverAll
  <2>1. s4' = [op |-> "next", fault |-> 0, type |-> "none", snapshot |-> {}, todo |-> s7, remaining |-> <<>>]
    BY <1>2 DEF L!RecoverAll, L!Rest
  <2>2. s4'.op = "next" /\ s4'.todo = s7 /\ s4.op = "idle" /\ UNCHANGED <<s2, s5>>
    BY <1>2, <2>1 DEF L!RecoverAll
  <2>. QED  BY <1>0, <2>2 DEF RoutesKept, Saved
<1>3. CASE L!StopBackground
  <2>1. s4.op = "next" /\ s4' = [s4 EXCEPT !.op = "join"] /\ UNCHANGED <<s2, s5>>
    BY <1>3 DEF L!StopBackground
  <2>2. s4'.op = "join" /\ s4'.todo = s4.todo /\ s4'.remaining = s4.remaining
    BY <1>1, <2>1
  <2>. QED  BY <1>0, <2>1, <2>2 DEF RoutesKept
<1>4. CASE L!JoinTimesOut
  <2>. DEFINE q == Append(s4.remaining, Head(s4.todo))
  <2>1. s4.op = "join" /\ s4.todo # Empty /\ UNCHANGED <<s2, s5>>
    BY <1>0, <1>4 DEF L!JoinTimesOut, LinkSafe, LinkCalls
  <2>2. Head(s4.todo) \in FaultsOf(n) /\ L!Range(s4.todo) = {Head(s4.todo)} \cup L!Range(Tail(s4.todo))
    BY <1>1, <2>1, OneLess
  <2>3. L!Range(q) = L!Range(s4.remaining) \cup {Head(s4.todo)}
    BY <1>1, <2>2, OneMore
  <2>4. s4' = [s4 EXCEPT !.op = "next", !.todo = Tail(s4.todo), !.remaining = q]
    BY <1>4 DEF L!JoinTimesOut
  <2>. HIDE DEF q
  <2>5. s4'.op = "next" /\ s4'.todo = Tail(s4.todo) /\ s4'.remaining = q
    BY <1>1, <2>4
  <2>6. L!Range(s4'.todo) \cup L!Range(s4'.remaining) = L!Range(s4.todo) \cup L!Range(s4.remaining)
    BY <2>2, <2>3, <2>5
  <2>. QED  BY <1>0, <2>1, <2>5, <2>6 DEF RoutesKept
<1>5. CASE L!RecoverAllEnds
  <2>1. /\ s4.op = "next" /\ s4.todo = Empty /\ UNCHANGED <<s2, s5>> /\ s7' = s4.remaining
        /\ s4'.op = "idle"
    BY <1>5 DEF L!RecoverAllEnds, Empty, L!Rest
  <2>2. L!Range(s7') = L!Range(s4.todo) \cup L!Range(s4.remaining)
    BY <2>1, EndsLeft
  <2>. QED  BY <1>0, <2>1, <2>2 DEF RoutesKept
<1>. QED  BY <1>2, <1>3, <1>4, <1>5

LEMMA RoutesJoined ==
    ASSUME NEW n \in Nat, RoutesSafe(n), L!Joined
    PROVE  RoutesKept(n)'
<1>. DEFINE j == L!SetLink(TRUE, Head(s4.todo).snapshot)
<1>0. LinkSafe(n) /\ RoutesKept(n)
  BY DEF RoutesSafe
<1>1. /\ s4.op = "join" /\ s4' = [s4 EXCEPT !.op = "restore"] /\ UNCHANGED <<s2, s5>>
      /\ s3' = [s3 EXCEPT ![0] = j]
  BY DEF L!Joined
<1>2. s4'.op = "restore" /\ s4'.todo = s4.todo /\ s4'.remaining = s4.remaining
  BY <1>0, <1>1, Caller DEF LinkSafe
<1>3. j.left = Both
  BY WalkBegins
<1>. HIDE DEF j
<1>4. s3'[0] = j
  BY <1>0, <1>1, LinkFacts
<1>5. Regained(s3'[0], s2')
  BY <1>3, <1>4, EndsLeft DEF Regained
<1>. QED  BY <1>0, <1>1, <1>2, <1>5 DEF RoutesKept

LEMMA RoutesRestore ==
    ASSUME NEW n \in Nat, RoutesSafe(n), Restores
    PROVE  RoutesKept(n)'
<1>. DEFINE f == Head(s4.todo)
            j == s3[0]
            more == Append(s4.remaining, f)
<1>0. LinkSafe(n) /\ RoutesKept(n)
  BY DEF RoutesSafe
<1>1. /\ s4.todo \in Seq(FaultsOf(n)) /\ s4.remaining \in Seq(FaultsOf(n))
      /\ s4 = [op |-> s4.op, fault |-> s4.fault, type |-> s4.type, snapshot |-> s4.snapshot,
               todo |-> s4.todo, remaining |-> s4.remaining]
  BY <1>0, Caller DEF LinkSafe
<1>2. s4.op = "restore" /\ s4.todo # Empty /\ j.snapshot = f.snapshot
  BY <1>0 DEF Restores, LinkSafe, LinkCalls
<1>3. f \in FaultsOf(n) /\ L!Range(s4.todo) = {f} \cup L!Range(Tail(s4.todo))
  BY <1>1, <1>2, OneLess
<1>4. L!Range(more) = L!Range(s4.remaining) \cup {f} /\ f.snapshot \subseteq Links
  <2>1. L!Range(more) = L!Range(s4.remaining) \cup {f}
    BY <1>1, <1>3, OneMore
  <2>2. f.snapshot \subseteq Links
    BY <1>3 DEF FaultsOf
  <2>. QED  BY <2>1, <2>2
<1>5. /\ s4' = IF j.errors THEN [s4 EXCEPT !.op = "next", !.todo = Tail(s4.todo), !.remaining = more]
               ELSE [s4 EXCEPT !.op = "next", !.todo = Tail(s4.todo)]
      /\ j.left = Empty /\ UNCHANGED <<s2, s5>>
  BY DEF Restores
<1>. HIDE DEF more, f
<1>6. /\ s4'.op = "next" /\ s4'.todo = Tail(s4.todo)
      /\ s4'.remaining = IF j.errors THEN more ELSE s4.remaining
  BY <1>1, <1>5
<1>7. ~j.errors => f.snapshot \subseteq s2
  BY <1>0, <1>2, <1>4, <1>5, EndsLeft DEF RoutesKept, Regained
<1>8. Saved(L!Range(s4.todo) \cup L!Range(s4.remaining), Links \ s2)
  BY <1>0, <1>2 DEF RoutesKept
<1>9. Saved(L!Range(s4'.todo) \cup L!Range(s4'.remaining), Links \ s2')
  BY <1>3, <1>4, <1>5, <1>6, <1>7, <1>8 DEF Saved
<1>. QED  BY <1>0, <1>5, <1>6, <1>9 DEF RoutesKept

LEMMA RoutesStay ==
    ASSUME NEW n \in Nat, RoutesSafe(n), LinkMoves(n, {"link_down"})
    PROVE  RoutesSafe(n)'
<1>1. LinkSafe(n)'
  <2>1. {"link_down"} \in SUBSET {"link_down", "link_flapping"}
    OBVIOUS
  <2>. QED  BY <2>1, LinkStays DEF RoutesSafe
<1>2. ASSUME NEW i \in 1 .. n, L!Controller(i)  PROVE FALSE
  <2>1. s5[i] = "none"
    BY DEF RoutesSafe, RoutesKept
  <2>. QED  BY <1>2, <2>1 DEF L!Controller, L!Toggle, L!Toggled, L!Cancelled
<1>3. RoutesKept(n)'
  BY <1>2, RoutesWalk, RoutesInject, RoutesInjectEnds, RoutesRecover, RoutesJoined, RoutesRestore
     DEF LinkMoves
<1>. QED  BY <1>1, <1>3 DEF RoutesSafe

LEMMA FaultBounds == MaxLinkFaults \in Nat /\ MaxRouteFaults \in Nat
BY LabAssumption DEF LabAssumption

LEMMA LinksInit ==
    /\ L!Init => LinkSafe(MaxLinkFaults)
    /\ LR!Init => RoutesSafe(MaxRouteFaults)
<1>1. L!Init => LinkSafe(MaxLinkFaults)
  BY FaultBounds, LinkInit DEF L!Init, L!Ends, L!Procs, L!Ids, Links, Empty
<1>2. LR!Init => LinkSafe(MaxRouteFaults)
  <2>1. LR!Idle = L!Idle /\ LR!Rest = L!Rest
    BY DEF LR!Idle, L!Idle, LR!Rest, L!Rest
  <2>. QED  BY <2>1, FaultBounds, LinkInit DEF LR!Init, LR!Ends, LR!Procs, LR!Ids, Links, Empty
<1>3. LR!Init => RoutesKept(MaxRouteFaults)
  BY DEF LR!Init, LR!Rest, LR!Ids, Links, RoutesKept, Saved
<1>. QED  BY <1>1, <1>2, <1>3 DEF RoutesSafe

LEMMA LinksStep ==
    /\ LinkSafe(MaxLinkFaults) /\ L!Next => LinkSafe(MaxLinkFaults)'
    /\ RoutesSafe(MaxRouteFaults) /\ LR!Next => RoutesSafe(MaxRouteFaults)'
<1>1. {"link_down", "link_flapping"} \in SUBSET {"link_down", "link_flapping"}
  OBVIOUS
<1>. QED  BY <1>1, FaultBounds, LinkActs, LinkStays, RoutesActs, RoutesStay

\* What the two kinds of behaviour promise.
LEMMA LinksBack ==
    /\ LinkSafe(MaxLinkFaults) => L!LinkBack /\ L!ControllerIsTracked
    /\ RoutesSafe(MaxRouteFaults) => LR!RoutesBack
<1>1. LinkSafe(MaxLinkFaults) => L!ControllerIsTracked
  BY DEF LinkSafe, LinkWatched, Watched, L!ControllerIsTracked, L!Ids
<1>2. LinkSafe(MaxLinkFaults) => L!LinkBack
  <2>. SUFFICES ASSUME LinkSafe(MaxLinkFaults), s4.op = "idle", s7 = Empty
                PROVE  s1 = Links /\ \A i \in 1 .. MaxLinkFaults : s5[i] \in {"none", "done"}
    BY DEF L!LinkBack, L!Ends, L!Ids, Links, Empty
  <2>1. OnlyFault
    BY DEF OnlyFault
  <2>. QED  BY <2>1, FaultBounds, NobodyElse DEF LinkSafe, LinkUp
<1>3. RoutesSafe(MaxRouteFaults) => LR!RoutesBack
  BY EndsLeft DEF RoutesSafe, LinkSafe, LinkTypes, RoutesKept, Saved, LR!RoutesBack, Links, Empty
<1>. QED  BY <1>1, <1>2, <1>3

LEMMA LinksStutter ==
    ASSUME UNCHANGED <<s1, s2, s3, s4, s5, s6, s7, s8>>
    PROVE  /\ LinkSafe(MaxLinkFaults) => LinkSafe(MaxLinkFaults)'
           /\ RoutesSafe(MaxRouteFaults) => RoutesSafe(MaxRouteFaults)'
<1>1. ASSUME NEW n \in Nat, LinkSafe(n)  PROVE LinkSafe(n)'
  <2>1. LinkTypes(n)' /\ LinkWatched(n)'
    BY <1>1 DEF LinkSafe, LinkTypes, LinkWatched, Watched
  <2>2. LinkCalls(n)' /\ LinkUp'
    BY <1>1 DEF LinkSafe, LinkCalls, LinkUp, OnlyFault
  <2>. QED  BY <2>1, <2>2 DEF LinkSafe
<1>2. RoutesKept(MaxRouteFaults) => RoutesKept(MaxRouteFaults)'
  BY DEF RoutesKept
<1>. QED  BY <1>1, <1>2, FaultBounds DEF RoutesSafe

-----------------------------------------------------------------------------
(* The BGP collector and its spool (BgpCollector,                           *)
(* observability/bgp_collector.py).                                         *)

Stages == {"wait", "round", "seal", "append", "failed", "clean", "dead"}
Changes == {"session_down", "session_recovered", "session_state_changed", "prefix_count"}
Lines == [kind : {"batch"}, size : {1, EventBytes}]
         \cup [kind : {"marker"}, size : {MarkerBytes}, id : Nat \ {0}]

\* Devices are polled in their order and the result of each is written before
\* the device is polled again; a write under way is of a result that is there.
CollectorTypes ==
    /\ s1 \in [BC!Dev -> BC!States] /\ s2 \in [BC!Dev -> BC!States \cup {"none"}]
    /\ s3 \in [pc : Stages, next : 1 .. (Len(Routers) + 1), running : SUBSET BC!Dev,
               stop : BOOLEAN, writing : BC!Dev \cup {"none"}]
    /\ s4 \in [BC!Dev -> [seen : BC!States \cup {"failed", "none"}, events : SUBSET Changes]]
    /\ \A d \in BC!Dev : s4[d].seen = "none" => s4[d] = BC!NoBatch
    /\ s9 \in [BC!Dev -> BC!States \cup {"none", "lost"}]

CollectorRounds ==
    /\ s3.pc \in {"wait", "clean"} => \A d \in BC!Dev : s4[d] = BC!NoBatch
    /\ s3.pc \in {"wait", "clean", "dead"} => s3.running = {}
    /\ \A d \in s3.running : s4[d] = BC!NoBatch
    /\ s3.pc \in {"round", "seal", "append", "failed"} =>
           \A k \in s3.next .. Len(Routers) : s4[Routers[k]] = BC!NoBatch /\ Routers[k] \notin s3.running
    /\ s3.pc \in {"seal", "append"} => s3.writing \in BC!Dev /\ s4[s3.writing] # BC!NoBatch

\* Between the polls the tracker knows of a device what the spool shows of it;
\* a result that is still to be written is one step ahead, and has the event of
\* that step.
Tracks(now, shown, batch) ==
    /\ batch # BC!NoBatch /\ batch.seen \notin {"failed", "gone"} => now = batch.seen
    /\ shown # "lost" =>
           IF batch = BC!NoBatch THEN shown = now
           ELSE /\ now = BC!Tracked(shown, batch.seen)
                /\ batch.seen # "failed" => batch.events = BC!Transitions(shown, now)

CollectorTracks == s3.pc # "dead" => \A d \in BC!Dev : Tracks(s2[d], s9[d], s4[d])

Polls == CollectorTypes /\ CollectorRounds /\ CollectorTracks

\* Where the markers of a file are, and the ids of those among its first lines.
Markers(lines) == {k \in DOMAIN lines : lines[k].kind = "marker"}
Shipped(lines, sent) == {lines[k].id : k \in {x \in Markers(lines) : x <= sent}}

\* A marker that is repeated has only markers since it was first written.
Contiguous(lines) ==
    \A k, m \in Markers(lines) : lines[k].id = lines[m].id => k .. m \subseteq Markers(lines)

FileTypes ==
    /\ s5 \in Seq(Lines) /\ s7 \in Nat
    /\ \A g \in s6 : g \in [id : Nat \ {0}, lines : Seq(Lines), sent : Nat]
    /\ s8 \subseteq Nat \ {0} /\ IsFiniteSet(s8) /\ IsFiniteSet(BC!InUse)

\* A marker is in one file only, and in InfluxDB only when that file's lines
\* were read as far as it; a sealed segment ends with its own.
FilesAre ==
    /\ Contiguous(s5) /\ s8 \cap BC!IdsIn(s5) \subseteq Shipped(s5, s7)
    /\ s3.pc = "seal" => Len(s5) \in Markers(s5)
    /\ \A g \in s6 :
          /\ Contiguous(g.lines) /\ s8 \cap BC!IdsIn(g.lines) \subseteq Shipped(g.lines, g.sent)
          /\ Len(g.lines) \in Markers(g.lines) /\ g.lines[Len(g.lines)].id = g.id
          /\ BC!IdsIn(g.lines) \cap BC!IdsIn(s5) = {}
          /\ \A h \in s6 : h # g => BC!IdsIn(g.lines) \cap BC!IdsIn(h.lines) = {}

Files == FileTypes /\ FilesAre

\* A write that has sealed a segment was admitted without its marker.
Sizes ==
    /\ IsFiniteSet(BC!Stored)
    /\ BC!SpoolSize <= MaxBytes + MarkerBytes
    /\ s3.pc \in {"seal", "append"} =>
           BC!SpoolSize + BC!BatchSize(s4[s3.writing]) <= MaxBytes + MarkerBytes

\* Every step that leaves the files alone.
Elsewhere ==
    /\ UNCHANGED <<s5, s6, s7, s8>>
    /\ s3'.pc \in {"seal", "append"} =>
           s3'.pc = s3.pc /\ s3'.writing = s3.writing /\ s4'[s3.writing] = s4[s3.writing]

LEMMA CollectorInit ==
    ASSUME BC!Init
    PROVE  Polls /\ Files /\ Sizes
<1>. USE DEF BC!Init
<1>1. Polls
  <2>1. CollectorTypes
    BY CollectorAssumption DEF CollectorTypes, Stages, Changes, BC!States, BC!NoBatch
  <2>2. CollectorRounds
    BY DEF CollectorRounds
  <2>3. CollectorTracks
    BY DEF CollectorTracks, Tracks
  <2>. QED  BY <2>1, <2>2, <2>3 DEF Polls
<1>2. BC!IdsIn(s5) = {} /\ Markers(s5) = {} /\ BC!Units(0, s5) = {}
  BY DEF BC!IdsIn, Markers, BC!Units
<1>3. BC!InUse = {} /\ BC!Stored = {}
  BY <1>2 DEF BC!InUse, BC!Stored
<1>4. Files
  BY <1>2, <1>3, FS_EmptySet DEF Files, FileTypes, FilesAre, Contiguous
<1>5. BC!SpoolSize = 0
  <2>1. BC!SpoolSize = Cardinality(BC!Stored)
    BY DEF BC!SpoolSize, BC!Cardinality, Cardinality
  <2>. QED  BY <1>3, <2>1, FS_EmptySet
<1>6. Sizes
  BY <1>3, <1>5, FS_EmptySet, CollectorAssumption DEF Sizes
<1>. QED  BY <1>1, <1>4, <1>6

-----------------------------------------------------------------------------
(* The rounds of polls.                                                     *)

LEMMA PollsOfRound ==
    ASSUME Polls, \/ BC!BeginRound \/ BC!SubmitDevice \/ BC!BreakOnStop \/ BC!CollectDone
    PROVE  Polls' /\ Elsewhere
<1>. USE DEF Polls, Elsewhere, BC!spool
<1>1. CASE BC!BeginRound
  <2>. USE <1>1 DEF BC!BeginRound
  <2>1. /\ s3' \in [pc : Stages, next : 1 .. (Len(Routers) + 1), running : SUBSET BC!Dev,
                     stop : BOOLEAN, writing : BC!Dev \cup {"none"}]
        /\ s3'.pc = "round"
    <3>1. 1 \in 1 .. (Len(Routers) + 1) /\ "round" \in Stages
      BY CollectorAssumption DEF Stages
    <3>2. s3' = [s3 EXCEPT !.pc = "round", !.next = 1]
      OBVIOUS
    <3>. QED  BY <3>1, <3>2 DEF CollectorTypes
  <2>4. CollectorTypes' /\ Elsewhere
    BY <2>1 DEF CollectorTypes
  <2>2. CollectorRounds'
    BY CollectorAssumption DEF CollectorTypes, CollectorRounds, BC!Dev, BC!Range
  <2>3. CollectorTracks'
    BY DEF CollectorTypes, CollectorTracks
  <2>. QED  BY <2>2, <2>3, <2>4
<1>2. CASE BC!SubmitDevice
  <2>. USE <1>2 DEF BC!SubmitDevice
  <2>0. Routers[s3.next] \in BC!Dev
    BY CollectorAssumption DEF CollectorTypes, BC!Dev, BC!Range
  <2>4. s3.next + 1 \in 1 .. (Len(Routers) + 1) /\ s3.running \cup {Routers[s3.next]} \subseteq BC!Dev
    BY <2>0, CollectorAssumption DEF CollectorTypes
  <2>5. s3' = [s3 EXCEPT !.next = s3.next + 1, !.running = s3.running \cup {Routers[s3.next]}]
    BY DEF CollectorTypes
  <2>1. CollectorTypes' /\ Elsewhere
    BY <2>4, <2>5 DEF CollectorTypes
  <2>2. CollectorRounds'
    <3>1. s4[Routers[s3.next]] = BC!NoBatch
      BY CollectorAssumption DEF CollectorTypes, CollectorRounds
    <3>2. \A k \in s3'.next .. Len(Routers) : Routers[k] # Routers[s3.next] /\ k \in s3.next .. Len(Routers)
      BY CollectorAssumption DEF CollectorTypes
    <3>. QED  BY <2>0, <3>1, <3>2 DEF CollectorTypes, CollectorRounds
  <2>3. CollectorTracks'
    BY DEF CollectorTypes, CollectorTracks
  <2>. QED  BY <2>1, <2>2, <2>3
<1>3. CASE BC!BreakOnStop
  <2>. USE <1>3 DEF BC!BreakOnStop
  <2>1. CollectorTypes' /\ Elsewhere
    BY CollectorAssumption DEF CollectorTypes, Stages
  <2>2. CollectorRounds'
    BY CollectorAssumption DEF CollectorTypes, CollectorRounds
  <2>3. CollectorTracks'
    BY DEF CollectorTypes, CollectorTracks
  <2>. QED  BY <2>1, <2>2, <2>3
<1>4. CASE BC!CollectDone
  <2>. USE <1>4 DEF BC!CollectDone, BC!RoundDone
  <2>1. CollectorTypes' /\ Elsewhere
    BY CollectorAssumption DEF CollectorTypes, Stages
  <2>2. CollectorRounds'
    BY CollectorAssumption DEF CollectorTypes, CollectorRounds
  <2>3. CollectorTracks'
    BY DEF CollectorTypes, CollectorTracks
  <2>. QED  BY <2>1, <2>2, <2>3
<1>. QED  BY <1>1, <1>2, <1>3, <1>4

\* A poll takes the tracker one step on, and its result the event of that step.
LEMMA PollsOfDevice ==
    ASSUME Polls, NEW d \in BC!Dev, BC!CollectDevice(d)
    PROVE  Polls' /\ Elsewhere
<1>. USE DEF Polls
<1>1. PICK s \in {s1[d], "failed"} :
        /\ s4' = [s4 EXCEPT ![d] = BC!Processed(s2[d], s)]
        /\ s2' = [s2 EXCEPT ![d] = BC!Tracked(s2[d], s)]
  BY DEF BC!CollectDevice
<1>2. /\ d \in s3.running /\ s3' = [s3 EXCEPT !.running = @ \ {d}]
      /\ UNCHANGED <<s1, s5, s6, s7, s8, s9, s10>>
  BY DEF BC!CollectDevice, BC!spool
<1>3. s \in BC!States \cup {"failed"} /\ s # "none"
  BY <1>1 DEF CollectorTypes, BC!States
<1>4. BC!Tracked(s2[d], s) \in BC!States \cup {"none"}
  BY <1>3 DEF CollectorTypes, BC!Tracked
<1>5. /\ BC!Processed(s2[d], s).seen = s /\ BC!Processed(s2[d], s) # BC!NoBatch
      /\ BC!Processed(s2[d], s) \in [seen : BC!States \cup {"failed", "none"}, events : SUBSET Changes]
      /\ s # "failed" => BC!Processed(s2[d], s).events = BC!Transitions(s2[d], BC!Tracked(s2[d], s))
  BY <1>3 DEF BC!Processed, BC!NoBatch, BC!Transitions, BC!EventType, Changes
<1>6. CollectorTypes'
  <2>1. \A e \in BC!Dev : s4'[e].seen = "none" => s4'[e] = BC!NoBatch
    BY <1>1, <1>3, <1>5 DEF CollectorTypes
  <2>. QED  BY <1>1, <1>2, <1>4, <1>5, <2>1 DEF CollectorTypes
<1>7. CollectorRounds'
  <2>1. s3.pc \notin {"wait", "clean", "dead"} /\ s3'.pc = s3.pc /\ s3'.next = s3.next /\ s3'.writing = s3.writing
    BY <1>2 DEF CollectorTypes, CollectorRounds
  <2>2. s3'.running = s3.running \ {d} /\ \A e \in BC!Dev : e # d => s4'[e] = s4[e]
    BY <1>1, <1>2 DEF CollectorTypes
  <2>3. s4'[d] # BC!NoBatch
    BY <1>1, <1>5 DEF CollectorTypes
  <2>4. \A k \in s3.next .. Len(Routers) : Routers[k] # d /\ Routers[k] \in BC!Dev
    BY <1>2, <2>1, CollectorAssumption DEF CollectorTypes, CollectorRounds, Stages, BC!Dev, BC!Range
  <2>. QED  BY <2>1, <2>2, <2>3, <2>4 DEF CollectorTypes, CollectorRounds
<1>8. CollectorTracks'
  <2>1. s4[d] = BC!NoBatch /\ s3.pc # "dead" /\ s3'.pc = s3.pc
    BY <1>2 DEF CollectorTypes, CollectorRounds
  <2>2. s9[d] # "lost" => s9[d] = s2[d]
    BY <2>1 DEF CollectorTracks, Tracks
  <2>3. s2'[d] = BC!Tracked(s2[d], s) /\ s4'[d] = BC!Processed(s2[d], s)
    BY <1>1 DEF CollectorTypes
  <2>4. \A e \in BC!Dev : e # d => s2'[e] = s2[e] /\ s4'[e] = s4[e]
    BY <1>1 DEF CollectorTypes
  <2>5. Tracks(s2'[d], s9'[d], s4'[d])
    BY <1>2, <1>3, <1>5, <2>2, <2>3 DEF Tracks, BC!Tracked
  <2>7. \A e \in BC!Dev : e # d => Tracks(s2'[e], s9'[e], s4'[e])
    BY <1>2, <2>1, <2>4 DEF CollectorTracks
  <2>. QED  BY <2>5, <2>7 DEF CollectorTracks
<1>9. Elsewhere
  <2>1. s3'.pc = s3.pc /\ s3'.writing = s3.writing
    BY <1>2 DEF CollectorTypes
  <2>2. s3.pc \in {"seal", "append"} => s3.writing # d /\ s3.writing \in BC!Dev
    BY <1>2 DEF CollectorRounds
  <2>. QED  BY <1>1, <1>2, <2>1, <2>2 DEF Elsewhere, CollectorTypes
<1>. QED  BY <1>6, <1>7, <1>8, <1>9

\* A refused batch leaves its round; what is not written is lost.
LEMMA PollsOfRefusal ==
    ASSUME Polls, (\E d \in BC!Dev : BC!RefuseBatch(d)) \/ BC!AbortRound
    PROVE  Polls' /\ Elsewhere
<1>. USE DEF Polls, Elsewhere, BC!spool
<1>1. CASE \E d \in BC!Dev : BC!RefuseBatch(d)
  <2>0. s3' = [s3 EXCEPT !.pc = "failed"] /\ s3.pc = "round" /\ UNCHANGED <<s1, s2, s4, s5, s6, s7, s8, s9, s10>>
    BY <1>1 DEF BC!RefuseBatch
  <2>1. CollectorTypes' /\ Elsewhere
    BY <2>0 DEF CollectorTypes, Stages
  <2>2. CollectorRounds'
    BY <2>0 DEF CollectorTypes, CollectorRounds
  <2>3. CollectorTracks'
    BY <2>0 DEF CollectorTypes, CollectorTracks
  <2>. QED  BY <2>1, <2>2, <2>3
<1>2. CASE BC!AbortRound
  <2>. USE <1>2 DEF BC!AbortRound
  <2>0. s3'.pc = "wait" /\ s3'.running = {} /\ \A d \in BC!Dev : s4'[d] = BC!NoBatch
    BY DEF CollectorTypes
  <2>1. CollectorTypes' /\ Elsewhere
    <3>1. BC!NoBatch \in [seen : BC!States \cup {"failed", "none"}, events : SUBSET Changes]
      BY DEF BC!NoBatch
    <3>. QED  BY <3>1 DEF CollectorTypes, Stages
  <2>2. CollectorRounds'
    BY <2>0 DEF CollectorRounds
  <2>3. CollectorTracks'
    <3>1. ASSUME NEW d \in BC!Dev, s9'[d] # "lost"  PROVE s9'[d] = s2'[d]
      <4>1. s9'[d] = s9[d] /\ (s4[d] = BC!NoBatch \/ s4[d].seen = "failed") /\ s2'[d] = s2[d] /\ s3.pc # "dead"
        BY <3>1 DEF CollectorTypes
      <4>. QED  BY <3>1, <4>1 DEF CollectorTracks, Tracks, BC!Tracked
    <3>. QED  BY <2>0, <3>1 DEF CollectorTracks, Tracks
  <2>. QED  BY <2>1, <2>2, <2>3
<1>. QED  BY <1>1, <1>2

\* What is written is what the tracker knew when it was polled.
LEMMA PollsOfWrite ==
    ASSUME Polls, NEW d \in BC!Dev, BC!WriteMarker(d) \/ BC!AppendBatch(d)
    PROVE  Polls'
<1>. USE DEF Polls
<1>1. CASE BC!WriteMarker(d)
  <2>0. /\ \/ s3' = [s3 EXCEPT !.pc = "failed"]
           \/ s3' = [s3 EXCEPT !.pc = "seal", !.writing = d]
        /\ s3.pc = "round" /\ s4[d] # BC!NoBatch /\ UNCHANGED <<s1, s2, s4, s9>>
    BY <1>1 DEF BC!WriteMarker
  <2>1. CollectorTypes'
    BY <2>0 DEF CollectorTypes, Stages
  <2>2. CollectorRounds'
    BY <2>0 DEF CollectorTypes, CollectorRounds
  <2>3. CollectorTracks'
    BY <2>0 DEF CollectorTypes, CollectorTracks
  <2>. QED  BY <2>1, <2>2, <2>3
<1>2. CASE BC!AppendBatch(d)
  <2>0. /\ s4[d] # BC!NoBatch /\ s3.pc \in {"round", "append"}
        /\ s4' = [s4 EXCEPT ![d] = BC!NoBatch]
        /\ s9' = [s9 EXCEPT ![d] = BC!Shown(s9[d], s4[d].seen)]
        /\ s3' = [s3 EXCEPT !.pc = "round", !.writing = "none"]
        /\ UNCHANGED <<s1, s2>>
    BY <1>2 DEF BC!AppendBatch, CollectorTypes
  <2>1. CollectorTypes'
    <3>1. BC!NoBatch \in [seen : BC!States \cup {"failed", "none"}, events : SUBSET Changes]
      BY DEF BC!NoBatch
    <3>2. BC!Shown(s9[d], s4[d].seen) \in BC!States \cup {"none", "lost"}
      BY <2>0 DEF CollectorTypes, BC!Shown
    <3>. QED  BY <2>0, <3>1, <3>2 DEF CollectorTypes, Stages
  <2>2. CollectorRounds'
    BY <2>0 DEF CollectorTypes, CollectorRounds
  <2>3. CollectorTracks'
    <3>1. s4'[d] = BC!NoBatch /\ s9'[d] = BC!Shown(s9[d], s4[d].seen)
          /\ \A e \in BC!Dev : e # d => s4'[e] = s4[e] /\ s9'[e] = s9[e]
      BY <2>0 DEF CollectorTypes
    <3>2. s3.pc # "dead" /\ s2' = s2
      BY <2>0
    <3>3. Tracks(s2[d], s9[d], s4[d]) /\ s4[d] # BC!NoBatch
      BY <2>0, <3>2 DEF CollectorTracks
    <3>4. s9'[d] # "lost" => s9'[d] = s2[d]
      BY <3>1, <3>3 DEF BC!Shown, BC!Tracked, Tracks
    <3>5. Tracks(s2'[d], s9'[d], s4'[d])
      BY <3>1, <3>2, <3>4 DEF Tracks
    <3>. QED  BY <3>1, <3>2, <3>5 DEF CollectorTracks
  <2>. QED  BY <2>1, <2>2, <2>3
<1>. QED  BY <1>1, <1>2

LEMMA PollsOfOthers ==
    ASSUME Polls, \/ BC!SealSegment \/ BC!DeleteIngested \/ BC!QueryFails \/ BC!Stop \/ BC!Crash
                  \/ BC!Start \/ (\E d \in BC!Dev : BC!SessionChanges(d)) \/ BC!IngestActive \/ BC!IngestSealed
    PROVE  /\ Polls'
           /\ BC!SealSegment \/ BC!DeleteIngested \/ BC!IngestActive \/ BC!IngestSealed \/ Elsewhere
<1>. USE DEF Polls
<1>1. CASE BC!SealSegment \/ BC!DeleteIngested \/ BC!QueryFails
  <2>0. /\ \/ BC!SealSegment /\ s3.pc = "seal" /\ s3' = [s3 EXCEPT !.pc = "append"]
           \/ BC!DeleteIngested /\ s3.pc = "clean" /\ s3' = [s3 EXCEPT !.pc = "wait"]
           \/ BC!QueryFails /\ s3.pc = "clean" /\ s3' = [s3 EXCEPT !.pc = "wait"] /\ UNCHANGED <<s5, s6, s7, s8>>
        /\ UNCHANGED <<s1, s2, s4, s9>>
    BY <1>1 DEF BC!SealSegment, BC!DeleteIngested, BC!QueryFails, BC!spool
  <2>1. CollectorTypes'
    BY <2>0 DEF CollectorTypes, Stages
  <2>2. CollectorRounds'
    BY <2>0 DEF CollectorTypes, CollectorRounds
  <2>3. CollectorTracks'
    BY <2>0 DEF CollectorTypes, CollectorTracks
  <2>4. BC!SealSegment \/ BC!DeleteIngested \/ Elsewhere
    BY <2>0 DEF Elsewhere, CollectorTypes
  <2>. QED  BY <2>1, <2>2, <2>3, <2>4
<1>2. CASE BC!Stop \/ BC!Crash
  <2>0. /\ \/ s3' = [s3 EXCEPT !.stop = TRUE]
           \/ s3' = [s3 EXCEPT !.pc = "dead", !.running = {}, !.writing = "none"]
        /\ UNCHANGED <<s1, s2, s4, s5, s6, s7, s8, s9>>
    BY <1>2 DEF BC!Stop, BC!Crash, BC!spool
  <2>1. CollectorTypes'
    BY <2>0 DEF CollectorTypes, Stages
  <2>2. CollectorRounds'
    BY <2>0 DEF CollectorTypes, CollectorRounds
  <2>3. CollectorTracks'
    BY <2>0 DEF CollectorTypes, CollectorTracks
  <2>4. Elsewhere
    BY <2>0 DEF Elsewhere, CollectorTypes
  <2>. QED  BY <2>1, <2>2, <2>3, <2>4
<1>3. CASE BC!Start
  <2>. USE <1>3 DEF BC!Start
  <2>0. /\ s3'.pc = "wait" /\ s3'.running = {}
        /\ \A d \in BC!Dev : s4'[d] = BC!NoBatch /\ s9'[d] = "none" /\ s2'[d] = "none"
    OBVIOUS
  <2>1. CollectorTypes'
    <3>1. BC!NoBatch \in [seen : BC!States \cup {"failed", "none"}, events : SUBSET Changes]
      BY DEF BC!NoBatch
    <3>. QED  BY <3>1, CollectorAssumption DEF CollectorTypes, Stages
  <2>2. CollectorRounds' /\ CollectorTracks'
    BY <2>0 DEF CollectorRounds, CollectorTracks, Tracks
  <2>3. Elsewhere
    BY DEF Elsewhere, BC!spool
  <2>. QED  BY <2>1, <2>2, <2>3
<1>4. CASE (\E d \in BC!Dev : BC!SessionChanges(d)) \/ BC!IngestActive \/ BC!IngestSealed
  <2>0. /\ UNCHANGED <<s2, s3, s4, s9>> /\ s1' \in [BC!Dev -> BC!States]
        /\ BC!IngestActive \/ BC!IngestSealed \/ UNCHANGED <<s5, s6, s7, s8>>
    BY <1>4, CollectorAssumption DEF BC!SessionChanges, BC!IngestActive, BC!IngestSealed, BC!spool,
       CollectorTypes, BC!States
  <2>1. CollectorTypes'
    BY <2>0 DEF CollectorTypes
  <2>2. CollectorRounds'
    BY <2>0 DEF CollectorRounds
  <2>3. CollectorTracks'
    BY <2>0 DEF CollectorTracks
  <2>. QED  BY <2>0, <2>1, <2>2, <2>3 DEF Elsewhere
<1>. QED  BY <1>1, <1>2, <1>3, <1>4

-----------------------------------------------------------------------------
(* Files and their markers.                                                 *)

\* One line more, in what the spool's properties look at.
LEMMA OneLineMore ==
    ASSUME NEW lines \in Seq(Lines), NEW l \in Lines
    PROVE  LET more == Append(lines, l)
           IN  /\ more \in Seq(Lines) /\ Len(more) = Len(lines) + 1 /\ Len(lines) \in Nat
               /\ l.kind = "marker" => Len(more) \in Markers(more)
               /\ more[Len(more)] = l
               /\ Markers(more) = Markers(lines) \cup (IF l.kind = "marker" THEN {Len(more)} ELSE {})
               /\ \A k \in Markers(lines) : more[k] = lines[k] /\ k \in 1 .. Len(lines)
               /\ BC!IdsIn(more) = BC!IdsIn(lines) \cup (IF l.kind = "marker" THEN {l.id} ELSE {})
               /\ BC!Units(0, more) = BC!Units(0, lines) \cup ({0} \X {Len(more)} \X (1 .. l.size))
<1>. DEFINE more == Append(lines, l)
<1>1. /\ more \in Seq(Lines) /\ Len(more) = Len(lines) + 1 /\ more[Len(more)] = l
      /\ \A k \in 1 .. Len(lines) : more[k] = lines[k]
      /\ Len(lines) \in Nat /\ DOMAIN lines = 1 .. Len(lines) /\ DOMAIN more = 1 .. (Len(lines) + 1)
  BY AppendProperties
<1>. HIDE DEF more
<1>2. DOMAIN more = DOMAIN lines \cup {Len(more)} /\ Len(more) \notin DOMAIN lines
  BY <1>1
<1>3. Markers(more) = Markers(lines) \cup (IF l.kind = "marker" THEN {Len(more)} ELSE {})
  BY <1>1, <1>2 DEF Markers
<1>4. BC!IdsIn(more) = BC!IdsIn(lines) \cup (IF l.kind = "marker" THEN {l.id} ELSE {})
  BY <1>1, <1>2 DEF BC!IdsIn
<1>5. BC!Units(0, more) = BC!Units(0, lines) \cup ({0} \X {Len(more)} \X (1 .. l.size))
  BY <1>1, <1>2 DEF BC!Units
<1>6. \A k \in Markers(lines) : more[k] = lines[k] /\ k \in 1 .. Len(lines)
  BY <1>1 DEF Markers
<1>7. l.kind = "marker" => Len(more) \in Markers(more)
  BY <1>3
<1>. QED  BY <1>1, <1>3, <1>4, <1>5, <1>6, <1>7 DEF more

\* A new marker keeps a file contiguous if its id is new, or is that of the
\* marker the file ends with.
LEMMA StaysContiguous ==
    ASSUME NEW lines \in Seq(Lines), NEW l \in Lines, Contiguous(lines),
           \/ l.kind # "marker"
           \/ l.id \notin BC!IdsIn(lines)
           \/ Len(lines) \in Markers(lines) /\ lines[Len(lines)].id = l.id
    PROVE  Contiguous(Append(lines, l))
<1>. DEFINE more == Append(lines, l)
<1>1. /\ Len(more) = Len(lines) + 1 /\ more[Len(more)] = l /\ Len(lines) \in Nat
      /\ Markers(more) = Markers(lines) \cup (IF l.kind = "marker" THEN {Len(more)} ELSE {})
      /\ \A k \in Markers(lines) : more[k] = lines[k] /\ k \in 1 .. Len(lines)
  BY OneLineMore
<1>. HIDE DEF more
<1>2. \A k \in Markers(lines) : lines[k].id \in BC!IdsIn(lines)
  BY DEF BC!IdsIn, Markers
<1>3. ASSUME NEW k \in Markers(more), NEW m \in Markers(more), more[k].id = more[m].id
      PROVE  k .. m \subseteq Markers(more)
  <2>1. CASE k \in Markers(lines) /\ m \in Markers(lines)
    BY <1>1, <1>3, <2>1 DEF Contiguous
  <2>2. CASE k \notin Markers(lines)
    <3>1. k = Len(more) /\ k \in Int /\ m <= k /\ m \in Int
      BY <1>1, <1>3, <2>2
    <3>2. \A j \in k .. m : j = k
      BY <3>1
    <3>. QED  BY <1>3, <3>2
  <2>3. CASE k \in Markers(lines) /\ m \notin Markers(lines)
    <3>1. m = Len(lines) + 1 /\ l.kind = "marker" /\ lines[k].id = l.id
      BY <1>1, <1>3, <2>3
    <3>2. Len(lines) \in Markers(lines) /\ lines[Len(lines)].id = l.id
      BY <1>2, <2>3, <3>1
    <3>3. k .. Len(lines) \subseteq Markers(lines)
      BY <2>3, <3>1, <3>2 DEF Contiguous
    <3>4. \A j \in k .. m : j \in k .. Len(lines) \/ j = m
      BY <1>1, <2>3, <3>1
    <3>. QED  BY <1>1, <1>3, <3>3, <3>4
  <2>. QED  BY <2>1, <2>2, <2>3
<1>. QED  BY <1>3 DEF Contiguous, more

\* What was among the first lines of a file still is when the file grows or
\* more of it is read.
LEMMA ShippedGrows ==
    ASSUME NEW lines \in Seq(Lines), NEW l \in Lines, NEW sent \in Nat
    PROVE  /\ Shipped(lines, sent) \subseteq Shipped(Append(lines, l), sent)
           /\ Shipped(lines, sent) \subseteq Shipped(lines, sent + 1)
<1>1. \A k \in Markers(lines) : Append(lines, l)[k] = lines[k] /\ k \in Markers(Append(lines, l)) /\ k \in Nat
  BY OneLineMore
<1>2. Shipped(lines, sent) \subseteq Shipped(Append(lines, l), sent)
  BY <1>1 DEF Shipped
<1>3. \A k \in Markers(lines) : k <= sent => k <= sent + 1
  BY <1>1
<1>4. Shipped(lines, sent) \subseteq Shipped(lines, sent + 1)
  BY <1>3 DEF Shipped
<1>. QED  BY <1>2, <1>4

\* The id of a marker that is to be written is that of the marker before it, or
\* is new to the spool and to InfluxDB (_rotate_active_segment).
LEMMA NewIds ==
    ASSUME FileTypes, s5 # <<>>
    PROVE  LET i == BC!SegmentId
           IN  /\ i \in Nat \ {0}
               /\ \/ Len(s5) \in Markers(s5) /\ s5[Len(s5)].id = i
                  \/ i \notin BC!InUse \cup s8
<1>. DEFINE used == BC!InUse \cup s8
            n == Cardinality(used)
            next == CHOOSE i \in 1 .. (n + 1) : i \notin used
<1>1. Len(s5) \in DOMAIN s5 /\ s5[Len(s5)] \in Lines
  BY EmptySeq, LenProperties, ElementOfSeq DEF FileTypes
<1>2. CASE s5[Len(s5)].kind = "marker"
  BY <1>1, <1>2 DEF BC!SegmentId, Markers, Lines
<1>3. CASE s5[Len(s5)].kind # "marker"
  <2>1. IsFiniteSet(used) /\ n \in Nat
    BY FS_Union, FS_CardinalityType DEF FileTypes
  <2>2. BC!SegmentId = next
    BY <1>1, <1>3 DEF BC!SegmentId, BC!Cardinality, Cardinality
  <2>. HIDE DEF used
  <2>3. ~(1 .. (n + 1) \subseteq used)
    <3>1. IsFiniteSet(1 .. (n + 1)) /\ Cardinality(1 .. (n + 1)) = n + 1
      BY <2>1, FS_Interval
    <3>2. 1 .. (n + 1) \subseteq used => Cardinality(1 .. (n + 1)) <= n
      BY <2>1, FS_Subset
    <3>. QED  BY <2>1, <3>1, <3>2
  <2>4. next \in 1 .. (n + 1) /\ next \notin used
    BY <2>3
  <2>5. next \in Nat \ {0}
    BY <2>1, <2>4
  <2>. QED  BY <2>2, <2>4, <2>5 DEF used
<1>. QED  BY <1>2, <1>3

LEMMA FilesElsewhere ==
    ASSUME Files, Elsewhere
    PROVE  Files'
BY DEF Files, FileTypes, FilesAre, Elsewhere, BC!InUse

\* The ids of a file's markers, and among them the id of a sealed segment.
LEMMA IdsOfFiles ==
    ASSUME Files
    PROVE  /\ \A k \in Markers(s5) : s5[k].id \in BC!IdsIn(s5)
           /\ \A g \in s6 : BC!IdsIn(g.lines) \subseteq BC!InUse /\ g.id \in BC!IdsIn(g.lines)
           /\ BC!IdsIn(s5) \subseteq BC!InUse
<1>1. \A k \in Markers(s5) : s5[k].id \in BC!IdsIn(s5)
  BY DEF Markers, BC!IdsIn
<1>2. \A g \in s6 : g.id \in BC!IdsIn(g.lines)
  BY DEF Files, FilesAre, Markers, BC!IdsIn
<1>3. \A g \in s6 : BC!IdsIn(g.lines) \subseteq BC!InUse
  BY DEF BC!InUse
<1>. QED  BY <1>1, <1>2, <1>3 DEF BC!InUse

LEMMA FilesGrow ==
    ASSUME Files, NEW l \in Lines, s5' = Append(s5, l), UNCHANGED <<s6, s7, s8>>,
           \/ l.kind # "marker"
           \/ l.id \notin BC!InUse \cup s8
           \/ Len(s5) \in Markers(s5) /\ s5[Len(s5)].id = l.id,
           s3'.pc = "seal" => l.kind = "marker"
    PROVE  Files'
<1>1. /\ s5' \in Seq(Lines) /\ (l.kind = "marker" => Len(s5') \in Markers(s5'))
      /\ BC!IdsIn(s5') = BC!IdsIn(s5) \cup (IF l.kind = "marker" THEN {l.id} ELSE {})
  BY OneLineMore DEF Files, FileTypes
<1>2. /\ l.kind # "marker" => BC!IdsIn(s5') = BC!IdsIn(s5)
      /\ l.kind = "marker" => l.id \in BC!IdsIn(s5) \/ (l.id \notin BC!InUse /\ l.id \notin s8)
  BY <1>1, IdsOfFiles
<1>3. FileTypes'
  <2>1. BC!InUse' = BC!InUse \/ (l.kind = "marker" /\ BC!InUse' = BC!InUse \cup {l.id})
    BY <1>1, <1>2 DEF BC!InUse
  <2>3. IsFiniteSet(BC!InUse) /\ IsFiniteSet(BC!InUse \cup {l.id})
    BY FS_AddElement DEF Files, FileTypes
  <2>2. IsFiniteSet(BC!InUse')
    BY <2>1, <2>3
  <2>. QED  BY <1>1, <2>2 DEF Files, FileTypes
<1>4. FilesAre'
  <2>1. Contiguous(s5')
    BY StaysContiguous, IdsOfFiles DEF Files, FileTypes, FilesAre
  <2>2. Shipped(s5, s7) \subseteq Shipped(s5', s7)
    BY ShippedGrows DEF Files, FileTypes
  <2>3. s8' \cap BC!IdsIn(s5') \subseteq Shipped(s5', s7')
    BY <1>1, <1>2, <2>2 DEF Files, FilesAre
  <2>4. s3'.pc = "seal" => Len(s5') \in Markers(s5')
    BY <1>1
  <2>5. \A g \in s6 : BC!IdsIn(g.lines) \cap BC!IdsIn(s5') = {}
    <3>1. \A g \in s6 : /\ BC!IdsIn(g.lines) \cap BC!IdsIn(s5) = {}
                       /\ BC!IdsIn(g.lines) \subseteq BC!InUse
      BY IdsOfFiles DEF Files, FilesAre
    <3>2. CASE BC!IdsIn(s5') = BC!IdsIn(s5)
      BY <3>1, <3>2
    <3>3. CASE BC!IdsIn(s5') = BC!IdsIn(s5) \cup {l.id} /\ l.id \notin BC!InUse
      BY <3>1, <3>3
    <3>. QED  BY <1>1, <1>2, <3>2, <3>3
  <2>. QED  BY <2>1, <2>3, <2>4, <2>5 DEF Files, FilesAre
<1>. QED  BY <1>3, <1>4 DEF Files

LEMMA FilesOfMarker ==
    ASSUME Polls, Files, NEW d \in BC!Dev, BC!WriteMarker(d)
    PROVE  Files'
<1>. DEFINE l == BC!Marker(BC!SegmentId)
<1>1. CASE UNCHANGED s5
  BY <1>1, FilesElsewhere DEF BC!WriteMarker, Elsewhere, Polls, CollectorTypes
<1>2. CASE s5' = Append(s5, l)
  <2>1. s5 # <<>> /\ UNCHANGED <<s6, s7, s8>>
    BY DEF BC!WriteMarker, BC!NeedsRotation
  <2>2. l.kind = "marker" /\ l.id = BC!SegmentId /\ l.id \in Nat \ {0}
    BY <2>1, NewIds DEF BC!Marker, Files
  <2>3. l \in Lines
    BY <2>2 DEF Lines, BC!Marker
  <2>4. \/ l.id \notin BC!InUse \cup s8
        \/ Len(s5) \in Markers(s5) /\ s5[Len(s5)].id = l.id
    BY <2>1, <2>2, NewIds DEF Files
  <2>. HIDE DEF l
  <2>. QED  BY <1>2, <2>1, <2>2, <2>3, <2>4, FilesGrow
<1>. QED  BY <1>1, <1>2 DEF BC!WriteMarker

LEMMA LineOfBatch ==
    ASSUME Polls, NEW d \in BC!Dev
    PROVE  /\ BC!Line(d) \in Lines /\ BC!Line(d).kind = "batch"
           /\ BC!Line(d).size = BC!BatchSize(s4[d]) /\ BC!BatchSize(s4[d]) \in Nat
BY CollectorAssumption DEF BC!Line, BC!BatchSize, Lines

LEMMA FilesOfAppend ==
    ASSUME Polls, Files, NEW d \in BC!Dev, BC!AppendBatch(d)
    PROVE  Files'
<1>1. s5' = Append(s5, BC!Line(d)) /\ UNCHANGED <<s6, s7, s8>> /\ s3'.pc = "round"
  BY DEF BC!AppendBatch, Polls, CollectorTypes
<1>. QED  BY <1>1, LineOfBatch, FilesGrow

\* A sealed segment takes over the file with its markers and what was read of
\* it (os.replace).
LEMMA FilesOfSeal ==
    ASSUME Polls, Files, BC!SealSegment
    PROVE  Files'
<1>. DEFINE g0 == [id |-> s5[Len(s5)].id, lines |-> s5, sent |-> s7]
<1>1. /\ s6' = s6 \cup {g0} /\ s5' = <<>> /\ s7' = 0 /\ s8' = s8 /\ s3.pc = "seal" /\ s3'.pc = "append"
  BY DEF BC!SealSegment, Polls, CollectorTypes
<1>2. Len(s5) \in Markers(s5) /\ s5[Len(s5)] \in Lines
  BY <1>1, ElementOfSeq, LenProperties DEF Files, FileTypes, FilesAre, Markers
<1>3. g0.id \in Nat \ {0} /\ g0.id \in BC!IdsIn(s5)
  BY <1>2, IdsOfFiles DEF Lines, Markers
<1>4. g0 \in [id : Nat \ {0}, lines : Seq(Lines), sent : Nat]
  BY <1>3 DEF Files, FileTypes
<1>5. BC!IdsIn(s5') = {} /\ Markers(s5') = {}
  BY <1>1 DEF BC!IdsIn, Markers
<1>6. g0.id = s5[Len(s5)].id /\ g0.lines = s5 /\ g0.sent = s7
  OBVIOUS
<1>. HIDE DEF g0
<1>7. FileTypes'
  <2>1. BC!InUse' \subseteq BC!InUse
    BY <1>1, <1>3, <1>5, <1>6 DEF BC!InUse
  <2>2. IsFiniteSet(BC!InUse')
    BY <2>1, FS_Subset DEF Files, FileTypes
  <2>. QED  BY <1>1, <1>4, <2>2 DEF Files, FileTypes
<1>8. FilesAre'
  <2>1. Contiguous(s5')
    BY <1>5 DEF Contiguous
  <2>2. \A g \in s6' : \/ g \in s6 /\ BC!IdsIn(g.lines) \cap BC!IdsIn(g0.lines) = {}
                       \/ g = g0
    BY <1>1, <1>6 DEF Files, FilesAre
  <2>3. /\ Contiguous(g0.lines) /\ s8' \cap BC!IdsIn(g0.lines) \subseteq Shipped(g0.lines, g0.sent)
        /\ Len(g0.lines) \in Markers(g0.lines) /\ g0.lines[Len(g0.lines)].id = g0.id
    BY <1>1, <1>2, <1>6 DEF Files, FilesAre
  <2>. QED  BY <1>1, <1>5, <2>1, <2>2, <2>3 DEF Files, FilesAre
<1>. QED  BY <1>7, <1>8 DEF Files

LEMMA FilesOfDelete ==
    ASSUME Polls, Files, BC!DeleteIngested
    PROVE  Files'
<1>1. /\ s6' \subseteq s6 /\ s8' \subseteq s8 /\ UNCHANGED <<s5, s7>> /\ s3'.pc = "wait"
  BY DEF BC!DeleteIngested, Polls, CollectorTypes
<1>2. BC!InUse' \subseteq BC!InUse
  BY <1>1 DEF BC!InUse
<1>3. IsFiniteSet(BC!InUse') /\ IsFiniteSet(s8')
  BY <1>1, <1>2, FS_Subset DEF Files, FileTypes
<1>. QED  BY <1>1, <1>3 DEF Files, FileTypes, FilesAre

\* A line that Telegraf read: its marker, if it is one, is in this file alone.
LEMMA LineRead ==
    ASSUME NEW lines \in Seq(Lines), NEW sent \in Nat, sent < Len(lines), BC!Arrived(lines[sent + 1])
    PROVE  /\ s8 \subseteq s8' /\ s8' \subseteq s8 \cup BC!IdsIn(lines)
           /\ s8 \subseteq Nat \ {0} => s8' \subseteq Nat \ {0}
           /\ IsFiniteSet(s8) => IsFiniteSet(s8')
           /\ s8 \cap BC!IdsIn(lines) \subseteq Shipped(lines, sent) =>
                  s8' \cap BC!IdsIn(lines) \subseteq Shipped(lines, sent + 1)
<1>1. sent + 1 \in DOMAIN lines /\ lines[sent + 1] \in Lines
  BY ElementOfSeq, LenProperties
<1>2. CASE lines[sent + 1].kind = "marker"
  <2>1. s8' = s8 \cup {lines[sent + 1].id} /\ lines[sent + 1].id \in Nat \ {0} /\ sent + 1 \in Markers(lines)
    BY <1>1, <1>2 DEF BC!Arrived, Lines, Markers
  <2>2. lines[sent + 1].id \in BC!IdsIn(lines) /\ lines[sent + 1].id \in Shipped(lines, sent + 1)
    BY <1>1, <1>2, <2>1 DEF BC!IdsIn, Shipped
  <2>3. Shipped(lines, sent) \subseteq Shipped(lines, sent + 1)
    BY <1>1, ShippedGrows
  <2>. QED  BY <2>1, <2>2, <2>3, FS_AddElement
<1>3. CASE lines[sent + 1].kind # "marker"
  <2>1. s8' = s8
    BY <1>3 DEF BC!Arrived
  <2>2. Shipped(lines, sent) \subseteq Shipped(lines, sent + 1)
    BY <1>1, ShippedGrows
  <2>. QED  BY <2>1, <2>2
<1>. QED  BY <1>2, <1>3

LEMMA FilesOfActive ==
    ASSUME Files, BC!IngestActive
    PROVE  Files'
<1>1. /\ s7 < Len(s5) /\ s7' = s7 + 1 /\ BC!Arrived(s5[s7 + 1]) /\ UNCHANGED <<s3, s5, s6>>
  BY DEF BC!IngestActive
<1>2. BC!InUse' = BC!InUse
  BY <1>1 DEF BC!InUse
<1>3. s8' \subseteq s8 \cup BC!IdsIn(s5) /\ s8' \subseteq Nat \ {0} /\ IsFiniteSet(s8')
      /\ s8' \cap BC!IdsIn(s5) \subseteq Shipped(s5, s7 + 1)
  BY <1>1, LineRead DEF Files, FileTypes, FilesAre
<1>4. \A g \in s6 : s8' \cap BC!IdsIn(g.lines) \subseteq Shipped(g.lines, g.sent)
  BY <1>3 DEF Files, FilesAre
<1>5. FileTypes'
  BY <1>1, <1>2, <1>3 DEF Files, FileTypes
<1>6. FilesAre'
  BY <1>1, <1>3, <1>4 DEF Files, FileTypes, FilesAre
<1>. QED  BY <1>5, <1>6 DEF Files

LEMMA FilesOfSealed ==
    ASSUME Files, BC!IngestSealed
    PROVE  Files'
<1>1. PICK g \in s6 : /\ g.sent < Len(g.lines) /\ BC!Arrived(g.lines[g.sent + 1])
                      /\ s6' = (s6 \ {g}) \cup {[g EXCEPT !.sent = @ + 1]}
  BY DEF BC!IngestSealed
<1>. DEFINE h == [g EXCEPT !.sent = @ + 1]
<1>2. UNCHANGED <<s3, s5, s7>>
  BY DEF BC!IngestSealed
<1>3. /\ h \in [id : Nat \ {0}, lines : Seq(Lines), sent : Nat]
      /\ h.id = g.id /\ h.lines = g.lines /\ h.sent = g.sent + 1
      /\ g.lines \in Seq(Lines) /\ g.sent \in Nat
  BY DEF Files, FileTypes
<1>4. s6' = (s6 \ {g}) \cup {h}
  BY <1>1
<1>. HIDE DEF h
<1>5. /\ s8' \subseteq s8 \cup BC!IdsIn(g.lines) /\ s8' \subseteq Nat \ {0} /\ IsFiniteSet(s8')
      /\ s8' \cap BC!IdsIn(h.lines) \subseteq Shipped(h.lines, h.sent)
  BY <1>1, <1>3, LineRead DEF Files, FileTypes, FilesAre
<1>6. BC!InUse' = BC!InUse
  BY <1>1, <1>2, <1>3, <1>4 DEF BC!InUse
<1>7. \A k \in s6' : \/ k \in s6 /\ BC!IdsIn(k.lines) \cap BC!IdsIn(h.lines) = {}
                     \/ k = h
  BY <1>1, <1>3, <1>4 DEF Files, FilesAre
<1>8. FileTypes'
  BY <1>2, <1>3, <1>4, <1>5, <1>6 DEF Files, FileTypes
<1>9. FilesAre'
  <2>1. Contiguous(s5') /\ (s3'.pc = "seal" => Len(s5') \in Markers(s5'))
        /\ s8' \cap BC!IdsIn(s5') \subseteq Shipped(s5', s7')
    BY <1>1, <1>2, <1>5 DEF Files, FilesAre
  <2>2. ASSUME NEW k \in s6'
        PROVE  /\ Contiguous(k.lines) /\ s8' \cap BC!IdsIn(k.lines) \subseteq Shipped(k.lines, k.sent)
               /\ Len(k.lines) \in Markers(k.lines) /\ k.lines[Len(k.lines)].id = k.id
               /\ BC!IdsIn(k.lines) \cap BC!IdsIn(s5') = {}
    BY <1>1, <1>2, <1>3, <1>5, <1>7 DEF Files, FilesAre
  <2>3. \A j, k \in s6' : k # j => BC!IdsIn(j.lines) \cap BC!IdsIn(k.lines) = {}
    BY <1>7 DEF Files, FilesAre
  <2>. QED  BY <2>1, <2>2, <2>3 DEF FilesAre
<1>. QED  BY <1>8, <1>9 DEF Files

-----------------------------------------------------------------------------
(* The size of the spool.                                                   *)

\* The units that one line takes up.
LEMMA UnitsOfLine ==
    ASSUME NEW f, NEW k, NEW n \in Nat
    PROVE  IsFiniteSet({f} \X {k} \X (1 .. n)) /\ Cardinality({f} \X {k} \X (1 .. n)) = n
<1>. DEFINE column == {f} \X {k} \X (1 .. n)
            b == [u \in 1 .. n |-> <<f, k, u>>]
<1>1. b \in [1 .. n -> column]
  OBVIOUS
<1>2. \A u, v \in 1 .. n : b[u] = b[v] => u = v
  OBVIOUS
<1>3. \A x \in column : \E u \in 1 .. n : b[u] = x
  OBVIOUS
<1>. HIDE DEF b, column
<1>4. b \in Bijection(1 .. n, column)
  BY <1>1, <1>2, <1>3 DEF Bijection, Injection, IsInjective, Surjection
<1>5. ExistsBijection(1 .. n, column)
  BY <1>4 DEF ExistsBijection
<1>6. IsFiniteSet(1 .. n) /\ Cardinality(1 .. n) = n
  BY FS_Interval
<1>. QED  BY <1>5, <1>6, FS_Bijection DEF column

LEMMA SizeIs == BC!SpoolSize = Cardinality(BC!Stored) /\ (Sizes => BC!SpoolSize \in Nat)
<1>1. BC!SpoolSize = Cardinality(BC!Stored)
  BY DEF BC!SpoolSize, BC!Cardinality, Cardinality
<1>. QED  BY <1>1, FS_CardinalityType DEF Sizes

\* A line that is appended takes up room of its own.
LEMMA SizeGrows ==
    ASSUME Files, Sizes, NEW l \in Lines, s5' = Append(s5, l), s6' = s6
    PROVE  IsFiniteSet(BC!Stored') /\ BC!SpoolSize' = BC!SpoolSize + l.size
<1>. DEFINE column == {0} \X {Len(s5) + 1} \X (1 .. l.size)
<1>1. l.size \in Nat
  BY CollectorAssumption DEF Lines
<1>2. IsFiniteSet(column) /\ Cardinality(column) = l.size
  BY <1>1, UnitsOfLine
<1>3. /\ s5 \in Seq(Lines) /\ Len(s5) \in Nat /\ DOMAIN s5 = 1 .. Len(s5)
      /\ DOMAIN s5' = 1 .. (Len(s5) + 1) /\ s5'[Len(s5) + 1] = l
      /\ \A k \in 1 .. Len(s5) : s5'[k] = s5[k]
  BY AppendProperties, LenProperties DEF Files, FileTypes
<1>4. BC!Units(0, s5') = BC!Units(0, s5) \cup column
  <2>. DEFINE cell(k) == {0} \X {k} \X (1 .. s5'[k].size)
  <2>1. DOMAIN s5' = (1 .. Len(s5)) \cup {Len(s5) + 1} /\ DOMAIN s5 = 1 .. Len(s5)
    BY <1>3
  <2>2. BC!Units(0, s5') = UNION {cell(k) : k \in DOMAIN s5'}
    BY DEF BC!Units
  <2>3. BC!Units(0, s5) = UNION {cell(k) : k \in DOMAIN s5}
    BY <1>3 DEF BC!Units
  <2>4. cell(Len(s5) + 1) = column
    BY <1>3
  <2>. HIDE DEF column, cell
  <2>. QED  BY <2>1, <2>2, <2>3, <2>4
<1>5. BC!Stored' = BC!Stored \cup column
  BY <1>4 DEF BC!Stored
<1>6. BC!Stored \cap column = {}
  <2>1. \A x \in BC!Units(0, s5) : x[2] \in 1 .. Len(s5)
    BY <1>3 DEF BC!Units
  <2>2. \A g \in s6 : \A x \in BC!Units(g.id, g.lines) : x[1] # 0
    BY DEF BC!Units, Files, FileTypes
  <2>3. \A x \in column : x[1] = 0 /\ x[2] \notin 1 .. Len(s5)
    BY <1>3
  <2>. HIDE DEF column
  <2>. QED  BY <2>1, <2>2, <2>3 DEF BC!Stored
<1>7. IsFiniteSet(BC!Stored) /\ Cardinality(BC!Stored) \in Nat
  BY FS_CardinalityType DEF Sizes
<1>. HIDE DEF column
<1>8. IsFiniteSet(BC!Stored') /\ Cardinality(BC!Stored') = Cardinality(BC!Stored) + Cardinality(column) - Cardinality({})
  BY <1>2, <1>5, <1>6, <1>7, FS_Union
<1>9. BC!SpoolSize' = Cardinality(BC!Stored')
  BY DEF BC!SpoolSize, BC!Cardinality, Cardinality
<1>. QED  BY <1>1, <1>2, <1>7, <1>8, <1>9, SizeIs, FS_EmptySet

LEMMA SizesElsewhere ==
    ASSUME Sizes, Elsewhere
    PROVE  Sizes'
<1>1. BC!Stored' = BC!Stored
  BY DEF Elsewhere, BC!Stored
<1>2. BC!SpoolSize' = BC!SpoolSize
  BY <1>1 DEF BC!SpoolSize
<1>3. ASSUME s3'.pc \in {"seal", "append"}
      PROVE  BC!BatchSize(s4'[s3'.writing]) = BC!BatchSize(s4[s3.writing]) /\ s3.pc \in {"seal", "append"}
  BY <1>3 DEF Elsewhere
<1>. QED  BY <1>1, <1>2, <1>3 DEF Sizes

\* The write was admitted without the marker, the marker without the write.
LEMMA SizesOfMarker ==
    ASSUME Polls, Files, Sizes, NEW d \in BC!Dev, BC!WriteMarker(d)
    PROVE  Sizes'
<1>. DEFINE l == BC!Marker(BC!SegmentId)
<1>1. CASE UNCHANGED s5 /\ s3' = [s3 EXCEPT !.pc = "failed"]
  BY <1>1, SizesElsewhere DEF BC!WriteMarker, Elsewhere, Polls, CollectorTypes
<1>2. CASE ~BC!Full(MarkerBytes) /\ s3' = [s3 EXCEPT !.pc = "seal", !.writing = d] /\ s5' = Append(s5, l)
  <2>1. s5 # <<>> /\ UNCHANGED <<s4, s6>> /\ ~BC!Full(BC!BatchSize(s4[d]))
    BY DEF BC!WriteMarker, BC!NeedsRotation
  <2>2. l.size = MarkerBytes /\ l \in Lines
    BY <2>1, NewIds DEF Lines, BC!Marker, Files
  <2>3. s3'.pc = "seal" /\ s3'.writing = d
    BY <1>2 DEF Polls, CollectorTypes
  <2>. HIDE DEF l
  <2>4. IsFiniteSet(BC!Stored') /\ BC!SpoolSize' = BC!SpoolSize + MarkerBytes
    BY <1>2, <2>1, <2>2, SizeGrows
  <2>5. BC!BatchSize(s4[d]) \in Nat /\ BC!SpoolSize \in Nat /\ MaxBytes \in Nat /\ MarkerBytes \in Nat
    BY LineOfBatch, SizeIs, CollectorAssumption
  <2>6. BC!SpoolSize + BC!BatchSize(s4[d]) <= MaxBytes /\ BC!SpoolSize + MarkerBytes <= MaxBytes
    BY <1>2, <2>1, <2>5 DEF BC!Full
  <2>7. BC!BatchSize(s4'[s3'.writing]) = BC!BatchSize(s4[d])
    BY <2>1, <2>3
  <2>. QED  BY <2>4, <2>5, <2>6, <2>7 DEF Sizes
<1>. QED  BY <1>1, <1>2 DEF BC!WriteMarker

LEMMA SizesOfAppend ==
    ASSUME Polls, Files, Sizes, NEW d \in BC!Dev, BC!AppendBatch(d)
    PROVE  Sizes'
<1>1. /\ s5' = Append(s5, BC!Line(d)) /\ s6' = s6 /\ s3'.pc = "round"
      /\ \/ ~BC!Full(BC!BatchSize(s4[d]))
         \/ s3.pc = "append" /\ s3.writing = d
  BY DEF BC!AppendBatch, Polls, CollectorTypes
<1>2. IsFiniteSet(BC!Stored') /\ BC!SpoolSize' = BC!SpoolSize + BC!BatchSize(s4[d])
  BY <1>1, LineOfBatch, SizeGrows
<1>3. BC!BatchSize(s4[d]) \in Nat /\ BC!SpoolSize \in Nat /\ MaxBytes \in Nat /\ MarkerBytes \in Nat
  BY LineOfBatch, SizeIs, CollectorAssumption
<1>4. BC!SpoolSize + BC!BatchSize(s4[d]) <= MaxBytes + MarkerBytes
  BY <1>1, <1>3 DEF BC!Full, Sizes
<1>. QED  BY <1>1, <1>2, <1>4 DEF Sizes

\* A sealed segment takes up no more than the file it was.
LEMMA SizesOfSeal ==
    ASSUME Polls, Files, Sizes, BC!SealSegment
    PROVE  Sizes'
<1>. DEFINE i == s5[Len(s5)].id
            move == [x \in BC!Stored |-> IF x[1] = 0 THEN <<i, x[2], x[3]>> ELSE x]
            stays == UNION {BC!Units(g.id, g.lines) : g \in s6}
<1>1. /\ s6' = s6 \cup {[id |-> i, lines |-> s5, sent |-> s7]} /\ s5' = <<>> /\ UNCHANGED s4
      /\ s3.pc = "seal" /\ s3' = [s3 EXCEPT !.pc = "append"]
  BY DEF BC!SealSegment
<1>2. BC!Stored' = BC!Units(i, s5) \cup stays
  <2>1. BC!Units(0, s5') = {}
    BY <1>1 DEF BC!Units
  <2>2. UNION {BC!Units(g.id, g.lines) : g \in s6'} = stays \cup BC!Units(i, s5)
    <3>. DEFINE g0 == [id |-> i, lines |-> s5, sent |-> s7]
    <3>1. s6' = s6 \cup {g0} /\ g0.id = i /\ g0.lines = s5
      BY <1>1
    <3>. HIDE DEF g0, i
    <3>. QED  BY <3>1
  <2>. QED  BY <2>1, <2>2 DEF BC!Stored
<1>3. BC!Stored = BC!Units(0, s5) \cup stays
  BY DEF BC!Stored
<1>4. \A x \in stays : x[1] # 0
  BY DEF BC!Units, Files, FileTypes
<1>5. /\ \A x \in BC!Units(0, s5) : x[1] = 0 /\ <<i, x[2], x[3]>> \in BC!Units(i, s5)
      /\ \A y \in BC!Units(i, s5) : \E x \in BC!Units(0, s5) : y = <<i, x[2], x[3]>>
  <2>. HIDE DEF i
  <2>1. \A f : \A x \in BC!Units(f, s5) : \E k \in DOMAIN s5 : \E u \in 1 .. s5[k].size : x = <<f, k, u>>
    BY DEF BC!Units
  <2>2. \A f : \A k \in DOMAIN s5 : \A u \in 1 .. s5[k].size : <<f, k, u>> \in BC!Units(f, s5)
    BY DEF BC!Units
  <2>3. \A x \in BC!Units(0, s5) : x[1] = 0 /\ <<i, x[2], x[3]>> \in BC!Units(i, s5)
    <3>. TAKE x \in BC!Units(0, s5)
    <3>1. PICK k \in DOMAIN s5 : \E u \in 1 .. s5[k].size : x = <<0, k, u>>
      BY <2>1
    <3>. QED  BY <2>2, <3>1
  <2>4. \A y \in BC!Units(i, s5) : \E x \in BC!Units(0, s5) : y = <<i, x[2], x[3]>>
    <3>. TAKE y \in BC!Units(i, s5)
    <3>1. PICK k \in DOMAIN s5 : \E u \in 1 .. s5[k].size : y = <<i, k, u>>
      BY <2>1
    <3>2. PICK u \in 1 .. s5[k].size : y = <<i, k, u>>
      BY <3>1
    <3>3. <<0, k, u>> \in BC!Units(0, s5)
      BY <2>2
    <3>. QED  BY <3>2, <3>3
  <2>. QED  BY <2>3, <2>4
<1>. HIDE DEF stays, i
<1>6. move \in [BC!Stored -> BC!Stored']
  BY <1>2, <1>3, <1>4, <1>5
<1>7. \A y \in BC!Stored' : \E x \in BC!Stored : move[x] = y
  BY <1>2, <1>3, <1>4, <1>5
<1>8. move \in Surjection(BC!Stored, BC!Stored')
  BY <1>6, <1>7 DEF Surjection
<1>. HIDE DEF move
<1>9. IsFiniteSet(BC!Stored') /\ Cardinality(BC!Stored') <= Cardinality(BC!Stored)
  BY <1>8, FS_Surjection DEF Sizes
<1>10. BC!SpoolSize' = Cardinality(BC!Stored') /\ BC!SpoolSize' \in Nat
  BY <1>9, FS_CardinalityType DEF BC!SpoolSize, BC!Cardinality, Cardinality
<1>11. s3'.pc = "append" /\ s3'.writing = s3.writing /\ s3.writing \in BC!Dev
  BY <1>1 DEF Polls, CollectorTypes, CollectorRounds
<1>12. BC!BatchSize(s4[s3.writing]) \in Nat /\ BC!SpoolSize \in Nat /\ BC!SpoolSize' <= BC!SpoolSize
  BY <1>9, <1>10, <1>11, LineOfBatch, SizeIs
<1>13. BC!BatchSize(s4'[s3'.writing]) = BC!BatchSize(s4[s3.writing])
  BY <1>1, <1>11
<1>14. BC!SpoolSize' <= MaxBytes + MarkerBytes
       /\ BC!SpoolSize' + BC!BatchSize(s4'[s3'.writing]) <= MaxBytes + MarkerBytes
  BY <1>1, <1>10, <1>12, <1>13, CollectorAssumption DEF Sizes
<1>. QED  BY <1>9, <1>14 DEF Sizes

\* Deleting makes room, and reading takes none.
LEMMA SizesOfOthers ==
    ASSUME Polls, Files, Sizes, BC!DeleteIngested \/ BC!IngestActive \/ BC!IngestSealed
    PROVE  Sizes'
<1>1. BC!Stored' \subseteq BC!Stored
  <2>1. CASE BC!DeleteIngested
    BY <2>1 DEF BC!DeleteIngested, BC!Stored
  <2>2. CASE BC!IngestActive
    BY <2>2 DEF BC!IngestActive, BC!Stored
  <2>3. CASE BC!IngestSealed
    <3>1. PICK g \in s6 : s6' = (s6 \ {g}) \cup {[g EXCEPT !.sent = @ + 1]}
      BY <2>3 DEF BC!IngestSealed
    <3>2. [g EXCEPT !.sent = @ + 1].id = g.id /\ [g EXCEPT !.sent = @ + 1].lines = g.lines
      BY DEF Files, FileTypes
    <3>3. \A h \in s6' : \E k \in s6 : h.id = k.id /\ h.lines = k.lines
      BY <3>1, <3>2
    <3>4. s5' = s5
      BY <2>3 DEF BC!IngestSealed
    <3>. QED  BY <3>3, <3>4 DEF BC!Stored
  <2>. QED  BY <2>1, <2>2, <2>3
<1>2. IsFiniteSet(BC!Stored') /\ Cardinality(BC!Stored') <= Cardinality(BC!Stored)
  BY <1>1, FS_Subset DEF Sizes
<1>3. BC!SpoolSize' = Cardinality(BC!Stored') /\ BC!SpoolSize' \in Nat
  BY <1>2, FS_CardinalityType DEF BC!SpoolSize, BC!Cardinality, Cardinality
<1>4. s3'.pc \in {"seal", "append"} =>
          s3'.pc = s3.pc /\ s3'.writing = s3.writing /\ s4' = s4 /\ s3.writing \in BC!Dev
  BY DEF BC!DeleteIngested, BC!IngestActive, BC!IngestSealed, Polls, CollectorTypes, CollectorRounds
<1>5. BC!SpoolSize' <= BC!SpoolSize /\ BC!SpoolSize \in Nat
  BY <1>2, <1>3, SizeIs
<1>6. BC!SpoolSize' <= MaxBytes + MarkerBytes
  BY <1>3, <1>5, CollectorAssumption DEF Sizes
<1>7. ASSUME s3'.pc \in {"seal", "append"}
      PROVE  BC!SpoolSize' + BC!BatchSize(s4'[s3'.writing]) <= MaxBytes + MarkerBytes
  <2>1. BC!BatchSize(s4'[s3'.writing]) = BC!BatchSize(s4[s3.writing]) /\ BC!BatchSize(s4[s3.writing]) \in Nat
    BY <1>4, <1>7, LineOfBatch
  <2>. QED  BY <1>3, <1>4, <1>5, <1>7, <2>1, CollectorAssumption DEF Sizes
<1>. QED  BY <1>2, <1>6, <1>7 DEF Sizes

-----------------------------------------------------------------------------
(* The steps of the collector.                                              *)

LEMMA CollectorStep ==
    ASSUME Polls, Files, Sizes, BC!Next
    PROVE  Polls' /\ Files' /\ Sizes'
<1>1. CASE BC!BeginRound \/ BC!SubmitDevice \/ BC!BreakOnStop \/ BC!CollectDone
  BY <1>1, PollsOfRound, FilesElsewhere, SizesElsewhere
<1>2. CASE (\E d \in BC!Dev : BC!RefuseBatch(d)) \/ BC!AbortRound
  BY <1>2, PollsOfRefusal, FilesElsewhere, SizesElsewhere
<1>3. CASE \E d \in BC!Dev : BC!WriteMarker(d)
  BY <1>3, PollsOfWrite, FilesOfMarker, SizesOfMarker
<1>4. CASE \E d \in BC!Dev : BC!AppendBatch(d)
  BY <1>4, PollsOfWrite, FilesOfAppend, SizesOfAppend
<1>5. CASE \E d \in BC!Dev : BC!CollectDevice(d)
  BY <1>5, PollsOfDevice, FilesElsewhere, SizesElsewhere
<1>6. CASE \/ BC!SealSegment \/ BC!DeleteIngested \/ BC!QueryFails \/ BC!Stop \/ BC!Crash
           \/ BC!Start \/ (\E d \in BC!Dev : BC!SessionChanges(d)) \/ BC!IngestActive \/ BC!IngestSealed
  <2>1. Polls' /\ (BC!SealSegment \/ BC!DeleteIngested \/ BC!IngestActive \/ BC!IngestSealed \/ Elsewhere)
    BY <1>6, PollsOfOthers
  <2>2. CASE BC!SealSegment
    BY <2>1, <2>2, FilesOfSeal, SizesOfSeal
  <2>3. CASE BC!DeleteIngested
    BY <2>1, <2>3, FilesOfDelete, SizesOfOthers
  <2>4. CASE BC!IngestActive
    BY <2>1, <2>4, FilesOfActive, SizesOfOthers
  <2>5. CASE BC!IngestSealed
    BY <2>1, <2>5, FilesOfSealed, SizesOfOthers
  <2>6. CASE Elsewhere
    BY <2>1, <2>6, FilesElsewhere, SizesElsewhere
  <2>. QED  BY <2>1, <2>2, <2>3, <2>4, <2>5, <2>6
<1>. QED  BY <1>1, <1>2, <1>3, <1>4, <1>5, <1>6 DEF BC!Next, BC!Collector, BC!Write

\* InfluxDB has the marker of a segment only when it has all the batches
\* before it: the marker's repetitions follow it to the end of the segment.
LEMMA MarkedIsDelivered ==
    ASSUME Files, NEW g \in s6, g.id \in s8
    PROVE  BC!Delivered(g)
<1>1. /\ Contiguous(g.lines) /\ g.lines \in Seq(Lines) /\ g.sent \in Nat
      /\ Len(g.lines) \in Markers(g.lines) /\ g.lines[Len(g.lines)].id = g.id
      /\ s8 \cap BC!IdsIn(g.lines) \subseteq Shipped(g.lines, g.sent)
  BY DEF Files, FileTypes, FilesAre
<1>2. g.id \in Shipped(g.lines, g.sent)
  BY <1>1, IdsOfFiles
<1>3. PICK k \in Markers(g.lines) : k <= g.sent /\ g.lines[k].id = g.id
  BY <1>2 DEF Shipped
<1>4. k .. Len(g.lines) \subseteq Markers(g.lines) /\ k \in Nat /\ Len(g.lines) \in Nat
  BY <1>1, <1>3, LenProperties DEF Contiguous, Markers
<1>5. (g.sent + 1) .. Len(g.lines) \subseteq k .. Len(g.lines)
  BY <1>1, <1>3, <1>4
<1>. QED  BY <1>4, <1>5 DEF BC!Delivered, Markers

\* Only the clean-up takes a sealed segment away, and only with its marker.
LEMMA DeletedIsDelivered ==
    ASSUME Polls, Files, BC!Next
    PROVE  BC!DeletedWasDeliveredStep
<1>1. CASE BC!DeleteIngested
  <2>1. s6' = {g \in s6 : g.id \notin s8}
    BY <1>1 DEF BC!DeleteIngested, BC!Deletable
  <2>2. \A g \in s6 : g \notin s6' => g.id \in s8
    BY <2>1
  <2>. QED  BY <2>2, MarkedIsDelivered DEF BC!DeletedWasDeliveredStep
<1>2. CASE BC!IngestSealed
  <2>1. PICK g \in s6 : s6' = (s6 \ {g}) \cup {[g EXCEPT !.sent = @ + 1]}
    BY <1>2 DEF BC!IngestSealed
  <2>2. [g EXCEPT !.sent = @ + 1].id = g.id
    BY DEF Files, FileTypes
  <2>3. \A h \in s6 : \E k \in s6' : k.id = h.id
    BY <2>1, <2>2
  <2>. QED  BY <2>3 DEF BC!DeletedWasDeliveredStep
<1>3. CASE s6 \subseteq s6'
  BY <1>3 DEF BC!DeletedWasDeliveredStep
<1>4. BC!DeleteIngested \/ BC!IngestSealed \/ s6 \subseteq s6'
  BY DEF BC!Next, BC!Collector, BC!Write, BC!spool, BC!BeginRound, BC!SubmitDevice, BC!BreakOnStop,
     BC!RefuseBatch, BC!WriteMarker, BC!AppendBatch, BC!SealSegment, BC!AbortRound, BC!CollectDone,
     BC!QueryFails, BC!Stop, BC!Crash, BC!Start, BC!CollectDevice, BC!SessionChanges, BC!IngestActive
<1>. QED  BY <1>1, <1>2, <1>3, <1>4

\* A file grows only by a write, and a write finds the tracker one step ahead
\* of the spool.
LEMMA WrittenIsComplete ==
    ASSUME Polls, Files, BC!Next
    PROVE  BC!TransitionsCompleteStep
<1>1. Len(s5') > Len(s5) => s3.pc # "dead"
  <2>1. Len(s5) \in Nat
    BY LenProperties DEF Files, FileTypes
  <2>2. CASE BC!SealSegment
    BY <2>2 DEF BC!SealSegment
  <2>3. CASE s5' = s5
    BY <2>1, <2>3
  <2>4. CASE s3.pc # "dead"
    BY <2>4
  <2>5. BC!SealSegment \/ s5' = s5 \/ s3.pc # "dead"
    BY DEF BC!Next, BC!Collector, BC!Write, BC!spool, BC!BeginRound, BC!SubmitDevice, BC!BreakOnStop,
       BC!RefuseBatch, BC!WriteMarker, BC!AppendBatch, BC!AbortRound, BC!CollectDone, BC!DeleteIngested,
       BC!QueryFails, BC!Stop, BC!Crash, BC!Start, BC!CollectDevice, BC!SessionChanges, BC!IngestActive,
       BC!IngestSealed
  <2>. QED  BY <2>2, <2>3, <2>4, <2>5
<1>2. s3.pc # "dead" => \A d \in BC!Dev : Tracks(s2[d], s9[d], s4[d])
  BY DEF Polls, CollectorTracks
<1>. QED  BY <1>1, <1>2 DEF BC!TransitionsCompleteStep, Tracks

LEMMA CollectorStutter ==
    ASSUME Polls, Files, Sizes, UNCHANGED vars
    PROVE  Polls' /\ Files' /\ Sizes'
<1>1. Polls'
  BY DEF Polls, CollectorTypes, CollectorRounds, CollectorTracks, vars
<1>2. Elsewhere
  BY DEF Elsewhere, vars
<1>. QED  BY <1>1, <1>2, FilesElsewhere, SizesElsewhere

-----------------------------------------------------------------------------
(* The executor of cases (ScenarioExecution, scenario/): its proofs are in   *)
(* ScenarioExecution_proofs, here over the variables of MCLab.              *)

P == INSTANCE ScenarioExecution_proofs WITH
    lab <- s1, pc <- s2, case <- s3, win <- s4, wait <- s5, cl <- s6,
    handoff <- s7, taken <- s8, result <- s9

\* The module of the run and the module of the proofs mean the same system.
LEMMA SameInit == S!Init <=> P!Init
BY DEF S!Init, P!Init, S!NoCase, P!NoCase, S!None, P!None, S!NoCleanup, P!NoCleanup,
     S!EmptyHandoff, P!EmptyHandoff

LEMMA SameNext == S!Next <=> P!Next
<1>1. S!Tick <=> P!Tick
  BY DEF S!Tick, P!Tick, S!None, P!None, S!AgedWindow, P!AgedWindow, S!Older, P!Older
<1>2. S!Disturb <=> P!Disturb
  BY DEF S!Disturb, P!Disturb, S!Seen, P!Seen, S!None, P!None
<1>3. (S!Converge <=> P!Converge) /\ (S!Breaks <=> P!Breaks)
  BY DEF S!Converge, P!Converge, S!Breaks, P!Breaks, S!Goto, P!Goto, S!None, P!None,
     S!NoCleanup, P!NoCleanup
<1>4. (S!ReadyTraffic <=> P!ReadyTraffic) /\ (S!CaptureBaseline <=> P!CaptureBaseline) /\ (S!CollectRoutes <=> P!CollectRoutes) /\ (S!CaptureObservation <=> P!CaptureObservation) /\ (S!Prepared <=> P!Prepared)
  BY DEF S!ReadyTraffic, P!ReadyTraffic, S!Goto, P!Goto, S!CaptureBaseline, P!CaptureBaseline,
     S!Capture, P!Capture, S!CollectRoutes, P!CollectRoutes,
     S!CaptureObservation, P!CaptureObservation, S!Prepared, P!Prepared
<1>5. S!TakeBaseline <=> P!TakeBaseline
  BY DEF S!TakeBaseline, P!TakeBaseline, S!Emptied, P!Emptied, S!None, P!None,
     S!ReadScope, P!ReadScope, S!Usable, P!Usable, S!Goto, P!Goto
<1>6. S!FreshBaseline <=> P!FreshBaseline
  BY DEF S!FreshBaseline, P!FreshBaseline, S!Gate, P!Gate, S!EmptyHandoff, P!EmptyHandoff,
     S!None, P!None, S!Goto, P!Goto
<1>7. S!Inject <=> P!Inject
  BY DEF S!Inject, P!Inject, S!Goto, P!Goto, S!NoCleanup, P!NoCleanup, S!None, P!None
<1>8. S!Observed <=> P!Observed
  BY DEF S!Observed, P!Observed, S!Goto, P!Goto, S!None, P!None, S!Gate, P!Gate
<1>9. S!Diagnosed <=> P!Diagnosed
  BY DEF S!Diagnosed, P!Diagnosed, S!Goto, P!Goto, S!NoCleanup, P!NoCleanup, S!None, P!None
<1>10. (S!NothingToRecover <=> P!NothingToRecover) /\ (S!LoopEnds <=> P!LoopEnds) /\ (S!CheckHealth <=> P!CheckHealth)
  BY DEF S!NothingToRecover, P!NothingToRecover, S!Again, P!Again, S!Complete, P!Complete,
     S!Attempted, P!Attempted, S!Goto, P!Goto, S!LoopEnds, P!LoopEnds, S!Ends, P!Ends,
     S!CheckHealth, P!CheckHealth
<1>11. S!RecoverFault <=> P!RecoverFault
  BY DEF S!RecoverFault, P!RecoverFault, S!Again, P!Again, S!Complete, P!Complete,
     S!Recovers, P!Recovers, S!Attempted, P!Attempted, S!Goto, P!Goto
<1>12. S!Prove <=> P!Prove
  BY DEF S!Prove, P!Prove, S!None, P!None, S!Goto, P!Goto, S!Ends, P!Ends, S!ReadScope, P!ReadScope,
     S!Kept, P!Kept, S!Capture, P!Capture
<1>13. S!Validate <=> P!Validate
  BY DEF S!Validate, P!Validate, S!None, P!None, S!Ends, P!Ends, S!Goto, P!Goto,
     S!ReadScope, P!ReadScope, S!SameScope, P!SameScope, S!Gate, P!Gate
<1>14. S!Conclude <=> P!Conclude
  BY DEF S!Conclude, P!Conclude, S!Ends, P!Ends, S!Goto, P!Goto
<1>15. S!Finish <=> P!Finish
  BY DEF S!Finish, P!Finish, S!Goto, P!Goto, S!Reported, P!Reported, S!ReadScope, P!ReadScope,
     S!None, P!None, S!MayPublish, P!MayPublish, S!Offered, P!Offered, S!BoundScope, P!BoundScope,
     S!Publish, P!Publish, S!EmptyHandoff, P!EmptyHandoff
<1>16. \A kind \in S!Kinds : S!Begin(kind) <=> P!Begin(kind)
  BY DEF S!Begin, P!Begin, S!NoCase, P!NoCase, S!None, P!None, S!Goto, P!Goto
<1>17. S!Kinds = P!Kinds
  BY DEF S!Kinds, P!Kinds
<1>. QED
  BY <1>1, <1>2, <1>3, <1>4, <1>5, <1>6, <1>7, <1>8, <1>9, <1>10, <1>11, <1>12, <1>13, <1>14, <1>15, <1>16, <1>17, Zenon
     DEF S!Next, P!Next, S!Prepare, P!Prepare, S!Cleanup, P!Cleanup

-----------------------------------------------------------------------------
(* The theorems.                                                            *)

LabInv ==
    /\ part = "traffic" => Traffic
    /\ part = "delayed" => Delayed
    /\ part = "link" => LinkSafe(MaxLinkFaults)
    /\ part = "routes" => RoutesSafe(MaxRouteFaults)
    /\ part = "health" => Health
    /\ part = "config" => Config
    /\ part = "device" => Device
    /\ part = "collector" => Polls /\ Files /\ Sizes
    /\ part = "scenario" => P!IInv

LEMMA ScenarioConstants == P!ScenarioAssumption
BY LabAssumption DEF P!ScenarioAssumption

LEMMA LabInit ==
    ASSUME Init
    PROVE  LabInv
<1>0. (part = "traffic" => T!Init) /\ (part = "delayed" => TL!Init)
  BY DEF Init
<1>5. (part = "link" => L!Init) /\ (part = "routes" => LR!Init)
  BY DEF Init
<1>1. part = "health" => H!Init
  BY DEF Init
<1>2. part = "config" => C!Init
  BY DEF Init
<1>3. part = "device" => D!Init
  BY DEF Init
<1>4. part = "scenario" => S!Init
  BY DEF Init
<1>6. part = "collector" => BC!Init
  BY DEF Init
<1>. QED
  BY <1>0, <1>1, <1>2, <1>3, <1>4, <1>5, <1>6, CollectorInit, TrafficInit, DelayedInit, LinksInit, HealthInit, ConfigInit,
     DeviceInit, SameInit, P!InitInv, ScenarioConstants
     DEF LabInv

\* A step of a behaviour is a step of its component.
LEMMA PartSteps ==
    ASSUME Next
    PROVE  /\ part' = part
           /\ part = "traffic" => T!Next
           /\ part = "delayed" => TL!Next
           /\ part = "link" => L!Next
           /\ part = "routes" => LR!Next
           /\ part = "health" => H!Next
           /\ part = "config" => C!Next
           /\ part = "device" => D!Next
           /\ part = "scenario" => P!Next
           /\ part = "collector" => BC!Next
<1>1. part' = part
  BY DEF Next, TrafficWorks, DelayedWorks, LinkWorks, RoutesWorks, ConfigWorks, DeviceWorks,
     HealthWorks, ScenarioWorks, CollectorWorks
<1>0. (part = "traffic" => T!Next) /\ (part = "delayed" => TL!Next)
  BY DEF Next, TrafficWorks, DelayedWorks, LinkWorks, RoutesWorks, ConfigWorks, DeviceWorks,
     HealthWorks, ScenarioWorks, CollectorWorks
<1>6. (part = "link" => L!Next) /\ (part = "routes" => LR!Next)
  BY DEF Next, TrafficWorks, DelayedWorks, LinkWorks, RoutesWorks, ConfigWorks, DeviceWorks,
     HealthWorks, ScenarioWorks, CollectorWorks
<1>2. part = "health" => H!Next
  BY DEF Next, TrafficWorks, DelayedWorks, LinkWorks, RoutesWorks, ConfigWorks, DeviceWorks,
     HealthWorks, ScenarioWorks, CollectorWorks
<1>3. part = "config" => C!Next
  BY DEF Next, TrafficWorks, DelayedWorks, LinkWorks, RoutesWorks, ConfigWorks, DeviceWorks,
     HealthWorks, ScenarioWorks, CollectorWorks
<1>4. part = "device" => D!Next
  BY DEF Next, TrafficWorks, DelayedWorks, LinkWorks, RoutesWorks, ConfigWorks, DeviceWorks,
     HealthWorks, ScenarioWorks, CollectorWorks
<1>5. part = "scenario" => S!Next
  BY DEF Next, TrafficWorks, DelayedWorks, LinkWorks, RoutesWorks, ConfigWorks, DeviceWorks,
     HealthWorks, ScenarioWorks, CollectorWorks
<1>7. part = "collector" => BC!Next
  BY DEF Next, TrafficWorks, DelayedWorks, LinkWorks, RoutesWorks, ConfigWorks, DeviceWorks,
     HealthWorks, ScenarioWorks, CollectorWorks
<1>. QED  BY <1>0, <1>1, <1>2, <1>3, <1>4, <1>5, <1>6, <1>7, SameNext

LEMMA LabStutter ==
    ASSUME LabInv, UNCHANGED vars
    PROVE  LabInv'
<1>. USE DEF vars
<1>1. UNCHANGED part /\ UNCHANGED P!vars
  BY DEF P!vars
<1>0. (Traffic => Traffic') /\ (Delayed => Delayed')
  <2>1. Traffic => Traffic'
    BY DEF Traffic, TrafficPhases, TrafficPlans, TrafficSends, TrafficAgents, T!TypeOK, T!OnePlan
  <2>2. Delayed => Delayed'
    BY DEF Delayed, DelayedPhases, DelayedPlans, NoLateLoad, TL!TypeOK, TL!OnePlan, TL!OneSender
  <2>. QED  BY <2>1, <2>2
<1>2. Health => Health'
  BY DEF Health, HealthInv
<1>3. Config => Config'
  BY DEF Config, ConfigInv, ConfigTypes, ConfigCalls, ConfigOwned, ConfigLeft, C!ConfigBack,
     C!JournalCovers, C!NoDanglingPolicy
<1>4. Device => Device'
  BY DEF Device, DeviceInv, DeviceTypes, DeviceSound, DeviceSteps, DeviceCalls, IsOut, Sound,
     D!ActiveIsRestartable
<1>5. P!IInv => P!IInv'
  BY <1>1, P!StutterInv
<1>6. /\ LinkSafe(MaxLinkFaults) => LinkSafe(MaxLinkFaults)'
      /\ RoutesSafe(MaxRouteFaults) => RoutesSafe(MaxRouteFaults)'
  BY LinksStutter
<1>7. Polls /\ Files /\ Sizes => Polls' /\ Files' /\ Sizes'
  BY CollectorStutter
<1>. QED  BY <1>0, <1>1, <1>2, <1>3, <1>4, <1>5, <1>6, <1>7 DEF LabInv

\* The invariants of the components hold in every behaviour.
THEOREM LabInvariant == Spec => []LabInv
<1>1. Init => LabInv
  BY LabInit
<1>2. LabInv /\ [Next]_vars => LabInv'
  <2>1. ASSUME LabInv, Next  PROVE LabInv'
    BY <2>1, PartSteps, TrafficStep, DelayedStep, LinksStep, HealthStep, ConfigStep, DeviceStep,
       CollectorStep, P!NextInv, ScenarioConstants DEF LabInv
  <2>. QED  BY <2>1, LabStutter
<1>. QED  BY <1>1, <1>2, PTL DEF Spec

\* Clients never run plans of two generations, whatever requests fail half way
\* and although a given-up request is applied later; a released controller
\* leaves nobody sending that its errors do not name, and a deployment that
\* raised leaves no agent except the ones its error names (start_matrix,
\* stop_all, deploy_client_agents).
THEOREM TrafficStaysOwned == Spec => []TrafficIsOwned
<1>1. Delayed => TL!OneSender
  BY DEF Delayed, DelayedPlans
<1>2. LabInv => TrafficIsOwned
  BY <1>1, TrafficOwned DEF LabInv, TrafficIsOwned
<1>. QED  BY <1>2, LabInvariant, PTL

\* A worker is called healthy only by the probes of this very check, which all
\* have ended when it answers (check_worker_health, _parallel_check); a clean
\* end of a case rests on a window that began after the fault was gone, and a
\* fault that is still in the lab is reported (_cleanup_after_scenario).
THEOREM HealthAndCleanEndsAreProven == Spec => []CleanIsProven
<1>1. Health => H!SnapshotIsOfTheGoodProbe /\ H!QuietAfterAnswer
  BY DEF Health, HealthInv, H!SnapshotIsOfTheGoodProbe, H!QuietAfterAnswer
<1>2. P!IInv => S!LeftFaultIsReported /\ S!CleanIsProven
  BY P!InvImplies DEF P!LeftFaultIsReported, S!LeftFaultIsReported, P!CleanIsProven, S!CleanIsProven,
     P!None, S!None
<1>3. LabInv => CleanIsProven
  BY <1>1, <1>2 DEF LabInv, CleanIsProven
<1>. QED  BY <1>3, LabInvariant, PTL

\* No fault is injected against a baseline that saw a sick lab, and a window
\* on offer or in use is of the very runtime the case runs on (take, publish).
THEOREM BaselinesAreSound == Spec => []BaselineIsSound
<1>1. P!IInv => S!BaselineIsClean /\ S!ReusedIsCurrent /\ S!OfferIsSound
  BY P!InvImplies DEF P!BaselineIsClean, S!BaselineIsClean, P!ReusedIsCurrent, S!ReusedIsCurrent,
     P!OfferIsSound, S!OfferIsSound, P!None, S!None
<1>2. LabInv => BaselineIsSound
  BY <1>1 DEF LabInv, BaselineIsSound
<1>. QED  BY <1>2, LabInvariant, PTL

\* When no fault is tracked and no call runs, nothing of any fault is left: the
\* link is up on both sides with the routes of its clients and no controller to
\* take it down, the device has its own configuration, its container runs with
\* its interfaces and it is activated (handlers, recover_all), for every number
\* of faults of every lab.
THEOREM NothingOfAFaultIsLeft == Spec => []FaultsAreUndone
<1>1. Config => C!ConfigBack
  BY DEF Config
<1>2. Device => D!DeviceBack /\ D!ReadyIsActive
  BY DevicesBack DEF Device
<1>3. LabInv => FaultsAreUndone
  BY <1>1, <1>2, LinksBack DEF LabInv, FaultsAreUndone
<1>. QED  BY <1>3, LabInvariant, PTL

\* What a recovery needs is there as long as the fault is: the record that can
\* stop a controller, the journal of every change in force, the interfaces of a
\* stopped device (tracking.py, the journal of a fault, device_down).
THEOREM EveryFaultIsRecoverable == Spec => []FaultsStayRecoverable
<1>1. Config => C!JournalCovers /\ C!NoDanglingPolicy
  BY DEF Config
<1>2. Device => D!ActiveIsRestartable
  BY DevicesBack DEF Device
<1>3. LabInv => FaultsStayRecoverable
  BY <1>1, <1>2, LinksBack DEF LabInv, FaultsStayRecoverable
<1>. QED  BY <1>3, LabInvariant, PTL

\* No step removes a static route or qdisc that the fault does not own, reports
\* a device as recovered before its sessions are up, or reuses a baseline that
\* is too old.
THEOREM StepsStaySound == Spec => StepsAreSound
<1>1. P!ReusedIsYoungStep => S!ReusedIsYoungStep
  BY DEF P!ReusedIsYoungStep, S!ReusedIsYoungStep, P!None, S!None
<1>2. ASSUME LabInv, Next
      PROVE  /\ part = "config" => C!ForeignKeptStep
             /\ part = "device" => D!RecoveredHasSessionsStep
             /\ part = "scenario" => S!ReusedIsYoungStep
  BY <1>1, <1>2, PartSteps, ConfigStep, DeviceRecovered, P!YoungStep, ScenarioConstants DEF LabInv
<1>3. LabInv /\ [Next]_vars =>
        [/\ part = "config" => C!ForeignKeptStep
         /\ part = "device" => D!RecoveredHasSessionsStep
         /\ part = "scenario" => S!ReusedIsYoungStep]_vars
  BY <1>2
<1>. QED  BY <1>3, LabInvariant, PTL DEF Spec, StepsAreSound

\* A sealed segment is removed only when each of its batches is in InfluxDB
\* (_delete_ingested_segments), each change between two good polls in the spool
\* comes with exactly its event (BgpTransitionTracker), and the spool outgrows
\* max_bytes by one marker at most (_write_segmented_lines), for any routers,
\* sizes and number of crashes.
THEOREM EvidenceStaysKept == Spec => EvidenceIsKept
<1>1. LabInv => (part = "collector" => BC!SpoolNearlyBounded)
  BY DEF LabInv, Sizes, BC!SpoolNearlyBounded
<1>2. ASSUME LabInv, Next, part = "collector"
      PROVE  BC!DeletedWasDeliveredStep /\ BC!TransitionsCompleteStep
  BY <1>2, PartSteps, DeletedIsDelivered, WrittenIsComplete DEF LabInv
<1>3. LabInv /\ [Next]_vars =>
        [part = "collector" => BC!DeletedWasDeliveredStep /\ BC!TransitionsCompleteStep]_vars
  BY <1>2
<1>. QED  BY <1>1, <1>3, LabInvariant, PTL DEF Spec, EvidenceIsKept

\* The executor's handoff, and the idle one of the other behaviours, is a
\* single-consumer handoff (scenario/baseline.py).
THEOREM LabHandoffIsSingleConsumer == Spec => SingleConsumer
<1>. DEFINE Offer == IF part = "scenario" THEN S!Slot ELSE {}
            Reused == IF part = "scenario" THEN s8 ELSE {}
<1>1. S!Slot = P!Slot /\ S!AllWindows = P!AllWindows
  BY DEF S!Slot, P!Slot, S!AllWindows, P!AllWindows, S!None, P!None
<1>2. S!Slot' = P!Slot'
  BY DEF S!Slot, P!Slot, S!None, P!None
<1>3. Init => Handoff!Init
  BY DEF Init, S!Init, S!EmptyHandoff, S!Slot, Handoff!Init
<1>4. ASSUME LabInv, Next, part = "scenario"  PROVE [Handoff!Next]_<<Offer, Reused>>
  <2>1. [P!Handoff!Next]_<<P!Slot, s8>> /\ part' = part
    BY <1>4, PartSteps, P!HandoffStep, ScenarioConstants DEF LabInv
  <2>2. Offer = P!Slot /\ Offer' = P!Slot' /\ Reused = s8 /\ Reused' = s8'
    BY <1>1, <1>2, <1>4, <2>1
  <2>. QED
    BY <1>1, <2>1, <2>2 DEF Handoff!Next, Handoff!Publish, Handoff!Take, Handoff!Drop,
       P!Handoff!Next, P!Handoff!Publish, P!Handoff!Take, P!Handoff!Drop
<1>5. ASSUME Next, part # "scenario"  PROVE UNCHANGED <<Offer, Reused>>
  BY <1>5, PartSteps
<1>6. ASSUME UNCHANGED vars  PROVE UNCHANGED <<Offer, Reused>>
  BY <1>6 DEF vars, S!Slot
<1>7. LabInv /\ [Next]_vars => [Handoff!Next]_<<Offer, Reused>>
  BY <1>4, <1>5, <1>6
<1>. QED  BY <1>3, <1>7, LabInvariant, PTL DEF Spec, SingleConsumer, Handoff!Spec
=============================================================================

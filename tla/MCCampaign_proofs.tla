-------------------------- MODULE MCCampaign_proofs --------------------------
(****************************************************************************)
(* What MCCampaign checks on small instances, for every number of workers,   *)
(* backends, scales, cases, sessions and processes: the lifecycle of a       *)
(* runtime, the dispatch of sessions, the acceptance campaign and the score  *)
(* of a case.                                                                *)
(*                                                                           *)
(* The invariants take the variables of their component as parameters, under *)
(* the names the component gives them; MCCampaign keeps them in s1, s2, ...  *)
(****************************************************************************)
EXTENDS Integers, Sequences, SequenceTheorems, MCCampaign, WellFoundedInduction, TLAPS

-----------------------------------------------------------------------------
(* The acceptance campaign (Acceptance, session/acceptance.py).             *)

EntryStatuses == A!Statuses \ {"absent"}
Entries == [runtime : BOOLEAN, status : EntryStatuses, frozen : BOOLEAN, plan : BOOLEAN,
            redeployed : BOOLEAN, cases : [A!Backends -> [A!Cases -> Nat]]]
Files == [status : A!Statuses, scales : [A!Scales -> Entries]]
Labs == {"none", "created", "deployed", "warm", "quarantined", "gone"}
Modes == {"new", "resume", "rebuild"}
Processes ==
    [pc : {"off", "attach", "preflight", "raze", "phase", "record", "freeze", "deploy", "warm", "backend",
           "case", "passed", "release", "dispose", "final", "last", "finish"},
     s : A!Scales, last : A!Scales, b : A!Backends, mode : Modes, ran : BOOLEAN, resumed : BOOLEAN,
     completed : BOOLEAN, failed : BOOLEAN, active : BOOLEAN, leak : BOOLEAN, cancel : BOOLEAN,
     emergency : BOOLEAN]

AcceptTypes(disk, result, lab, dirty, p, started) ==
    /\ disk \in Files /\ result \in Files /\ lab \in [A!Scales -> Labs]
    /\ dirty \in [A!Scales -> BOOLEAN] /\ p \in Processes /\ started \in 0 .. NProcesses
    /\ p.s <= p.last

\* The places at which the runtime of the scale is on record, at which its
\* cases are frozen, and at which its plan is.
Recorded == {"freeze", "deploy", "warm", "backend", "case", "passed", "release", "dispose"}
Frozen == {"deploy", "warm", "backend", "case", "passed"}
Planned == {"backend", "case", "passed"}

\* A file that is not there says nothing; what the process knows is at least
\* what the file says, and where a lab may come to be the file names it.
AcceptRecord(disk, result, lab, p) ==
    /\ disk.status = "absent" => disk = A!NoFile
    /\ p.pc # "off" => /\ result.status # "absent"
                       /\ \A s \in A!Scales : disk.scales[s].runtime => result.scales[s].runtime
    /\ p.pc \in {"attach", "preflight", "raze", "record"} => result.scales[p.s].runtime
    /\ p.pc = "phase" /\ p.resumed => result.scales[p.s].runtime
    /\ p.pc = "raze" \/ (p.pc = "preflight" /\ p.resumed) => lab[p.s] \notin {"none", "gone"}
    /\ p.pc \in Recorded => disk.scales[p.s].runtime
    /\ \A s \in A!Scales : lab[s] \in {"deployed", "warm", "quarantined"} => disk.scales[s].runtime

\* Every case of every backend is complete on record.
Complete(e) == \A b \in A!Backends, c \in A!Cases : e.cases[b][c] > 0
Sealed(e) == Complete(e) /\ e.frozen /\ e.plan

\* What "passed" rests on: the backends before the present one are complete.
AcceptPassed(disk, result, p) ==
    /\ \A s \in A!Scales : disk.scales[s].status = "passed" => Sealed(disk.scales[s])
    /\ \A s \in A!Scales : result.scales[s].status = "passed" => Sealed(result.scales[s])
    /\ p.pc \in Frozen => result.scales[p.s].frozen
    /\ p.pc \in Planned => result.scales[p.s].plan
    /\ p.pc \in {"backend", "case"} =>
         \A b \in A!Backends, c \in A!Cases : b < p.b => result.scales[p.s].cases[b][c] > 0
    /\ p.pc = "passed" => Complete(result.scales[p.s])
    /\ p.completed /\ p.pc = "release" => Complete(result.scales[p.s])
    /\ p.completed /\ p.pc = "dispose" => Complete(disk.scales[p.s])
    /\ p.completed => p.pc \in {"release", "dispose", "final", "last", "finish", "off"}

\* No complete case is run again.
AcceptOnce(disk, result, p) ==
    /\ \A s \in A!Scales, b \in A!Backends, c \in A!Cases :
          disk.scales[s].cases[b][c] <= 1 /\ result.scales[s].cases[b][c] <= 1
    /\ p.pc = "case" => \E c \in A!Cases : result.scales[p.s].cases[p.b][c] = 0

\* The last step of a process has looked at the emergency.
AcceptFrees(lab, p) ==
    p.pc \in {"finish", "off"} /\ p.emergency /\ p.active /\ ~p.leak => lab[p.s] \in {"none", "gone"}

Accept ==
    /\ AcceptTypes(s1, s2, s3, s4, s5, s6)
    /\ AcceptRecord(s1, s2, s3, s5)
    /\ AcceptPassed(s1, s2, s5)
    /\ AcceptOnce(s1, s2, s5)
    /\ AcceptFrees(s3, s5)

\* Updates of a file, field by field.

\* What an entry says, its cases as those of the entry f.
Reads(e, runtime, status, frozen, plan, f) ==
    /\ e.runtime = runtime /\ e.status = status /\ e.frozen = frozen /\ e.plan = plan
    /\ \A b \in A!Backends, c \in A!Cases : e.cases[b][c] = f.cases[b][c]

Same(e, f) == Reads(e, f.runtime, f.status, f.frozen, f.plan, f)

Elsewhere(q, r, s) == \A z \in A!Scales \ {s} : Same(q.scales[z], r.scales[z])

LEMMA StatusOfEntry ==
    ASSUME s2 \in Files, s5.s \in A!Scales, NEW st \in EntryStatuses,
           s2' = [s2 EXCEPT !.scales[s5.s].status = st]
    PROVE  /\ s2' \in Files /\ s2'.status = s2.status /\ Elsewhere(s2', s2, s5.s)
           /\ Reads(s2'.scales[s5.s], s2.scales[s5.s].runtime, st, s2.scales[s5.s].frozen, s2.scales[s5.s].plan, s2.scales[s5.s])
<1>1. s2.scales \in [A!Scales -> Entries] /\ [s2.scales[s5.s] EXCEPT !.status = st] \in Entries
  BY DEF Files, Entries
<1>2. s2' \in Files
  BY <1>1 DEF Files
<1>3. s2'.status = s2.status /\ \A z \in A!Scales \ {s5.s} : s2'.scales[z] = s2.scales[z]
  BY <1>1 DEF Files
<1>4. s2'.scales[s5.s] = [s2.scales[s5.s] EXCEPT !.status = st]
  BY <1>1 DEF Files
<1>5. Reads(s2'.scales[s5.s], s2.scales[s5.s].runtime, st, s2.scales[s5.s].frozen, s2.scales[s5.s].plan, s2.scales[s5.s])
  BY <1>1, <1>4 DEF Files, Entries, Reads
<1>. QED  BY <1>2, <1>3, <1>5 DEF Elsewhere, Same, Reads

LEMMA StatusOfFile ==
    ASSUME s2 \in Files, s5.s \in A!Scales, NEW st \in EntryStatuses, NEW t \in A!Statuses,
           s2' = [s2 EXCEPT !.status = t, !.scales[s5.s].status = st]
    PROVE  /\ s2' \in Files /\ s2'.status = t /\ Elsewhere(s2', s2, s5.s)
           /\ Reads(s2'.scales[s5.s], s2.scales[s5.s].runtime, st, s2.scales[s5.s].frozen, s2.scales[s5.s].plan, s2.scales[s5.s])
<1>1. s2.scales \in [A!Scales -> Entries] /\ [s2.scales[s5.s] EXCEPT !.status = st] \in Entries
  BY DEF Files, Entries
<1>2. s2' \in Files
  BY <1>1 DEF Files
<1>3. s2'.status = t /\ \A z \in A!Scales \ {s5.s} : s2'.scales[z] = s2.scales[z]
  BY <1>1 DEF Files
<1>4. s2'.scales[s5.s] = [s2.scales[s5.s] EXCEPT !.status = st]
  BY <1>1 DEF Files
<1>5. Reads(s2'.scales[s5.s], s2.scales[s5.s].runtime, st, s2.scales[s5.s].frozen, s2.scales[s5.s].plan, s2.scales[s5.s])
  BY <1>1, <1>4 DEF Files, Entries, Reads
<1>. QED  BY <1>2, <1>3, <1>5 DEF Elsewhere, Same, Reads

LEMMA FrozenInFile ==
    ASSUME s2 \in Files, s5.s \in A!Scales, s2' = [s2 EXCEPT !.scales[s5.s].frozen = TRUE]
    PROVE  /\ s2' \in Files /\ s2'.status = s2.status /\ Elsewhere(s2', s2, s5.s)
           /\ Reads(s2'.scales[s5.s], s2.scales[s5.s].runtime, s2.scales[s5.s].status, TRUE, s2.scales[s5.s].plan, s2.scales[s5.s])
<1>1. s2.scales \in [A!Scales -> Entries] /\ [s2.scales[s5.s] EXCEPT !.frozen = TRUE] \in Entries
  BY DEF Files, Entries
<1>2. s2' \in Files
  BY <1>1 DEF Files
<1>3. s2'.status = s2.status /\ \A z \in A!Scales \ {s5.s} : s2'.scales[z] = s2.scales[z]
  BY <1>1 DEF Files
<1>4. s2'.scales[s5.s] = [s2.scales[s5.s] EXCEPT !.frozen = TRUE]
  BY <1>1 DEF Files
<1>5. Reads(s2'.scales[s5.s], s2.scales[s5.s].runtime, s2.scales[s5.s].status, TRUE, s2.scales[s5.s].plan, s2.scales[s5.s])
  BY <1>1, <1>4 DEF Files, Entries, Reads
<1>. QED  BY <1>2, <1>3, <1>5 DEF Elsewhere, Same, Reads

LEMMA PlanInFile ==
    ASSUME s2 \in Files, s5.s \in A!Scales, s2' = [s2 EXCEPT !.scales[s5.s].plan = TRUE]
    PROVE  /\ s2' \in Files /\ s2'.status = s2.status /\ Elsewhere(s2', s2, s5.s)
           /\ Reads(s2'.scales[s5.s], s2.scales[s5.s].runtime, s2.scales[s5.s].status, s2.scales[s5.s].frozen, TRUE, s2.scales[s5.s])
<1>1. s2.scales \in [A!Scales -> Entries] /\ [s2.scales[s5.s] EXCEPT !.plan = TRUE] \in Entries
  BY DEF Files, Entries
<1>2. s2' \in Files
  BY <1>1 DEF Files
<1>3. s2'.status = s2.status /\ \A z \in A!Scales \ {s5.s} : s2'.scales[z] = s2.scales[z]
  BY <1>1 DEF Files
<1>4. s2'.scales[s5.s] = [s2.scales[s5.s] EXCEPT !.plan = TRUE]
  BY <1>1 DEF Files
<1>5. Reads(s2'.scales[s5.s], s2.scales[s5.s].runtime, s2.scales[s5.s].status, s2.scales[s5.s].frozen, TRUE, s2.scales[s5.s])
  BY <1>1, <1>4 DEF Files, Entries, Reads
<1>. QED  BY <1>2, <1>3, <1>5 DEF Elsewhere, Same, Reads

LEMMA RuntimeInFile ==
    ASSUME s2 \in Files, s5.s \in A!Scales, s2' = [s2 EXCEPT !.scales[s5.s].runtime = TRUE,
                           !.scales[s5.s].redeployed = @ \/ s5.mode = "resume"]
    PROVE  /\ s2' \in Files /\ s2'.status = s2.status /\ Elsewhere(s2', s2, s5.s)
           /\ Reads(s2'.scales[s5.s], TRUE, s2.scales[s5.s].status, s2.scales[s5.s].frozen, s2.scales[s5.s].plan, s2.scales[s5.s])
<1>1. s2.scales \in [A!Scales -> Entries] /\ [s2.scales[s5.s] EXCEPT !.runtime = TRUE, !.redeployed = @ \/ s5.mode = "resume"] \in Entries
  BY DEF Files, Entries
<1>2. s2' \in Files
  BY <1>1 DEF Files
<1>3. s2'.status = s2.status /\ \A z \in A!Scales \ {s5.s} : s2'.scales[z] = s2.scales[z]
  BY <1>1 DEF Files
<1>4. s2'.scales[s5.s] = [s2.scales[s5.s] EXCEPT !.runtime = TRUE, !.redeployed = @ \/ s5.mode = "resume"]
  BY <1>1 DEF Files
<1>5. Reads(s2'.scales[s5.s], TRUE, s2.scales[s5.s].status, s2.scales[s5.s].frozen, s2.scales[s5.s].plan, s2.scales[s5.s])
  BY <1>1, <1>4 DEF Files, Entries, Reads
<1>. QED  BY <1>2, <1>3, <1>5 DEF Elsewhere, Same, Reads

\* A step of a process that goes on with its scale.
Moves(pc) ==
    /\ s5' \in Processes /\ s5'.pc = pc
    /\ s5'.s = s5.s /\ s5'.last = s5.last /\ s5'.b = s5.b /\ s5'.resumed = s5.resumed
    /\ s5'.completed = s5.completed /\ s5'.active = s5.active /\ s5'.leak = s5.leak
    /\ s5'.emergency = s5.emergency

LEMMA ProcessMoves ==
    ASSUME NEW pc \in {"off", "attach", "preflight", "raze", "phase", "record", "freeze", "deploy", "warm",
                       "backend", "case", "passed", "release", "dispose", "final", "last", "finish"},
           s5 \in Processes,
           \/ s5' = [s5 EXCEPT !.pc = pc]
           \/ s5' = [s5 EXCEPT !.pc = pc, !.failed = TRUE]
           \/ s5' = [s5 EXCEPT !.pc = pc, !.ran = TRUE]
    PROVE  Moves(pc)
BY ZenonT(40) DEF Processes, Moves

LEMMA NoProcessType ==
    /\ A!NoProcess \in Processes /\ A!NoProcess.s <= A!NoProcess.last /\ A!NoProcess.completed = FALSE
    /\ A!NoProcess.resumed = FALSE /\ A!NoProcess.last = NScales /\ A!NoProcess.emergency = FALSE
    /\ A!NoProcess.pc = "off"
BY CampaignAssumption DEF A!NoProcess, Processes, Modes, A!Scales, A!Backends

LEMMA AcceptFields ==
    ASSUME Accept
    PROVE  /\ s1 \in Files /\ s2 \in Files /\ s3 \in [A!Scales -> Labs] /\ s5 \in Processes
           /\ s5.s \in A!Scales /\ s5.last \in A!Scales /\ s5.b \in A!Backends /\ s5.s <= s5.last
           /\ \A s \in A!Scales : s1.scales[s] \in Entries /\ s2.scales[s] \in Entries
BY DEF Accept, AcceptTypes, Processes, Files

\* Steps that only move the process on.
LEMMA AcceptQuiet ==
    ASSUME Accept, UNCHANGED <<s1, s2, s3, s6>>, s4' \in [A!Scales -> BOOLEAN],
           NEW pc, Moves(pc),
           \/ s5.pc \in {"backend", "passed"} /\ pc = "release"
           \/ s5.pc = "backend" /\ pc = "case" /\ \E c \in A!Cases : s2.scales[s5.s].cases[s5.b][c] = 0
           \/ s5.pc = "final" /\ pc = "last"
           \/ s5.pc = "deploy" /\ pc = "warm"
           \/ s5.pc \in {"attach", "preflight", "freeze"} /\ pc = "final"
           \/ s5.pc = "preflight" /\ pc = "phase"
           \/ s5.pc = "preflight" /\ s5.resumed /\ pc = "raze"
    PROVE  Accept'
<1>1. AcceptTypes(s1, s2, s3, s4, s5, s6)'
  BY DEF Accept, AcceptTypes, Moves
<1>2. AcceptRecord(s1, s2, s3, s5)'
  BY DEF Accept, AcceptRecord, Moves, Recorded
<1>3. AcceptPassed(s1, s2, s5)'
  BY AcceptFields DEF Accept, AcceptPassed, Moves, Frozen, Planned, Sealed, Complete
<1>4. AcceptOnce(s1, s2, s5)'
  BY DEF Accept, AcceptOnce, Moves
<1>5. AcceptFrees(s3, s5)'
  BY DEF Accept, AcceptFrees, Moves
<1>. QED  BY <1>1, <1>2, <1>3, <1>4, <1>5 DEF Accept

LEMMA AcceptMoves ==
    ASSUME Accept, A!CancelCases \/ A!CloseMonitor \/ A!RunCase
    PROVE  Accept'
<1>1. CASE A!CancelCases
  <2>1. Moves("release") /\ s5.pc = "backend" /\ UNCHANGED <<s1, s2, s3, s4, s6>>
    BY <1>1, ProcessMoves, AcceptFields DEF A!CancelCases, A!At, A!Fails
  <2>. QED  BY <2>1, AcceptQuiet DEF Accept, AcceptTypes
<1>2. CASE A!CloseMonitor
  <2>1. Moves("last") /\ s5.pc = "final" /\ UNCHANGED <<s1, s2, s3, s4, s6>>
    BY <1>2, ProcessMoves, AcceptFields DEF A!CloseMonitor, A!At, A!Goto
  <2>. QED  BY <2>1, AcceptQuiet DEF Accept, AcceptTypes
<1>3. CASE A!RunCase
  <2>1. Moves("case") /\ s5.pc = "backend" /\ UNCHANGED <<s1, s2, s3, s6>>
    BY <1>3, ProcessMoves, AcceptFields DEF A!RunCase, A!At
  <2>2. s4' \in [A!Scales -> BOOLEAN]
    BY <1>3 DEF A!RunCase, Accept, AcceptTypes
  <2>3. \E c \in A!Cases : s2.scales[s5.s].cases[s5.b][c] = 0
    BY <1>3 DEF A!RunCase, A!Pending, A!Entry
  <2>. QED  BY <2>1, <2>2, <2>3, AcceptQuiet
<1>. QED  BY <1>1, <1>2, <1>3

\* A signal or an emergency is only noted.
LEMMA AcceptNotes ==
    ASSUME Accept, A!MemoryEmergency \/ A!Signal
    PROVE  Accept'
<1>1. /\ UNCHANGED <<s1, s2, s3, s4, s6>> /\ s5' \in Processes
      /\ s5.pc \notin {"off", "last", "finish"} /\ s5'.pc = s5.pc
      /\ s5'.s = s5.s /\ s5'.last = s5.last /\ s5'.b = s5.b /\ s5'.resumed = s5.resumed
      /\ s5'.completed = s5.completed
  BY AcceptFields DEF A!MemoryEmergency, A!Signal, A!Watched, Processes
<1>2. AcceptTypes(s1, s2, s3, s4, s5, s6)'
  BY <1>1 DEF Accept, AcceptTypes
<1>3. AcceptRecord(s1, s2, s3, s5)'
  BY <1>1 DEF Accept, AcceptRecord
<1>4. AcceptPassed(s1, s2, s5)'
  BY <1>1 DEF Accept, AcceptPassed, Sealed, Complete
<1>5. AcceptOnce(s1, s2, s5)' /\ AcceptFrees(s3, s5)'
  BY <1>1 DEF Accept, AcceptOnce, AcceptFrees
<1>. QED  BY <1>2, <1>3, <1>4, <1>5 DEF Accept

\* What is on record stays on record, and nothing is called passed that was
\* not.
Grows ==
    /\ s2' \in Files
    /\ \A z \in A!Scales : /\ s2.scales[z].runtime => s2'.scales[z].runtime
                           /\ s2.scales[z].frozen => s2'.scales[z].frozen
                           /\ s2.scales[z].plan => s2'.scales[z].plan
                           /\ s2'.scales[z].status = "passed" => s2.scales[z].status = "passed"
    /\ \A z \in A!Scales, b \in A!Backends, c \in A!Cases :
          s2'.scales[z].cases[b][c] = s2.scales[z].cases[b][c]

LEMMA FileGrows ==
    ASSUME s2 \in Files, s2' \in Files, s5.s \in A!Scales, Elsewhere(s2', s2, s5.s),
           NEW runtime \in BOOLEAN, NEW status, NEW frozen \in BOOLEAN, NEW plan \in BOOLEAN,
           Reads(s2'.scales[s5.s], runtime, status, frozen, plan, s2.scales[s5.s]),
           s2.scales[s5.s].runtime => runtime, s2.scales[s5.s].frozen => frozen,
           s2.scales[s5.s].plan => plan, status = "passed" => s2.scales[s5.s].status = "passed"
    PROVE  Grows
BY DEF Grows, Elsewhere, Same, Reads

LEMMA FilesGrow ==
    ASSUME Accept, Grows, s1' = s1 \/ s1' = s2'
    PROVE  /\ \A s \in A!Scales : s1'.scales[s].status = "passed" => Sealed(s1'.scales[s])
           /\ \A s \in A!Scales : s2'.scales[s].status = "passed" => Sealed(s2'.scales[s])
           /\ \A s \in A!Scales, b \in A!Backends, c \in A!Cases :
                 s1'.scales[s].cases[b][c] <= 1 /\ s2'.scales[s].cases[b][c] <= 1
<1>1. \A s \in A!Scales : s2'.scales[s].status = "passed" => Sealed(s2'.scales[s])
  BY DEF Accept, AcceptPassed, Grows, Sealed, Complete
<1>2. \A s \in A!Scales : s1.scales[s].status = "passed" => Sealed(s1.scales[s])
  BY DEF Accept, AcceptPassed
<1>3. \A s \in A!Scales, b \in A!Backends, c \in A!Cases :
         s1.scales[s].cases[b][c] <= 1 /\ s2'.scales[s].cases[b][c] <= 1
  BY DEF Accept, AcceptOnce, Grows
<1>. QED  BY <1>1, <1>2, <1>3

\* A process that starts or resumes has the file's record.
LEMMA AcceptStarts ==
    ASSUME Accept, A!StartCampaign
    PROVE  Accept'
<1>. USE CampaignAssumption
<1>1. /\ UNCHANGED <<s1, s3, s4>> /\ s6' \in 0 .. NProcesses /\ s1.status = "absent"
  BY DEF A!StartCampaign, Accept, AcceptTypes
<1>2. /\ s5' \in Processes /\ s5'.pc = "phase" /\ s5'.s <= s5'.last /\ s5'.resumed = FALSE
      /\ s5'.completed = FALSE
  BY NoProcessType DEF A!StartCampaign, Processes
<1>3. /\ s2' \in Files /\ s2'.status = "running"
      /\ \A s \in A!Scales : /\ s2'.scales[s].status = "none"
                             /\ \A b \in A!Backends, c \in A!Cases : s2'.scales[s].cases[b][c] = 0
  BY DEF A!StartCampaign, A!NewResult, A!NoEntry, Files, Entries, EntryStatuses, A!Statuses
<1>4. \A s \in A!Scales : ~s1.scales[s].runtime
  BY <1>1 DEF Accept, AcceptRecord, A!NoFile, A!NewResult, A!NoEntry
<1>5. AcceptTypes(s1, s2, s3, s4, s5, s6)'
  BY <1>1, <1>2, <1>3 DEF Accept, AcceptTypes
<1>6. AcceptRecord(s1, s2, s3, s5)'
  BY <1>1, <1>2, <1>3, <1>4 DEF Accept, AcceptRecord, Recorded
<1>7. AcceptPassed(s1, s2, s5)'
  BY <1>1, <1>2, <1>3 DEF Accept, AcceptPassed, Frozen, Planned, Sealed, Complete
<1>8. AcceptOnce(s1, s2, s5)' /\ AcceptFrees(s3, s5)'
  BY <1>1, <1>2, <1>3 DEF Accept, AcceptOnce, AcceptFrees
<1>. QED  BY <1>5, <1>6, <1>7, <1>8 DEF Accept

LEMMA AcceptResumes ==
    ASSUME Accept, A!ResumeCampaign
    PROVE  Accept'
<1>. USE CampaignAssumption
<1>1. /\ UNCHANGED <<s1, s3, s4>> /\ s6' \in 0 .. NProcesses /\ s1.status # "absent" /\ s2' = s1
  BY DEF A!ResumeCampaign, Accept, AcceptTypes
<1>2. /\ s5' \in Processes /\ s5'.pc = "attach" /\ s5'.s <= s5'.last
      /\ s5'.completed = FALSE /\ s1.scales[s5'.s].runtime
  <2>1. PICK s \in A!Scales, mode \in {"resume", "rebuild"} :
           /\ s1.scales[s].runtime
           /\ s5' = [A!NoProcess EXCEPT !.pc = "attach", !.s = s, !.last = s, !.mode = mode]
    BY DEF A!ResumeCampaign
  <2>2. mode \in Modes /\ s <= s
    BY DEF Modes, A!Scales
  <2>3. /\ s5' \in Processes /\ s5'.pc = "attach" /\ s5'.s = s /\ s5'.last = s
        /\ s5'.completed = A!NoProcess.completed
    BY <2>1, <2>2, NoProcessType DEF Processes
  <2>. QED  BY <2>1, <2>2, <2>3, NoProcessType
<1>5. AcceptTypes(s1, s2, s3, s4, s5, s6)'
  BY <1>1, <1>2 DEF Accept, AcceptTypes
<1>6. AcceptRecord(s1, s2, s3, s5)'
  BY <1>1, <1>2 DEF Accept, AcceptRecord, Recorded
<1>7. AcceptPassed(s1, s2, s5)'
  BY <1>1, <1>2 DEF Accept, AcceptPassed, Frozen, Planned, Sealed, Complete
<1>8. AcceptOnce(s1, s2, s5)' /\ AcceptFrees(s3, s5)'
  BY <1>1, <1>2 DEF Accept, AcceptOnce, AcceptFrees
<1>. QED  BY <1>5, <1>6, <1>7, <1>8 DEF Accept

\* A live runtime is attached only where a lab is in place.
LEMMA AcceptAttaches ==
    ASSUME Accept, A!AttachRuntime
    PROVE  Accept'
<1>1. /\ UNCHANGED <<s1, s2, s3, s4, s6>> /\ s5.pc = "attach"
  BY DEF A!AttachRuntime, A!At
<1>. DEFINE refused == A!Mismatch \/ (s5.mode = "resume" /\ s3[s5.s] = "quarantined")
            active == A!InPlace /\ (A!Entry.plan \/ s5.mode = "rebuild")
            pc == IF refused THEN "final" ELSE "preflight"
<1>2. CASE s5' = [s5 EXCEPT !.pc = "final", !.failed = TRUE]
  <2>1. Moves("final")
    BY <1>2, ProcessMoves, AcceptFields
  <2>. QED  BY <1>1, <2>1, AcceptQuiet DEF Accept, AcceptTypes
<1>3. CASE s5' = [s5 EXCEPT !.active = active, !.resumed = A!InPlace, !.pc = pc, !.failed = refused]
  <2>1. pc \in {"final", "preflight"}
    OBVIOUS
  <2>2. active \in BOOLEAN /\ A!InPlace \in BOOLEAN /\ refused \in BOOLEAN
    BY DEF A!InPlace
  <2>. HIDE DEF refused, pc, active
  <2>3. /\ s5' \in Processes /\ s5'.pc = pc /\ s5'.s = s5.s /\ s5'.last = s5.last
        /\ s5'.b = s5.b /\ s5'.completed = s5.completed /\ s5'.resumed = A!InPlace
    BY <1>3, <2>1, <2>2, AcceptFields, ZenonT(40) DEF Processes
  <2>4. s5'.resumed => s3[s5.s] \notin {"none", "gone"}
    BY <2>3 DEF A!InPlace
  <2>5. AcceptTypes(s1, s2, s3, s4, s5, s6)'
    BY <1>1, <2>1, <2>3 DEF Accept, AcceptTypes
  <2>6. AcceptRecord(s1, s2, s3, s5)'
    BY <1>1, <2>1, <2>3, <2>4 DEF Accept, AcceptRecord, Recorded
  <2>7. AcceptPassed(s1, s2, s5)'
    BY <1>1, <2>1, <2>3 DEF Accept, AcceptPassed, Frozen, Planned, Sealed, Complete
  <2>8. AcceptOnce(s1, s2, s5)' /\ AcceptFrees(s3, s5)'
    BY <1>1, <2>1, <2>3 DEF Accept, AcceptOnce, AcceptFrees
  <2>. QED  BY <2>5, <2>6, <2>7, <2>8 DEF Accept
<1>. QED  BY <1>2, <1>3 DEF A!AttachRuntime

\* The backends are probed before anything is torn down.
LEMMA AcceptPreflights ==
    ASSUME Accept, A!Preflight
    PROVE  Accept'
<1>1. /\ UNCHANGED <<s1, s2, s3, s4, s6>> /\ s5.pc = "preflight"
  BY DEF A!Preflight, A!At
<1>2. CASE s5' = [s5 EXCEPT !.pc = "final", !.failed = TRUE]
  <2>1. Moves("final")
    BY <1>2, ProcessMoves, AcceptFields
  <2>. QED  BY <1>1, <2>1, AcceptQuiet DEF Accept, AcceptTypes
<1>3. CASE A!Goto(IF s5.resumed /\ s5.mode = "rebuild" THEN "raze" ELSE "phase")
  <2>1. Moves("phase") \/ (s5.resumed /\ Moves("raze"))
    BY <1>3, ProcessMoves, AcceptFields DEF A!Goto
  <2>. QED  BY <1>1, <2>1, AcceptQuiet DEF Accept, AcceptTypes
<1>. QED  BY <1>2, <1>3 DEF A!Preflight

\* What a teardown makes of the lab of the scale.
LEMMA Teardowns ==
    ASSUME Accept
    PROVE  /\ A!TornDown => /\ s3' \in [A!Scales -> Labs] /\ s4' \in [A!Scales -> BOOLEAN]
                            /\ s3'[s5.s] = "gone" /\ \A z \in A!Scales \ {s5.s} : s3'[z] = s3[z]
           /\ A!TeardownFails =>
                /\ s3' \in [A!Scales -> Labs] /\ s4' \in [A!Scales -> BOOLEAN]
                /\ s3'[s5.s] = IF s3[s5.s] = "created" THEN "created" ELSE "quarantined"
                /\ \A z \in A!Scales \ {s5.s} : s3'[z] = s3[z]
BY AcceptFields DEF Accept, AcceptTypes, A!TornDown, A!TeardownFails, Labs

LEMMA AcceptRazes ==
    ASSUME Accept, A!RebuildTeardown
    PROVE  Accept'
<1>1. /\ UNCHANGED <<s1, s2, s6>> /\ s5.pc = "raze"
  BY DEF A!RebuildTeardown, A!At
<1>2. /\ s5' \in Processes /\ s5'.s = s5.s /\ s5'.last = s5.last
      /\ s5'.b = s5.b /\ s5'.completed = s5.completed
      /\ \/ s5'.pc = "phase" /\ s5'.resumed = FALSE /\ A!TornDown
         \/ s5'.pc = "final" /\ A!TeardownFails
  BY AcceptFields DEF A!RebuildTeardown, Processes
<1>3. s1.scales[s5.s].runtime \/ s3[s5.s] = "created"
  BY <1>1, AcceptFields DEF Accept, AcceptRecord, Labs
<1>5. AcceptTypes(s1, s2, s3, s4, s5, s6)'
  BY <1>1, <1>2, Teardowns DEF Accept, AcceptTypes
<1>6. AcceptRecord(s1, s2, s3, s5)'
  BY <1>1, <1>2, <1>3, Teardowns DEF Accept, AcceptRecord, Recorded
<1>7. AcceptPassed(s1, s2, s5)'
  BY <1>1, <1>2 DEF Accept, AcceptPassed, Frozen, Planned, Sealed, Complete
<1>8. AcceptOnce(s1, s2, s5)' /\ AcceptFrees(s3, s5)'
  BY <1>1, <1>2 DEF Accept, AcceptOnce, AcceptFrees
<1>. QED  BY <1>5, <1>6, <1>7, <1>8 DEF Accept

\* The runtime is on record in memory before it exists.
LEMMA AcceptBegins ==
    ASSUME Accept, A!BeginPhase
    PROVE  Accept'
<1>1. /\ UNCHANGED <<s1, s4, s6>> /\ s5.pc = "phase"
  BY DEF A!BeginPhase, A!At
<1>2. s5.completed = FALSE
  BY <1>1, AcceptFields DEF Accept, AcceptPassed, Processes
<1>3. CASE s5' = [s5 EXCEPT !.pc = "final", !.failed = TRUE] /\ UNCHANGED <<s2, s3>>
  <2>1. Moves("final")
    BY <1>3, ProcessMoves, AcceptFields
  <2>2. AcceptTypes(s1, s2, s3, s4, s5, s6)' /\ AcceptRecord(s1, s2, s3, s5)'
    BY <1>1, <1>3, <2>1 DEF Accept, AcceptTypes, AcceptRecord, Recorded, Moves
  <2>3. AcceptPassed(s1, s2, s5)'
    BY <1>1, <1>2, <1>3, <2>1 DEF Accept, AcceptPassed, Frozen, Planned, Sealed, Complete, Moves
  <2>4. AcceptOnce(s1, s2, s5)' /\ AcceptFrees(s3, s5)'
    BY <1>1, <1>3, <2>1 DEF Accept, AcceptOnce, AcceptFrees, Moves
  <2>. QED  BY <2>2, <2>3, <2>4 DEF Accept
<1>4. CASE s5.resumed /\ A!Goto("record") /\ UNCHANGED <<s2, s3>>
  <2>1. Moves("record")
    BY <1>4, ProcessMoves, AcceptFields DEF A!Goto
  <2>2. AcceptTypes(s1, s2, s3, s4, s5, s6)' /\ AcceptRecord(s1, s2, s3, s5)'
    BY <1>1, <1>4, <2>1 DEF Accept, AcceptTypes, AcceptRecord, Recorded, Moves
  <2>3. AcceptPassed(s1, s2, s5)'
    BY <1>1, <1>2, <1>4, <2>1 DEF Accept, AcceptPassed, Frozen, Planned, Sealed, Complete, Moves
  <2>4. AcceptOnce(s1, s2, s5)' /\ AcceptFrees(s3, s5)'
    BY <1>1, <1>4, <2>1 DEF Accept, AcceptOnce, AcceptFrees, Moves
  <2>. QED  BY <2>2, <2>3, <2>4 DEF Accept
<1>5. CASE /\ s3' = [s3 EXCEPT ![s5.s] = "created"] /\ A!Goto("record")
           /\ s2' = [s2 EXCEPT !.scales[s5.s].runtime = TRUE,
                               !.scales[s5.s].redeployed = @ \/ s5.mode = "resume"]
  <2>1. Moves("record")
    BY <1>5, ProcessMoves, AcceptFields DEF A!Goto
  <2>4. /\ s2' \in Files /\ s2'.status = s2.status /\ Elsewhere(s2', s2, s5.s)
        /\ Reads(s2'.scales[s5.s], TRUE, s2.scales[s5.s].status, s2.scales[s5.s].frozen,
                 s2.scales[s5.s].plan, s2.scales[s5.s])
    BY <1>5, RuntimeInFile, AcceptFields
  <2>5. /\ s3' \in [A!Scales -> Labs] /\ s3'[s5.s] = "created"
        /\ \A z \in A!Scales \ {s5.s} : s3'[z] = s3[z]
    BY <1>5, AcceptFields DEF Labs
  <2>6. AcceptTypes(s1, s2, s3, s4, s5, s6)'
    BY <1>1, <2>1, <2>4, <2>5 DEF Accept, AcceptTypes, Moves
  <2>7. AcceptRecord(s1, s2, s3, s5)'
    BY <1>1, <2>1, <2>4, <2>5, AcceptFields
       DEF Accept, AcceptRecord, Recorded, Moves, Elsewhere, Same, Reads
  <2>10. Grows
    <3>1. \A z \in A!Scales : /\ s2'.scales[z].runtime = (z = s5.s \/ s2.scales[z].runtime)
                             /\ s2'.scales[z].frozen = s2.scales[z].frozen
                             /\ s2'.scales[z].plan = s2.scales[z].plan
                             /\ s2'.scales[z].status = s2.scales[z].status
      BY <2>4, AcceptFields DEF Elsewhere, Same, Reads, Files, Entries
    <3>2. \A z \in A!Scales, b \in A!Backends, c \in A!Cases :
             s2'.scales[z].cases[b][c] = s2.scales[z].cases[b][c]
      BY <2>4, AcceptFields DEF Elsewhere, Same, Reads
    <3>. QED  BY <2>4, <3>1, <3>2 DEF Grows
  <2>11. Moves("record") /\ s1' = s1
    BY <1>1, <2>1
  <2>8. AcceptPassed(s1, s2, s5)'
    BY <1>2, <2>10, <2>11, FilesGrow DEF AcceptPassed, Frozen, Planned, Moves
  <2>9. AcceptOnce(s1, s2, s5)' /\ AcceptFrees(s3, s5)'
    BY <2>10, <2>11, FilesGrow DEF AcceptOnce, AcceptFrees, Moves
  <2>. QED  BY <2>6, <2>7, <2>8, <2>9 DEF Accept
<1>. QED  BY <1>3, <1>4, <1>5 DEF A!BeginPhase

LEMMA AcceptRecords ==
    ASSUME Accept, A!RecordRuntime
    PROVE  Accept'
<1>1. UNCHANGED <<s3, s4, s6>> /\ s5.pc = "record"
  BY DEF A!RecordRuntime, A!At
<1>2. s5.completed = FALSE
  BY <1>1, AcceptFields DEF Accept, AcceptPassed, Processes
<1>3. ASSUME NEW pc \in {"final", "freeze"}, NEW failed \in BOOLEAN,
             s5' = [s5 EXCEPT !.pc = pc, !.failed = failed, !.active = TRUE]
      PROVE  /\ s5' \in Processes /\ s5'.pc = pc /\ s5'.s = s5.s /\ s5'.last = s5.last
             /\ s5'.b = s5.b /\ s5'.completed = s5.completed
  BY <1>3, AcceptFields DEF Processes
<1>4. CASE s5' = [s5 EXCEPT !.pc = "final", !.failed = TRUE, !.active = TRUE] /\ UNCHANGED <<s1, s2>>
  <2>1. /\ s5' \in Processes /\ s5'.pc = "final" /\ s5'.s = s5.s /\ s5'.last = s5.last
        /\ s5'.b = s5.b /\ s5'.completed = s5.completed
    BY <1>3, <1>4
  <2>2. AcceptTypes(s1, s2, s3, s4, s5, s6)' /\ AcceptRecord(s1, s2, s3, s5)'
    BY <1>1, <1>4, <2>1 DEF Accept, AcceptTypes, AcceptRecord, Recorded
  <2>3. AcceptPassed(s1, s2, s5)'
    BY <1>1, <1>2, <1>4, <2>1 DEF Accept, AcceptPassed, Frozen, Planned, Sealed, Complete
  <2>4. AcceptOnce(s1, s2, s5)' /\ AcceptFrees(s3, s5)'
    BY <1>1, <1>4, <2>1 DEF Accept, AcceptOnce, AcceptFrees
  <2>. QED  BY <2>2, <2>3, <2>4 DEF Accept
<1>5. CASE /\ s5' = [s5 EXCEPT !.pc = "freeze", !.active = TRUE] /\ s1' = s2'
           /\ s2' = [s2 EXCEPT !.status = "running", !.scales[s5.s].status = "running"]
  <2>1. /\ s5' \in Processes /\ s5'.pc = "freeze" /\ s5'.s = s5.s /\ s5'.last = s5.last
        /\ s5'.b = s5.b /\ s5'.completed = s5.completed
    BY <1>5, AcceptFields DEF Processes
  <2>2. "running" \in EntryStatuses /\ "running" \in A!Statuses
    BY DEF EntryStatuses, A!Statuses
  <2>3. /\ s2' \in Files /\ s2'.status = "running" /\ Elsewhere(s2', s2, s5.s)
        /\ Reads(s2'.scales[s5.s], s2.scales[s5.s].runtime, "running", s2.scales[s5.s].frozen,
                 s2.scales[s5.s].plan, s2.scales[s5.s])
    BY <1>5, <2>2, StatusOfFile, AcceptFields
  <2>4. AcceptTypes(s1, s2, s3, s4, s5, s6)'
    BY <1>1, <1>5, <2>1, <2>3 DEF Accept, AcceptTypes
  <2>5. AcceptRecord(s1, s2, s3, s5)'
    <3>1. \A z \in A!Scales : s2'.scales[z].runtime = s2.scales[z].runtime
      BY <2>3 DEF Elsewhere, Same, Reads
    <3>2. /\ s2.scales[s5.s].runtime
          /\ \A z \in A!Scales : s1.scales[z].runtime => s2.scales[z].runtime
          /\ \A z \in A!Scales : s3[z] \in {"deployed", "warm", "quarantined"} => s1.scales[z].runtime
      BY <1>1 DEF Accept, AcceptRecord
    <3>3. s5.s \in A!Scales
      BY AcceptFields
    <3>4. s1' = s2' /\ s3' = s3
      BY <1>1, <1>5
    <3>. QED  BY <2>1, <2>3, <3>1, <3>2, <3>3, <3>4 DEF AcceptRecord
  <2>8. Grows
    BY <2>3, FileGrows, AcceptFields DEF Entries
  <2>6. AcceptPassed(s1, s2, s5)'
    BY <1>2, <1>5, <2>1, <2>8, FilesGrow DEF AcceptPassed, Frozen, Planned
  <2>7. AcceptOnce(s1, s2, s5)' /\ AcceptFrees(s3, s5)'
    BY <1>5, <2>1, <2>8, FilesGrow DEF AcceptOnce, AcceptFrees
  <2>. QED  BY <2>4, <2>5, <2>6, <2>7 DEF Accept
<1>. QED  BY <1>4, <1>5 DEF A!RecordRuntime, A!Checkpoint

LEMMA AcceptFreezes ==
    ASSUME Accept, A!FreezeCases
    PROVE  Accept'
<1>1. UNCHANGED <<s3, s4, s6>> /\ s5.pc = "freeze"
  BY DEF A!FreezeCases, A!At
<1>2. CASE /\ s2' = [s2 EXCEPT !.scales[s5.s].frozen = TRUE] /\ s1' = s2' /\ A!Goto("deploy")
  <2>1. Moves("deploy") /\ s1' = s2'
    BY <1>2, ProcessMoves, AcceptFields DEF A!Goto
  <2>2. /\ s2' \in Files /\ s2'.status = s2.status /\ Elsewhere(s2', s2, s5.s)
        /\ Reads(s2'.scales[s5.s], s2.scales[s5.s].runtime, s2.scales[s5.s].status, TRUE,
                 s2.scales[s5.s].plan, s2.scales[s5.s])
    BY <1>2, FrozenInFile, AcceptFields
  <2>3. AcceptTypes(s1, s2, s3, s4, s5, s6)'
    BY <1>1, <2>1, <2>2 DEF Accept, AcceptTypes, Moves
  <2>4. AcceptRecord(s1, s2, s3, s5)'
    BY <1>1, <2>1, <2>2, AcceptFields DEF Accept, AcceptRecord, Recorded, Moves, Elsewhere, Same, Reads
  <2>5. AcceptPassed(s1, s2, s5)'
    BY <1>1, <2>1, <2>2, AcceptFields, SMTT(30)
       DEF Accept, AcceptPassed, Frozen, Planned, Sealed, Complete, Moves, Elsewhere, Same, Reads
  <2>6. AcceptOnce(s1, s2, s5)' /\ AcceptFrees(s3, s5)'
    BY <1>1, <2>1, <2>2, AcceptFields, SMTT(30)
       DEF Accept, AcceptOnce, AcceptFrees, Moves, Elsewhere, Same, Reads
  <2>. QED  BY <2>3, <2>4, <2>5, <2>6 DEF Accept
<1>3. CASE s5' = [s5 EXCEPT !.pc = "final", !.failed = TRUE] /\ UNCHANGED <<s1, s2>>
  <2>1. Moves("final")
    BY <1>3, ProcessMoves, AcceptFields
  <2>. QED  BY <1>1, <1>3, <2>1, AcceptQuiet DEF Accept, AcceptTypes
<1>. QED  BY <1>2, <1>3 DEF A!FreezeCases, A!Checkpoint

\* Steps that change the lab of a scale whose runtime is on record.
LEMMA AcceptLabs ==
    ASSUME Accept, UNCHANGED <<s1, s2, s4, s6>>, NEW pc, Moves(pc),
           NEW st \in Labs, s3' = [s3 EXCEPT ![s5.s] = st],
           \/ s5.pc = "deploy" /\ pc \in {"warm", "release"}
           \/ s5.pc = "backend" /\ pc = "release"
    PROVE  Accept'
<1>1. s3' \in [A!Scales -> Labs] /\ \A z \in A!Scales \ {s5.s} : s3'[z] = s3[z]
  BY AcceptFields
<1>2. AcceptTypes(s1, s2, s3, s4, s5, s6)'
  BY <1>1 DEF Accept, AcceptTypes, Moves
<1>3. AcceptRecord(s1, s2, s3, s5)'
  BY <1>1 DEF Accept, AcceptRecord, Moves, Recorded
<1>4. AcceptPassed(s1, s2, s5)'
  BY AcceptFields DEF Accept, AcceptPassed, Moves, Frozen, Planned, Sealed, Complete
<1>5. AcceptOnce(s1, s2, s5)' /\ AcceptFrees(s3, s5)'
  BY DEF Accept, AcceptOnce, AcceptFrees, Moves
<1>. QED  BY <1>2, <1>3, <1>4, <1>5 DEF Accept

LEMMA AcceptDeploys ==
    ASSUME Accept, A!Deploy
    PROVE  Accept'
<1>1. UNCHANGED <<s1, s2, s4, s6>> /\ s5.pc = "deploy"
  BY DEF A!Deploy, A!At
<1>2. CASE A!Goto("warm") /\ UNCHANGED s3
  <2>1. Moves("warm")
    BY <1>2, ProcessMoves, AcceptFields DEF A!Goto
  <2>. QED  BY <1>1, <1>2, <2>1, AcceptQuiet DEF Accept, AcceptTypes
<1>3. CASE s3' = [s3 EXCEPT ![s5.s] = "deployed"] /\ A!Goto("warm")
  <2>1. Moves("warm")
    BY <1>3, ProcessMoves, AcceptFields DEF A!Goto
  <2>. QED  BY <1>1, <1>3, <2>1, AcceptLabs DEF Labs
<1>4. CASE (\E st \in A!PartlyDeployed : s3' = [s3 EXCEPT ![s5.s] = st]) /\ A!Fails
  <2>1. Moves("release")
    BY <1>4, ProcessMoves, AcceptFields DEF A!Fails
  <2>2. PICK st \in A!PartlyDeployed : s3' = [s3 EXCEPT ![s5.s] = st]
    BY <1>4
  <2>3. st \in Labs
    BY AcceptFields DEF Labs, A!PartlyDeployed
  <2>. QED  BY <1>1, <2>1, <2>2, <2>3, AcceptLabs
<1>. QED  BY <1>2, <1>3, <1>4 DEF A!Deploy

\* Warming: the plan goes on record, or the lab stays as it is or is
\* quarantined.
LEMMA AcceptWarms ==
    ASSUME Accept, A!WarmLab
    PROVE  Accept'
<1>1. UNCHANGED <<s4, s6>> /\ s5.pc = "warm"
  BY DEF A!WarmLab, A!At
<1>2. s5.completed = FALSE
  BY <1>1, AcceptFields DEF Accept, AcceptPassed, Processes
<1>3. CASE /\ s3' = [s3 EXCEPT ![s5.s] = "warm"] /\ s1' = s2'
           /\ s2' = [s2 EXCEPT !.scales[s5.s].plan = TRUE]
           /\ s5' = [s5 EXCEPT !.pc = "backend", !.b = 1, !.ran = FALSE]
  <2>1. /\ s5' \in Processes /\ s5'.pc = "backend" /\ s5'.s = s5.s /\ s5'.last = s5.last
        /\ s5'.b = 1 /\ s5'.completed = s5.completed
    <3>1. 1 \in A!Backends
      BY CampaignAssumption DEF A!Backends
    <3>. QED  BY <1>3, <3>1, AcceptFields DEF Processes
  <2>2. s3' \in [A!Scales -> Labs] /\ \A z \in A!Scales \ {s5.s} : s3'[z] = s3[z]
    BY <1>3, AcceptFields DEF Labs
  <2>3. /\ s2' \in Files /\ s2'.status = s2.status /\ Elsewhere(s2', s2, s5.s)
        /\ Reads(s2'.scales[s5.s], s2.scales[s5.s].runtime, s2.scales[s5.s].status,
                 s2.scales[s5.s].frozen, TRUE, s2.scales[s5.s])
    BY <1>3, PlanInFile, AcceptFields
  <2>4. AcceptTypes(s1, s2, s3, s4, s5, s6)'
    BY <1>1, <1>3, <2>1, <2>2, <2>3 DEF Accept, AcceptTypes
  <2>5. AcceptRecord(s1, s2, s3, s5)'
    <3>1. \A z \in A!Scales : s2'.scales[z].runtime = s2.scales[z].runtime
      BY <2>3 DEF Elsewhere, Same, Reads
    <3>2. s1.scales[s5.s].runtime /\ s2.status # "absent"
      BY <1>1 DEF Accept, AcceptRecord, Recorded
    <3>. QED  BY <1>1, <1>3, <2>1, <2>2, <2>3, <3>1, <3>2, AcceptFields, SMTT(30) DEF Accept, AcceptRecord, Recorded
  <2>6. \A b \in A!Backends : ~(b < 1)
    BY DEF A!Backends
  <2>11. s2'.scales[s5.s].plan = TRUE /\ s2'.scales[s5.s].frozen = s2.scales[s5.s].frozen
    BY <2>3 DEF Reads
  <2>12. Grows
    <3>1. PICK plan \in BOOLEAN :
             /\ Reads(s2'.scales[s5.s], s2.scales[s5.s].runtime, s2.scales[s5.s].status,
                      s2.scales[s5.s].frozen, plan, s2.scales[s5.s])
             /\ s2.scales[s5.s].plan => plan
      BY <2>3
    <3>2. s2.scales[s5.s].runtime \in BOOLEAN /\ s2.scales[s5.s].frozen \in BOOLEAN
      BY AcceptFields DEF Entries
    <3>. QED  BY <2>3, <3>1, <3>2, FileGrows, AcceptFields
  <2>9. Grows /\ s2'.scales[s5.s].plan /\ s2'.scales[s5.s].frozen = s2.scales[s5.s].frozen
    BY <2>11, <2>12
  <2>10. s2.scales[s5.s].frozen
    BY <1>1 DEF Accept, AcceptPassed, Frozen
  <2>7. AcceptPassed(s1, s2, s5)'
    BY <1>2, <1>3, <2>1, <2>6, <2>9, <2>10, FilesGrow DEF AcceptPassed, Frozen, Planned
  <2>8. AcceptOnce(s1, s2, s5)' /\ AcceptFrees(s3, s5)'
    BY <1>3, <2>1, <2>9, FilesGrow DEF AcceptOnce, AcceptFrees
  <2>. QED  BY <2>4, <2>5, <2>7, <2>8 DEF Accept
<1>4. CASE /\ \E st \in A!LeftBehind : s3' = [s3 EXCEPT ![s5.s] = st]
           /\ s2' \in {s2, [s2 EXCEPT !.scales[s5.s].plan = TRUE]}
           /\ A!Fails /\ UNCHANGED s1
  <2>1. Moves("release")
    BY <1>4, ProcessMoves, AcceptFields DEF A!Fails
  <2>2. s3' \in [A!Scales -> Labs] /\ \A z \in A!Scales \ {s5.s} : s3'[z] = s3[z]
    BY <1>4, AcceptFields DEF Labs, A!LeftBehind
  <2>3. /\ s2' \in Files /\ s2'.status = s2.status /\ Elsewhere(s2', s2, s5.s)
        /\ \E plan \in BOOLEAN :
             /\ Reads(s2'.scales[s5.s], s2.scales[s5.s].runtime, s2.scales[s5.s].status,
                      s2.scales[s5.s].frozen, plan, s2.scales[s5.s])
             /\ s2.scales[s5.s].plan => plan
    <3>1. CASE s2' = s2
      BY <3>1, AcceptFields DEF Entries, Elsewhere, Same, Reads
    <3>2. CASE s2' = [s2 EXCEPT !.scales[s5.s].plan = TRUE]
      BY <3>2, PlanInFile, AcceptFields
    <3>. QED  BY <1>4, <3>1, <3>2
  <2>4. AcceptTypes(s1, s2, s3, s4, s5, s6)'
    BY <1>1, <1>4, <2>1, <2>2, <2>3 DEF Accept, AcceptTypes, Moves
  <2>5. AcceptRecord(s1, s2, s3, s5)'
    BY <1>1, <1>4, <2>1, <2>2, <2>3, AcceptFields
       DEF Accept, AcceptRecord, Recorded, Moves, Elsewhere, Same, Reads
  <2>6. Grows
    <3>1. PICK plan \in BOOLEAN :
             /\ Reads(s2'.scales[s5.s], s2.scales[s5.s].runtime, s2.scales[s5.s].status,
                      s2.scales[s5.s].frozen, plan, s2.scales[s5.s])
             /\ s2.scales[s5.s].plan => plan
      BY <2>3
    <3>2. s2.scales[s5.s].runtime \in BOOLEAN /\ s2.scales[s5.s].frozen \in BOOLEAN
      BY AcceptFields DEF Entries
    <3>. QED  BY <2>3, <3>1, <3>2, FileGrows, AcceptFields
  <2>7. AcceptPassed(s1, s2, s5)'
    BY <1>2, <1>4, <2>1, <2>6, FilesGrow DEF AcceptPassed, Frozen, Planned, Moves
  <2>8. AcceptOnce(s1, s2, s5)' /\ AcceptFrees(s3, s5)'
    BY <1>4, <2>1, <2>6, FilesGrow DEF AcceptOnce, AcceptFrees, Moves
  <2>. QED  BY <2>4, <2>5, <2>7, <2>8 DEF Accept
<1>. QED  BY <1>3, <1>4 DEF A!WarmLab, A!Checkpoint

\* The smallest pending case is a pending case.
LEMMA CaseToRun ==
    ASSUME NEW pending \in SUBSET A!Cases, pending # {}
    PROVE  (CHOOSE x \in pending : \A y \in pending : x <= y) \in pending
<1>1. pending \subseteq Nat
  BY CampaignAssumption DEF A!Cases
<1>2. PICK x \in pending : \A y \in pending : ~(<<y, x>> \in OpToRel(<, Nat))
  BY <1>1, NatLessThanWellFounded, WFMin
<1>3. \A y \in pending : ~(y < x)
  <2>1. \A ss \in Nat \X Nat : ss[1] < ss[2] => ss \in OpToRel(<, Nat)
    BY DEF OpToRel
  <2>. QED  BY <1>1, <1>2, <2>1
<1>4. \A y \in pending : x <= y
  BY <1>1, <1>3
<1>. QED  BY <1>4

\* One more complete record of one case, or none.
LEMMA CaseOfFile ==
    ASSUME s2 \in Files, s5.s \in A!Scales, s5.b \in A!Backends, NEW k \in A!Cases,
           s2.scales[s5.s].cases[s5.b][k] = 0, NEW complete \in BOOLEAN,
           s2' = [s2 EXCEPT !.scales[s5.s].cases[s5.b][k] = IF complete THEN @ + 1 ELSE @]
    PROVE  /\ s2' \in Files /\ s2'.status = s2.status /\ Elsewhere(s2', s2, s5.s)
           /\ LET e == s2.scales[s5.s]
                  q == s2'.scales[s5.s]
              IN  /\ q.runtime = e.runtime /\ q.status = e.status /\ q.frozen = e.frozen /\ q.plan = e.plan
                  /\ \A b \in A!Backends, c \in A!Cases :
                        \/ q.cases[b][c] = e.cases[b][c]
                        \/ b = s5.b /\ c = k /\ q.cases[b][c] = 1
<1>. DEFINE e == s2.scales[s5.s]
            n == IF complete THEN 1 ELSE 0
            cases == [e.cases EXCEPT ![s5.b] = [e.cases[s5.b] EXCEPT ![k] = n]]
            q == [e EXCEPT !.cases = cases]
<1>1. e \in Entries /\ s2.scales \in [A!Scales -> Entries] /\ e.cases \in [A!Backends -> [A!Cases -> Nat]]
  BY DEF Files, Entries
<1>2. /\ cases \in [A!Backends -> [A!Cases -> Nat]]
      /\ \A b \in A!Backends, c \in A!Cases :
            cases[b][c] = IF b = s5.b /\ c = k THEN n ELSE e.cases[b][c]
  <2>1. e.cases[s5.b] \in [A!Cases -> Nat] /\ n \in Nat
    BY <1>1
  <2>2. [e.cases[s5.b] EXCEPT ![k] = n] \in [A!Cases -> Nat]
    BY <2>1
  <2>. HIDE DEF n, e
  <2>. QED  BY <1>1, <2>1, <2>2
<1>3. s2' = [s2 EXCEPT !.scales = [s2.scales EXCEPT ![s5.s] = q]]
  BY <1>1 DEF Files
<1>4. q \in Entries /\ q.cases = cases /\ q.runtime = e.runtime /\ q.status = e.status
      /\ q.frozen = e.frozen /\ q.plan = e.plan
  <2>. HIDE DEF cases, e
  <2>. QED  BY <1>1, <1>2 DEF Entries
<1>5. n = 1 \/ (n = 0 /\ e.cases[s5.b][k] = 0)
  OBVIOUS
<1>. HIDE DEF q, cases, n, e
<1>6. s2' \in Files /\ s2'.status = s2.status
  BY <1>1, <1>3, <1>4 DEF Files
<1>7. s2'.scales[s5.s] = q /\ \A z \in A!Scales \ {s5.s} : s2'.scales[z] = s2.scales[z]
  BY <1>1, <1>3, <1>4 DEF Files
<1>8. \A b \in A!Backends, c \in A!Cases : \/ q.cases[b][c] = e.cases[b][c]
                                           \/ b = s5.b /\ c = k /\ q.cases[b][c] = 1
  BY <1>2, <1>4, <1>5
<1>. QED  BY <1>4, <1>6, <1>7, <1>8 DEF Elsewhere, Same, Reads, e

LEMMA AcceptCaseEnds ==
    ASSUME Accept, A!CaseEnds
    PROVE  Accept'
<1>1. UNCHANGED s6 /\ s5.pc = "case" /\ s1' = s2'
  BY DEF A!CaseEnds, A!At, A!Checkpoint
<1>2. s5.completed = FALSE
  BY <1>1, AcceptFields DEF Accept, AcceptPassed, Processes
<1>3. PICK complete \in BOOLEAN, clean \in BOOLEAN :
         /\ A!OnCase(complete)
         /\ s4' = [s4 EXCEPT ![s5.s] = ~clean]
         /\ s3' = [s3 EXCEPT ![s5.s] = IF clean THEN @ ELSE "quarantined"]
         /\ IF complete /\ clean THEN A!Goto("backend") ELSE A!Fails
  BY DEF A!CaseEnds
<1>. DEFINE todo == A!Pending(s5.b)
            k == CHOOSE x \in todo : \A y \in todo : x <= y
<1>4. todo \in SUBSET A!Cases /\ \A c \in todo : s2.scales[s5.s].cases[s5.b][c] = 0
  BY DEF A!Pending, A!Entry
<1>5. todo # {}
  BY <1>1 DEF A!Pending, A!Entry, Accept, AcceptOnce
<1>6. k \in todo
  BY <1>4, <1>5, CaseToRun
<1>7. s2' = [s2 EXCEPT !.scales[s5.s].cases[s5.b][k] = IF complete THEN @ + 1 ELSE @]
  BY <1>3 DEF A!OnCase
<1>. HIDE DEF todo, k
<1>8. /\ s2' \in Files /\ s2'.status = s2.status /\ Elsewhere(s2', s2, s5.s)
      /\ LET e == s2.scales[s5.s]
             q == s2'.scales[s5.s]
         IN  /\ q.runtime = e.runtime /\ q.status = e.status /\ q.frozen = e.frozen /\ q.plan = e.plan
             /\ \A b \in A!Backends, c \in A!Cases :
                   \/ q.cases[b][c] = e.cases[b][c]
                   \/ b = s5.b /\ c = k /\ q.cases[b][c] = 1
  BY <1>3, <1>4, <1>6, <1>7, CaseOfFile, AcceptFields
<1>9. Moves("backend") \/ Moves("release")
  BY <1>3, ProcessMoves, AcceptFields DEF A!Goto, A!Fails
<1>10. /\ s3' \in [A!Scales -> Labs] /\ \A z \in A!Scales \ {s5.s} : s3'[z] = s3[z]
       /\ s4' \in [A!Scales -> BOOLEAN]
  BY <1>3, AcceptFields DEF Labs, Accept, AcceptTypes
<1>11. /\ \A z \in A!Scales : /\ s2'.scales[z].runtime = s2.scales[z].runtime
                              /\ s2'.scales[z].status = s2.scales[z].status
                              /\ s2'.scales[z].frozen = s2.scales[z].frozen
                              /\ s2'.scales[z].plan = s2.scales[z].plan
       /\ \A z \in A!Scales, b \in A!Backends, c \in A!Cases :
             \/ s2'.scales[z].cases[b][c] = s2.scales[z].cases[b][c]
             \/ s2'.scales[z].cases[b][c] = 1
  BY <1>8 DEF Elsewhere, Same, Reads
<1>12. s1.scales[s5.s].runtime /\ s2.status # "absent" /\ s2.scales[s5.s].frozen /\ s2.scales[s5.s].plan
  BY <1>1 DEF Accept, AcceptRecord, Recorded, AcceptPassed, Frozen, Planned
<1>13. AcceptTypes(s1, s2, s3, s4, s5, s6)'
  BY <1>1, <1>8, <1>9, <1>10 DEF Accept, AcceptTypes, Moves
<1>14. AcceptRecord(s1, s2, s3, s5)'
  BY <1>1, <1>8, <1>9, <1>10, <1>11, <1>12, AcceptFields DEF Accept, AcceptRecord, Recorded, Moves
<1>15. \A z \in A!Scales, b \in A!Backends, c \in A!Cases :
          s2.scales[z].cases[b][c] > 0 => s2'.scales[z].cases[b][c] > 0
  BY <1>11
<1>16. \A z \in A!Scales : Sealed(s2.scales[z]) => Sealed(s2'.scales[z])
  BY <1>11, <1>15 DEF Sealed, Complete
<1>17. \A b \in A!Backends, c \in A!Cases : b < s5.b => s2.scales[s5.s].cases[b][c] > 0
  BY <1>1 DEF Accept, AcceptPassed
<1>18. AcceptPassed(s1, s2, s5)'
  BY <1>1, <1>2, <1>9, <1>11, <1>12, <1>15, <1>16, <1>17, AcceptFields, SMTT(30)
     DEF Accept, AcceptPassed, Frozen, Planned, Moves
<1>19. AcceptOnce(s1, s2, s5)' /\ AcceptFrees(s3, s5)'
  BY <1>1, <1>9, <1>11 DEF Accept, AcceptOnce, AcceptFrees, Moves
<1>. QED  BY <1>13, <1>14, <1>18, <1>19 DEF Accept

\* The end of a backend: the next one, the end of the phase, or a sick lab.
LEMMA AcceptBackends ==
    ASSUME Accept, A!BackendEnds
    PROVE  Accept'
<1>1. UNCHANGED <<s1, s2, s4, s6>> /\ s5.pc = "backend"
  BY DEF A!BackendEnds, A!At
<1>2. s5.completed = FALSE
  BY <1>1, AcceptFields DEF Accept, AcceptPassed, Processes
<1>3. \A c \in A!Cases : s2.scales[s5.s].cases[s5.b][c] > 0
  <2>1. \A c \in A!Cases : s2.scales[s5.s].cases[s5.b][c] \in Nat
    BY AcceptFields DEF Entries
  <2>2. \A c \in A!Cases : s2.scales[s5.s].cases[s5.b][c] # 0
    BY DEF A!BackendEnds, A!Pending, A!Entry
  <2>. QED  BY <2>1, <2>2
<1>4. \A b \in A!Backends, c \in A!Cases : b < s5.b => s2.scales[s5.s].cases[b][c] > 0
  BY <1>1 DEF Accept, AcceptPassed
<1>5. \A b \in A!Backends, c \in A!Cases : b < s5.b + 1 => s2.scales[s5.s].cases[b][c] > 0
  <2>1. \A b \in A!Backends : b < s5.b + 1 => b < s5.b \/ b = s5.b
    BY AcceptFields DEF A!Backends
  <2>. QED  BY <1>3, <1>4, <2>1
<1>6. CASE /\ s5.b < NBackends /\ UNCHANGED s3
           /\ s5' = [s5 EXCEPT !.b = @ + 1, !.ran = FALSE]
  <2>1. s5.b + 1 \in A!Backends
    BY <1>6, AcceptFields, CampaignAssumption DEF A!Backends
  <2>2. /\ s5' \in Processes /\ s5'.pc = "backend" /\ s5'.s = s5.s /\ s5'.last = s5.last
        /\ s5'.b = s5.b + 1 /\ s5'.completed = s5.completed
    BY <1>1, <1>6, <2>1, AcceptFields DEF Processes
  <2>3. AcceptTypes(s1, s2, s3, s4, s5, s6)' /\ AcceptRecord(s1, s2, s3, s5)'
    BY <1>1, <1>6, <2>2 DEF Accept, AcceptTypes, AcceptRecord, Recorded
  <2>4. AcceptPassed(s1, s2, s5)'
    BY <1>1, <1>2, <1>5, <1>6, <2>2 DEF Accept, AcceptPassed, Frozen, Planned, Sealed, Complete
  <2>5. AcceptOnce(s1, s2, s5)' /\ AcceptFrees(s3, s5)'
    BY <1>1, <1>6, <2>2 DEF Accept, AcceptOnce, AcceptFrees
  <2>. QED  BY <2>3, <2>4, <2>5 DEF Accept
<1>7. CASE s5.b = NBackends /\ A!Goto("passed") /\ UNCHANGED s3
  <2>1. Moves("passed")
    BY <1>7, ProcessMoves, AcceptFields DEF A!Goto
  <2>2. Complete(s2.scales[s5.s])
    <3>1. \A b \in A!Backends : b < s5.b + 1
      BY <1>7, CampaignAssumption DEF A!Backends
    <3>. QED  BY <1>5, <3>1 DEF Complete
  <2>3. AcceptTypes(s1, s2, s3, s4, s5, s6)' /\ AcceptRecord(s1, s2, s3, s5)'
    BY <1>1, <1>7, <2>1 DEF Accept, AcceptTypes, AcceptRecord, Recorded, Moves
  <2>4. AcceptPassed(s1, s2, s5)'
    BY <1>1, <1>2, <1>7, <2>1, <2>2 DEF Accept, AcceptPassed, Frozen, Planned, Sealed, Complete, Moves
  <2>5. AcceptOnce(s1, s2, s5)' /\ AcceptFrees(s3, s5)'
    BY <1>1, <1>7, <2>1 DEF Accept, AcceptOnce, AcceptFrees, Moves
  <2>. QED  BY <2>3, <2>4, <2>5 DEF Accept
<1>8. CASE s3' = [s3 EXCEPT ![s5.s] = "quarantined"] /\ A!Fails
  <2>1. Moves("release")
    BY <1>8, ProcessMoves, AcceptFields DEF A!Fails
  <2>. QED  BY <1>1, <1>8, <2>1, AcceptLabs DEF Labs
<1>9. s5.b < NBackends \/ s5.b = NBackends
  BY AcceptFields, CampaignAssumption DEF A!Backends
<1>. QED  BY <1>6, <1>7, <1>8, <1>9 DEF A!BackendEnds

LEMMA AcceptPasses ==
    ASSUME Accept, A!PhasePassed
    PROVE  Accept'
<1>1. UNCHANGED <<s1, s3, s4, s6>> /\ s5.pc = "passed"
  BY DEF A!PhasePassed, A!At
<1>2. s5.completed = FALSE
  BY <1>1, AcceptFields DEF Accept, AcceptPassed, Processes
<1>3. CASE A!Fails /\ UNCHANGED s2
  <2>1. Moves("release")
    BY <1>3, ProcessMoves, AcceptFields DEF A!Fails
  <2>. QED  BY <1>1, <1>3, <2>1, AcceptQuiet DEF Accept, AcceptTypes
<1>4. CASE /\ s2' = [s2 EXCEPT !.scales[s5.s].status = "passed"]
           /\ s5' = [s5 EXCEPT !.pc = "release", !.completed = TRUE]
  <2>1. /\ s5' \in Processes /\ s5'.pc = "release" /\ s5'.s = s5.s /\ s5'.last = s5.last
        /\ s5'.b = s5.b
    BY <1>4, AcceptFields DEF Processes
  <2>2. "passed" \in EntryStatuses
    BY DEF EntryStatuses, A!Statuses
  <2>3. /\ s2' \in Files /\ s2'.status = s2.status /\ Elsewhere(s2', s2, s5.s)
        /\ Reads(s2'.scales[s5.s], s2.scales[s5.s].runtime, "passed", s2.scales[s5.s].frozen,
                 s2.scales[s5.s].plan, s2.scales[s5.s])
    BY <1>4, <2>2, StatusOfEntry, AcceptFields
  <2>4. Sealed(s2.scales[s5.s])
    BY <1>1 DEF Accept, AcceptPassed, Sealed, Frozen, Planned
  <2>5. /\ Complete(s2'.scales[s5.s]) /\ Sealed(s2'.scales[s5.s])
        /\ \A z \in A!Scales \ {s5.s} : s2'.scales[z].status = s2.scales[z].status
        /\ \A z \in A!Scales \ {s5.s} : Sealed(s2.scales[z]) => Sealed(s2'.scales[z])
    BY <2>3, <2>4, AcceptFields, SMTT(30) DEF Elsewhere, Same, Reads, Sealed, Complete
  <2>6. AcceptTypes(s1, s2, s3, s4, s5, s6)'
    BY <1>1, <2>1, <2>3 DEF Accept, AcceptTypes
  <2>7. AcceptRecord(s1, s2, s3, s5)'
    BY <1>1, <2>1, <2>3, AcceptFields DEF Accept, AcceptRecord, Recorded, Elsewhere, Same, Reads
  <2>8. AcceptPassed(s1, s2, s5)'
    BY <1>1, <2>1, <2>5 DEF Accept, AcceptPassed, Frozen, Planned
  <2>9. AcceptOnce(s1, s2, s5)' /\ AcceptFrees(s3, s5)'
    <3>1. \A z \in A!Scales, b \in A!Backends, c \in A!Cases :
             s2'.scales[z].cases[b][c] = s2.scales[z].cases[b][c]
      BY <2>3 DEF Elsewhere, Same, Reads
    <3>. QED  BY <1>1, <2>1, <3>1 DEF Accept, AcceptOnce, AcceptFrees
  <2>. QED  BY <2>6, <2>7, <2>8, <2>9 DEF Accept
<1>. QED  BY <1>3, <1>4 DEF A!PhasePassed

\* The first checkpoint of a scale's end.
LEMMA AcceptRecordsPhase ==
    ASSUME Accept, A!RecordPhase
    PROVE  Accept'
<1>1. UNCHANGED <<s3, s4, s6>> /\ s5.pc = "release" /\ s1' = s2' /\ Moves("dispose")
  BY ProcessMoves, AcceptFields DEF A!RecordPhase, A!At, A!Goto, A!Checkpoint
<1>2. CASE s2' = s2
  <2>1. s1.scales[s5.s].runtime /\ s2.status # "absent"
    BY <1>1 DEF Accept, AcceptRecord, Recorded
  <2>2. AcceptTypes(s1, s2, s3, s4, s5, s6)' /\ AcceptRecord(s1, s2, s3, s5)'
    BY <1>1, <1>2, <2>1, AcceptFields DEF Accept, AcceptTypes, AcceptRecord, Recorded, Moves
  <2>3. AcceptPassed(s1, s2, s5)'
    BY <1>1, <1>2 DEF Accept, AcceptPassed, Frozen, Planned, Sealed, Complete, Moves
  <2>4. AcceptOnce(s1, s2, s5)' /\ AcceptFrees(s3, s5)'
    BY <1>1, <1>2 DEF Accept, AcceptOnce, AcceptFrees, Moves
  <2>. QED  BY <2>2, <2>3, <2>4 DEF Accept
<1>3. CASE \E st \in {"quarantined", "failed_retained"} : s2' = [s2 EXCEPT !.scales[s5.s].status = st]
  <2>1. PICK st \in {"quarantined", "failed_retained"} : s2' = [s2 EXCEPT !.scales[s5.s].status = st]
    BY <1>3
  <2>2. st \in EntryStatuses /\ st # "passed"
    BY DEF EntryStatuses, A!Statuses
  <2>3. /\ s2' \in Files /\ s2'.status = s2.status /\ Elsewhere(s2', s2, s5.s)
        /\ Reads(s2'.scales[s5.s], s2.scales[s5.s].runtime, st, s2.scales[s5.s].frozen,
                 s2.scales[s5.s].plan, s2.scales[s5.s])
    BY <2>1, <2>2, StatusOfEntry, AcceptFields
  <2>4. Grows
    <3>1. /\ s2.scales[s5.s].runtime \in BOOLEAN /\ s2.scales[s5.s].frozen \in BOOLEAN
          /\ s2.scales[s5.s].plan \in BOOLEAN
      BY AcceptFields DEF Entries
    <3>. QED  BY <2>2, <2>3, <3>1, FileGrows, AcceptFields
  <2>5. s1.scales[s5.s].runtime /\ s2.status # "absent"
    BY <1>1 DEF Accept, AcceptRecord, Recorded
  <2>6. \A z \in A!Scales : s2'.scales[z].runtime = s2.scales[z].runtime
    BY <2>3 DEF Elsewhere, Same, Reads
  <2>7. AcceptTypes(s1, s2, s3, s4, s5, s6)'
    BY <1>1, <2>3 DEF Accept, AcceptTypes, Moves
  <2>8. AcceptRecord(s1, s2, s3, s5)'
    BY <1>1, <2>3, <2>5, <2>6, AcceptFields DEF Accept, AcceptRecord, Recorded, Moves
  <2>9. Complete(s2.scales[s5.s]) => Complete(s2'.scales[s5.s])
    BY <2>4, AcceptFields DEF Grows, Complete
  <2>10. AcceptPassed(s1, s2, s5)'
    <3>1. s5.completed => Complete(s2.scales[s5.s])
      BY <1>1 DEF Accept, AcceptPassed
    <3>. QED  BY <1>1, <2>4, <2>9, <3>1, FilesGrow DEF AcceptPassed, Frozen, Planned, Moves
  <2>11. AcceptOnce(s1, s2, s5)' /\ AcceptFrees(s3, s5)'
    BY <1>1, <2>4, FilesGrow DEF AcceptOnce, AcceptFrees, Moves
  <2>. QED  BY <2>7, <2>8, <2>10, <2>11 DEF Accept
<1>. QED  BY <1>2, <1>3 DEF A!RecordPhase

\* release_runtime: the process goes on to its next scale, or to its end.
LEMMA AfterPhases ==
    ASSUME Accept, s5.pc = "dispose", A!AfterPhase
    PROVE  /\ s5' \in Processes /\ s5'.s \in A!Scales /\ s5'.s <= s5'.last
           /\ s5'.completed = FALSE
           /\ \/ s5'.pc = "final"
              \/ s5'.pc = "phase" /\ s5'.resumed = FALSE
<1>1. CASE s5.failed \/ s5.s = s5.last
  <2>1. s5' = [s5 EXCEPT !.pc = "final", !.completed = FALSE, !.resumed = FALSE, !.s = s5.s, !.active = TRUE]
    BY <1>1, AcceptFields DEF A!AfterPhase, Processes
  <2>. QED  BY <2>1, AcceptFields DEF Processes
<1>2. CASE ~(s5.failed \/ s5.s = s5.last)
  <2>1. s5' = [s5 EXCEPT !.pc = "phase", !.completed = FALSE, !.resumed = FALSE, !.s = s5.s + 1,
                         !.active = FALSE]
    BY <1>2, AcceptFields DEF A!AfterPhase, Processes
  <2>2. s5.s + 1 \in A!Scales /\ s5.s + 1 <= s5.last
    BY <1>2, AcceptFields, CampaignAssumption DEF A!Scales
  <2>. QED  BY <2>1, <2>2, AcceptFields DEF Processes
<1>. QED  BY <1>1, <1>2

LEMMA AcceptDisposes ==
    ASSUME Accept, A!DisposeRuntime
    PROVE  Accept'
<1>1. UNCHANGED <<s1, s2, s6>> /\ s5.pc = "dispose"
  BY DEF A!DisposeRuntime, A!At
<1>2. s1.scales[s5.s].runtime
  BY <1>1 DEF Accept, AcceptRecord, Recorded
<1>3. CASE A!AfterPhase /\ (UNCHANGED <<s3, s4>> \/ A!TornDown)
  <2>1. /\ s3' \in [A!Scales -> Labs] /\ s4' \in [A!Scales -> BOOLEAN]
        /\ \A z \in A!Scales : s3'[z] = s3[z] \/ s3'[z] = "gone"
    BY <1>3, Teardowns DEF Accept, AcceptTypes
  <2>2. AcceptTypes(s1, s2, s3, s4, s5, s6)'
    BY <1>1, <1>3, <2>1, AfterPhases DEF Accept, AcceptTypes
  <2>3. AcceptRecord(s1, s2, s3, s5)'
    BY <1>1, <1>3, <2>1, AfterPhases DEF Accept, AcceptRecord, Recorded
  <2>4. AcceptPassed(s1, s2, s5)'
    BY <1>1, <1>3, AfterPhases DEF Accept, AcceptPassed, Frozen, Planned, Sealed, Complete
  <2>5. AcceptOnce(s1, s2, s5)' /\ AcceptFrees(s3, s5)'
    BY <1>1, <1>3, AfterPhases DEF Accept, AcceptOnce, AcceptFrees
  <2>. QED  BY <2>2, <2>3, <2>4, <2>5 DEF Accept
<1>4. CASE A!TeardownFails /\ s5' = [s5 EXCEPT !.pc = "final", !.failed = TRUE, !.leak = TRUE]
  <2>1. /\ s5' \in Processes /\ s5'.pc = "final" /\ s5'.s = s5.s /\ s5'.last = s5.last
    BY <1>4, AcceptFields DEF Processes
  <2>2. AcceptTypes(s1, s2, s3, s4, s5, s6)'
    BY <1>1, <1>4, <2>1, Teardowns DEF Accept, AcceptTypes
  <2>3. AcceptRecord(s1, s2, s3, s5)'
    BY <1>1, <1>2, <1>4, <2>1, Teardowns DEF Accept, AcceptRecord, Recorded
  <2>4. AcceptPassed(s1, s2, s5)'
    BY <1>1, <2>1 DEF Accept, AcceptPassed, Frozen, Planned, Sealed, Complete
  <2>5. AcceptOnce(s1, s2, s5)' /\ AcceptFrees(s3, s5)'
    BY <1>1, <2>1 DEF Accept, AcceptOnce, AcceptFrees
  <2>. QED  BY <2>2, <2>3, <2>4, <2>5 DEF Accept
<1>. QED  BY <1>3, <1>4 DEF A!DisposeRuntime

\* The last finally looks at the emergency, and tears the lab down.
LEMMA AcceptReleases ==
    ASSUME Accept, A!EmergencyRelease
    PROVE  Accept'
<1>1. UNCHANGED <<s1, s2, s6>> /\ s5.pc = "last"
  BY DEF A!EmergencyRelease, A!At
<1>2. ~A!InPlace <=> s3[s5.s] \in {"none", "gone"}
  BY DEF A!InPlace
<1>3. CASE A!InPlace /\ A!TornDown /\ A!Goto("finish")
  <2>1. Moves("finish")
    BY <1>3, ProcessMoves, AcceptFields DEF A!Goto
  <2>2. AcceptTypes(s1, s2, s3, s4, s5, s6)'
    BY <1>1, <1>3, <2>1, Teardowns DEF Accept, AcceptTypes, Moves
  <2>3. AcceptRecord(s1, s2, s3, s5)'
    BY <1>1, <1>3, <2>1, Teardowns DEF Accept, AcceptRecord, Recorded, Moves
  <2>4. AcceptPassed(s1, s2, s5)' /\ AcceptOnce(s1, s2, s5)'
    BY <1>1, <2>1 DEF Accept, AcceptPassed, Frozen, Planned, Sealed, Complete, AcceptOnce, Moves
  <2>5. AcceptFrees(s3, s5)'
    BY <1>3, <2>1, Teardowns DEF AcceptFrees, Moves
  <2>. QED  BY <2>2, <2>3, <2>4, <2>5 DEF Accept
<1>4. CASE A!InPlace /\ A!TeardownFails /\ s5' = [s5 EXCEPT !.pc = "finish", !.leak = TRUE]
  <2>1. /\ s5' \in Processes /\ s5'.pc = "finish" /\ s5'.s = s5.s /\ s5'.last = s5.last /\ s5'.leak = TRUE
    BY <1>4, AcceptFields DEF Processes
  <2>2. s3[s5.s] # "created" => s1.scales[s5.s].runtime
    BY <1>2, <1>4, AcceptFields DEF Accept, AcceptRecord, Labs
  <2>3. AcceptTypes(s1, s2, s3, s4, s5, s6)'
    BY <1>1, <1>4, <2>1, Teardowns DEF Accept, AcceptTypes
  <2>4. AcceptRecord(s1, s2, s3, s5)'
    BY <1>1, <1>4, <2>1, <2>2, Teardowns DEF Accept, AcceptRecord, Recorded
  <2>5. AcceptPassed(s1, s2, s5)' /\ AcceptOnce(s1, s2, s5)' /\ AcceptFrees(s3, s5)'
    BY <1>1, <2>1 DEF Accept, AcceptPassed, Frozen, Planned, Sealed, Complete, AcceptOnce, AcceptFrees
  <2>. QED  BY <2>3, <2>4, <2>5 DEF Accept
<1>5. CASE ~(s5.emergency /\ s5.active /\ A!InPlace) /\ A!Goto("finish") /\ UNCHANGED <<s3, s4>>
  <2>1. Moves("finish")
    BY <1>5, ProcessMoves, AcceptFields DEF A!Goto
  <2>2. AcceptTypes(s1, s2, s3, s4, s5, s6)' /\ AcceptRecord(s1, s2, s3, s5)'
    BY <1>1, <1>5, <2>1 DEF Accept, AcceptTypes, AcceptRecord, Recorded, Moves
  <2>3. AcceptPassed(s1, s2, s5)' /\ AcceptOnce(s1, s2, s5)'
    BY <1>1, <2>1 DEF Accept, AcceptPassed, Frozen, Planned, Sealed, Complete, AcceptOnce, Moves
  <2>4. AcceptFrees(s3, s5)'
    BY <1>2, <1>5, <2>1 DEF AcceptFrees, Moves
  <2>. QED  BY <2>2, <2>3, <2>4 DEF Accept
<1>. QED  BY <1>3, <1>4, <1>5 DEF A!EmergencyRelease

LEMMA AcceptFinishes ==
    ASSUME Accept, A!FinishProcess
    PROVE  Accept'
<1>1. UNCHANGED <<s3, s4, s6>> /\ s5.pc = "finish" /\ s1' = s2' /\ Moves("off")
  BY ProcessMoves, AcceptFields DEF A!FinishProcess, A!At, A!Goto, A!Checkpoint
<1>2. /\ s2' \in Files /\ s2'.status \in {"failed_retained", "passed"} /\ s2'.scales = s2.scales
  BY AcceptFields DEF A!FinishProcess, Files, A!Statuses
<1>3. s2.status # "absent" /\ \A s \in A!Scales : s1.scales[s].runtime => s2.scales[s].runtime
  BY <1>1 DEF Accept, AcceptRecord
<1>4. AcceptTypes(s1, s2, s3, s4, s5, s6)'
  BY <1>1, <1>2 DEF Accept, AcceptTypes, Moves
<1>5. AcceptRecord(s1, s2, s3, s5)'
  BY <1>1, <1>2, <1>3 DEF Accept, AcceptRecord, Recorded, Moves
<1>6. AcceptPassed(s1, s2, s5)'
  BY <1>1, <1>2 DEF Accept, AcceptPassed, Frozen, Planned, Sealed, Complete, Moves
<1>7. AcceptOnce(s1, s2, s5)' /\ AcceptFrees(s3, s5)'
  BY <1>1, <1>2 DEF Accept, AcceptOnce, AcceptFrees, Moves
<1>. QED  BY <1>4, <1>5, <1>6, <1>7 DEF Accept

\* A process dies: the file and the labs stay.
LEMMA AcceptCrashes ==
    ASSUME Accept, A!Crash
    PROVE  Accept'
<1>1. UNCHANGED <<s1, s4, s6>> /\ s5' = A!NoProcess /\ s2' = A!NewResult
  BY DEF A!Crash
<1>2. /\ s3' \in [A!Scales -> Labs]
      /\ \A s \in A!Scales : s3'[s] = s3[s] \/ s3'[s] = "none"
  BY AcceptFields DEF A!Crash, Labs
<1>3. /\ s2' \in Files
      /\ \A s \in A!Scales : /\ s2'.scales[s].status = "none"
                             /\ \A b \in A!Backends, c \in A!Cases : s2'.scales[s].cases[b][c] = 0
  BY <1>1 DEF A!NewResult, A!NoEntry, Files, Entries, EntryStatuses, A!Statuses
<1>4. AcceptTypes(s1, s2, s3, s4, s5, s6)' /\ AcceptRecord(s1, s2, s3, s5)'
  BY <1>1, <1>2, <1>3, NoProcessType DEF Accept, AcceptTypes, AcceptRecord, Recorded
<1>5. AcceptPassed(s1, s2, s5)'
  BY <1>1, <1>3, NoProcessType DEF Accept, AcceptPassed, Frozen, Planned, Sealed, Complete
<1>6. AcceptOnce(s1, s2, s5)' /\ AcceptFrees(s3, s5)'
  BY <1>1, <1>3, NoProcessType DEF Accept, AcceptOnce, AcceptFrees
<1>. QED  BY <1>4, <1>5, <1>6 DEF Accept

LEMMA AcceptStutters ==
    ASSUME Accept, UNCHANGED <<s1, s2, s3, s4, s5, s6>>
    PROVE  Accept'
<1>1. AcceptTypes(s1, s2, s3, s4, s5, s6)'
  BY DEF Accept, AcceptTypes
<1>2. AcceptRecord(s1, s2, s3, s5)'
  BY DEF Accept, AcceptRecord
<1>3. AcceptPassed(s1, s2, s5)'
  BY DEF Accept, AcceptPassed, Sealed, Complete
<1>4. AcceptOnce(s1, s2, s5)' /\ AcceptFrees(s3, s5)'
  BY DEF Accept, AcceptOnce, AcceptFrees
<1>. QED  BY <1>1, <1>2, <1>3, <1>4 DEF Accept

LEMMA AcceptStep ==
    ASSUME Accept, A!Next
    PROVE  Accept'
<1>1. A!Idle => Accept'
  BY AcceptStutters DEF A!Idle, A!vars
<1>2. A!Step => Accept'
  BY AcceptAttaches, AcceptPreflights, AcceptRazes, AcceptBegins, AcceptRecords, AcceptFreezes, AcceptDeploys,
     AcceptWarms, AcceptMoves, AcceptCaseEnds, AcceptBackends, AcceptPasses, AcceptRecordsPhase, AcceptDisposes,
     AcceptReleases, AcceptFinishes, Zenon DEF A!Step
<1>. QED  BY <1>1, <1>2, AcceptStarts, AcceptResumes, AcceptNotes, AcceptCrashes DEF A!Next

LEMMA AcceptInit ==
    ASSUME A!Init
    PROVE  Accept
<1>1. /\ s1 = A!NoFile /\ s2 = A!NewResult /\ s3 = [s \in A!Scales |-> "none"]
      /\ s4 = [s \in A!Scales |-> FALSE] /\ s5 = A!NoProcess /\ s6 = 0
  BY DEF A!Init
<1>2. /\ s2 \in Files /\ s1 \in Files
      /\ \A s \in A!Scales : /\ s2.scales[s].status = "none" /\ s1.scales[s] = s2.scales[s]
                             /\ \A b \in A!Backends, c \in A!Cases : s2.scales[s].cases[b][c] = 0
  BY <1>1 DEF A!NoFile, A!NewResult, A!NoEntry, Files, Entries, EntryStatuses, A!Statuses
<1>3. AcceptTypes(s1, s2, s3, s4, s5, s6) /\ AcceptRecord(s1, s2, s3, s5)
  BY <1>1, <1>2, NoProcessType, CampaignAssumption DEF AcceptTypes, AcceptRecord, Recorded, Labs
<1>4. AcceptPassed(s1, s2, s5)
  BY <1>1, <1>2, NoProcessType DEF AcceptPassed, Frozen, Planned, Sealed, Complete
<1>5. AcceptOnce(s1, s2, s5) /\ AcceptFrees(s3, s5)
  BY <1>1, <1>2, NoProcessType DEF AcceptOnce, AcceptFrees
<1>. QED  BY <1>3, <1>4, <1>5 DEF Accept

\* A lab leaves only where its cases are complete on record, in an emergency,
\* or for an explicit rebuild.
LEMMA AcceptSpares ==
    ASSUME Accept, A!Next
    PROVE  A!OnlyFinishedReleasedStep
<1>. SUFFICES ASSUME NEW s \in A!Scales, s3'[s] = "gone", s3[s] # "gone", ~s5.emergency, s5.pc # "raze"
              PROVE  \A b \in A!Backends, c \in A!Cases : s1.scales[s].cases[b][c] > 0
  BY DEF A!OnlyFinishedReleasedStep
<1>1. A!DisposeRuntime
  <2>1. (~A!RebuildTeardown /\ ~A!EmergencyRelease) \/ s3' = s3
    BY DEF A!RebuildTeardown, A!EmergencyRelease, A!At
  <2>2. ASSUME NEW st \in {"created", "deployed", "quarantined", "warm"}
        PROVE  s3' # [s3 EXCEPT ![s5.s] = st]
    BY <2>2, AcceptFields
  <2>3. ~A!BeginPhase /\ ~A!Deploy
    <3>1. [s3 EXCEPT ![s5.s] = s3[s5.s]] = s3
      BY AcceptFields
    <3>2. \A st \in A!PartlyDeployed : [s3 EXCEPT ![s5.s] = st] # s3'
      BY <2>2, <3>1 DEF A!PartlyDeployed
    <3>. QED  BY <2>2, <3>2, AcceptFields DEF A!BeginPhase, A!Deploy
  <2>4. ~A!WarmLab
    <3>1. \A st \in A!LeftBehind : s3' # [s3 EXCEPT ![s5.s] = st]
      BY AcceptFields DEF A!LeftBehind
    <3>. QED  BY <2>2, <3>1 DEF A!WarmLab
  <2>5. ~A!CaseEnds /\ ~A!BackendEnds
    BY AcceptFields DEF A!CaseEnds, A!BackendEnds
  <2>6. ~A!Crash
    BY AcceptFields DEF A!Crash
  <2>7. s3' # s3
    OBVIOUS
  <2>8. ~A!StartCampaign /\ ~A!ResumeCampaign /\ ~A!AttachRuntime /\ ~A!Preflight /\ ~A!RecordRuntime
        /\ ~A!FreezeCases /\ ~A!RunCase /\ ~A!CancelCases /\ ~A!PhasePassed /\ ~A!RecordPhase /\ ~A!CloseMonitor
        /\ ~A!FinishProcess /\ ~A!MemoryEmergency /\ ~A!Signal /\ ~A!Idle
    BY <2>7 DEF A!StartCampaign, A!ResumeCampaign, A!AttachRuntime, A!Preflight, A!RecordRuntime, A!FreezeCases,
       A!RunCase, A!CancelCases, A!PhasePassed, A!RecordPhase, A!CloseMonitor, A!FinishProcess,
       A!MemoryEmergency, A!Signal, A!Idle, A!vars
  <2>. QED  BY <2>1, <2>3, <2>4, <2>5, <2>6, <2>7, <2>8 DEF A!Next, A!Step
<1>2. s5.pc = "dispose" /\ s5.completed
  BY <1>1 DEF A!DisposeRuntime, A!At, A!Released
<1>3. s = s5.s
  BY <1>1, Teardowns DEF A!DisposeRuntime
<1>. QED  BY <1>2, <1>3 DEF Accept, AcceptPassed, Complete

-----------------------------------------------------------------------------
(* The lifecycle of a runtime (RuntimeLifecycle, runtime/): its proofs are   *)
(* in RuntimeLifecycle_proofs, here over the variables of MCCampaign.        *)

LP == INSTANCE RuntimeLifecycle_proofs WITH
    Workers <- LabWorkers, Backends <- Identities, Crashes <- FALSE,
    LostReplies <- FALSE, ResumeQuarantined <- FALSE, ForeignLabs <- FALSE,
    pc <- s1, job <- s2, stage <- s3, todo <- s4, at <- s5, failed <- s6,
    mem <- s7, identity <- s8, dir <- s9, disk <- s10, labs <- s11, buckets <- s12,
    owned <- s13
LC == INSTANCE RuntimeLifecycle_proofs WITH
    Workers <- LabWorkers, Backends <- Identities, Crashes <- TRUE,
    LostReplies <- TRUE, ResumeQuarantined <- FALSE, ForeignLabs <- FALSE,
    pc <- s1, job <- s2, stage <- s3, todo <- s4, at <- s5, failed <- s6,
    mem <- s7, identity <- s8, dir <- s9, disk <- s10, labs <- s11, buckets <- s12,
    owned <- s13

LEMMA LifecycleConstants == LP!LifecycleAssumption /\ LC!LifecycleAssumption
<1>1. LP!Runtimes = Plain!Runtimes /\ LC!Runtimes = Plain!Runtimes
  BY DEF LP!Runtimes, LC!Runtimes, Plain!Runtimes, LP!States, LC!States, Plain!States,
     LP!StateAfter, LC!StateAfter, Plain!StateAfter, LP!Stages, LC!Stages, Plain!Stages
<1>2. NoList \notin SUBSET LabWorkers
  BY CampaignAssumption
<1>. QED  BY <1>1, <1>2, CampaignAssumption DEF LP!LifecycleAssumption, LC!LifecycleAssumption

\* The modules of the run and of the proofs mean the same system.
LEMMA PlainInit == Plain!Init <=> LP!Init
BY DEF Plain!Init, LP!Init

LEMMA PlainNext == Plain!Next <=> LP!Next
<1>1. Plain!BuildWrites <=> LP!BuildWrites
  BY DEF Plain!BuildWrites, LP!BuildWrites, Plain!Persist, LP!Persist, Plain!loop, LP!loop
<1>2. Plain!Attach <=> LP!Attach
  BY DEF Plain!Attach, LP!Attach, Plain!loop, LP!loop, Plain!world, LP!world
<1>3. Plain!Exit <=> LP!Exit
  BY DEF Plain!Exit, LP!Exit, Plain!loop, LP!loop, Plain!world, LP!world
<1>4. Plain!Crash <=> LP!Crash
  BY DEF Plain!Crash, LP!Crash, Plain!loop, LP!loop
<1>5. Plain!MarkQuarantined <=> LP!MarkQuarantined
  BY DEF Plain!MarkQuarantined, LP!MarkQuarantined, Plain!Persist, LP!Persist, Plain!loop, LP!loop
<1>6. Plain!StartChain <=> LP!StartChain
  BY DEF Plain!StartChain, LP!StartChain, Plain!loop, LP!loop, Plain!world, LP!world
<1>7. Plain!StageRefused <=> LP!StageRefused
  BY DEF Plain!StageRefused, LP!StageRefused, Plain!Untouched, LP!Untouched, Plain!Stages, LP!Stages,
     Plain!ChainRaises, LP!ChainRaises, Plain!loop, LP!loop, Plain!Visit, LP!Visit, Plain!world,
     LP!world
<1>8. Plain!SkipStage <=> LP!SkipStage
  BY DEF Plain!SkipStage, LP!SkipStage, Plain!Admitted, LP!Admitted, Plain!Untouched, LP!Untouched,
     Plain!Stages, LP!Stages, Plain!Advance, LP!Advance, Plain!NextStage, LP!NextStage, Plain!loop,
     LP!loop, Plain!world, LP!world
<1>9. Plain!EnterStage <=> LP!EnterStage
  BY DEF Plain!EnterStage, LP!EnterStage, Plain!Admitted, LP!Admitted, Plain!Untouched, LP!Untouched,
     Plain!Stages, LP!Stages, Plain!PinBackend, LP!PinBackend, Plain!Persist, LP!Persist, Plain!loop,
     LP!loop, Plain!Visit, LP!Visit
<1>10. Plain!DeployRefused <=> LP!DeployRefused
  BY DEF Plain!DeployRefused, LP!DeployRefused, Plain!StageFails, LP!StageFails, Plain!Persist,
     LP!Persist, Plain!ChainRaises, LP!ChainRaises, Plain!loop, LP!loop, Plain!Visit, LP!Visit
<1>11. Plain!SlotsFree <=> LP!SlotsFree
  BY DEF Plain!SlotsFree, LP!SlotsFree, Plain!Visit, LP!Visit, Plain!world, LP!world
<1>12. Plain!DeployEnds <=> LP!DeployEnds
  BY DEF Plain!DeployEnds, LP!DeployEnds, Plain!StageCompletes, LP!StageCompletes, Plain!Persist,
     LP!Persist, Plain!StateAfter, LP!StateAfter, Plain!Advance, LP!Advance, Plain!NextStage,
     LP!NextStage, Plain!loop, LP!loop, Plain!StageFails, LP!StageFails, Plain!ChainRaises,
     LP!ChainRaises, Plain!Visit, LP!Visit
<1>13. Plain!BucketRefused <=> LP!BucketRefused
  BY DEF Plain!BucketRefused, LP!BucketRefused, Plain!StageFails, LP!StageFails, Plain!Persist,
     LP!Persist, Plain!ChainRaises, LP!ChainRaises, Plain!loop, LP!loop, Plain!Visit, LP!Visit
<1>14. Plain!RecordBucket <=> LP!RecordBucket
  BY DEF Plain!RecordBucket, LP!RecordBucket, Plain!loop, LP!loop
<1>15. Plain!SidecarStarts <=> LP!SidecarStarts
  BY DEF Plain!SidecarStarts, LP!SidecarStarts, Plain!world, LP!world
<1>16. Plain!SidecarFails <=> LP!SidecarFails
  BY DEF Plain!SidecarFails, LP!SidecarFails, Plain!StageFails, LP!StageFails, Plain!Persist,
     LP!Persist, Plain!ChainRaises, LP!ChainRaises, Plain!loop, LP!loop, Plain!Visit, LP!Visit
<1>17. Plain!ObserveEnds <=> LP!ObserveEnds
  BY DEF Plain!ObserveEnds, LP!ObserveEnds, Plain!StageCompletes, LP!StageCompletes, Plain!Persist,
     LP!Persist, Plain!StateAfter, LP!StateAfter, Plain!Advance, LP!Advance, Plain!NextStage,
     LP!NextStage, Plain!loop, LP!loop
<1>18. Plain!Probe <=> LP!Probe
  BY DEF Plain!Probe, LP!Probe, Plain!StageCompletes, LP!StageCompletes, Plain!Persist, LP!Persist,
     Plain!StateAfter, LP!StateAfter, Plain!Advance, LP!Advance, Plain!NextStage, LP!NextStage,
     Plain!loop, LP!loop, Plain!StageFails, LP!StageFails, Plain!ChainRaises, LP!ChainRaises,
     Plain!Visit, LP!Visit
<1>19. Plain!Teardown <=> LP!Teardown
  BY DEF Plain!Teardown, LP!Teardown, Plain!HasPhysical, LP!HasPhysical, Plain!Visit, LP!Visit,
     Plain!loop, LP!loop, Plain!world, LP!world
<1>20. Plain!DownEnds <=> LP!DownEnds
  BY DEF Plain!DownEnds, LP!DownEnds, Plain!LeaveWith, LP!LeaveWith, Plain!Leave, LP!Leave, Plain!loop,
     LP!loop, Plain!CleanupFailed, LP!CleanupFailed, Plain!Visit, LP!Visit, Plain!BucketsToDelete,
     LP!BucketsToDelete
<1>21. Plain!MarkDeleted <=> LP!MarkDeleted
  BY DEF Plain!MarkDeleted, LP!MarkDeleted, Plain!loop, LP!loop
<1>22. Plain!DeleteEnds <=> LP!DeleteEnds
  BY DEF Plain!DeleteEnds, LP!DeleteEnds, Plain!LeaveWith, LP!LeaveWith, Plain!Leave, LP!Leave,
     Plain!loop, LP!loop, Plain!CleanupFailed, LP!CleanupFailed
<1>23. Plain!DirectoryRemoved <=> LP!DirectoryRemoved
  BY DEF Plain!DirectoryRemoved, LP!DirectoryRemoved, Plain!Leave, LP!Leave, Plain!loop, LP!loop
<1>24. Plain!DirectoryRemains <=> LP!DirectoryRemains
  BY DEF Plain!DirectoryRemains, LP!DirectoryRemains, Plain!LeaveWith, LP!LeaveWith, Plain!Leave,
     LP!Leave, Plain!loop, LP!loop, Plain!CleanupFailed, LP!CleanupFailed
<1>25. \A caller \in {"provision", "staged"} : Plain!Build(caller) <=> LP!Build(caller)
  BY DEF Plain!Build, LP!Build, Plain!Fresh, LP!Fresh, Plain!Stages, LP!Stages, Plain!loop, LP!loop
<1>26. \A w \in LabWorkers : Plain!DeployWorker(w) <=> LP!DeployWorker(w)
  BY DEF Plain!DeployWorker, LP!DeployWorker
<1>27. \A w \in LabWorkers : Plain!EnsureBucket(w) <=> LP!EnsureBucket(w)
  BY DEF Plain!EnsureBucket, LP!EnsureBucket
<1>28. \A w \in LabWorkers : Plain!DownWorker(w) <=> LP!DownWorker(w)
  BY DEF Plain!DownWorker, LP!DownWorker
<1>29. \A w \in LabWorkers : Plain!DeleteBucket(w) <=> LP!DeleteBucket(w)
  BY DEF Plain!DeleteBucket, LP!DeleteBucket
<1>. QED
  BY <1>1, <1>2, <1>3, <1>4, <1>5, <1>6, <1>7, <1>8, <1>9, <1>10, <1>11, <1>12, <1>13, <1>14,
     <1>15, <1>16, <1>17, <1>18, <1>19, <1>20, <1>21, <1>22, <1>23, <1>24, <1>25, <1>26, <1>27,
     <1>28, <1>29, Zenon
     DEF Plain!Next, LP!Next

LEMMA CrashInit == Crash!Init <=> LC!Init
BY DEF Crash!Init, LC!Init

LEMMA CrashNext == Crash!Next <=> LC!Next
<1>1. Crash!BuildWrites <=> LC!BuildWrites
  BY DEF Crash!BuildWrites, LC!BuildWrites, Crash!Persist, LC!Persist, Crash!loop, LC!loop
<1>2. Crash!Attach <=> LC!Attach
  BY DEF Crash!Attach, LC!Attach, Crash!loop, LC!loop, Crash!world, LC!world
<1>3. Crash!Exit <=> LC!Exit
  BY DEF Crash!Exit, LC!Exit, Crash!loop, LC!loop, Crash!world, LC!world
<1>4. Crash!Crash <=> LC!Crash
  BY DEF Crash!Crash, LC!Crash, Crash!loop, LC!loop
<1>5. Crash!MarkQuarantined <=> LC!MarkQuarantined
  BY DEF Crash!MarkQuarantined, LC!MarkQuarantined, Crash!Persist, LC!Persist, Crash!loop, LC!loop
<1>6. Crash!StartChain <=> LC!StartChain
  BY DEF Crash!StartChain, LC!StartChain, Crash!loop, LC!loop, Crash!world, LC!world
<1>7. Crash!StageRefused <=> LC!StageRefused
  BY DEF Crash!StageRefused, LC!StageRefused, Crash!Untouched, LC!Untouched, Crash!Stages, LC!Stages,
     Crash!ChainRaises, LC!ChainRaises, Crash!loop, LC!loop, Crash!Visit, LC!Visit, Crash!world,
     LC!world
<1>8. Crash!SkipStage <=> LC!SkipStage
  BY DEF Crash!SkipStage, LC!SkipStage, Crash!Admitted, LC!Admitted, Crash!Untouched, LC!Untouched,
     Crash!Stages, LC!Stages, Crash!Advance, LC!Advance, Crash!NextStage, LC!NextStage, Crash!loop,
     LC!loop, Crash!world, LC!world
<1>9. Crash!EnterStage <=> LC!EnterStage
  BY DEF Crash!EnterStage, LC!EnterStage, Crash!Admitted, LC!Admitted, Crash!Untouched, LC!Untouched,
     Crash!Stages, LC!Stages, Crash!PinBackend, LC!PinBackend, Crash!Persist, LC!Persist, Crash!loop,
     LC!loop, Crash!Visit, LC!Visit
<1>10. Crash!DeployRefused <=> LC!DeployRefused
  BY DEF Crash!DeployRefused, LC!DeployRefused, Crash!StageFails, LC!StageFails, Crash!Persist,
     LC!Persist, Crash!ChainRaises, LC!ChainRaises, Crash!loop, LC!loop, Crash!Visit, LC!Visit
<1>11. Crash!SlotsFree <=> LC!SlotsFree
  BY DEF Crash!SlotsFree, LC!SlotsFree, Crash!Visit, LC!Visit, Crash!world, LC!world
<1>12. Crash!DeployEnds <=> LC!DeployEnds
  BY DEF Crash!DeployEnds, LC!DeployEnds, Crash!StageCompletes, LC!StageCompletes, Crash!Persist,
     LC!Persist, Crash!StateAfter, LC!StateAfter, Crash!Advance, LC!Advance, Crash!NextStage,
     LC!NextStage, Crash!loop, LC!loop, Crash!StageFails, LC!StageFails, Crash!ChainRaises,
     LC!ChainRaises, Crash!Visit, LC!Visit
<1>13. Crash!BucketRefused <=> LC!BucketRefused
  BY DEF Crash!BucketRefused, LC!BucketRefused, Crash!StageFails, LC!StageFails, Crash!Persist,
     LC!Persist, Crash!ChainRaises, LC!ChainRaises, Crash!loop, LC!loop, Crash!Visit, LC!Visit
<1>14. Crash!RecordBucket <=> LC!RecordBucket
  BY DEF Crash!RecordBucket, LC!RecordBucket, Crash!loop, LC!loop
<1>15. Crash!SidecarStarts <=> LC!SidecarStarts
  BY DEF Crash!SidecarStarts, LC!SidecarStarts, Crash!world, LC!world
<1>16. Crash!SidecarFails <=> LC!SidecarFails
  BY DEF Crash!SidecarFails, LC!SidecarFails, Crash!StageFails, LC!StageFails, Crash!Persist,
     LC!Persist, Crash!ChainRaises, LC!ChainRaises, Crash!loop, LC!loop, Crash!Visit, LC!Visit
<1>17. Crash!ObserveEnds <=> LC!ObserveEnds
  BY DEF Crash!ObserveEnds, LC!ObserveEnds, Crash!StageCompletes, LC!StageCompletes, Crash!Persist,
     LC!Persist, Crash!StateAfter, LC!StateAfter, Crash!Advance, LC!Advance, Crash!NextStage,
     LC!NextStage, Crash!loop, LC!loop
<1>18. Crash!Probe <=> LC!Probe
  BY DEF Crash!Probe, LC!Probe, Crash!StageCompletes, LC!StageCompletes, Crash!Persist, LC!Persist,
     Crash!StateAfter, LC!StateAfter, Crash!Advance, LC!Advance, Crash!NextStage, LC!NextStage,
     Crash!loop, LC!loop, Crash!StageFails, LC!StageFails, Crash!ChainRaises, LC!ChainRaises,
     Crash!Visit, LC!Visit
<1>19. Crash!Teardown <=> LC!Teardown
  BY DEF Crash!Teardown, LC!Teardown, Crash!HasPhysical, LC!HasPhysical, Crash!Visit, LC!Visit,
     Crash!loop, LC!loop, Crash!world, LC!world
<1>20. Crash!DownEnds <=> LC!DownEnds
  BY DEF Crash!DownEnds, LC!DownEnds, Crash!LeaveWith, LC!LeaveWith, Crash!Leave, LC!Leave, Crash!loop,
     LC!loop, Crash!CleanupFailed, LC!CleanupFailed, Crash!Visit, LC!Visit, Crash!BucketsToDelete,
     LC!BucketsToDelete
<1>21. Crash!MarkDeleted <=> LC!MarkDeleted
  BY DEF Crash!MarkDeleted, LC!MarkDeleted, Crash!loop, LC!loop
<1>22. Crash!DeleteEnds <=> LC!DeleteEnds
  BY DEF Crash!DeleteEnds, LC!DeleteEnds, Crash!LeaveWith, LC!LeaveWith, Crash!Leave, LC!Leave,
     Crash!loop, LC!loop, Crash!CleanupFailed, LC!CleanupFailed
<1>23. Crash!DirectoryRemoved <=> LC!DirectoryRemoved
  BY DEF Crash!DirectoryRemoved, LC!DirectoryRemoved, Crash!Leave, LC!Leave, Crash!loop, LC!loop
<1>24. Crash!DirectoryRemains <=> LC!DirectoryRemains
  BY DEF Crash!DirectoryRemains, LC!DirectoryRemains, Crash!LeaveWith, LC!LeaveWith, Crash!Leave,
     LC!Leave, Crash!loop, LC!loop, Crash!CleanupFailed, LC!CleanupFailed
<1>25. \A caller \in {"provision", "staged"} : Crash!Build(caller) <=> LC!Build(caller)
  BY DEF Crash!Build, LC!Build, Crash!Fresh, LC!Fresh, Crash!Stages, LC!Stages, Crash!loop, LC!loop
<1>26. \A w \in LabWorkers : Crash!DeployWorker(w) <=> LC!DeployWorker(w)
  BY DEF Crash!DeployWorker, LC!DeployWorker
<1>27. \A w \in LabWorkers : Crash!EnsureBucket(w) <=> LC!EnsureBucket(w)
  BY DEF Crash!EnsureBucket, LC!EnsureBucket
<1>28. \A w \in LabWorkers : Crash!DownWorker(w) <=> LC!DownWorker(w)
  BY DEF Crash!DownWorker, LC!DownWorker
<1>29. \A w \in LabWorkers : Crash!DeleteBucket(w) <=> LC!DeleteBucket(w)
  BY DEF Crash!DeleteBucket, LC!DeleteBucket
<1>. QED
  BY <1>1, <1>2, <1>3, <1>4, <1>5, <1>6, <1>7, <1>8, <1>9, <1>10, <1>11, <1>12, <1>13, <1>14,
     <1>15, <1>16, <1>17, <1>18, <1>19, <1>20, <1>21, <1>22, <1>23, <1>24, <1>25, <1>26, <1>27,
     <1>28, <1>29, Zenon
     DEF Crash!Next, LC!Next

-----------------------------------------------------------------------------
(* The sessions on a runtime (SessionDispatch, session/): their proofs are   *)
(* in SessionDispatch_proofs, here over the variables of MCCampaign.         *)

LS == INSTANCE SessionDispatch_proofs WITH
    MayRaise <- FALSE, rt <- s1, lab <- s2, sn <- s3, wk <- s4, run <- s5, cancel <- s6
LR == INSTANCE SessionDispatch_proofs WITH
    NScenarios <- RaiseScenarios, NSessions <- RaiseSessions, MayRaise <- TRUE, rt <- s1,
    lab <- s2, sn <- s3, wk <- s4, run <- s5, cancel <- s6

LEMMA SessionConstants == LS!SessionAssumption /\ LR!SessionAssumption
BY CampaignAssumption DEF LS!SessionAssumption, LR!SessionAssumption

LEMMA SessionInit == S!Init <=> LS!Init
BY DEF S!Init, LS!Init, S!NoControl, LS!NoControl, S!Workers, LS!Workers, S!Fresh, LS!Fresh,
     S!AssignScenarios, LS!AssignScenarios, S!NoCase, LS!NoCase, S!NoRun, LS!NoRun

LEMMA SessionNext == S!Next <=> LS!Next
<1>1. S!RunWithExistingRuntime <=> LS!RunWithExistingRuntime
  BY DEF S!RunWithExistingRuntime, LS!RunWithExistingRuntime, S!NoControl, LS!NoControl, S!NoRun,
     LS!NoRun, S!Workers, LS!Workers, S!Fresh, LS!Fresh, S!AssignScenarios, LS!AssignScenarios,
     S!NoCase, LS!NoCase
<1>2. S!RunWithPlatformRuntime <=> LS!RunWithPlatformRuntime
  BY DEF S!RunWithPlatformRuntime, LS!RunWithPlatformRuntime, S!NoControl, LS!NoControl, S!NoRun,
     LS!NoRun, S!Workers, LS!Workers, S!Fresh, LS!Fresh, S!AssignScenarios, LS!AssignScenarios,
     S!NoCase, LS!NoCase
<1>3. S!ProvisionRuntime <=> LS!ProvisionRuntime
  BY DEF S!ProvisionRuntime, LS!ProvisionRuntime
<1>4. S!ExecuteOnRuntimePool <=> LS!ExecuteOnRuntimePool
  BY DEF S!ExecuteOnRuntimePool, LS!ExecuteOnRuntimePool, S!Workers, LS!Workers, S!ExecutionFails,
     LS!ExecutionFails
<1>5. S!DispatchWorkers <=> LS!DispatchWorkers
  BY DEF S!DispatchWorkers, LS!DispatchWorkers, S!Workers, LS!Workers, S!ExecutionFails,
     LS!ExecutionFails, S!ToSet, LS!ToSet, S!MarkQuarantined, LS!MarkQuarantined, S!Rows, LS!Rows,
     S!FlattenSeq, LS!FlattenSeq
<1>6. S!SaveRunReport <=> LS!SaveRunReport
  BY DEF S!SaveRunReport, LS!SaveRunReport, S!ReportStatus, LS!ReportStatus, S!Workers, LS!Workers,
     S!Planned, LS!Planned, S!ExecutionFails, LS!ExecutionFails
<1>7. S!SaveRunMetadata <=> LS!SaveRunMetadata
  BY DEF S!SaveRunMetadata, LS!SaveRunMetadata, S!ExecutionFails, LS!ExecutionFails
<1>8. S!TeardownRuntime <=> LS!TeardownRuntime
  BY DEF S!TeardownRuntime, LS!TeardownRuntime
<1>9. S!FinalizeLifecycleReport <=> LS!FinalizeLifecycleReport
  BY DEF S!FinalizeLifecycleReport, LS!FinalizeLifecycleReport, S!FinalTeardown, LS!FinalTeardown
<1>10. S!Cancel <=> LS!Cancel
  BY DEF S!Cancel, LS!Cancel
<1>11. S!OwnerTeardown <=> LS!OwnerTeardown
  BY DEF S!OwnerTeardown, LS!OwnerTeardown
<1>12. S!Done <=> LS!Done
  BY DEF S!Done, LS!Done, S!vars, LS!vars
<1>13. \A w \in S!Workers : S!NextCase(w) <=> LS!NextCase(w)
  BY DEF S!NextCase, LS!NextCase, S!NoCase, LS!NoCase, S!Workers, LS!Workers
<1>14. \A w \in S!Workers : S!PrepareCase(w) <=> LS!PrepareCase(w)
  BY DEF S!PrepareCase, LS!PrepareCase, S!Workers, LS!Workers
<1>15. \A w \in S!Workers : S!DiagnosisEnds(w) <=> LS!DiagnosisEnds(w)
  BY DEF S!DiagnosisEnds, LS!DiagnosisEnds, S!Workers, LS!Workers
<1>16. \A w \in S!Workers : S!CleanupCase(w) <=> LS!CleanupCase(w)
  BY DEF S!CleanupCase, LS!CleanupCase, S!Workers, LS!Workers
<1>17. \A w \in S!Workers : S!SaveResult(w) <=> LS!SaveResult(w)
  BY DEF S!SaveResult, LS!SaveResult, S!Workers, LS!Workers
<1>18. \A w \in S!Workers : S!SummarizeCase(w) <=> LS!SummarizeCase(w)
  BY DEF S!SummarizeCase, LS!SummarizeCase, S!Status, LS!Status, S!Skipped, LS!Skipped,
     S!MarkQuarantined, LS!MarkQuarantined, S!Workers, LS!Workers
<1>19. \A w \in S!Workers : S!AgentAnswers(w) <=> LS!AgentAnswers(w)
  BY DEF S!AgentAnswers, LS!AgentAnswers, S!Workers, LS!Workers
<1>20. S!Workers = LS!Workers
  BY DEF S!Workers, LS!Workers
<1>. QED
  BY <1>1, <1>2, <1>3, <1>4, <1>5, <1>6, <1>7, <1>8, <1>9, <1>10, <1>11, <1>12, <1>13, <1>14,
     <1>15, <1>16, <1>17, <1>18, <1>19, <1>20, Zenon
     DEF S!Next, LS!Next, S!SessionStep, LS!SessionStep, S!WorkerStep, LS!WorkerStep

LEMMA RaiseInit == SR!Init <=> LR!Init
BY DEF SR!Init, LR!Init, SR!NoControl, LR!NoControl, SR!Workers, LR!Workers, SR!Fresh, LR!Fresh,
     SR!AssignScenarios, LR!AssignScenarios, SR!NoCase, LR!NoCase, SR!NoRun, LR!NoRun

LEMMA RaiseNext == SR!Next <=> LR!Next
<1>1. SR!RunWithExistingRuntime <=> LR!RunWithExistingRuntime
  BY DEF SR!RunWithExistingRuntime, LR!RunWithExistingRuntime, SR!NoControl, LR!NoControl, SR!NoRun,
     LR!NoRun, SR!Workers, LR!Workers, SR!Fresh, LR!Fresh, SR!AssignScenarios, LR!AssignScenarios,
     SR!NoCase, LR!NoCase
<1>2. SR!RunWithPlatformRuntime <=> LR!RunWithPlatformRuntime
  BY DEF SR!RunWithPlatformRuntime, LR!RunWithPlatformRuntime, SR!NoControl, LR!NoControl, SR!NoRun,
     LR!NoRun, SR!Workers, LR!Workers, SR!Fresh, LR!Fresh, SR!AssignScenarios, LR!AssignScenarios,
     SR!NoCase, LR!NoCase
<1>3. SR!ProvisionRuntime <=> LR!ProvisionRuntime
  BY DEF SR!ProvisionRuntime, LR!ProvisionRuntime
<1>4. SR!ExecuteOnRuntimePool <=> LR!ExecuteOnRuntimePool
  BY DEF SR!ExecuteOnRuntimePool, LR!ExecuteOnRuntimePool, SR!Workers, LR!Workers, SR!ExecutionFails,
     LR!ExecutionFails
<1>5. SR!DispatchWorkers <=> LR!DispatchWorkers
  BY DEF SR!DispatchWorkers, LR!DispatchWorkers, SR!Workers, LR!Workers, SR!ExecutionFails,
     LR!ExecutionFails, SR!ToSet, LR!ToSet, SR!MarkQuarantined, LR!MarkQuarantined, SR!Rows, LR!Rows,
     SR!FlattenSeq, LR!FlattenSeq
<1>6. SR!SaveRunReport <=> LR!SaveRunReport
  BY DEF SR!SaveRunReport, LR!SaveRunReport, SR!ReportStatus, LR!ReportStatus, SR!Workers, LR!Workers,
     SR!Planned, LR!Planned, SR!ExecutionFails, LR!ExecutionFails
<1>7. SR!SaveRunMetadata <=> LR!SaveRunMetadata
  BY DEF SR!SaveRunMetadata, LR!SaveRunMetadata, SR!ExecutionFails, LR!ExecutionFails
<1>8. SR!TeardownRuntime <=> LR!TeardownRuntime
  BY DEF SR!TeardownRuntime, LR!TeardownRuntime
<1>9. SR!FinalizeLifecycleReport <=> LR!FinalizeLifecycleReport
  BY DEF SR!FinalizeLifecycleReport, LR!FinalizeLifecycleReport, SR!FinalTeardown, LR!FinalTeardown
<1>10. SR!Cancel <=> LR!Cancel
  BY DEF SR!Cancel, LR!Cancel
<1>11. SR!OwnerTeardown <=> LR!OwnerTeardown
  BY DEF SR!OwnerTeardown, LR!OwnerTeardown
<1>12. SR!Done <=> LR!Done
  BY DEF SR!Done, LR!Done, SR!vars, LR!vars
<1>13. \A w \in SR!Workers : SR!NextCase(w) <=> LR!NextCase(w)
  BY DEF SR!NextCase, LR!NextCase, SR!NoCase, LR!NoCase, SR!Workers, LR!Workers
<1>14. \A w \in SR!Workers : SR!PrepareCase(w) <=> LR!PrepareCase(w)
  BY DEF SR!PrepareCase, LR!PrepareCase, SR!Workers, LR!Workers
<1>15. \A w \in SR!Workers : SR!DiagnosisEnds(w) <=> LR!DiagnosisEnds(w)
  BY DEF SR!DiagnosisEnds, LR!DiagnosisEnds, SR!Workers, LR!Workers
<1>16. \A w \in SR!Workers : SR!CleanupCase(w) <=> LR!CleanupCase(w)
  BY DEF SR!CleanupCase, LR!CleanupCase, SR!Workers, LR!Workers
<1>17. \A w \in SR!Workers : SR!SaveResult(w) <=> LR!SaveResult(w)
  BY DEF SR!SaveResult, LR!SaveResult, SR!Workers, LR!Workers
<1>18. \A w \in SR!Workers : SR!SummarizeCase(w) <=> LR!SummarizeCase(w)
  BY DEF SR!SummarizeCase, LR!SummarizeCase, SR!Status, LR!Status, SR!Skipped, LR!Skipped,
     SR!MarkQuarantined, LR!MarkQuarantined, SR!Workers, LR!Workers
<1>19. \A w \in SR!Workers : SR!AgentAnswers(w) <=> LR!AgentAnswers(w)
  BY DEF SR!AgentAnswers, LR!AgentAnswers, SR!Workers, LR!Workers
<1>20. SR!Workers = LR!Workers
  BY DEF SR!Workers, LR!Workers
<1>. QED
  BY <1>1, <1>2, <1>3, <1>4, <1>5, <1>6, <1>7, <1>8, <1>9, <1>10, <1>11, <1>12, <1>13, <1>14,
     <1>15, <1>16, <1>17, <1>18, <1>19, <1>20, Zenon
     DEF SR!Next, LR!Next, SR!SessionStep, LR!SessionStep, SR!WorkerStep, LR!WorkerStep

-----------------------------------------------------------------------------
(* The score of a case (Scoring).                                           *)

RankOf(out, truth, i) ==
    G!Rank(out, truth.locations[i], G!Applicable(truth), i = 1)

LEMMA Largest == G!Max({1}) = 1 /\ G!Max({2}) = 2 /\ G!Max({1, 2}) = 2
<1>1. G!Max({1}) = 1
  BY DEF G!Max
<1>2. G!Max({2}) = 2
  BY DEF G!Max
<1>3. G!Max({1, 2}) = 2
  BY DEF G!Max
<1>. QED  BY <1>1, <1>2, <1>3

\* The loop over the accepted locations, of which there are one or two, keeps
\* the better of them.
LEMMA OneLocation ==
    ASSUME NEW out, NEW truth, DOMAIN truth.locations = {1}
    PROVE  G!MatchLocation(out, truth) = RankOf(out, truth, 1)
<1>. DEFINE rank(i) == RankOf(out, truth, i)
            keep(best, i) == IF i > 1 /\ G!Better(rank(i), best) THEN rank(i) ELSE best
            at == [i \in {1} |-> i]
            again(g) == [t \in SUBSET {1} |->
                           IF t = {} THEN rank(1) ELSE LET x == G!Max(t) IN keep(g[t \ {x}], at[x])]
            h == [t \in SUBSET {1} |-> rank(1)]
            iter == CHOOSE g : g = again(g)
<1>1. G!MatchLocation(out, truth) = iter[{1}]
  <2>1. G!MatchLocation(out, truth) = iter[DOMAIN at]
    BY DEF G!MatchLocation, G!FoldLeftDomain, G!FoldLeft, G!MapThenFoldSet, RankOf
  <2>. QED  BY <2>1
<1>2. \A best : keep(best, 1) = best
  OBVIOUS
<1>3. h = again(h)
  <2>1. ASSUME NEW t \in SUBSET {1}
        PROVE  h[t] = IF t = {} THEN rank(1) ELSE LET x == G!Max(t) IN keep(h[t \ {x}], at[x])
    <3>1. t = {} \/ t = {1}
      OBVIOUS
    <3>2. CASE t = {1}
      BY <3>2, Largest
    <3>. QED  BY <3>1, <3>2
  <2>. QED  BY <2>1
<1>4. iter = again(iter)
  BY <1>3
<1>. HIDE DEF iter, rank
<1>5. iter[{}] = rank(1)
  BY <1>4
<1>6. iter[{1}] = keep(iter[{1} \ {1}], at[1])
  BY <1>4, Largest
<1>7. iter[{1}] = rank(1)
  BY <1>2, <1>5, <1>6
<1>. QED  BY <1>1, <1>7 DEF rank

LEMMA TwoLocations ==
    ASSUME NEW out, NEW truth, DOMAIN truth.locations = {1, 2}
    PROVE  G!MatchLocation(out, truth) =
             IF G!Better(RankOf(out, truth, 2), RankOf(out, truth, 1))
             THEN RankOf(out, truth, 2) ELSE RankOf(out, truth, 1)
<1>. DEFINE rank(i) == RankOf(out, truth, i)
            keep(best, i) == IF i > 1 /\ G!Better(rank(i), best) THEN rank(i) ELSE best
            at == [i \in {1, 2} |-> i]
            again(g) == [t \in SUBSET {1, 2} |->
                           IF t = {} THEN rank(1) ELSE LET x == G!Max(t) IN keep(g[t \ {x}], at[x])]
            h == [t \in SUBSET {1, 2} |->
                    IF t \in {{}, {1}} THEN rank(1) ELSE keep(rank(1), 2)]
            iter == CHOOSE g : g = again(g)
<1>1. G!MatchLocation(out, truth) = iter[{1, 2}]
  <2>1. G!MatchLocation(out, truth) = iter[DOMAIN at]
    BY DEF G!MatchLocation, G!FoldLeftDomain, G!FoldLeft, G!MapThenFoldSet, RankOf
  <2>. QED  BY <2>1
<1>2. \A best : keep(best, 1) = best
  OBVIOUS
<1>. HIDE DEF keep, rank
<1>3. h = again(h)
  <2>1. ASSUME NEW t \in SUBSET {1, 2}
        PROVE  h[t] = IF t = {} THEN rank(1) ELSE LET x == G!Max(t) IN keep(h[t \ {x}], at[x])
    <3>1. t = {} \/ t = {1} \/ t = {2} \/ t = {1, 2}
      OBVIOUS
    <3>2. CASE t = {1}
      BY <1>2, <3>2, Largest
    <3>3. CASE t = {2}
      BY <3>3, Largest
    <3>4. CASE t = {1, 2}
      <4>1. {1, 2} \ {2} = {1}
        OBVIOUS
      <4>. QED  BY <3>4, <4>1, Largest
    <3>. QED  BY <3>1, <3>2, <3>3, <3>4
  <2>. QED  BY <2>1
<1>4. iter = again(iter)
  BY <1>3
<1>. HIDE DEF iter
<1>5. iter[{}] = rank(1)
  BY <1>4
<1>6. iter[{1}] = rank(1)
  <2>1. iter[{1}] = keep(iter[{1} \ {1}], at[1])
    BY <1>4, Largest
  <2>. QED  BY <1>2, <1>5, <2>1
<1>7. iter[{1, 2}] = keep(rank(1), 2)
  <2>1. iter[{1, 2}] = keep(iter[{1, 2} \ {2}], at[2])
    BY <1>4, Largest
  <2>2. {1, 2} \ {2} = {1}
    OBVIOUS
  <2>. QED  BY <1>6, <2>1, <2>2
<1>. QED  BY <1>1, <1>7 DEF rank, keep

LEMMA LargestOf ==
    ASSUME NEW sums \in SUBSET Int, NEW m \in sums, \A y \in sums : m >= y
    PROVE  G!Max(sums) = m
<1>1. \A x \in sums : (\A y \in sums : x >= y) => x = m
  OBVIOUS
<1>. QED  BY <1>1 DEF G!Max

\* Where the fault of an episode may be found.
TruthOf(e) ==
    [fault |-> e.fault,
     locations |-> <<G!Location(e)>> \o
         (IF e.fault \in G!Symmetric THEN G!PeerLocations(e.device, e.interface) ELSE <<>>)]

Case(e, d, a) == [episode |-> e, diagnosis |-> d, answer |-> a]

LEMMA PeersOf ==
    ASSUME NEW e
    PROVE  LET peers == G!PeerLocations(e.device, e.interface)
           IN  peers = <<>> \/ \E l : peers = <<l>>
BY DEF G!PeerLocations

LEMMA LocationsOf ==
    ASSUME NEW e, NEW d, NEW a
    PROVE  LET at == TruthOf(e).locations
               accepted == G!Accepted(Case(e, d, a))
           IN  /\ at[1] = G!Location(e)
               /\ \/ DOMAIN at = {1} /\ accepted = {at[1]}
                  \/ DOMAIN at = {1, 2} /\ accepted = {at[1], at[2]}
<1>. DEFINE at == TruthOf(e).locations
            accepted == G!Accepted(Case(e, d, a))
            peers == G!PeerLocations(e.device, e.interface)
            l == G!Location(e)
<1>1. /\ at = <<l>> \o (IF e.fault \in G!Symmetric THEN peers ELSE <<>>)
      /\ accepted = {l} \cup (IF e.fault \in G!Symmetric THEN {peers[i] : i \in DOMAIN peers} ELSE {})
  BY DEF TruthOf, G!Accepted, Case
<1>2. peers = <<>> \/ \E k : peers = <<k>>
  BY PeersOf
<1>. HIDE DEF at, accepted, peers, l
<1>3. CASE e.fault \notin G!Symmetric \/ peers = <<>>
  <2>1. at = <<l>> \o <<>>
    BY <1>1, <1>3
  <2>2. at = <<l>>
    BY <2>1
  <2>3. accepted = {l}
    BY <1>1, <1>3
  <2>. QED  BY <2>2, <2>3 DEF at, accepted, l
<1>4. ASSUME NEW k, peers = <<k>>, e.fault \in G!Symmetric
      PROVE  at[1] = l /\ DOMAIN at = {1, 2} /\ accepted = {at[1], at[2]}
  <2>1. at = <<l>> \o <<k>>
    BY <1>1, <1>4
  <2>2. <<l>> \in Seq({l, k}) /\ <<k>> \in Seq({l, k}) /\ Len(<<l>>) = 1 /\ Len(<<k>>) = 1
    OBVIOUS
  <2>3. Len(at) = 2 /\ at[1] = l /\ at[2] = k /\ at \in Seq({l, k})
    BY <2>1, <2>2, ConcatProperties
  <2>4. DOMAIN at = {1, 2}
    BY <2>3, LenProperties
  <2>5. accepted = {l, k}
    BY <1>1, <1>4
  <2>. QED  BY <2>3, <2>4, <2>5
<1>. QED  BY <1>2, <1>3, <1>4 DEF at, accepted, l

\* What the loop settles for: a place that is accepted, and none of the
\* others would count for more.
Points(out, applicable, l) ==
    (IF G!Device(out.device) = G!Device(l.device) THEN 500 ELSE 0)
    + (IF applicable => G!Interface(out.interface) = G!Interface(l.interface) THEN 500 ELSE 0)

LEMMA RankFields ==
    ASSUME NEW out, NEW truth, NEW i
    PROVE  LET r == RankOf(out, truth, i)
               l == truth.locations[i]
           IN  /\ r.device \in BOOLEAN /\ r.interface \in BOOLEAN
               /\ r.device <=> G!Device(out.device) = G!Device(l.device)
               /\ r.interface <=> (G!Applicable(truth) => G!Interface(out.interface) = G!Interface(l.interface))
BY DEF RankOf, G!Rank

LEMMA SettledFor ==
    ASSUME NEW e, NEW d, NEW a, NEW out
    PROVE  LET truth == TruthOf(e)
               r == G!MatchLocation(out, truth)
               accepted == G!Accepted(Case(e, d, a))
               sum == (IF r.device THEN 500 ELSE 0) + (IF r.interface THEN 500 ELSE 0)
           IN  /\ \E l \in accepted :
                     /\ r.device <=> G!Device(out.device) = G!Device(l.device)
                     /\ r.interface <=> (G!Applicable(truth) => G!Interface(out.interface) = G!Interface(l.interface))
                     /\ sum = Points(out, G!Applicable(truth), l)
               /\ \A l \in accepted : sum >= Points(out, G!Applicable(truth), l)
<1>. DEFINE truth == TruthOf(e)
            r == G!MatchLocation(out, truth)
            at == truth.locations
            one == RankOf(out, truth, 1)
            two == RankOf(out, truth, 2)
            accepted == G!Accepted(Case(e, d, a))
            applicable == G!Applicable(truth)
<1>1. /\ one.device <=> G!Device(out.device) = G!Device(at[1].device)
      /\ one.interface <=> (applicable => G!Interface(out.interface) = G!Interface(at[1].interface))
      /\ two.device <=> G!Device(out.device) = G!Device(at[2].device)
      /\ two.interface <=> (applicable => G!Interface(out.interface) = G!Interface(at[2].interface))
  BY RankFields
<1>2. (DOMAIN at = {1} /\ accepted = {at[1]}) \/ (DOMAIN at = {1, 2} /\ accepted = {at[1], at[2]})
  BY LocationsOf
<1>3. DOMAIN at = {1} => r = one
  BY OneLocation
<1>4. DOMAIN at = {1, 2} => r = IF G!Better(two, one) THEN two ELSE one
  BY TwoLocations
<1>5. {one.device, one.interface, two.device, two.interface} \subseteq BOOLEAN
  BY RankFields
<1>. HIDE DEF truth, r, at, one, two, accepted, applicable
<1>6. CASE DOMAIN at = {1} /\ accepted = {at[1]}
  BY <1>1, <1>3, <1>6 DEF Points, truth, r, at, accepted, applicable
<1>7. CASE DOMAIN at = {1, 2} /\ accepted = {at[1], at[2]}
  <2>1. r = one \/ r = two
    BY <1>4, <1>7
  <2>2. /\ r = one => ~(two.device /\ ~one.device) /\ ~((two.device <=> one.device) /\ two.interface /\ ~one.interface)
        /\ r = two => ~(one.device /\ ~two.device) /\ ~((two.device <=> one.device) /\ one.interface /\ ~two.interface)
    BY <1>1, <1>4, <1>5, <1>7 DEF G!Better
  <2>. QED  BY <1>1, <1>7, <2>1, <2>2 DEF Points, truth, r, at, accepted, applicable
<1>. QED  BY <1>2, <1>6, <1>7

\* The result of a case of a fault.
LEMMA FaultScored ==
    ASSUME NEW e, e.fault # "none", NEW out, NEW a
    PROVE  LET truth == TruthOf(e)
               at == G!MatchLocation(out, truth)
               r == G!Evaluate(out, G!SessionTruth(e), a)
           IN  /\ (r.verdict <=> out.verdict = "fault_detected")
               /\ (r.device <=> at.device) /\ (r.interface <=> at.interface)
               /\ (r.type <=> G!FaultTypeMatches(out.label, e.fault, a))
               /\ (r.applicable <=> G!Applicable(truth))
               /\ r.verdict /\ r.applicable =>
                     r.score = (IF at.device THEN 500 ELSE 0) + (IF at.interface THEN 500 ELSE 0)
<1>. DEFINE truth == TruthOf(e)
            at == G!MatchLocation(out, truth)
            r == G!Evaluate(out, G!SessionTruth(e), a)
            verdict == out.verdict = "fault_detected"
<1>1. G!SessionTruth(e) = {truth}
  BY DEF G!SessionTruth, TruthOf
<1>2. (CHOOSE t \in {truth} : TRUE) = truth /\ {truth} # {}
  OBVIOUS
<1>3. truth.fault = e.fault
  BY DEF TruthOf
<1>. HIDE DEF truth
<1>4. r = [negative |-> FALSE, verdict |-> verdict, device |-> at.device, interface |-> at.interface,
           type |-> G!FaultTypeMatches(out.label, truth.fault, a),
           applicable |-> G!Applicable(truth), fault |-> truth.fault, said |-> out.verdict,
           score |-> CASE ~verdict -> 0
                       [] G!Applicable(truth) -> (IF at.device THEN 500 ELSE 0) + (IF at.interface THEN 500 ELSE 0)
                       [] OTHER -> IF at.device THEN 1000 ELSE 0]
  <2>1. r = G!Evaluate(out, {truth}, a)
    BY <1>1
  <2>. HIDE DEF r
  <2>. DEFINE result(t, m) ==
                [negative |-> FALSE, verdict |-> verdict, device |-> m.device, interface |-> m.interface,
                 type |-> G!FaultTypeMatches(out.label, t.fault, a),
                 applicable |-> G!Applicable(t), fault |-> t.fault, said |-> out.verdict,
                 score |-> CASE ~verdict -> 0
                             [] G!Applicable(t) -> (IF m.device THEN 500 ELSE 0) + (IF m.interface THEN 500 ELSE 0)
                             [] OTHER -> IF m.device THEN 1000 ELSE 0]
              pick == CHOOSE t \in {truth} : TRUE
  <2>2. r = result(pick, G!MatchLocation(out, pick))
    BY <1>2, <2>1, Zenon DEF G!Evaluate
  <2>. HIDE DEF result, pick
  <2>3. pick = truth
    BY <1>2 DEF pick
  <2>4. r = result(truth, at)
    BY <2>2, <2>3
  <2>. QED  BY <2>4, Zenon DEF result
<1>. HIDE DEF r, at
<1>5. /\ (r.verdict <=> verdict) /\ (r.device <=> at.device) /\ (r.interface <=> at.interface)
      /\ (r.type <=> G!FaultTypeMatches(out.label, truth.fault, a))
      /\ (r.applicable <=> G!Applicable(truth))
  BY <1>4
<1>6. verdict /\ G!Applicable(truth) => r.score = (IF at.device THEN 500 ELSE 0) + (IF at.interface THEN 500 ELSE 0)
  BY <1>4
<1>. QED  BY <1>3, <1>5, <1>6 DEF r, at, truth

LEMMA HealthyScored ==
    ASSUME NEW e, e.fault = "none", NEW out, NEW a
    PROVE  LET r == G!Evaluate(out, G!SessionTruth(e), a)
           IN  r.negative /\ ~r.applicable
BY DEF G!SessionTruth, G!Evaluate

\* What the run says of every case, of one case.
Earned(c, r) ==
    /\ r.applicable /\ r.device /\ r.interface =>
          \E l \in G!Accepted(c) : G!SameDevice(c, l) /\ G!SameInterface(c, l)
    /\ r.verdict /\ r.applicable =>
          r.score = G!Max({(IF G!SameDevice(c, l) THEN 500 ELSE 0) + (IF G!SameInterface(c, l) THEN 500 ELSE 0) :
                               l \in G!Accepted(c)})
    /\ ~r.negative /\ r.type =>
          \/ G!Canonical(G!Output(c.diagnosis).label) = c.episode.fault
          \/ s1 /\ c.answer # G!Error /\ c.answer.agent = c.episode.fault

LEMMA CaseEarned ==
    ASSUME NEW e \in ScoredEpisodes, NEW d, NEW a
    PROVE  Earned(Case(e, d, a), G!Evaluate(G!Output(d), G!SessionTruth(e), a))
<1>. DEFINE c == Case(e, d, a)
            out == G!Output(d)
            r == G!Evaluate(out, G!SessionTruth(e), a)
            truth == TruthOf(e)
            at == G!MatchLocation(out, truth)
            sum == (IF at.device THEN 500 ELSE 0) + (IF at.interface THEN 500 ELSE 0)
            accepted == G!Accepted(c)
            applicable == G!Applicable(truth)
<1>0. c.episode = e /\ c.diagnosis = d /\ c.answer = a
  BY DEF Case
<1>1. CASE e.fault = "none"
  <2>1. r.negative /\ ~r.applicable
    BY <1>1, HealthyScored
  <2>. QED  BY <2>1 DEF Earned
<1>2. CASE e.fault # "none"
  <2>1. /\ (r.verdict <=> out.verdict = "fault_detected")
        /\ (r.device <=> at.device) /\ (r.interface <=> at.interface)
        /\ (r.type <=> G!FaultTypeMatches(out.label, e.fault, a))
        /\ (r.applicable <=> applicable)
        /\ r.verdict /\ r.applicable => r.score = sum
    BY <1>2, FaultScored
  <2>2. PICK best \in accepted :
          /\ at.device <=> G!Device(out.device) = G!Device(best.device)
          /\ at.interface <=> (applicable => G!Interface(out.interface) = G!Interface(best.interface))
          /\ sum = Points(out, applicable, best)
    BY SettledFor
  <2>3. \A l \in accepted : sum >= Points(out, applicable, l)
    BY SettledFor
  <2>4. \A l : /\ G!SameDevice(c, l) <=> G!Device(out.device) = G!Device(l.device)
               /\ G!SameInterface(c, l) <=> G!Interface(out.interface) = G!Interface(l.interface)
    BY DEF G!SameDevice, G!SameInterface, Case
  <2>5. sum \in Int /\ \A l : Points(out, applicable, l) \in Int
    BY DEF Points
  <2>6. G!FaultTypeMatches(out.label, e.fault, a) =>
           G!Canonical(out.label) = e.fault \/ (s1 /\ a # G!Error /\ a.agent = e.fault)
    BY CampaignAssumption DEF G!FaultTypeMatches, G!Canonical
  <2>. HIDE DEF c, out, r, truth, at, sum, accepted, applicable
  <2>7. r.applicable /\ r.device /\ r.interface => G!SameDevice(c, best) /\ G!SameInterface(c, best)
    BY <2>1, <2>2, <2>4
  <2>8. ASSUME r.verdict, r.applicable
        PROVE  r.score = G!Max({(IF G!SameDevice(c, l) THEN 500 ELSE 0)
                                + (IF G!SameInterface(c, l) THEN 500 ELSE 0) : l \in accepted})
    <3>. DEFINE sums == {(IF G!SameDevice(c, l) THEN 500 ELSE 0)
                          + (IF G!SameInterface(c, l) THEN 500 ELSE 0) : l \in accepted}
    <3>1. \A l : Points(out, applicable, l) = (IF G!SameDevice(c, l) THEN 500 ELSE 0)
                                              + (IF G!SameInterface(c, l) THEN 500 ELSE 0)
      BY <2>1, <2>4, <2>8 DEF Points
    <3>2. sums = {Points(out, applicable, l) : l \in accepted}
      BY <3>1
    <3>. HIDE DEF sums
    <3>3. sums \in SUBSET Int /\ sum \in sums /\ \A y \in sums : sum >= y
      BY <2>2, <2>3, <2>5, <3>2
    <3>4. G!Max(sums) = sum
      BY <3>3, LargestOf
    <3>. QED  BY <2>1, <2>8, <3>4 DEF sums
  <2>9. ~r.negative /\ r.type =>
           \/ G!Canonical(G!Output(c.diagnosis).label) = c.episode.fault
           \/ s1 /\ c.answer # G!Error /\ c.answer.agent = c.episode.fault
    BY <1>0, <2>1, <2>6 DEF out
  <2>10. Earned(c, r)
    BY <2>2, <2>7, <2>8, <2>9 DEF Earned, accepted
  <2>. QED  BY <2>10 DEF c, r, out
<1>. QED  BY <1>1, <1>2

\* The session's result of a case, which depends on whether there is a judge.
Mark(c) == G!Evaluate(G!Output(c.diagnosis), G!SessionTruth(c.episode), c.answer)

GivenCases ==
    [episode : ScoredEpisodes, diagnosis : ScoredDiagnoses, answer : JudgeAnswers \cup {G!Error}]

\* Every case that was given has its own result, in order.
Scored ==
    /\ s2 \in Seq(GivenCases) /\ s3 \in Seq({Mark(c) : c \in GivenCases}) /\ Len(s3) = Len(s2)
    /\ \A i \in 1 .. Len(s2) : s3[i] = Mark(s2[i])

LEMMA ScoreInit == G!Init => Scored
BY DEF G!Init, Scored

LEMMA MarksStay == s1' = s1 => \A c : Mark(c)' = Mark(c)
BY DEF Mark, G!Evaluate, G!FaultTypeMatches

LEMMA ScoreStep ==
    ASSUME Scored, G!Next
    PROVE  Scored'
<1>1. s1' = s1
  BY DEF G!Next, G!Score, G!Report, G!Finished, G!vars
<1>2. \A c : Mark(c)' = Mark(c)
  BY <1>1, MarksStay
<1>3. CASE UNCHANGED <<s2, s3>>
  BY <1>2, <1>3 DEF Scored
<1>4. ASSUME NEW e \in ScoredEpisodes, NEW d \in ScoredDiagnoses, NEW a \in JudgeAnswers \cup {G!Error},
             G!Score(e, d, a)
      PROVE  Scored'
  <2>. DEFINE c == Case(e, d, a)
  <2>1. s2' = Append(s2, c) /\ s3' = Append(s3, Mark(c))
    BY <1>4 DEF G!Score, Mark, Case
  <2>2. c \in GivenCases
    BY DEF GivenCases, Case
  <2>. HIDE DEF c
  <2>3. /\ s2 \in Seq(GivenCases) /\ s3 \in Seq({Mark(k) : k \in GivenCases}) /\ Len(s3) = Len(s2)
        /\ \A i \in 1 .. Len(s2) : s3[i] = Mark(s2[i])
    BY DEF Scored
  <2>4. Mark(c) \in {Mark(k) : k \in GivenCases}
    BY <2>2
  <2>5. /\ s2' \in Seq(GivenCases) /\ Len(s2') = Len(s2) + 1 /\ s2'[Len(s2) + 1] = c
        /\ \A i \in 1 .. Len(s2) : s2'[i] = s2[i]
    BY <2>1, <2>2, <2>3, AppendProperties
  <2>6. /\ s3' \in Seq({Mark(k) : k \in GivenCases}) /\ Len(s3') = Len(s2) + 1 /\ s3'[Len(s2) + 1] = Mark(c)
        /\ \A i \in 1 .. Len(s2) : s3'[i] = s3[i]
    BY <2>1, <2>3, <2>4, AppendProperties
  <2>7. \A i \in 1 .. Len(s2') : s3'[i] = Mark(s2'[i])
    <3>1. 1 .. Len(s2') = 1 .. Len(s2) \cup {Len(s2) + 1}
      BY <2>3, <2>5, LenProperties
    <3>. QED  BY <2>3, <2>5, <2>6, <3>1
  <2>8. {Mark(k) : k \in GivenCases}' = {Mark(k) : k \in GivenCases}
    BY <1>2
  <2>9. \A i \in 1 .. Len(s2') : s3'[i] = (Mark(s2[i]))'
    BY <1>2, <2>7
  <2>. QED  BY <2>5, <2>6, <2>8, <2>9 DEF Scored
<1>5. UNCHANGED <<s2, s3>> \/ \E e \in ScoredEpisodes, d \in ScoredDiagnoses, a \in JudgeAnswers \cup {G!Error} :
        G!Score(e, d, a)
  BY DEF G!Next, G!Report, G!Finished, G!vars
<1>. QED  BY <1>3, <1>4, <1>5

LEMMA ScoreMeans ==
    ASSUME Scored
    PROVE  G!CorrectIsOnePlace /\ G!ScoredByBestLocation /\ G!JudgeCannotInvent
<1>1. ASSUME NEW i \in DOMAIN s3  PROVE Earned(s2[i], s3[i])
  <2>1. i \in 1 .. Len(s2) /\ s2[i] \in GivenCases
    BY <1>1, LenProperties, ElementOfSeq DEF Scored
  <2>2. s3[i] = Mark(s2[i])
    BY <2>1 DEF Scored
  <2>. DEFINE c == s2[i]
  <2>3. c.episode \in ScoredEpisodes /\ c = Case(c.episode, c.diagnosis, c.answer)
    BY <2>1 DEF GivenCases, Case
  <2>. HIDE DEF c
  <2>4. Earned(Case(c.episode, c.diagnosis, c.answer), Mark(c))
    BY <2>3, CaseEarned DEF Mark
  <2>. QED  BY <2>2, <2>3, <2>4 DEF c
<1>2. G!CorrectIsOnePlace
  BY <1>1 DEF Earned, G!CorrectIsOnePlace
<1>3. G!ScoredByBestLocation
  BY <1>1 DEF Earned, G!ScoredByBestLocation
<1>4. G!JudgeCannotInvent
  BY <1>1 DEF Earned, G!JudgeCannotInvent
<1>. QED  BY <1>2, <1>3, <1>4

-----------------------------------------------------------------------------
(* The theorems.                                                             *)

\* The invariant of the behaviour's component: what holds of it whatever goes
\* wrong, and what holds because in this part nobody dies or nothing raises.
CampaignInv ==
    /\ part = "plain" => LP!IInv /\ LP!OInv /\ LP!LInv /\ LP!BucketInv
    /\ part = "crash" => LC!IInv /\ LC!OInv
    /\ part = "session" => LS!IInv /\ LS!LabInv /\ LS!CaseInv /\ LS!RunInv /\ LS!RowsInv
    /\ part = "raise" => LR!IInv /\ LR!CaseInv /\ LR!RunInv /\ LR!RowsInv
    /\ part = "acceptance" => Accept
    /\ part = "score" => Scored

LEMMA CampaignInit ==
    ASSUME Init
    PROVE  CampaignInv
<1>1. part = "plain" => Plain!Init
  BY DEF Init
<1>2. part = "crash" => Crash!Init
  BY DEF Init
<1>3. part = "session" => S!Init
  BY DEF Init
<1>4. part = "raise" => SR!Init
  BY DEF Init
<1>5. part = "acceptance" => A!Init
  BY DEF Init
<1>6. part = "plain" => LP!IInv /\ LP!OInv /\ LP!LInv /\ LP!BucketInv
  BY <1>1, PlainInit, LP!InitInv, LifecycleConstants
<1>7. part = "crash" => LC!IInv /\ LC!OInv
  BY <1>2, CrashInit, LC!InitInv, LifecycleConstants
<1>8. part = "session" => LS!IInv /\ LS!LabInv /\ LS!CaseInv /\ LS!RunInv /\ LS!RowsInv
  BY <1>3, SessionInit, LS!InitInv, SessionConstants
<1>9. part = "raise" => LR!IInv /\ LR!CaseInv /\ LR!RunInv /\ LR!RowsInv
  BY <1>4, RaiseInit, LR!InitInv, SessionConstants
<1>10. part = "acceptance" => Accept
  BY <1>5, AcceptInit
<1>11. part = "score" => G!Init
  BY DEF Init
<1>12. part = "score" => Scored
  BY <1>11, ScoreInit
<1>. QED  BY <1>6, <1>7, <1>8, <1>9, <1>10, <1>12 DEF CampaignInv

\* A step of a behaviour is a step of its component.
LEMMA PartSteps ==
    ASSUME Next
    PROVE  /\ part' = part
           /\ part = "plain" => LP!Next
           /\ part = "crash" => LC!Next
           /\ part = "session" => LS!Next
           /\ part = "raise" => LR!Next
           /\ part = "acceptance" => A!Next
           /\ part = "score" => G!Next
<1>. USE DEF Next, PlainWorks, CrashWorks, SessionWorks, RaiseWorks, AcceptanceWorks, ScoreWorks, ReportWorks
<1>1. part' = part
  OBVIOUS
<1>2. part = "plain" => Plain!Next
  OBVIOUS
<1>3. part = "crash" => Crash!Next
  OBVIOUS
<1>4. part = "session" => S!Next
  OBVIOUS
<1>5. part = "raise" => SR!Next
  OBVIOUS
<1>6. part = "acceptance" => A!Next
  OBVIOUS
<1>7. part = "score" => G!Next
  OBVIOUS
<1>. QED  BY <1>1, <1>2, <1>3, <1>4, <1>5, <1>6, <1>7, PlainNext, CrashNext, SessionNext, RaiseNext

LEMMA CampaignStep ==
    ASSUME CampaignInv, Next
    PROVE  CampaignInv'
<1>1. part' = part
  BY PartSteps
<1>2. part = "plain" => LP!IInv' /\ LP!OInv' /\ LP!LInv' /\ LP!BucketInv'
  BY PartSteps, LP!NextInv, LifecycleConstants DEF CampaignInv
<1>3. part = "crash" => LC!IInv' /\ LC!OInv'
  BY PartSteps, LC!NextInv, LifecycleConstants DEF CampaignInv
<1>4. part = "session" => LS!IInv' /\ LS!LabInv' /\ LS!CaseInv' /\ LS!RunInv' /\ LS!RowsInv'
  BY PartSteps, LS!NextInv, SessionConstants DEF CampaignInv
<1>5. part = "raise" => LR!IInv' /\ LR!CaseInv' /\ LR!RunInv' /\ LR!RowsInv'
  BY PartSteps, LR!NextInv, SessionConstants DEF CampaignInv
<1>6. part = "acceptance" => Accept'
  BY PartSteps, AcceptStep DEF CampaignInv
<1>7. part = "score" => Scored'
  BY PartSteps, ScoreStep DEF CampaignInv
<1>. QED  BY <1>1, <1>2, <1>3, <1>4, <1>5, <1>6, <1>7 DEF CampaignInv

LEMMA CampaignStutter ==
    ASSUME CampaignInv, UNCHANGED vars
    PROVE  CampaignInv'
<1>1. /\ part' = part /\ UNCHANGED LP!vars /\ UNCHANGED LC!vars /\ UNCHANGED LS!vars /\ UNCHANGED LR!vars
      /\ UNCHANGED <<s1, s2, s3, s4, s5, s6>>
  BY DEF vars, LP!vars, LC!vars, LS!vars, LR!vars
<1>2. part = "plain" => LP!IInv' /\ LP!OInv' /\ LP!LInv' /\ LP!BucketInv'
  BY <1>1, LP!StutterInv DEF CampaignInv
<1>3. part = "crash" => LC!IInv' /\ LC!OInv'
  BY <1>1, LC!StutterInv DEF CampaignInv
<1>4. part = "session" => LS!IInv' /\ LS!LabInv' /\ LS!CaseInv' /\ LS!RunInv' /\ LS!RowsInv'
  BY <1>1, LS!StutterInv DEF CampaignInv
<1>5. part = "raise" => LR!IInv' /\ LR!CaseInv' /\ LR!RunInv' /\ LR!RowsInv'
  BY <1>1, LR!StutterInv DEF CampaignInv
<1>6. part = "acceptance" => Accept'
  BY <1>1, AcceptStutters DEF CampaignInv
<1>7. Scored => Scored'
  <2>1. \A c : Mark(c)' = Mark(c)
    BY <1>1, MarksStay
  <2>. QED  BY <1>1, <2>1 DEF Scored
<1>. QED  BY <1>1, <1>2, <1>3, <1>4, <1>5, <1>6, <1>7 DEF CampaignInv

\* Whatever dies, is retried or resumed, the invariant of the component holds.
THEOREM CampaignInvariant == Spec => []CampaignInv
<1>1. Init => CampaignInv
  BY CampaignInit
<1>2. CampaignInv /\ [Next]_vars => CampaignInv'
  BY CampaignStep, CampaignStutter
<1>. QED  BY <1>1, <1>2, PTL DEF Spec

\* What the proofs of the components say of the modules of the run.
LEMMA LifecycleMeans ==
    ASSUME CampaignInv
    PROVE  /\ part = "plain" => /\ Plain!TypeOK /\ Plain!TeardownIsExact /\ Plain!FreshTelemetry
                                /\ Plain!LabsOnRecord /\ Plain!RetryCoversOwned
           /\ part = "crash" => /\ Crash!TypeOK /\ Crash!OwnedOnRecord /\ Crash!RetryCoversOwned
                                /\ Crash!OneBackend
<1>1. part = "plain" => LP!TypeOK /\ LP!TeardownIsExact /\ LP!FreshTelemetry /\ LP!LabsOnRecord /\ LP!RetryCoversOwned
  BY LP!InvImplies DEF CampaignInv
<1>2. part = "crash" => LC!TypeOK /\ LC!OwnedOnRecord /\ LC!RetryCoversOwned /\ LC!OneBackend
  BY LC!InvImplies DEF CampaignInv
<1>3. LP!TypeOK <=> Plain!TypeOK
  BY DEF LP!TypeOK, Plain!TypeOK, LP!Runtimes, Plain!Runtimes, LP!States, Plain!States,
     LP!StateAfter, Plain!StateAfter, LP!Stages, Plain!Stages, LP!Pcs, Plain!Pcs
<1>4. LC!TypeOK <=> Crash!TypeOK
  BY DEF LC!TypeOK, Crash!TypeOK, LC!Runtimes, Crash!Runtimes, LC!States, Crash!States,
     LC!StateAfter, Crash!StateAfter, LC!Stages, Crash!Stages, LC!Pcs, Crash!Pcs
<1>5. /\ LP!TeardownIsExact <=> Plain!TeardownIsExact
      /\ LP!FreshTelemetry <=> Plain!FreshTelemetry
      /\ LP!LabsOnRecord <=> Plain!LabsOnRecord
      /\ LP!RetryCoversOwned <=> Plain!RetryCoversOwned
  BY DEF LP!TeardownIsExact, Plain!TeardownIsExact, LP!FreshTelemetry, Plain!FreshTelemetry,
     LP!LabsOnRecord, Plain!LabsOnRecord, LP!RetryCoversOwned, Plain!RetryCoversOwned,
     LP!HasPhysical, Plain!HasPhysical
<1>6. /\ LC!OwnedOnRecord <=> Crash!OwnedOnRecord
      /\ LC!RetryCoversOwned <=> Crash!RetryCoversOwned
      /\ LC!OneBackend <=> Crash!OneBackend
  BY DEF LC!OwnedOnRecord, Crash!OwnedOnRecord, LC!RetryCoversOwned, Crash!RetryCoversOwned,
     LC!OneBackend, Crash!OneBackend, LC!HasPhysical, Crash!HasPhysical
<1>. QED  BY <1>1, <1>2, <1>3, <1>4, <1>5, <1>6

LEMMA SessionMeans ==
    ASSUME CampaignInv
    PROVE  /\ part = "session" => S!TypeOK /\ S!NoCaseOnDirtyLab /\ S!ReportCoversTheSession
           /\ part = "raise" => SR!FailedCleanupIsQuarantined /\ SR!RunIsAccountedFor
<1>1. part = "session" => LS!TypeOK /\ LS!NoCaseOnDirtyLab /\ LS!ReportCoversTheSession
  BY LS!InvImplies, SessionConstants DEF CampaignInv
<1>2. part = "raise" => LR!FailedCleanupIsQuarantined /\ LR!RunIsAccountedFor
  BY LR!InvImplies, SessionConstants DEF CampaignInv
<1>3. LS!TypeOK <=> S!TypeOK
  BY DEF LS!TypeOK, S!TypeOK, LS!Workers, S!Workers
<1>4. /\ LS!NoCaseOnDirtyLab <=> S!NoCaseOnDirtyLab
      /\ LS!ReportCoversTheSession <=> S!ReportCoversTheSession
  BY DEF LS!NoCaseOnDirtyLab, S!NoCaseOnDirtyLab, LS!ReportCoversTheSession, S!ReportCoversTheSession,
     LS!Workers, S!Workers, LS!ToSet, S!ToSet, LS!Scenarios, S!Scenarios
<1>5. /\ LR!FailedCleanupIsQuarantined <=> SR!FailedCleanupIsQuarantined
      /\ LR!RunIsAccountedFor <=> SR!RunIsAccountedFor
  BY DEF LR!FailedCleanupIsQuarantined, SR!FailedCleanupIsQuarantined, LR!RunIsAccountedFor,
     SR!RunIsAccountedFor, LR!Workers, SR!Workers, LR!ToSet, SR!ToSet
<1>. QED  BY <1>1, <1>2, <1>3, <1>4, <1>5

LEMMA AcceptMeans ==
    ASSUME Accept
    PROVE  /\ A!TypeOK /\ A!EmergencyFrees /\ A!LabIsOnRecord /\ A!RecordedOnce /\ A!PassedIsComplete
<1>1. A!TypeOK
  BY DEF Accept, AcceptTypes, A!TypeOK, Files, Entries, EntryStatuses, Labs, Processes
<1>2. A!EmergencyFrees
  BY DEF Accept, AcceptFrees, AcceptTypes, A!EmergencyFrees, A!At, A!InPlace
<1>3. A!LabIsOnRecord
  BY DEF Accept, AcceptRecord, A!LabIsOnRecord
<1>4. A!RecordedOnce
  BY DEF Accept, AcceptOnce, A!RecordedOnce
<1>5. A!PassedIsComplete
  BY DEF Accept, AcceptPassed, Sealed, Complete, A!PassedIsComplete
<1>. QED  BY <1>1, <1>2, <1>3, <1>4, <1>5

\* Every variable holds a value the code can put there.
THEOREM CampaignTypes == Spec => []TypeOK
<1>1. CampaignInv => TypeOK
  BY LifecycleMeans, SessionMeans, AcceptMeans DEF CampaignInv, TypeOK
<1>. QED  BY <1>1, CampaignInvariant, PTL

\* A teardown that reports success has removed every lab and every bucket of
\* the runtime, a warm runtime reads no bucket of an earlier one
\* (RuntimePool.teardown), and after a resource emergency no acceptance process
\* ends with the lab it had attached or deployed in place unless the teardown
\* failed (release_runtime).
THEOREM TeardownsAreComplete == Spec => []TeardownIsComplete
<1>1. CampaignInv => TeardownIsComplete
  BY LifecycleMeans, AcceptMeans DEF CampaignInv, TeardownIsComplete
<1>. QED  BY <1>1, CampaignInvariant, PTL

\* Between calls a lab, and a bucket of the ownership manifest, belongs to a
\* runtime whose teardown() will remove it, a retry misses no bucket, no stage
\* works on the lab of another backend, and a lab of a campaign is named in
\* acceptance.json whenever a process dies.
THEOREM AllIsOnRecord == Spec => []NothingOffTheRecord
<1>1. CampaignInv => NothingOffTheRecord
  BY LifecycleMeans, AcceptMeans DEF CampaignInv, NothingOffTheRecord
<1>. QED  BY <1>1, CampaignInvariant, PTL

\* No case starts on a lab that holds an earlier fault, and a worker whose
\* cleanup failed stays quarantined (mark_quarantined, execute_on_runtime_pool).
THEOREM LabsAreCleanPerCase == Spec => []CleanLabPerCase
<1>1. CampaignInv => CleanLabPerCase
  BY SessionMeans DEF CleanLabPerCase
<1>. QED  BY <1>1, CampaignInvariant, PTL

\* Reports have one summary for each scenario and say "completed" only when it
\* was earned (_run_worker), and a campaign, over all its processes, completes
\* no case twice and passes no scale before every case of it is on record
\* (run_cases, completed_case_ids).
THEOREM CasesAreAccountedFor == Spec => []EveryCaseIsAccountedFor
<1>1. CampaignInv => EveryCaseIsAccountedFor
  BY SessionMeans, AcceptMeans DEF CampaignInv, EveryCaseIsAccountedFor
<1>. QED  BY <1>1, CampaignInvariant, PTL

\* A case counted correct names one accepted place, not the device of one end
\* of a link with the interface of the other; no accepted place would score it
\* higher than the one the loop settles for; and whatever a judge answers, a
\* fault type is correct only if the label or its reading is the injected type
\* (_match_location, judge_fault_type_match), for every topology, set of
\* episodes, diagnoses and answers.
THEOREM CasesAreScoredFairly == Spec => []ScoreIsEarned
<1>1. CampaignInv => ScoreIsEarned
  BY ScoreMeans DEF CampaignInv, ScoreIsEarned
<1>. QED  BY <1>1, CampaignInvariant, PTL

\* No step adopts or deletes a bucket that was there before, and outside an
\* emergency or an explicit rebuild none tears down a lab whose cases are not
\* complete on record (release_runtime).
THEOREM TheOthersAreSpared == Spec => OthersAreSpared
<1>1. LP!UserBucketsKeptStep <=> Plain!UserBucketsKeptStep
  BY DEF LP!UserBucketsKeptStep, Plain!UserBucketsKeptStep
<1>2. LC!UserBucketsKeptStep <=> Crash!UserBucketsKeptStep
  BY DEF LC!UserBucketsKeptStep, Crash!UserBucketsKeptStep
<1>3. ASSUME CampaignInv, Next
      PROVE  /\ part = "plain" => Plain!UserBucketsKeptStep
             /\ part = "crash" => Crash!UserBucketsKeptStep
             /\ part = "acceptance" => A!OnlyFinishedReleasedStep
  <2>1. part = "plain" => LP!UserBucketsKeptStep
    BY <1>3, PartSteps, LP!NextInv, LifecycleConstants DEF CampaignInv
  <2>2. part = "crash" => LC!UserBucketsKeptStep
    BY <1>3, PartSteps, LC!NextInv, LifecycleConstants DEF CampaignInv
  <2>3. part = "acceptance" => A!OnlyFinishedReleasedStep
    BY <1>3, PartSteps, AcceptSpares DEF CampaignInv
  <2>. QED  BY <1>1, <1>2, <2>1, <2>2, <2>3
<1>4. CampaignInv /\ [Next]_vars =>
        [/\ part = "plain" => Plain!UserBucketsKeptStep
         /\ part = "crash" => Crash!UserBucketsKeptStep
         /\ part = "acceptance" => A!OnlyFinishedReleasedStep]_vars
  BY <1>3
<1>. QED  BY <1>4, CampaignInvariant, PTL DEF Spec, OthersAreSpared

=============================================================================

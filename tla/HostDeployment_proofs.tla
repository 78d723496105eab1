------------------------ MODULE HostDeployment_proofs ------------------------
(***************************************************************************)
(* Proofs about HostDeployment, for any processes, labs, scales and number *)
(* of deploy threads.                                                      *)
(***************************************************************************)
EXTENDS Integers, HostDeployment, FiniteSetTheorems, NaturalsInduction, WellFoundedInduction, TLAPS

-----------------------------------------------------------------------------
(* allocate_management_subnets                                             *)

\* One turn of the loop: what is selected after the candidate o.
Turn(p, chosen, o) ==
    LET s == Span(o, Stride[p])
    IN  IF s \cap (Used \cup UNION ToSet(chosen)) = {} THEN Append(chosen, s) ELSE chosen

\* f says what the loop selects of every set of candidates.
Turns(p, f, n) ==
    f = [s \in SUBSET (1..n) |->
            IF s = {} THEN <<>> ELSE Turn(p, f[s \ {Max(s)}], Candidates(p)[Max(s)])]

LEMMA SelectedIsTurns ==
    ASSUME NEW p, NEW n, DOMAIN Candidates(p) = 1..n
    PROVE  Selected(p) = (CHOOSE f : Turns(p, f, n))[1..n]
BY Zenon DEF Selected, FoldLeft, MapThenFoldSet, Turns, Turn

LEMMA LeastOf ==
    ASSUME NEW failing \in SUBSET Nat, failing # {}
    PROVE  \E n \in failing : \A m \in failing : ~(m < n)
<1>1. PICK n \in failing : \A m \in failing : ~(<<m, n>> \in OpToRel(<, Nat))
  BY NatLessThanWellFounded, WFMin
<1>2. \A ss \in Nat \X Nat : ss[1] < ss[2] => ss \in OpToRel(<, Nat)
  BY DEF OpToRel
<1>. QED  BY <1>1, <1>2

\* The last candidate of a set is in it, and none is after it.
LEMMA LastOf ==
    ASSUME NEW n \in Nat, NEW s \in SUBSET (1..n), s # {}
    PROVE  Max(s) \in s /\ \A x \in s : x <= Max(s)
<1>. DEFINE above == {m \in Nat : \A x \in s : x <= m}
<1>1. n \in above
  OBVIOUS
<1>2. PICK m \in above : \A k \in above : ~(k < m)
  BY <1>1, LeastOf
<1>3. m \in s
  <2>1. SUFFICES ASSUME m \notin s  PROVE FALSE
    OBVIOUS
  <2>2. m - 1 \in above
    <3>1. PICK x \in s : TRUE
      OBVIOUS
    <3>2. m \in Nat /\ x <= m /\ x \in Nat /\ x # m /\ x >= 1
      BY <1>2, <2>1, <3>1
    <3>3. \A y \in s : y \in Nat /\ y <= m /\ y # m
      BY <1>2, <2>1
    <3>. QED  BY <3>2, <3>3
  <2>3. m \in Nat /\ m - 1 < m
    BY <1>2
  <2>. QED  BY <1>2, <2>2, <2>3
<1>4. \A x \in s : m >= x
  BY <1>2
<1>5. \E x \in s : \A y \in s : x >= y
  BY <1>3, <1>4
<1>6. Max(s) \in s /\ \A y \in s : Max(s) >= y
  BY <1>5 DEF Max
<1>. QED  BY <1>6

LEMMA WithoutLast ==
    ASSUME NEW n \in Nat, NEW s \in SUBSET (1..n), Max(s) \in s, \A x \in s : x <= Max(s)
    PROVE  s \ {Max(s)} \in SUBSET (1..(n - 1)) /\ s \ {Max(s)} \in SUBSET (1..n) /\ Max(s) \in 1..n
<1>. DEFINE last == Max(s)
<1>1. last \in 1..n /\ \A x \in s : x \in 1..n /\ x <= last
  OBVIOUS
<1>. HIDE DEF last
<1>2. \A x \in s \ {last} : x \in 1..(n - 1)
  BY <1>1
<1>. QED  BY <1>1, <1>2 DEF last

\* The function of the loop exists, because a set without its last candidate
\* is a set of fewer candidates.
LEMMA CanTurn ==
    ASSUME NEW p, NEW n \in Nat
    PROVE  \E f : Turns(p, f, n)
<1>. DEFINE failing == {k \in Nat : ~ \E f : Turns(p, f, k)}
<1>1. SUFFICES ASSUME failing # {} PROVE FALSE
  OBVIOUS
<1>2. PICK k \in failing : \A m \in failing : ~(m < k)
  BY <1>1, LeastOf
<1>3. CASE k = 0
  <2>. DEFINE f == [s \in SUBSET (1..0) |-> <<>>]
  <2>1. 1..0 = {}
    OBVIOUS
  <2>2. \A s \in SUBSET (1..0) : s = {}
    BY <2>1
  <2>3. f = [s \in SUBSET (1..0) |-> IF s = {} THEN <<>> ELSE Turn(p, f[s \ {Max(s)}], Candidates(p)[Max(s)])]
    BY <2>2, Zenon
  <2>. QED  BY <1>2, <1>3, <2>3 DEF Turns
<1>4. CASE k # 0
  <2>1. k - 1 \in Nat /\ k \in Nat /\ k > 0 /\ k - 1 < k
    BY <1>2, <1>4
  <2>2. PICK f : Turns(p, f, k - 1)
    BY <1>2, <2>1
  <2>. DEFINE less(s) == s \ {Max(s)}
              g == [s \in SUBSET (1..k) |-> IF s = {} THEN <<>> ELSE Turn(p, f[less(s)], Candidates(p)[Max(s)])]
  <2>3. ASSUME NEW s \in SUBSET (1..k), s # {}
        PROVE  f[less(s)] = g[less(s)]
    <3>1. Max(s) \in s /\ \A x \in s : x <= Max(s)
      BY <2>1, <2>3, LastOf
    <3>2. less(s) \in SUBSET (1..(k - 1)) /\ less(s) \in SUBSET (1..k)
      BY <2>1, <2>3, <3>1, WithoutLast
    <3>. DEFINE t == less(s)
    <3>3. t \in SUBSET (1..(k - 1)) /\ t \in SUBSET (1..k)
      BY <3>2
    <3>. HIDE DEF t
    <3>4. f[t] = IF t = {} THEN <<>> ELSE Turn(p, f[less(t)], Candidates(p)[Max(t)])
      BY <2>2, <3>3, Zenon DEF Turns
    <3>5. g[t] = IF t = {} THEN <<>> ELSE Turn(p, f[less(t)], Candidates(p)[Max(t)])
      BY <3>3, Zenon
    <3>. QED  BY <3>4, <3>5 DEF t
  <2>4. g = [s \in SUBSET (1..k) |-> IF s = {} THEN <<>> ELSE Turn(p, g[less(s)], Candidates(p)[Max(s)])]
    <3>. HIDE DEF less
    <3>. QED  BY <2>3, Zenon
  <2>5. Turns(p, g, k)
    BY <2>4 DEF Turns
  <2>. QED  BY <1>2, <2>5
<1>. QED  BY <1>3, <1>4

\* What a sequence of selected subnets is: each free, and no two that overlap.
Apart(chosen) ==
    /\ chosen \in Seq(SUBSET Nat)
    /\ \A j \in 1..Len(chosen) : chosen[j] \cap Used = {}
    /\ \A j, k \in 1..Len(chosen) : j # k => chosen[j] \cap chosen[k] = {}

LEMMA SpanType ==
    ASSUME NEW p \in Procs, NEW o \in Nat
    PROVE  Span(o, Stride[p]) \in SUBSET Nat
<1>1. Stride[p] \in Nat \ {0}
  BY HostAssumption
<1>2. o \div Stride[p] \in Nat
  BY <1>1
<1>. DEFINE d == o \div Stride[p]
<1>. HIDE DEF d
<1>3. Stride[p] * d \in Nat
  BY <1>1, <1>2 DEF d
<1>. QED  BY <1>1, <1>3 DEF Span, d

LEMMA CandidateType ==
    ASSUME NEW p \in Procs
    PROVE  \E n \in Nat : Candidates(p) \in [1..n -> Nat]
<1>1. Stride[p] \in Nat \ {0} /\ Start[p] \in Nat /\ LastOctet \in Nat
  BY HostAssumption
<1>. DEFINE count == IF Start[p] > LastOctet THEN 0 ELSE (LastOctet - Start[p]) \div Stride[p] + 1
<1>2. count \in Nat
  <2>1. CASE Start[p] > LastOctet
    BY <2>1
  <2>2. CASE ~(Start[p] > LastOctet)
    <3>1. LastOctet - Start[p] \in Nat
      BY <1>1, <2>2
    <3>2. (LastOctet - Start[p]) \div Stride[p] \in Nat
      BY <1>1, <3>1
    <3>. QED  BY <2>2, <3>2
  <2>. QED  BY <2>1, <2>2
<1>3. \A j \in 1..count : Start[p] + (j - 1) * Stride[p] \in Nat
  <2>. SUFFICES ASSUME NEW j \in 1..count PROVE Start[p] + (j - 1) * Stride[p] \in Nat
    OBVIOUS
  <2>. HIDE DEF count
  <2>1. j - 1 \in Nat
    BY <1>2
  <2>2. (j - 1) * Stride[p] \in Nat
    BY <1>1, <2>1
  <2>. QED  BY <1>1, <2>2
<1>4. Candidates(p) = [j \in 1..count |-> Start[p] + (j - 1) * Stride[p]]
  BY DEF Candidates
<1>. HIDE DEF count
<1>. QED  BY <1>2, <1>3, <1>4

\* A turn keeps what was selected apart.
LEMMA TurnKeepsApart ==
    ASSUME NEW p \in Procs, NEW chosen, Apart(chosen), NEW o \in Nat
    PROVE  Apart(Turn(p, chosen, o))
<1>. DEFINE s == Span(o, Stride[p])
<1>1. s \in SUBSET Nat
  BY SpanType
<1>. HIDE DEF s
<1>2. CASE s \cap (Used \cup UNION ToSet(chosen)) = {}
  <2>1. Turn(p, chosen, o) = Append(chosen, s)
    BY <1>2 DEF Turn, s
  <2>2. /\ chosen \in Seq(SUBSET Nat) /\ Append(chosen, s) \in Seq(SUBSET Nat)
        /\ Len(Append(chosen, s)) = Len(chosen) + 1 /\ Len(chosen) \in Nat
        /\ Append(chosen, s)[Len(chosen) + 1] = s
        /\ \A j \in 1..Len(chosen) : Append(chosen, s)[j] = chosen[j]
    BY <1>1 DEF Apart
  <2>3. s \cap Used = {} /\ \A j \in 1..Len(chosen) : s \cap chosen[j] = {}
    <3>1. \A j \in 1..Len(chosen) : chosen[j] \in ToSet(chosen)
      BY <2>2 DEF ToSet
    <3>. QED  BY <1>2, <3>1
  <2>. DEFINE next == Append(chosen, s)
  <2>4. ASSUME NEW j \in 1..Len(next)
        PROVE  next[j] \cap Used = {}
    BY <2>2, <2>3 DEF Apart
  <2>5. ASSUME NEW j \in 1..Len(next), NEW k \in 1..Len(next), j # k
        PROVE  next[j] \cap next[k] = {}
    <3>1. CASE j = Len(chosen) + 1
      BY <2>2, <2>3, <2>5, <3>1
    <3>2. CASE k = Len(chosen) + 1
      BY <2>2, <2>3, <2>5, <3>2
    <3>3. CASE j # Len(chosen) + 1 /\ k # Len(chosen) + 1
      BY <2>2, <2>5, <3>3 DEF Apart
    <3>. QED  BY <3>1, <3>2, <3>3
  <2>. QED  BY <2>1, <2>2, <2>4, <2>5 DEF Apart
<1>3. CASE s \cap (Used \cup UNION ToSet(chosen)) # {}
  BY <1>3 DEF Turn, s
<1>. QED  BY <1>2, <1>3

\* What allocate_management_subnets selects are subnets that overlap neither a
\* network of the host nor each other.
LEMMA SelectedAreApart ==
    ASSUME NEW p \in Procs
    PROVE  Apart(Selected(p))
<1>1. PICK n \in Nat : Candidates(p) \in [1..n -> Nat]
  BY CandidateType
<1>. DEFINE f == CHOOSE f : Turns(p, f, n)
<1>2. Turns(p, f, n)
  BY <1>1, CanTurn, Zenon
<1>. HIDE DEF f
<1>. DEFINE failing == {k \in 0..n : \E s \in SUBSET (1..k) : ~Apart(f[s])}
<1>3. failing = {}
  <2>1. SUFFICES ASSUME failing # {} PROVE FALSE
    OBVIOUS
  <2>11. failing \in SUBSET Nat
    BY <1>1
  <2>2. PICK k \in failing : \A m \in failing : ~(m < k)
    <3>. HIDE DEF failing
    <3>. QED  BY <2>1, <2>11, LeastOf
  <2>3. PICK s \in SUBSET (1..k) : ~Apart(f[s])
    BY <2>2
  <2>4. s \in SUBSET (1..n) /\ k \in 0..n
    BY <1>1, <2>2, <2>3
  <2>5. f[s] = IF s = {} THEN <<>> ELSE Turn(p, f[s \ {Max(s)}], Candidates(p)[Max(s)])
    BY <1>2, <2>4, Zenon DEF Turns
  <2>6. s # {}
    BY <2>3, <2>5 DEF Apart
  <2>7. Max(s) \in s /\ \A x \in s : x <= Max(s)
    BY <1>1, <2>4, <2>6, LastOf
  <2>12. s \ {Max(s)} \in SUBSET (1..(k - 1)) /\ Max(s) \in 1..k
    BY <2>3, <2>4, <2>7, WithoutLast
  <2>8. k - 1 \in 0..n /\ k - 1 < k /\ s \ {Max(s)} \in SUBSET (1..(k - 1)) /\ Max(s) \in 1..n
    BY <1>1, <2>4, <2>12
  <2>9. Apart(f[s \ {Max(s)}])
    BY <2>2, <2>8
  <2>10. Apart(Turn(p, f[s \ {Max(s)}], Candidates(p)[Max(s)]))
    BY <1>1, <2>8, <2>9, TurnKeepsApart
  <2>. QED  BY <2>3, <2>5, <2>6, <2>10
<1>4. Apart(f[1..n])
  <2>1. n \in 0..n
    BY <1>1
  <2>2. n \notin failing
    BY <1>3, Zenon
  <2>3. \A s \in SUBSET (1..n) : Apart(f[s])
    BY <2>1, <2>2
  <2>4. 1..n \subseteq 1..n
    OBVIOUS
  <2>. QED  BY <2>3, <2>4, Zenon
<1>5. Selected(p) = f[1..n]
  BY <1>1, SelectedIsTurns DEF f
<1>. QED  BY <1>4, <1>5

-----------------------------------------------------------------------------
(* Types                                                                   *)

Tearing == {"stop", "untele", "destroy", "rm", "gone", "again", "netrm", "verify"}
PCs == {"idle", "lock", "alloc", "check", "deploy", "collector", "pid", "telegraf", "agents",
        "ready", "failed", "dirty", "down", "dead"} \cup Tearing

Objects == {"network", "containers", "telegraf"}

CallRecords ==
    [pc : PCs, i : Nat, pid : Pids \cup {0}, started : BOOLEAN, bad : BOOLEAN, err : BOOLEAN, rc : BOOLEAN,
     sub : [Labs -> SUBSET Nat], dep : [Labs -> {"todo", "busy", "net", "done", "bad"}]]

\* The types of all the state, and: a process that has started a collector knows
\* its id until it is written.
Types ==
    /\ lock \in Procs \cup {"none"} /\ net \in [Labs -> SUBSET Nat] /\ up \subseteq Labs /\ tele \subseteq Labs
    /\ proc \in [Pids -> Labs \cup {"other", "free"}] /\ pidfile \in [Labs -> Pids \cup {0}]
    /\ orphan \in [Labs -> SUBSET Nat] /\ orphaned \subseteq Labs /\ unread \in [Labs -> SUBSET Objects]
    /\ c \in [Procs -> CallRecords]
    /\ \A p \in Procs : c[p].i \in 1..Len(LabsOf[p]) /\ (c[p].pc = "pid" => c[p].pid # 0)

\* The labs of a process, and the one it works on.
LEMMA OwnLabs ==
    ASSUME NEW p \in Procs
    PROVE  /\ Own(p) \subseteq Labs /\ Len(LabsOf[p]) \in Nat /\ Len(LabsOf[p]) >= 1
           /\ \A j \in 1..Len(LabsOf[p]) : LabsOf[p][j] \in Own(p)
           /\ \A l \in Own(p) : \E j \in 1..Len(LabsOf[p]) : LabsOf[p][j] = l
           /\ \A l \in Own(p) : Index(p, l) \in 1..Len(LabsOf[p]) /\ LabsOf[p][Index(p, l)] = l
           /\ \A j, k \in 1..Len(LabsOf[p]) : LabsOf[p][j] = LabsOf[p][k] => j = k
           /\ \A q \in Procs \ {p} : Own(p) \cap Own(q) = {}
<1>1. LabsOf[p] \in Seq(Labs) /\ LabsOf[p] # <<>>
  BY HostAssumption
<1>2. Len(LabsOf[p]) \in Nat /\ Len(LabsOf[p]) >= 1 /\ DOMAIN LabsOf[p] = 1..Len(LabsOf[p])
      /\ \A j \in 1..Len(LabsOf[p]) : LabsOf[p][j] \in Labs
  BY <1>1
<1>3. Own(p) = {LabsOf[p][j] : j \in 1..Len(LabsOf[p])}
  BY <1>2 DEF Own, ToSet
<1>4. \A l \in Own(p) : \E j \in 1..Len(LabsOf[p]) : LabsOf[p][j] = l
  BY <1>3
<1>5. \A l \in Own(p) : Index(p, l) \in 1..Len(LabsOf[p]) /\ LabsOf[p][Index(p, l)] = l
  BY <1>4 DEF Index
<1>6. \A q \in Procs \ {p} : Own(p) \cap Own(q) = {}
  BY HostAssumption DEF Own
<1>7. \A j, k \in 1..Len(LabsOf[p]) : LabsOf[p][j] = LabsOf[p][k] => j = k
  BY <1>2, HostAssumption
<1>. QED  BY <1>2, <1>3, <1>4, <1>5, <1>6, <1>7

LEMMA LabType ==
    ASSUME Types, NEW p \in Procs
    PROVE  Lab(p) \in Own(p) /\ Lab(p) \in Labs
BY OwnLabs DEF Types, Lab

\* The call of p moves on to pc, and nothing else of any call changes.
Moved(p, pc) ==
    /\ c' \in [Procs -> CallRecords] /\ \A q \in Procs \ {p} : c'[q] = c[q]
    /\ c'[p].pc = pc /\ c'[p].i = c[p].i /\ c'[p].pid = c[p].pid /\ c'[p].started = c[p].started
    /\ c'[p].bad = c[p].bad /\ c'[p].err = c[p].err /\ c'[p].rc = c[p].rc
    /\ c'[p].sub = c[p].sub /\ c'[p].dep = c[p].dep

LEMMA GotoMoves ==
    ASSUME Types, NEW p \in Procs, NEW pc \in PCs, Goto(p, pc)
    PROVE  Moved(p, pc)
<1>1. c \in [Procs -> CallRecords] /\ c[p] \in CallRecords
  BY DEF Types
<1>2. c' = [c EXCEPT ![p] = [c[p] EXCEPT !.pc = pc]]
  BY <1>1 DEF Goto
<1>3. [c[p] EXCEPT !.pc = pc] \in CallRecords
  BY <1>1 DEF CallRecords
<1>. QED  BY <1>1, <1>2, <1>3 DEF Moved, CallRecords

\* A teardown turns to the next worker, or it ends.
Advances(p, failed) ==
    /\ c' \in [Procs -> CallRecords] /\ \A q \in Procs \ {p} : c'[q] = c[q]
    /\ c'[p].sub = c[p].sub /\ c'[p].dep = c[p].dep /\ c'[p].pid = c[p].pid /\ c'[p].started = c[p].started
    /\ c'[p].err = FALSE /\ c'[p].i \in 1..Len(LabsOf[p])
    /\ \/ /\ c[p].i < Len(LabsOf[p]) /\ c'[p].pc = "stop" /\ c'[p].i = c[p].i + 1
          /\ c'[p].bad = (c[p].bad \/ failed)
       \/ /\ c[p].i = Len(LabsOf[p]) /\ c'[p].i = c[p].i /\ c'[p].bad = FALSE
          /\ c'[p].pc = IF c[p].bad \/ failed THEN "dirty" ELSE "down"

LEMMA NextWorkerMoves ==
    ASSUME Types, NEW p \in Procs, NEW failed \in BOOLEAN, c' = NextWorker(p, failed)
    PROVE  Advances(p, failed)
<1>1. c \in [Procs -> CallRecords] /\ c[p] \in CallRecords /\ c[p].i \in 1..Len(LabsOf[p]) /\ Len(LabsOf[p]) \in Nat
  BY OwnLabs DEF Types
<1>2. CASE c[p].i < Len(LabsOf[p])
  <2>. DEFINE r == [c[p] EXCEPT !.pc = "stop", !.i = c[p].i + 1, !.rc = TRUE, !.err = FALSE, !.bad = c[p].bad \/ failed]
  <2>1. c' = [c EXCEPT ![p] = r]
    BY <1>1, <1>2 DEF NextWorker
  <2>0. c[p].i + 1 \in Nat /\ "stop" \in PCs
    BY <1>1 DEF PCs, Tearing
  <2>2. r \in CallRecords
    BY <1>1, <2>0 DEF CallRecords
  <2>3. /\ r.sub = c[p].sub /\ r.dep = c[p].dep /\ r.pid = c[p].pid /\ r.started = c[p].started
        /\ r.err = FALSE /\ r.pc = "stop" /\ r.i = c[p].i + 1 /\ r.bad = (c[p].bad \/ failed)
    BY <1>1 DEF CallRecords
  <2>. HIDE DEF r
  <2>4. c' \in [Procs -> CallRecords] /\ c'[p] = r /\ \A q \in Procs \ {p} : c'[q] = c[q]
    BY <1>1, <2>1, <2>2
  <2>. QED  BY <1>1, <1>2, <2>3, <2>4 DEF Advances
<1>3. CASE ~(c[p].i < Len(LabsOf[p]))
  <2>. DEFINE pc == IF c[p].bad \/ failed THEN "dirty" ELSE "down"
              r == [c[p] EXCEPT !.pc = pc, !.rc = TRUE, !.err = FALSE, !.bad = FALSE]
  <2>0. pc \in PCs
    BY DEF PCs
  <2>1. c' = [c EXCEPT ![p] = r]
    BY <1>1, <1>3 DEF NextWorker
  <2>. HIDE DEF pc
  <2>2. r \in CallRecords
    BY <1>1, <2>0 DEF CallRecords
  <2>3. /\ r.sub = c[p].sub /\ r.dep = c[p].dep /\ r.pid = c[p].pid /\ r.started = c[p].started
        /\ r.err = FALSE /\ r.pc = pc /\ r.i = c[p].i /\ r.bad = FALSE
    BY <1>1 DEF CallRecords
  <2>. HIDE DEF r
  <2>4. c' \in [Procs -> CallRecords] /\ c'[p] = r /\ \A q \in Procs \ {p} : c'[q] = c[q]
    BY <1>1, <2>1, <2>2
  <2>. QED  BY <1>1, <1>3, <2>3, <2>4 DEF pc, Advances
<1>. QED  BY <1>2, <1>3

-----------------------------------------------------------------------------
(* What one step of a process changes                                      *)

\* Nothing of the other calls and of the labs of other processes.
Spares(p) ==
    /\ \A q \in Procs \ {p} : c'[q] = c[q]
    /\ \A l \in Labs \ Own(p) :
          /\ net'[l] = net[l] /\ pidfile'[l] = pidfile[l] /\ (l \in up' <=> l \in up) /\ (l \in tele' <=> l \in tele)
          /\ unread'[l] = unread[l] /\ \A i \in Pids : proc'[i] = l <=> proc[i] = l
    /\ \A i \in Pids : proc[i] = "other" => proc'[i] = "other"
    /\ orphaned \subseteq orphaned'

\* A step that changes the call alone.
LEMMA CallAlone ==
    ASSUME Types, NEW p \in Procs, lock' \in Procs \cup {"none"}, UNCHANGED host,
           c' \in [Procs -> CallRecords], \A q \in Procs \ {p} : c'[q] = c[q],
           c'[p].i \in 1..Len(LabsOf[p]), c'[p].pc = "pid" => c'[p].pid # 0
    PROVE  Types' /\ Spares(p)
<1>1. \A q \in Procs : c'[q].i \in 1..Len(LabsOf[q]) /\ (c'[q].pc = "pid" => c'[q].pid # 0)
  BY DEF Types
<1>2. Types'
  BY <1>1 DEF Types, host
<1>3. Spares(p)
  BY DEF Spares, host
<1>. QED  BY <1>2, <1>3

\* A step that changes the call and what its queries overlooked.
LEMMA CallAndHistory ==
    ASSUME Types, NEW p \in Procs, UNCHANGED <<lock, net, up, tele, proc, pidfile, orphan, orphaned>>,
           c' \in [Procs -> CallRecords], \A q \in Procs \ {p} : c'[q] = c[q],
           c'[p].i \in 1..Len(LabsOf[p]), c'[p].pc = "pid" => c'[p].pid # 0,
           unread' \in [Labs -> SUBSET Objects], \A l \in Labs \ Own(p) : unread'[l] = unread[l]
    PROVE  Types' /\ Spares(p)
<1>1. \A q \in Procs : c'[q].i \in 1..Len(LabsOf[q]) /\ (c'[q].pc = "pid" => c'[q].pid # 0)
  BY DEF Types
<1>2. Types'
  BY <1>1 DEF Types
<1>3. Spares(p)
  BY DEF Spares
<1>. QED  BY <1>2, <1>3

\* A step that changes the call and something of the labs of the process.
LEMMA CallAndLabs ==
    ASSUME Types, NEW p \in Procs, UNCHANGED <<lock, orphan, orphaned, unread>>,
           c' \in [Procs -> CallRecords], \A q \in Procs \ {p} : c'[q] = c[q],
           c'[p].i \in 1..Len(LabsOf[p]), c'[p].pc = "pid" => c'[p].pid # 0,
           NEW l \in Own(p),
           net' \in [Labs -> SUBSET Nat], \A k \in Labs \ {l} : net'[k] = net[k],
           up' \subseteq up \cup {l}, up \subseteq up' \cup {l},
           tele' \subseteq tele \cup {l}, tele \subseteq tele' \cup {l},
           pidfile' \in [Labs -> Pids \cup {0}], \A k \in Labs \ {l} : pidfile'[k] = pidfile[k],
           proc' \in [Pids -> Labs \cup {"other", "free"}],
           \A i \in Pids : proc'[i] # proc[i] => {proc[i], proc'[i]} \subseteq {l, "free"}
    PROVE  Types' /\ Spares(p)
<1>0. Own(p) \subseteq Labs
  BY OwnLabs
<1>1. \A q \in Procs : c'[q].i \in 1..Len(LabsOf[q]) /\ (c'[q].pc = "pid" => c'[q].pid # 0)
  BY DEF Types
<1>2. up' \subseteq Labs /\ tele' \subseteq Labs
  BY <1>0 DEF Types
<1>3. Types'
  BY <1>1, <1>2 DEF Types
<1>4. \A k \in Labs \ Own(p) : \A i \in Pids : proc'[i] = k <=> proc[i] = k
  BY <1>0, HostAssumption
<1>6. \A i \in Pids : proc[i] = "other" => proc'[i] = "other"
  BY <1>0, HostAssumption
<1>5. Spares(p)
  BY <1>4, <1>6 DEF Spares
<1>. QED  BY <1>3, <1>5

\* The call becomes the record r.
LEMMA CallBecomes ==
    ASSUME Types, NEW p \in Procs, NEW r \in CallRecords, c' = [c EXCEPT ![p] = r]
    PROVE  c' \in [Procs -> CallRecords] /\ c'[p] = r /\ \A q \in Procs \ {p} : c'[q] = c[q]
BY DEF Types

\* What the steps that do more than move on make of the call.
LEMMA AllocateCall ==
    ASSUME Types, NEW p \in Procs, Len(Selected(p)) >= Len(LabsOf[p]),
           c' = [c EXCEPT ![p].pc = "check",
                          ![p].sub = [l \in Labs |-> IF l \in Own(p) THEN Selected(p)[Index(p, l)] ELSE {}]]
    PROVE  /\ c' \in [Procs -> CallRecords] /\ \A q \in Procs \ {p} : c'[q] = c[q]
           /\ c'[p].pc = "check" /\ c'[p].i = c[p].i /\ c'[p].bad = c[p].bad /\ c'[p].dep = c[p].dep
           /\ \A l \in Own(p) : c'[p].sub[l] = Selected(p)[Index(p, l)]
<1>. DEFINE sub == [l \in Labs |-> IF l \in Own(p) THEN Selected(p)[Index(p, l)] ELSE {}]
            r == [c[p] EXCEPT !.pc = "check", !.sub = sub]
<1>1. c \in [Procs -> CallRecords] /\ c[p] \in CallRecords
  BY DEF Types
<1>2. sub \in [Labs -> SUBSET Nat]
  <2>1. Selected(p) \in Seq(SUBSET Nat) /\ Len(LabsOf[p]) \in Nat /\ Len(Selected(p)) \in Nat
    BY SelectedAreApart, OwnLabs DEF Apart
  <2>2. \A l \in Own(p) : Selected(p)[Index(p, l)] \in SUBSET Nat
    BY <2>1, OwnLabs
  <2>. QED  BY <2>2
<1>3. c' = [c EXCEPT ![p] = r]
  BY <1>1, Zenon
<1>4. \A l \in Own(p) : sub[l] = Selected(p)[Index(p, l)]
  BY OwnLabs
<1>. HIDE DEF sub
<1>5. r \in CallRecords /\ r.pc = "check" /\ r.i = c[p].i /\ r.bad = c[p].bad /\ r.dep = c[p].dep /\ r.sub = sub
  BY <1>1, <1>2 DEF CallRecords, PCs
<1>. HIDE DEF r
<1>6. c' \in [Procs -> CallRecords] /\ c'[p] = r /\ \A q \in Procs \ {p} : c'[q] = c[q]
  BY <1>3, <1>5, CallBecomes
<1>. QED  BY <1>4, <1>5, <1>6

LEMMA CheckCall ==
    ASSUME Types, NEW p \in Procs,
           c' = [c EXCEPT ![p].pc = "deploy", ![p].started = TRUE,
                          ![p].sub = IF p \in Pools THEN @ ELSE [@ EXCEPT ![LabsOf[p][1]] = Span(Start[p], Stride[p])]]
    PROVE  /\ c' \in [Procs -> CallRecords] /\ \A q \in Procs \ {p} : c'[q] = c[q]
           /\ c'[p].pc = "deploy" /\ c'[p].i = c[p].i /\ c'[p].bad = c[p].bad /\ c'[p].dep = c[p].dep
           /\ p \in Pools => c'[p].sub = c[p].sub
<1>. DEFINE sub == IF p \in Pools THEN c[p].sub ELSE [c[p].sub EXCEPT ![LabsOf[p][1]] = Span(Start[p], Stride[p])]
            r == [c[p] EXCEPT !.pc = "deploy", !.started = TRUE, !.sub = sub]
<1>1. c \in [Procs -> CallRecords] /\ c[p] \in CallRecords /\ c[p].sub \in [Labs -> SUBSET Nat]
  BY DEF Types, CallRecords
<1>2. Span(Start[p], Stride[p]) \in SUBSET Nat
  BY SpanType, HostAssumption
<1>3. sub \in [Labs -> SUBSET Nat]
  BY <1>1, <1>2
<1>4. c' = [c EXCEPT ![p] = r]
  BY <1>1, Zenon
<1>5. p \in Pools => sub = c[p].sub
  OBVIOUS
<1>. HIDE DEF sub
<1>6. r \in CallRecords /\ r.pc = "deploy" /\ r.i = c[p].i /\ r.bad = c[p].bad /\ r.dep = c[p].dep /\ r.sub = sub
  BY <1>1, <1>3 DEF CallRecords, PCs
<1>. HIDE DEF r
<1>7. c' \in [Procs -> CallRecords] /\ c'[p] = r /\ \A q \in Procs \ {p} : c'[q] = c[q]
  BY <1>4, <1>6, CallBecomes
<1>. QED  BY <1>5, <1>6, <1>7

LEMMA DepCall ==
    ASSUME Types, NEW p \in Procs, NEW l \in Labs, NEW st \in {"todo", "busy", "net", "done", "bad"}, Dep(p, l, st)
    PROVE  /\ c' \in [Procs -> CallRecords] /\ \A q \in Procs \ {p} : c'[q] = c[q]
           /\ c'[p].pc = c[p].pc /\ c'[p].i = c[p].i /\ c'[p].bad = c[p].bad /\ c'[p].sub = c[p].sub
           /\ c'[p].pid = c[p].pid /\ c'[p].dep = [c[p].dep EXCEPT ![l] = st]
<1>. DEFINE dep == [c[p].dep EXCEPT ![l] = st]
            r == [c[p] EXCEPT !.dep = dep]
<1>1. c \in [Procs -> CallRecords] /\ c[p] \in CallRecords
  BY DEF Types
<1>2. dep \in [Labs -> {"todo", "busy", "net", "done", "bad"}]
  BY <1>1 DEF CallRecords
<1>3. c' = [c EXCEPT ![p] = r]
  BY <1>1, Zenon DEF Dep
<1>. HIDE DEF dep
<1>4. /\ r \in CallRecords /\ r.pc = c[p].pc /\ r.i = c[p].i /\ r.bad = c[p].bad /\ r.sub = c[p].sub
      /\ r.pid = c[p].pid /\ r.dep = dep
  BY <1>1, <1>2 DEF CallRecords
<1>. HIDE DEF r
<1>5. c' \in [Procs -> CallRecords] /\ c'[p] = r /\ \A q \in Procs \ {p} : c'[q] = c[q]
  BY <1>3, <1>4, CallBecomes
<1>. QED  BY <1>4, <1>5 DEF dep

\* A step that sets fields of the call which are no function.
LEMMA FieldsOfCall ==
    ASSUME Types, NEW p \in Procs, NEW pc \in PCs, NEW i \in Nat, NEW pid \in Pids \cup {0},
           NEW err \in BOOLEAN, NEW rc \in BOOLEAN,
           c' = [c EXCEPT ![p] = [c[p] EXCEPT !.pc = pc, !.i = i, !.pid = pid, !.err = err, !.rc = rc]]
    PROVE  /\ c' \in [Procs -> CallRecords] /\ \A q \in Procs \ {p} : c'[q] = c[q]
           /\ c'[p].pc = pc /\ c'[p].i = i /\ c'[p].pid = pid /\ c'[p].err = err /\ c'[p].rc = rc
           /\ c'[p].bad = c[p].bad /\ c'[p].sub = c[p].sub /\ c'[p].dep = c[p].dep
<1>. DEFINE r == [c[p] EXCEPT !.pc = pc, !.i = i, !.pid = pid, !.err = err, !.rc = rc]
<1>1. c[p] \in CallRecords
  BY DEF Types
<1>2. /\ r \in CallRecords /\ r.pc = pc /\ r.i = i /\ r.pid = pid /\ r.err = err /\ r.rc = rc
      /\ r.bad = c[p].bad /\ r.sub = c[p].sub /\ r.dep = c[p].dep
  BY <1>1 DEF CallRecords
<1>3. c' = [c EXCEPT ![p] = r]
  OBVIOUS
<1>. HIDE DEF r
<1>. QED  BY <1>2, <1>3, CallBecomes

-----------------------------------------------------------------------------
(* The steps, field by field: their types and what they change             *)

\* Steps that only move the call on, perhaps with the lock.
LEMMA Moves ==
    ASSUME Types, NEW p \in Procs, NEW pc \in PCs \ {"pid"}, Moved(p, pc), lock' \in Procs \cup {"none"}, UNCHANGED host
    PROVE  Types' /\ Spares(p)
BY CallAlone DEF Moved, Types

LEMMA DeployField ==
    ASSUME Types, NEW p \in Procs, Deploy(p)
    PROVE  Types' /\ Spares(p) /\ Moved(p, "lock") /\ c[p].pc = "idle" /\ UNCHANGED <<lock, host>>
BY GotoMoves, Moves DEF Deploy, PCs, Types

LEMMA TakeLockField ==
    ASSUME Types, NEW p \in Procs, TakeLock(p)
    PROVE  /\ Types' /\ Spares(p) /\ c[p].pc = "lock" /\ lock = "none" /\ lock' = p /\ UNCHANGED host
           /\ \/ Moved(p, "alloc")
              \/ p \notin Pools /\ Moved(p, "check")
BY GotoMoves, Moves DEF TakeLock, PCs, Types

LEMMA CancelWaitField ==
    ASSUME Types, NEW p \in Procs, CancelWait(p)
    PROVE  Types' /\ Spares(p) /\ Moved(p, "failed") /\ c[p].pc = "lock" /\ UNCHANGED <<lock, host>>
BY GotoMoves, Moves DEF CancelWait, PCs, Types

LEMMA RefusedField ==
    ASSUME Types, NEW p \in Procs, Refused(p)
    PROVE  Types' /\ Spares(p) /\ Moved(p, "failed") /\ lock' = "none" /\ UNCHANGED host
BY GotoMoves, Moves DEF Refused, PCs, Types

LEMMA AllocateField ==
    ASSUME Types, NEW p \in Procs, Allocate(p)
    PROVE  /\ Types' /\ Spares(p) /\ c[p].pc = "alloc" /\ UNCHANGED host
           /\ \/ Moved(p, "failed") /\ lock' = "none"
              \/ /\ lock' = lock /\ Len(Selected(p)) >= Len(LabsOf[p])
                 /\ c' \in [Procs -> CallRecords] /\ c'[p].pc = "check" /\ c'[p].dep = c[p].dep
                 /\ \A l \in Own(p) : c'[p].sub[l] = Selected(p)[Index(p, l)]
<1>1. CASE Refused(p)
  BY <1>1, RefusedField DEF Allocate
<1>2. CASE ~Refused(p)
  <2>1. /\ c[p].pc = "alloc" /\ Len(Selected(p)) >= Len(LabsOf[p]) /\ UNCHANGED <<lock, host>>
        /\ c' = [c EXCEPT ![p].pc = "check",
                          ![p].sub = [l \in Labs |-> IF l \in Own(p) THEN Selected(p)[Index(p, l)] ELSE {}]]
    BY <1>2 DEF Allocate
  <2>2. /\ c' \in [Procs -> CallRecords] /\ \A q \in Procs \ {p} : c'[q] = c[q]
        /\ c'[p].pc = "check" /\ c'[p].i = c[p].i /\ c'[p].bad = c[p].bad /\ c'[p].dep = c[p].dep
        /\ \A l \in Own(p) : c'[p].sub[l] = Selected(p)[Index(p, l)]
    BY <2>1, AllocateCall
  <2>3. c[p].i \in 1..Len(LabsOf[p]) /\ lock' \in Procs \cup {"none"}
    BY <2>1 DEF Types
  <2>4. Types' /\ Spares(p)
    BY <2>1, <2>2, <2>3, CallAlone
  <2>. QED  BY <2>1, <2>2, <2>4
<1>. QED  BY <1>1, <1>2

LEMMA CheckSlotsField ==
    ASSUME Types, NEW p \in Procs, CheckSlots(p)
    PROVE  /\ Types' /\ Spares(p) /\ c[p].pc = "check" /\ UNCHANGED host
           /\ \/ Moved(p, "failed") /\ lock' = "none"
              \/ /\ lock' = lock /\ c' \in [Procs -> CallRecords] /\ c'[p].pc = "deploy" /\ c'[p].dep = c[p].dep
                 /\ p \in Pools => c'[p].sub = c[p].sub
<1>1. CASE Refused(p)
  BY <1>1, RefusedField DEF CheckSlots
<1>2. CASE ~Refused(p)
  <2>1. /\ c[p].pc = "check" /\ UNCHANGED <<lock, host>>
        /\ c' = [c EXCEPT ![p].pc = "deploy", ![p].started = TRUE,
                          ![p].sub = IF p \in Pools THEN @ ELSE [@ EXCEPT ![LabsOf[p][1]] = Span(Start[p], Stride[p])]]
    BY <1>2 DEF CheckSlots
  <2>2. /\ c' \in [Procs -> CallRecords] /\ \A q \in Procs \ {p} : c'[q] = c[q]
        /\ c'[p].pc = "deploy" /\ c'[p].i = c[p].i /\ c'[p].bad = c[p].bad /\ c'[p].dep = c[p].dep
        /\ p \in Pools => c'[p].sub = c[p].sub
    BY <2>1, CheckCall
  <2>3. c[p].i \in 1..Len(LabsOf[p]) /\ lock' \in Procs \cup {"none"}
    BY <2>1 DEF Types
  <2>4. Types' /\ Spares(p)
    BY <2>1, <2>2, <2>3, CallAlone
  <2>. QED  BY <2>1, <2>2, <2>4
<1>. QED  BY <1>1, <1>2

LEMMA StartLabField ==
    ASSUME Types, NEW p \in Procs, NEW l \in Own(p), StartLab(p, l)
    PROVE  /\ Types' /\ Spares(p) /\ UNCHANGED <<lock, host>> /\ c' \in [Procs -> CallRecords]
           /\ c[p].pc = "deploy" /\ c'[p].pc = "deploy" /\ c[p].dep[l] = "todo"
           /\ c'[p].sub = c[p].sub /\ c'[p].dep = [c[p].dep EXCEPT ![l] = "busy"]
<1>1. l \in Labs /\ c[p].i \in 1..Len(LabsOf[p])
  BY OwnLabs DEF Types
<1>2. Dep(p, l, "busy") /\ UNCHANGED <<lock, host>> /\ c[p].pc = "deploy" /\ c[p].dep[l] = "todo"
  BY DEF StartLab
<1>3. /\ c' \in [Procs -> CallRecords] /\ \A q \in Procs \ {p} : c'[q] = c[q]
      /\ c'[p].pc = c[p].pc /\ c'[p].i = c[p].i /\ c'[p].sub = c[p].sub
      /\ c'[p].dep = [c[p].dep EXCEPT ![l] = "busy"]
  BY <1>1, <1>2, DepCall
<1>4. Types' /\ Spares(p)
  BY <1>1, <1>2, <1>3, CallAlone DEF Types
<1>. QED  BY <1>2, <1>3, <1>4

LEMMA CreateNetworkField ==
    ASSUME Types, NEW p \in Procs, NEW l \in Own(p), CreateNetwork(p, l)
    PROVE  /\ Types' /\ Spares(p) /\ UNCHANGED <<lock, up, tele, proc, pidfile, orphan, orphaned, unread>>
           /\ c' \in [Procs -> CallRecords]
           /\ c[p].pc = "deploy" /\ c'[p].pc = "deploy" /\ c[p].dep[l] = "busy"
           /\ c'[p].sub = c[p].sub /\ c'[p].dep = [c[p].dep EXCEPT ![l] = "net"]
           /\ net' = [net EXCEPT ![l] = IF @ = {} THEN c[p].sub[l] ELSE @]
<1>1. l \in Labs /\ c[p].i \in 1..Len(LabsOf[p])
  BY OwnLabs DEF Types
<1>2. /\ Dep(p, l, "net") /\ c[p].pc = "deploy" /\ c[p].dep[l] = "busy"
      /\ UNCHANGED <<lock, up, tele, proc, pidfile, orphan, orphaned, unread>>
      /\ net' = [net EXCEPT ![l] = IF net[l] = {} THEN c[p].sub[l] ELSE net[l]]
  BY DEF CreateNetwork
<1>3. /\ c' \in [Procs -> CallRecords] /\ \A q \in Procs \ {p} : c'[q] = c[q]
      /\ c'[p].pc = c[p].pc /\ c'[p].i = c[p].i /\ c'[p].sub = c[p].sub
      /\ c'[p].dep = [c[p].dep EXCEPT ![l] = "net"]
  BY <1>1, <1>2, DepCall
<1>4. net' \in [Labs -> SUBSET Nat] /\ \A k \in Labs \ {l} : net'[k] = net[k]
  BY <1>1, <1>2 DEF Types, CallRecords
<1>5. Types' /\ Spares(p)
  BY <1>1, <1>2, <1>3, <1>4, CallAndLabs DEF Types
<1>. QED  BY <1>2, <1>3, <1>5

\* BootLab and LabFails.
LEMMA BootLabField ==
    ASSUME Types, NEW p \in Procs, NEW l \in Own(p), BootLab(p, l) \/ LabFails(p, l)
    PROVE  /\ Types' /\ Spares(p) /\ UNCHANGED <<lock, net, tele, proc, pidfile, orphan, orphaned, unread>>
           /\ c' \in [Procs -> CallRecords] /\ up' \in {up, up \cup {l}}
           /\ c[p].pc = "deploy" /\ c'[p].pc = "deploy" /\ c'[p].sub = c[p].sub
           /\ \E st \in {"done", "bad"} : c'[p].dep = [c[p].dep EXCEPT ![l] = st]
<1>1. l \in Labs /\ c[p].i \in 1..Len(LabsOf[p])
  BY OwnLabs DEF Types
<1>2. \E st \in {"done", "bad"} : Dep(p, l, st)
  BY DEF BootLab, LabFails
<1>3. /\ c[p].pc = "deploy" /\ UNCHANGED <<lock, net, tele, proc, pidfile, orphan, orphaned, unread>> /\ up' \in {up, up \cup {l}}
  BY DEF BootLab, LabFails
<1>4. /\ c' \in [Procs -> CallRecords] /\ \A q \in Procs \ {p} : c'[q] = c[q]
      /\ c'[p].pc = c[p].pc /\ c'[p].i = c[p].i /\ c'[p].sub = c[p].sub
      /\ \E st \in {"done", "bad"} : c'[p].dep = [c[p].dep EXCEPT ![l] = st]
  <2>1. CASE Dep(p, l, "done")
    BY <1>1, <2>1, DepCall
  <2>2. CASE Dep(p, l, "bad")
    BY <1>1, <2>2, DepCall
  <2>. QED  BY <1>2, <2>1, <2>2
<1>5. Types' /\ Spares(p)
  BY <1>1, <1>3, <1>4, CallAndLabs DEF Types
<1>. QED  BY <1>3, <1>4, <1>5

LEMMA DeployReturnsField ==
    ASSUME Types, NEW p \in Procs, DeployReturns(p)
    PROVE  /\ Types' /\ Spares(p) /\ c[p].pc = "deploy" /\ lock' = "none" /\ UNCHANGED host
           /\ Moved(p, "collector") \/ Moved(p, "failed")
BY GotoMoves, Moves DEF DeployReturns, PCs, Types

LEMMA CollectorKeptField ==
    ASSUME Types, NEW p \in Procs, CollectorKept(p)
    PROVE  Types' /\ Spares(p) /\ Moved(p, "telegraf") /\ c[p].pc = "collector" /\ UNCHANGED <<lock, host>>
BY GotoMoves, Moves DEF CollectorKept, PCs, Types

LEMMA StartCollectorField ==
    ASSUME Types, NEW p \in Procs, StartCollector(p)
    PROVE  /\ Types' /\ Spares(p) /\ UNCHANGED <<lock, net, up, tele, orphan, orphaned, unread>>
           /\ c' \in [Procs -> CallRecords] /\ c[p].pc = "collector" /\ ~Running(Lab(p))
           /\ pidfile' = [pidfile EXCEPT ![Lab(p)] = 0]
           /\ c'[p].pc = "pid" /\ c'[p].i = c[p].i /\ c'[p].bad = c[p].bad
           /\ c'[p].pid \in Pids /\ proc[c'[p].pid] = "free"
           /\ proc' = [proc EXCEPT ![c'[p].pid] = Lab(p)]
<1>1. PICK i \in Pids : /\ proc[i] = "free" /\ proc' = [proc EXCEPT ![i] = Lab(p)]
                        /\ c' = [c EXCEPT ![p].pc = "pid", ![p].pid = i]
  BY DEF StartCollector
<1>2. /\ c[p].pc = "collector" /\ ~Running(Lab(p)) /\ pidfile' = [pidfile EXCEPT ![Lab(p)] = 0]
      /\ UNCHANGED <<lock, net, up, tele, orphan, orphaned, unread>>
  BY DEF StartCollector
<1>. DEFINE r == [c[p] EXCEPT !.pc = "pid", !.pid = i]
<1>3. c[p] \in CallRecords /\ c \in [Procs -> CallRecords] /\ c[p].i \in 1..Len(LabsOf[p]) /\ i # 0
  BY HostAssumption DEF Types
<1>4. c' = [c EXCEPT ![p] = r]
  BY <1>1, <1>3, Zenon
<1>5. r \in CallRecords /\ r.pc = "pid" /\ r.i = c[p].i /\ r.bad = c[p].bad /\ r.pid = i
  BY <1>1, <1>3 DEF CallRecords, PCs
<1>. HIDE DEF r
<1>6. c' \in [Procs -> CallRecords] /\ c'[p] = r /\ \A q \in Procs \ {p} : c'[q] = c[q]
  BY <1>4, <1>5, CallBecomes
<1>7. Lab(p) \in Own(p) /\ Lab(p) \in Labs
  BY LabType
<1>8. /\ pidfile' \in [Labs -> Pids \cup {0}] /\ \A k \in Labs \ {Lab(p)} : pidfile'[k] = pidfile[k]
  BY <1>2, <1>7 DEF Types
<1>9. /\ proc' \in [Pids -> Labs \cup {"other", "free"}]
      /\ \A j \in Pids : proc'[j] # proc[j] => {proc[j], proc'[j]} \subseteq {Lab(p), "free"}
  BY <1>1, <1>7 DEF Types
<1>10. Types' /\ Spares(p)
  <2>. DEFINE l == Lab(p)
  <2>1. l \in Own(p) /\ c'[p].i \in 1..Len(LabsOf[p]) /\ (c'[p].pc = "pid" => c'[p].pid # 0)
    BY <1>3, <1>5, <1>6, <1>7
  <2>. HIDE DEF l
  <2>2. net' \in [Labs -> SUBSET Nat] /\ (\A k \in Labs \ {l} : net'[k] = net[k])
        /\ up' \subseteq up \cup {l} /\ up \subseteq up' \cup {l} /\ tele' \subseteq tele \cup {l} /\ tele \subseteq tele' \cup {l}
    BY <1>2 DEF Types
  <2>. QED  BY <1>2, <1>6, <1>8, <1>9, <2>1, <2>2, CallAndLabs DEF l
<1>. QED  BY <1>1, <1>2, <1>5, <1>6, <1>10

LEMMA WritePidField ==
    ASSUME Types, NEW p \in Procs, WritePid(p)
    PROVE  /\ Types' /\ Spares(p) /\ UNCHANGED <<lock, net, up, tele, proc, orphan, orphaned, unread>>
           /\ c' \in [Procs -> CallRecords] /\ c[p].pc = "pid"
           /\ pidfile' = [pidfile EXCEPT ![Lab(p)] = c[p].pid]
           /\ c'[p].pc = "telegraf" /\ c'[p].i = c[p].i /\ c'[p].bad = c[p].bad
<1>1. /\ c' = [c EXCEPT ![p].pc = "telegraf", ![p].pid = 0] /\ pidfile' = [pidfile EXCEPT ![Lab(p)] = c[p].pid]
      /\ UNCHANGED <<lock, net, up, tele, proc, orphan, orphaned, unread>> /\ c[p].pc = "pid"
  BY DEF WritePid
<1>. DEFINE r == [c[p] EXCEPT !.pc = "telegraf", !.pid = 0]
<1>3. c[p] \in CallRecords /\ c \in [Procs -> CallRecords] /\ c[p].i \in 1..Len(LabsOf[p])
  BY DEF Types
<1>4. c' = [c EXCEPT ![p] = r]
  BY <1>1, <1>3, Zenon
<1>5. r \in CallRecords /\ r.pc = "telegraf" /\ r.i = c[p].i /\ r.bad = c[p].bad
  BY <1>3 DEF CallRecords, PCs
<1>. HIDE DEF r
<1>6. c' \in [Procs -> CallRecords] /\ c'[p] = r /\ \A q \in Procs \ {p} : c'[q] = c[q]
  BY <1>4, <1>5, CallBecomes
<1>7. Lab(p) \in Own(p) /\ Lab(p) \in Labs
  BY LabType
<1>8. /\ pidfile' \in [Labs -> Pids \cup {0}] /\ \A k \in Labs \ {Lab(p)} : pidfile'[k] = pidfile[k]
  BY <1>1, <1>3, <1>7 DEF Types, CallRecords
<1>10. Types' /\ Spares(p)
  BY <1>1, <1>3, <1>5, <1>6, <1>7, <1>8, CallAndLabs DEF Types
<1>. QED  BY <1>1, <1>5, <1>6, <1>10

LEMMA StartTelegrafField ==
    ASSUME Types, NEW p \in Procs, StartTelegraf(p)
    PROVE  /\ Types' /\ Spares(p) /\ UNCHANGED <<lock, net, up, proc, pidfile, orphan, orphaned, unread>>
           /\ c[p].pc = "telegraf" /\ c'[p].pc \in {"collector", "agents"} /\ c'[p].bad = c[p].bad
<1>1. /\ tele' = tele \cup {Lab(p)} /\ UNCHANGED <<lock, net, up, proc, pidfile, orphan, orphaned, unread>> /\ c[p].pc = "telegraf"
  BY DEF StartTelegraf
<1>2. c[p] \in CallRecords /\ c \in [Procs -> CallRecords] /\ c[p].i \in 1..Len(LabsOf[p]) /\ Len(LabsOf[p]) \in Nat
  BY OwnLabs DEF Types
<1>3. /\ c' \in [Procs -> CallRecords] /\ \A q \in Procs \ {p} : c'[q] = c[q]
      /\ c'[p].i \in 1..Len(LabsOf[p]) /\ c'[p].pc \in {"collector", "agents"} /\ c'[p].bad = c[p].bad
  <2>1. CASE c[p].i < Len(LabsOf[p])
    <3>. DEFINE r == [c[p] EXCEPT !.pc = "collector", !.i = c[p].i + 1]
    <3>1. c' = [c EXCEPT ![p].pc = "collector", ![p].i = c[p].i + 1]
      BY <2>1 DEF StartTelegraf
    <3>2. c' = [c EXCEPT ![p] = r]
      BY <1>2, <3>1, Zenon
    <3>3. c[p].i + 1 \in Nat /\ c[p].i + 1 \in 1..Len(LabsOf[p]) /\ "collector" \in PCs
      BY <1>2, <2>1 DEF PCs
    <3>4. r \in CallRecords /\ r.pc = "collector" /\ r.i = c[p].i + 1 /\ r.bad = c[p].bad
      BY <1>2, <3>3 DEF CallRecords
    <3>. HIDE DEF r
    <3>5. c' \in [Procs -> CallRecords] /\ c'[p] = r /\ \A q \in Procs \ {p} : c'[q] = c[q]
      BY <3>2, <3>4, CallBecomes
    <3>. QED  BY <3>3, <3>4, <3>5
  <2>2. CASE ~(c[p].i < Len(LabsOf[p]))
    <3>1. Goto(p, "agents")
      BY <2>2 DEF StartTelegraf, Goto
    <3>. QED  BY <1>2, <3>1, GotoMoves DEF Moved, PCs
  <2>. QED  BY <2>1, <2>2
<1>4. Lab(p) \in Own(p) /\ Lab(p) \in Labs
  BY LabType
<1>5. Types' /\ Spares(p)
  BY <1>1, <1>3, <1>4, CallAndLabs DEF Types
<1>. QED  BY <1>1, <1>3, <1>5

LEMMA ObserveFailsField ==
    ASSUME Types, NEW p \in Procs, ObserveFails(p)
    PROVE  /\ Types' /\ Spares(p) /\ UNCHANGED <<lock, net, up, proc, pidfile, orphan, orphaned, unread>>
           /\ c[p].pc \in {"collector", "telegraf"} /\ Moved(p, "failed")
<1>1. /\ tele' \in {tele, tele \ {Lab(p)}, tele \cup {Lab(p)}} /\ UNCHANGED <<lock, net, up, proc, pidfile, orphan, orphaned, unread>>
      /\ c[p].pc \in {"collector", "telegraf"} /\ Goto(p, "failed")
  BY DEF ObserveFails
<1>2. Moved(p, "failed")
  BY <1>1, GotoMoves DEF PCs
<1>4. Lab(p) \in Own(p) /\ Lab(p) \in Labs
  BY LabType
<1>6. tele' \subseteq tele \cup {Lab(p)} /\ tele \subseteq tele' \cup {Lab(p)}
  BY <1>1
<1>5. Types' /\ Spares(p)
  BY <1>1, <1>2, <1>4, <1>6, CallAndLabs DEF Types, Moved
<1>. QED  BY <1>1, <1>2, <1>5

LEMMA ValidateField ==
    ASSUME Types, NEW p \in Procs, Validate(p)
    PROVE  /\ Types' /\ Spares(p) /\ c[p].pc = "agents" /\ UNCHANGED <<lock, host>>
           /\ \/ Moved(p, "ready") /\ \A l \in Own(p) : l \in up /\ net[l] # {}
              \/ Moved(p, "failed")
BY GotoMoves, Moves DEF Validate, PCs, Types

LEMMA ObserveAgainField ==
    ASSUME Types, NEW p \in Procs, ObserveAgain(p)
    PROVE  /\ Types' /\ Spares(p) /\ c[p].pc = "failed" /\ UNCHANGED <<lock, host>>
           /\ c'[p].pc = "collector" /\ c'[p].bad = c[p].bad
<1>1. c' = [c EXCEPT ![p].pc = "collector", ![p].i = 1] /\ UNCHANGED <<lock, host>> /\ c[p].pc = "failed"
  BY DEF ObserveAgain
<1>. DEFINE r == [c[p] EXCEPT !.pc = "collector", !.i = 1]
<1>2. c[p] \in CallRecords /\ c \in [Procs -> CallRecords] /\ 1 \in 1..Len(LabsOf[p])
  BY OwnLabs DEF Types
<1>3. c' = [c EXCEPT ![p] = r]
  BY <1>1, <1>2, Zenon
<1>4. r \in CallRecords /\ r.pc = "collector" /\ r.i = 1 /\ r.bad = c[p].bad
  BY <1>2 DEF CallRecords, PCs
<1>. HIDE DEF r
<1>5. c' \in [Procs -> CallRecords] /\ c'[p] = r /\ \A q \in Procs \ {p} : c'[q] = c[q]
  BY <1>3, <1>4, CallBecomes
<1>6. Types' /\ Spares(p)
  BY <1>1, <1>2, <1>4, <1>5, CallAlone DEF Types
<1>. QED  BY <1>1, <1>4, <1>5, <1>6

LEMMA BeginTeardownField ==
    ASSUME Types, NEW p \in Procs, BeginTeardown(p)
    PROVE  /\ Types' /\ Spares(p) /\ c[p].pc \in {"failed", "ready", "dirty", "dead"}
           /\ UNCHANGED <<lock, net, up, tele, proc, pidfile, orphan, orphaned>>
           /\ c'[p].pc = "stop" /\ c'[p].i = 1 /\ c'[p].bad = c[p].bad /\ c'[p].pid = 0
<1>1. /\ c' = [c EXCEPT ![p].pc = "stop", ![p].i = 1, ![p].pid = 0,
                        ![p].sub = [l \in Labs |-> {}], ![p].dep = [l \in Labs |-> "todo"]]
      /\ UNCHANGED <<lock, net, up, tele, proc, pidfile, orphan, orphaned>>
      /\ unread' = [l \in Labs |-> IF l \in Own(p) THEN {} ELSE unread[l]]
      /\ c[p].pc \in {"failed", "ready", "dirty", "dead"}
  BY DEF BeginTeardown
<1>. DEFINE r == [c[p] EXCEPT !.pc = "stop", !.i = 1, !.pid = 0, !.sub = [l \in Labs |-> {}], !.dep = [l \in Labs |-> "todo"]]
<1>2. c[p] \in CallRecords /\ c \in [Procs -> CallRecords] /\ 1 \in 1..Len(LabsOf[p])
  BY OwnLabs DEF Types
<1>3. c' = [c EXCEPT ![p] = r]
  BY <1>1, <1>2, Zenon
<1>4. r \in CallRecords /\ r.pc = "stop" /\ r.i = 1 /\ r.bad = c[p].bad /\ r.pid = 0
  BY <1>2 DEF CallRecords, PCs, Tearing
<1>. HIDE DEF r
<1>5. c' \in [Procs -> CallRecords] /\ c'[p] = r /\ \A q \in Procs \ {p} : c'[q] = c[q]
  BY <1>3, <1>4, CallBecomes
<1>6. unread' \in [Labs -> SUBSET Objects] /\ \A l \in Labs \ Own(p) : unread'[l] = unread[l]
  BY <1>1 DEF Types
<1>7. Types' /\ Spares(p)
  BY <1>1, <1>2, <1>4, <1>5, <1>6, CallAndHistory
<1>. QED  BY <1>1, <1>4, <1>5, <1>7

LEMMA ThenMoves ==
    ASSUME Types, NEW p \in Procs, NEW pc \in Tearing, Then(p, pc)
    PROVE  Moved(p, pc) \/ Advances(p, TRUE)
BY GotoMoves, NextWorkerMoves DEF Then, PCs

\* A teardown's call moves on or turns to the next worker.
LEMMA TearingCall ==
    ASSUME Types, NEW p \in Procs, NEW pc \in Tearing, NEW failed \in BOOLEAN, Moved(p, pc) \/ Advances(p, failed)
    PROVE  /\ c' \in [Procs -> CallRecords] /\ \A q \in Procs \ {p} : c'[q] = c[q]
           /\ c'[p].i \in 1..Len(LabsOf[p]) /\ c'[p].pc # "pid"
BY DEF Moved, Advances, Types, Tearing

LEMMA StopCollectorField ==
    ASSUME Types, NEW p \in Procs, StopCollector(p)
    PROVE  /\ Types' /\ Spares(p) /\ UNCHANGED <<lock, net, up, tele, orphan, orphaned, unread>>
           /\ c' \in [Procs -> CallRecords] /\ c[p].pc = "stop" /\ c'[p].pc = "untele" /\ c'[p].i = c[p].i
           /\ c'[p].bad = c[p].bad
           /\ \/ /\ pidfile' = [pidfile EXCEPT ![Lab(p)] = 0]
                 /\ proc' = IF Running(Lab(p)) THEN [proc EXCEPT ![pidfile[Lab(p)]] = "free"] ELSE proc
              \/ Running(Lab(p)) /\ c'[p].err = TRUE /\ UNCHANGED <<proc, pidfile>>
<1>1. c[p] \in CallRecords /\ c \in [Procs -> CallRecords] /\ c[p].i \in 1..Len(LabsOf[p])
  BY DEF Types
<1>2. Lab(p) \in Own(p) /\ Lab(p) \in Labs
  BY LabType
<1>3. c[p].pc = "stop" /\ UNCHANGED <<lock, net, up, tele, orphan, orphaned, unread>>
  BY DEF StopCollector
<1>4. CASE /\ proc' = IF Running(Lab(p)) THEN [proc EXCEPT ![pidfile[Lab(p)]] = "free"] ELSE proc
           /\ pidfile' = [pidfile EXCEPT ![Lab(p)] = 0] /\ Goto(p, "untele")
  <2>1. Moved(p, "untele")
    BY <1>4, GotoMoves DEF PCs, Tearing
  <2>2. /\ c' \in [Procs -> CallRecords] /\ \A q \in Procs \ {p} : c'[q] = c[q]
        /\ c'[p].i = c[p].i /\ c'[p].pc = "untele" /\ c'[p].bad = c[p].bad
    BY <2>1 DEF Moved
  <2>3. pidfile' \in [Labs -> Pids \cup {0}] /\ \A k \in Labs \ {Lab(p)} : pidfile'[k] = pidfile[k]
    BY <1>2, <1>4 DEF Types
  <2>4. /\ proc' \in [Pids -> Labs \cup {"other", "free"}]
        /\ \A i \in Pids : proc'[i] # proc[i] => {proc[i], proc'[i]} \subseteq {Lab(p), "free"}
    BY <1>2, <1>4 DEF Types, Running
  <2>5. Types' /\ Spares(p)
    BY <1>1, <1>2, <1>3, <2>2, <2>3, <2>4, CallAndLabs DEF Types
  <2>. QED  BY <1>3, <1>4, <2>2, <2>5
<1>5. CASE Running(Lab(p)) /\ c' = [c EXCEPT ![p].pc = "untele", ![p].err = TRUE] /\ UNCHANGED <<proc, pidfile>>
  <2>. DEFINE r == [c[p] EXCEPT !.pc = "untele", !.err = TRUE]
  <2>1. c' = [c EXCEPT ![p] = r]
    BY <1>1, <1>5, Zenon
  <2>2. r \in CallRecords /\ r.pc = "untele" /\ r.i = c[p].i /\ r.bad = c[p].bad /\ r.err = TRUE
    BY <1>1 DEF CallRecords, PCs, Tearing
  <2>. HIDE DEF r
  <2>3. c' \in [Procs -> CallRecords] /\ c'[p] = r /\ \A q \in Procs \ {p} : c'[q] = c[q]
    BY <2>1, <2>2, CallBecomes
  <2>4. lock' \in Procs \cup {"none"} /\ UNCHANGED host
    BY <1>3, <1>5 DEF Types, host
  <2>5. Types' /\ Spares(p)
    BY <1>1, <2>2, <2>3, <2>4, CallAlone
  <2>. QED  BY <1>3, <1>5, <2>2, <2>3, <2>5
<1>. QED  BY <1>4, <1>5, Zenon DEF StopCollector

LEMMA RemoveTelegrafField ==
    ASSUME Types, NEW p \in Procs, RemoveTelegraf(p)
    PROVE  /\ Types' /\ Spares(p) /\ UNCHANGED <<lock, net, up, proc, pidfile, orphan, orphaned, unread>>
           /\ c[p].pc = "untele" /\ tele' \subseteq tele /\ (Moved(p, "destroy") \/ Advances(p, TRUE))
<1>1. /\ tele' \in {tele, tele \ {Lab(p)}} /\ UNCHANGED <<lock, net, up, proc, pidfile, orphan, orphaned, unread>>
      /\ c[p].pc = "untele" /\ Then(p, "destroy")
  BY DEF RemoveTelegraf
<1>2. Moved(p, "destroy") \/ Advances(p, TRUE)
  BY <1>1, ThenMoves DEF Tearing
<1>3. /\ c' \in [Procs -> CallRecords] /\ \A q \in Procs \ {p} : c'[q] = c[q]
      /\ c'[p].i \in 1..Len(LabsOf[p]) /\ c'[p].pc # "pid"
  BY <1>2, TearingCall DEF Tearing
<1>4. Lab(p) \in Own(p) /\ Lab(p) \in Labs
  BY LabType
<1>5. tele' \subseteq tele \cup {Lab(p)} /\ tele \subseteq tele' \cup {Lab(p)} /\ tele' \subseteq tele
  BY <1>1
<1>6. Types' /\ Spares(p)
  BY <1>1, <1>3, <1>4, <1>5, CallAndLabs DEF Types
<1>. QED  BY <1>1, <1>2, <1>5, <1>6

\* What a destroy does to the lab.
LEMMA DestroyedField ==
    ASSUME Types, NEW p \in Procs, NEW rc \in BOOLEAN, Destroyed(p, rc)
    PROVE  /\ net' \in [Labs -> SUBSET Nat] /\ \A k \in Labs \ {Lab(p)} : net'[k] = net[k]
           /\ \A k \in Labs : net'[k] \subseteq net[k]
           /\ up' \subseteq up /\ up \subseteq up' \cup {Lab(p)}
<1>1. Lab(p) \in Own(p) /\ Lab(p) \in Labs
  BY LabType
<1>2. net' = net \/ net' = [net EXCEPT ![Lab(p)] = {}]
  BY DEF Destroyed
<1>3. up' = up \/ up' = up \ {Lab(p)}
  BY DEF Destroyed
<1>. QED  BY <1>1, <1>2, <1>3 DEF Types

LEMMA DestroyField ==
    ASSUME Types, NEW p \in Procs, Destroy(p)
    PROVE  /\ Types' /\ Spares(p) /\ UNCHANGED <<lock, tele, proc, pidfile, orphan, orphaned, unread>>
           /\ up' \subseteq up /\ \A k \in Labs : net'[k] \subseteq net[k]
           /\ c' \in [Procs -> CallRecords] /\ c[p].pc = "destroy" /\ c'[p].pc = "rm" /\ c'[p].i = c[p].i
           /\ c'[p].bad = c[p].bad /\ c'[p].err = c[p].err
<1>1. PICK rc \in BOOLEAN : Destroyed(p, rc) /\ c' = [c EXCEPT ![p].pc = "rm", ![p].rc = rc]
  BY DEF Destroy
<1>2. UNCHANGED <<lock, tele, proc, pidfile, orphan, orphaned, unread>> /\ c[p].pc = "destroy"
  BY DEF Destroy
<1>3. c[p] \in CallRecords /\ c \in [Procs -> CallRecords] /\ c[p].i \in 1..Len(LabsOf[p])
  BY DEF Types
<1>. DEFINE r == [c[p] EXCEPT !.pc = "rm", !.rc = rc]
<1>4. c' = [c EXCEPT ![p] = r]
  BY <1>1, <1>3, Zenon
<1>5. r \in CallRecords /\ r.pc = "rm" /\ r.i = c[p].i /\ r.bad = c[p].bad /\ r.err = c[p].err
  BY <1>1, <1>3 DEF CallRecords, PCs, Tearing
<1>. HIDE DEF r
<1>6. c' \in [Procs -> CallRecords] /\ c'[p] = r /\ \A q \in Procs \ {p} : c'[q] = c[q]
  BY <1>4, <1>5, CallBecomes
<1>7. /\ net' \in [Labs -> SUBSET Nat] /\ \A k \in Labs \ {Lab(p)} : net'[k] = net[k]
      /\ \A k \in Labs : net'[k] \subseteq net[k]
      /\ up' \subseteq up /\ up \subseteq up' \cup {Lab(p)}
  BY <1>1, DestroyedField
<1>8. Lab(p) \in Own(p) /\ Lab(p) \in Labs
  BY LabType
<1>9. Types' /\ Spares(p)
  BY <1>2, <1>3, <1>5, <1>6, <1>7, <1>8, CallAndLabs DEF Types
<1>. QED  BY <1>2, <1>5, <1>6, <1>7, <1>9

LEMMA RemoveContainersField ==
    ASSUME Types, NEW p \in Procs, RemoveContainers(p)
    PROVE  /\ Types' /\ Spares(p) /\ UNCHANGED <<lock, net, tele, proc, pidfile, orphan, orphaned, unread>>
           /\ c[p].pc = "rm" /\ up' \subseteq up /\ (Moved(p, "gone") \/ Advances(p, TRUE))
<1>1. /\ up' \in {up, up \ {Lab(p)}} /\ UNCHANGED <<lock, net, tele, proc, pidfile, orphan, orphaned, unread>>
      /\ c[p].pc = "rm" /\ Then(p, "gone")
  BY DEF RemoveContainers
<1>2. Moved(p, "gone") \/ Advances(p, TRUE)
  BY <1>1, ThenMoves DEF Tearing
<1>3. /\ c' \in [Procs -> CallRecords] /\ \A q \in Procs \ {p} : c'[q] = c[q]
      /\ c'[p].i \in 1..Len(LabsOf[p]) /\ c'[p].pc # "pid"
  BY <1>2, TearingCall DEF Tearing
<1>4. Lab(p) \in Own(p) /\ Lab(p) \in Labs
  BY LabType
<1>5. up' \subseteq up \cup {Lab(p)} /\ up \subseteq up' \cup {Lab(p)} /\ up' \subseteq up
  BY <1>1
<1>6. Types' /\ Spares(p)
  BY <1>1, <1>3, <1>4, <1>5, CallAndLabs DEF Types
<1>. QED  BY <1>1, <1>2, <1>5, <1>6

\* What a query overlooks is remembered of the lab it was about.
LEMMA OverlookedField ==
    ASSUME Types, NEW p \in Procs, NEW objects \in SUBSET Objects, Overlooked(p, objects)
    PROVE  /\ unread' \in [Labs -> SUBSET Objects] /\ \A l \in Labs \ Own(p) : unread'[l] = unread[l]
           /\ \A l \in Labs : unread[l] \subseteq unread'[l]
           /\ unread'[Lab(p)] = unread[Lab(p)] \cup objects
<1>1. Lab(p) \in Own(p) /\ Lab(p) \in Labs
  BY LabType
<1>2. unread' = [unread EXCEPT ![Lab(p)] = unread[Lab(p)] \cup objects] /\ unread \in [Labs -> SUBSET Objects]
  BY DEF Overlooked, Types
<1>. QED  BY <1>1, <1>2

\* What is present of a lab, object by object.
LEMMA PresentObjects ==
    ASSUME NEW l
    PROVE  /\ Present(l) \subseteq Objects
           /\ "network" \in Present(l) <=> net[l] # {}
           /\ "containers" \in Present(l) <=> l \in up
           /\ "telegraf" \in Present(l) <=> l \in tele
BY DEF Present, Objects

LEMMA WaitForRemovalField ==
    ASSUME Types, NEW p \in Procs, WaitForRemoval(p)
    PROVE  /\ Types' /\ Spares(p) /\ UNCHANGED <<lock, net, tele, proc, pidfile, orphan, orphaned>>
           /\ c[p].pc = "gone" /\ up' \subseteq up /\ (\A l \in Labs : unread[l] \subseteq unread'[l])
           /\ \/ /\ Lab(p) \notin up \/ "containers" \in unread'[Lab(p)]
                 /\ up' = up /\ (Moved(p, "netrm") \/ Moved(p, "again"))
              \/ Moved(p, "gone")
              \/ Advances(p, TRUE)
<1>1. c[p].pc = "gone" /\ UNCHANGED <<lock, net, tele, proc, pidfile, orphan, orphaned>>
  BY DEF WaitForRemoval
<1>2. Lab(p) \in Own(p) /\ Lab(p) \in Labs
  BY LabType
<1>. DEFINE listed == Present(Lab(p)) \cap {"containers"}
<1>3. CASE Overlooked(p, listed) /\ Goto(p, IF c[p].rc THEN "netrm" ELSE "again") /\ UNCHANGED up
  <2>1. Moved(p, "netrm") \/ Moved(p, "again")
    BY <1>3, GotoMoves DEF PCs, Tearing
  <2>2. listed \in SUBSET Objects /\ (Lab(p) \in up => "containers" \in listed)
    BY PresentObjects
  <2>. HIDE DEF listed
  <2>3. /\ unread' \in [Labs -> SUBSET Objects] /\ (\A l \in Labs \ Own(p) : unread'[l] = unread[l])
        /\ (\A l \in Labs : unread[l] \subseteq unread'[l]) /\ unread'[Lab(p)] = unread[Lab(p)] \cup listed
    BY <1>3, <2>2, OverlookedField
  <2>4. /\ c' \in [Procs -> CallRecords] /\ \A q \in Procs \ {p} : c'[q] = c[q]
        /\ c'[p].i \in 1..Len(LabsOf[p]) /\ c'[p].pc # "pid"
    BY <2>1 DEF Moved, Types
  <2>5. Types' /\ Spares(p)
    BY <1>1, <1>3, <2>3, <2>4, CallAndHistory
  <2>. QED  BY <1>1, <1>3, <2>1, <2>2, <2>3, <2>5
<1>4. CASE Lab(p) \in up /\ up' = up \ {Lab(p)} /\ UNCHANGED <<c, unread>>
  <2>1. Moved(p, "gone")
    BY <1>1, <1>4 DEF Moved, Types
  <2>2. Types' /\ Spares(p)
    BY <1>1, <1>2, <1>4, <2>1, CallAndLabs DEF Types, Moved
  <2>. QED  BY <1>1, <1>4, <2>1, <2>2
<1>5. CASE c' = NextWorker(p, TRUE) /\ UNCHANGED <<up, unread>>
  <2>1. Advances(p, TRUE)
    BY <1>5, NextWorkerMoves
  <2>2. /\ c' \in [Procs -> CallRecords] /\ \A q \in Procs \ {p} : c'[q] = c[q]
        /\ c'[p].i \in 1..Len(LabsOf[p]) /\ c'[p].pc # "pid"
    BY <2>1, TearingCall DEF Tearing
  <2>3. UNCHANGED host /\ lock' \in Procs \cup {"none"}
    BY <1>1, <1>5 DEF host, Types
  <2>4. Types' /\ Spares(p)
    BY <2>2, <2>3, CallAlone
  <2>. QED  BY <1>1, <1>5, <2>1, <2>4
<1>. QED  BY <1>3, <1>4, <1>5 DEF WaitForRemoval

LEMMA DestroyAgainField ==
    ASSUME Types, NEW p \in Procs, DestroyAgain(p)
    PROVE  /\ Types' /\ Spares(p) /\ UNCHANGED <<lock, tele, proc, pidfile, orphan, orphaned, unread>>
           /\ up' \subseteq up /\ \A k \in Labs : net'[k] \subseteq net[k]
           /\ c[p].pc = "again"
           /\ \/ /\ c' \in [Procs -> CallRecords] /\ c'[p].pc = "netrm" /\ c'[p].i = c[p].i
                 /\ c'[p].bad = c[p].bad /\ c'[p].err = c[p].err
              \/ Advances(p, TRUE)
<1>1. c[p].pc = "again" /\ UNCHANGED <<lock, tele, proc, pidfile, orphan, orphaned, unread>>
  BY DEF DestroyAgain
<1>2. Lab(p) \in Own(p) /\ Lab(p) \in Labs
  BY LabType
<1>3. c[p] \in CallRecords /\ c \in [Procs -> CallRecords] /\ c[p].i \in 1..Len(LabsOf[p])
  BY DEF Types
<1>4. CASE \E rc \in BOOLEAN : Destroyed(p, rc) /\ c' = [c EXCEPT ![p].pc = "netrm", ![p].rc = rc]
  <2>1. PICK rc \in BOOLEAN : Destroyed(p, rc) /\ c' = [c EXCEPT ![p].pc = "netrm", ![p].rc = rc]
    BY <1>4
  <2>. DEFINE r == [c[p] EXCEPT !.pc = "netrm", !.rc = rc]
  <2>2. c' = [c EXCEPT ![p] = r]
    BY <1>3, <2>1, Zenon
  <2>3. r \in CallRecords /\ r.pc = "netrm" /\ r.i = c[p].i /\ r.bad = c[p].bad /\ r.err = c[p].err
    BY <1>3, <2>1 DEF CallRecords, PCs, Tearing
  <2>. HIDE DEF r
  <2>4. c' \in [Procs -> CallRecords] /\ c'[p] = r /\ \A q \in Procs \ {p} : c'[q] = c[q]
    BY <2>2, <2>3, CallBecomes
  <2>5. /\ net' \in [Labs -> SUBSET Nat] /\ \A k \in Labs \ {Lab(p)} : net'[k] = net[k]
        /\ \A k \in Labs : net'[k] \subseteq net[k]
        /\ up' \subseteq up /\ up \subseteq up' \cup {Lab(p)}
    BY <2>1, DestroyedField
  <2>6. Types' /\ Spares(p)
    BY <1>1, <1>2, <1>3, <2>3, <2>4, <2>5, CallAndLabs DEF Types
  <2>. QED  BY <1>1, <2>3, <2>4, <2>5, <2>6
<1>5. CASE Destroyed(p, FALSE) /\ c' = NextWorker(p, TRUE)
  <2>1. Advances(p, TRUE)
    BY <1>5, NextWorkerMoves
  <2>2. /\ c' \in [Procs -> CallRecords] /\ \A q \in Procs \ {p} : c'[q] = c[q]
        /\ c'[p].i \in 1..Len(LabsOf[p]) /\ c'[p].pc # "pid"
    BY <2>1, TearingCall DEF Tearing
  <2>3. /\ net' \in [Labs -> SUBSET Nat] /\ \A k \in Labs \ {Lab(p)} : net'[k] = net[k]
        /\ \A k \in Labs : net'[k] \subseteq net[k]
        /\ up' \subseteq up /\ up \subseteq up' \cup {Lab(p)}
    BY <1>5, DestroyedField
  <2>4. Types' /\ Spares(p)
    BY <1>1, <1>2, <2>2, <2>3, CallAndLabs DEF Types
  <2>. QED  BY <1>1, <2>1, <2>3, <2>4
<1>. QED  BY <1>4, <1>5 DEF DestroyAgain

LEMMA RemoveNetworkField ==
    ASSUME Types, NEW p \in Procs, RemoveNetwork(p)
    PROVE  /\ Types' /\ Spares(p) /\ UNCHANGED <<lock, up, tele, proc, pidfile, orphan, orphaned, unread>>
           /\ c[p].pc = "netrm" /\ (\A k \in Labs : net'[k] \subseteq net[k])
           /\ (Moved(p, "verify") \/ Advances(p, TRUE))
<1>1. /\ net' \in {net, [net EXCEPT ![Lab(p)] = {}]} /\ UNCHANGED <<lock, up, tele, proc, pidfile, orphan, orphaned, unread>>
      /\ c[p].pc = "netrm" /\ Then(p, "verify")
  BY DEF RemoveNetwork
<1>2. Moved(p, "verify") \/ Advances(p, TRUE)
  BY <1>1, ThenMoves DEF Tearing
<1>3. /\ c' \in [Procs -> CallRecords] /\ \A q \in Procs \ {p} : c'[q] = c[q]
      /\ c'[p].i \in 1..Len(LabsOf[p]) /\ c'[p].pc # "pid"
  BY <1>2, TearingCall DEF Tearing
<1>4. Lab(p) \in Own(p) /\ Lab(p) \in Labs
  BY LabType
<1>5. net' \in [Labs -> SUBSET Nat] /\ (\A k \in Labs \ {Lab(p)} : net'[k] = net[k]) /\ \A k \in Labs : net'[k] \subseteq net[k]
  BY <1>1, <1>4 DEF Types
<1>6. Types' /\ Spares(p)
  BY <1>1, <1>3, <1>4, <1>5, CallAndLabs DEF Types
<1>. QED  BY <1>1, <1>2, <1>5, <1>6

LEMMA VerifyField ==
    ASSUME Types, NEW p \in Procs, Verify(p)
    PROVE  /\ Types' /\ Spares(p) /\ UNCHANGED <<lock, net, up, tele, proc, pidfile, orphan, orphaned>>
           /\ c[p].pc = "verify" /\ (\A l \in Labs : unread[l] \subseteq unread'[l])
           /\ \/ Advances(p, TRUE)
              \/ Advances(p, FALSE) /\ ~c[p].err /\ Present(Lab(p)) \ {"containers"} \subseteq unread'[Lab(p)]
<1>1. c[p].pc = "verify" /\ UNCHANGED <<lock, net, up, tele, proc, pidfile, orphan, orphaned>>
  BY DEF Verify
<1>2. CASE c' = NextWorker(p, TRUE) /\ UNCHANGED unread
  <2>1. Advances(p, TRUE)
    BY <1>2, NextWorkerMoves
  <2>2. /\ c' \in [Procs -> CallRecords] /\ \A q \in Procs \ {p} : c'[q] = c[q]
        /\ c'[p].i \in 1..Len(LabsOf[p]) /\ c'[p].pc # "pid"
    BY <2>1, TearingCall DEF Tearing
  <2>3. UNCHANGED host /\ lock' \in Procs \cup {"none"}
    BY <1>1, <1>2 DEF host, Types
  <2>4. Types' /\ Spares(p)
    BY <2>2, <2>3, CallAlone
  <2>. QED  BY <1>1, <1>2, <2>1, <2>4
<1>3. CASE Verified(p, {"network", "telegraf"})
  <2>. DEFINE objects == Present(Lab(p)) \cap {"network", "telegraf"}
  <2>1. PICK found \in Found(objects) :
            LET failed == c[p].err \/ ~c[p].rc \/ found # {} IN
            /\ c' = NextWorker(p, failed)
            /\ IF failed THEN UNCHANGED unread ELSE Overlooked(p, objects)
    BY <1>3 DEF Verified
  <2>. DEFINE failed == c[p].err \/ ~c[p].rc \/ found # {}
  <2>2. /\ c' = NextWorker(p, failed) /\ failed \in BOOLEAN
        /\ failed => UNCHANGED unread
        /\ ~failed => Overlooked(p, objects) /\ ~c[p].err
    BY <2>1
  <2>3. objects \in SUBSET Objects /\ Present(Lab(p)) \ {"containers"} \subseteq objects
    BY PresentObjects DEF Objects
  <2>. HIDE DEF failed, objects
  <2>4. /\ unread' \in [Labs -> SUBSET Objects] /\ (\A l \in Labs \ Own(p) : unread'[l] = unread[l])
        /\ (\A l \in Labs : unread[l] \subseteq unread'[l])
        /\ ~failed => unread'[Lab(p)] = unread[Lab(p)] \cup objects
    <3>1. CASE failed
      BY <2>2, <3>1 DEF Types
    <3>2. CASE ~failed
      BY <2>2, <2>3, <3>2, OverlookedField
    <3>. QED  BY <3>1, <3>2
  <2>5. Advances(p, failed)
    BY <2>2, NextWorkerMoves
  <2>6. /\ c' \in [Procs -> CallRecords] /\ \A q \in Procs \ {p} : c'[q] = c[q]
        /\ c'[p].i \in 1..Len(LabsOf[p]) /\ c'[p].pc # "pid"
    BY <2>2, <2>5, TearingCall DEF Tearing
  <2>7. Types' /\ Spares(p)
    BY <1>1, <2>4, <2>6, CallAndHistory
  <2>8. failed = TRUE \/ failed = FALSE
    BY <2>2
  <2>. QED  BY <1>1, <2>2, <2>3, <2>4, <2>5, <2>7, <2>8
<1>. QED  BY <1>2, <1>3 DEF Verify

LEMMA CrashField ==
    ASSUME Types, NEW p \in Procs, Crash(p)
    PROVE  /\ Types' /\ Spares(p) /\ Moved(p, "dead") /\ Crashes /\ Active(p) /\ UNCHANGED <<net, up, tele, proc, pidfile, unread>>
           /\ lock' = IF lock = p THEN "none" ELSE lock
           /\ \A l \in Labs : orphan'[l] # orphan[l] => l \in orphaned'
<1>1. /\ Crashes /\ Active(p) /\ Goto(p, "dead") /\ lock' = (IF lock = p THEN "none" ELSE lock)
      /\ UNCHANGED <<net, up, tele, proc, pidfile, unread>>
  BY DEF Crash
<1>2. PICK left \in SUBSET (IF c[p].pc = "deploy" THEN Busy(p) ELSE {}) :
          /\ orphan' = [l \in Labs |-> IF l \in left THEN c[p].sub[l] ELSE orphan[l]]
          /\ orphaned' = orphaned \cup left
  BY DEF Crash
<1>3. Moved(p, "dead")
  BY <1>1, GotoMoves DEF PCs
<1>4. left \subseteq Labs
  BY <1>2, OwnLabs DEF Busy
<1>5. orphan' \in [Labs -> SUBSET Nat] /\ orphaned' \subseteq Labs
  BY <1>2, <1>4 DEF Types, CallRecords
<1>6. \A q \in Procs : c'[q].i \in 1..Len(LabsOf[q]) /\ (c'[q].pc = "pid" => c'[q].pid # 0)
  BY <1>3 DEF Moved, Types
<1>7. Types'
  BY <1>1, <1>3, <1>5, <1>6 DEF Types, Moved
<1>8. Spares(p)
  BY <1>1, <1>2, <1>3 DEF Spares, Moved
<1>9. \A l \in Labs : orphan'[l] # orphan[l] => l \in orphaned'
  BY <1>2
<1>. QED  BY <1>1, <1>3, <1>7, <1>8, <1>9

\* The steps that no process takes.
LEMMA OrphanRunsField ==
    ASSUME Types, NEW l \in Labs, OrphanRuns(l)
    PROVE  /\ Types' /\ UNCHANGED <<lock, tele, proc, pidfile, c, orphaned, unread>> /\ orphan[l] # {}
           /\ \A k \in Labs \ {l} : net'[k] = net[k] /\ (k \in up' <=> k \in up) /\ orphan'[k] = orphan[k]
           /\ orphan'[l] = {} /\ up \subseteq up' /\ (net[l] # {} => net'[l] = net[l])
<1>1. /\ orphan[l] # {} /\ orphan' = [orphan EXCEPT ![l] = {}] /\ UNCHANGED <<lock, tele, proc, pidfile, c, orphaned, unread>>
      /\ net' = net \/ (net[l] = {} /\ net' = [net EXCEPT ![l] = orphan[l]])
      /\ up' = up \/ up' = up \cup {l}
  BY DEF OrphanRuns
<1>2. net' \in [Labs -> SUBSET Nat] /\ orphan' \in [Labs -> SUBSET Nat] /\ up' \subseteq Labs
  BY <1>1 DEF Types
<1>3. Types'
  BY <1>1, <1>2 DEF Types
<1>. QED  BY <1>1, <1>3 DEF Types

LEMMA ProcessEnds ==
    ASSUME Types, NEW i \in Pids, CollectorDies(i) \/ PidReused(i)
    PROVE  /\ Types' /\ UNCHANGED <<lock, net, up, tele, pidfile, c, orphan, orphaned, unread>>
           /\ \A j \in Pids : proc'[j] = proc[j] \/ (proc[j] # "other" /\ proc'[j] \in {"other", "free"})
<1>1. /\ UNCHANGED <<lock, net, up, tele, pidfile, c, orphan, orphaned, unread>>
      /\ \E v \in {"other", "free"} : proc[i] # "other" /\ proc' = [proc EXCEPT ![i] = v]
  BY HostAssumption DEF CollectorDies, PidReused
<1>2. proc' \in [Pids -> Labs \cup {"other", "free"}]
  BY <1>1 DEF Types
<1>3. Types'
  BY <1>1, <1>2 DEF Types
<1>. QED  BY <1>1, <1>3 DEF Types

-----------------------------------------------------------------------------
(* The stages: what any step of them does                                  *)

Deploying(p) == Deploy(p) \/ TakeLock(p) \/ CancelWait(p) \/ DeployStep(p)
Observing(p) == ObserveStep(p) \/ ObserveAgain(p)
Holding == {"alloc", "check", "deploy"}

\* Which steps a deployment has.
LEMMA DeployingCases ==
    ASSUME NEW p \in Procs, Deploying(p)
    PROVE  \/ Deploy(p) \/ TakeLock(p) \/ CancelWait(p) \/ Allocate(p) \/ CheckSlots(p) \/ DeployReturns(p)
           \/ \E l \in Own(p) : StartLab(p, l) \/ CreateNetwork(p, l) \/ BootLab(p, l) \/ LabFails(p, l)
BY Zenon DEF Deploying, DeployStep

LEMMA DeployingField ==
    ASSUME Types, NEW p \in Procs, Deploying(p)
    PROVE  /\ Types' /\ Spares(p) /\ UNCHANGED <<tele, proc, pidfile, orphan, orphaned>>
           /\ c[p].pc \in {"idle", "lock"} \cup Holding /\ c'[p].pc \in {"lock", "collector", "failed"} \cup Holding
           /\ c[p].pc # "deploy" => UNCHANGED host
           /\ \/ lock' = lock /\ (c'[p].pc \in Holding => c[p].pc \in Holding)
              \/ lock = "none" /\ lock' = p
              \/ c[p].pc \in Holding /\ lock' = "none" /\ c'[p].pc \notin Holding
<1>1. CASE Deploy(p) \/ CancelWait(p)
  BY <1>1, DeployField, CancelWaitField DEF Moved, Holding, host
<1>2. CASE TakeLock(p)
  BY <1>2, TakeLockField DEF Moved, Holding, host
<1>3. CASE Allocate(p) \/ CheckSlots(p)
  BY <1>3, AllocateField, CheckSlotsField DEF Moved, Holding, host
<1>4. CASE DeployReturns(p)
  BY <1>4, DeployReturnsField DEF Moved, Holding, host
<1>5. CASE \E l \in Own(p) : StartLab(p, l)
  BY <1>5, StartLabField DEF Holding, host
<1>6. CASE \E l \in Own(p) : CreateNetwork(p, l)
  BY <1>6, CreateNetworkField DEF Holding
<1>7. CASE \E l \in Own(p) : BootLab(p, l) \/ LabFails(p, l)
  BY <1>7, BootLabField DEF Holding
<1>. QED  BY <1>1, <1>2, <1>3, <1>4, <1>5, <1>6, <1>7, DeployingCases

LEMMA ObservingField ==
    ASSUME Types, NEW p \in Procs, Observing(p)
    PROVE  /\ Types' /\ Spares(p) /\ UNCHANGED <<lock, net, up, orphan, orphaned>>
           /\ c[p].pc \in {"collector", "pid", "telegraf", "agents", "failed"}
           /\ c'[p].pc \in {"collector", "pid", "telegraf", "agents", "ready", "failed"}
           /\ c'[p].pc = "ready" => \A l \in Own(p) : l \in up /\ net[l] # {}
           /\ \/ StartCollector(p) \/ WritePid(p)
              \/ UNCHANGED <<proc, pidfile>> /\ c[p].pc # "pid" /\ c'[p].pc # "pid"
<1>1. CASE CollectorKept(p)
  BY <1>1, CollectorKeptField DEF Moved, host
<1>2. CASE StartCollector(p)
  BY <1>2, StartCollectorField
<1>3. CASE WritePid(p)
  BY <1>3, WritePidField
<1>4. CASE StartTelegraf(p)
  BY <1>4, StartTelegrafField
<1>5. CASE ObserveFails(p)
  BY <1>5, ObserveFailsField DEF Moved
<1>6. CASE Validate(p)
  BY <1>6, ValidateField DEF Moved, host
<1>7. CASE ObserveAgain(p)
  BY <1>7, ObserveAgainField DEF host
<1>. QED  BY <1>1, <1>2, <1>3, <1>4, <1>5, <1>6, <1>7 DEF Observing, ObserveStep

LEMMA TeardownField ==
    ASSUME Types, NEW p \in Procs, TeardownStep(p)
    PROVE  /\ Types' /\ Spares(p) /\ UNCHANGED <<lock, orphan, orphaned>>
           /\ c[p].pc \in Tearing /\ c'[p].pc \in Tearing \cup {"dirty", "down"}
           /\ up' \subseteq up /\ tele' \subseteq tele
           /\ (\A k \in Labs : net'[k] \subseteq net[k] /\ unread[k] \subseteq unread'[k])
           /\ StopCollector(p) \/ UNCHANGED <<proc, pidfile>>
<1>1. CASE StopCollector(p)
  BY <1>1, StopCollectorField DEF Tearing
<1>2. CASE RemoveTelegraf(p)
  BY <1>2, RemoveTelegrafField DEF Tearing, Moved, Advances
<1>3. CASE Destroy(p)
  BY <1>3, DestroyField DEF Tearing
<1>4. CASE RemoveContainers(p)
  BY <1>4, RemoveContainersField DEF Tearing, Moved, Advances
<1>5. CASE WaitForRemoval(p)
  BY <1>5, WaitForRemovalField DEF Tearing, Moved, Advances
<1>6. CASE DestroyAgain(p)
  BY <1>6, DestroyAgainField DEF Tearing, Advances
<1>7. CASE RemoveNetwork(p)
  BY <1>7, RemoveNetworkField DEF Tearing, Moved, Advances
<1>8. CASE Verify(p)
  BY <1>8, VerifyField DEF Tearing, Advances, host
<1>. QED  BY <1>1, <1>2, <1>3, <1>4, <1>5, <1>6, <1>7, <1>8 DEF TeardownStep

\* Every step is a stage of one process, or of none.
LEMMA StepCases ==
    ASSUME [Next]_vars
    PROVE  \/ \E p \in Procs : Deploying(p) \/ Observing(p) \/ BeginTeardown(p) \/ TeardownStep(p) \/ Crash(p)
           \/ \E l \in Labs : OrphanRuns(l)
           \/ \E i \in Pids : CollectorDies(i) \/ PidReused(i)
           \/ UNCHANGED vars
BY DEF Next, Deploying, Observing

-----------------------------------------------------------------------------
(* The inductive invariant                                                 *)

\* Whoever chooses subnets, checks its slots or deploys holds the lock.
Locked == \A p \in Procs : c[p].pc \in Holding => lock = p

OrphansAreKnown == \A l \in Labs : orphan[l] # {} => l \in orphaned

\* The subnets a pool chose do not overlap, and until the network of a lab is
\* made nothing on the host overlaps the one chosen for it.
Reserved(p) ==
    c[p].pc \in {"check", "deploy"} =>
        /\ \A l, k \in Own(p) : l # k => c[p].sub[l] \cap c[p].sub[k] = {}
        /\ \A l \in Own(p) : c[p].dep[l] \in {"todo", "busy"} =>
              c[p].sub[l] \cap Foreign = {} /\ \A k \in Labs \ orphaned : c[p].sub[l] \cap net[k] = {}

\* A lab's collector is the process its pid file names, or its owner is about to
\* write the file, or died before it did.
After == Tearing \cup {"dirty", "down", "dead"}
Tracked(l) ==
    \A i \in Pids : proc[i] = l =>
        \/ pidfile[l] = i
        \/ \E p \in Procs : l \in Own(p) /\ \/ c[p].pc = "pid" /\ c[p].pid = i /\ Lab(p) = l
                                            \/ Crashes /\ c[p].pc \in After
Alone(l) == \A i, j \in Pids : proc[i] = l /\ proc[j] = l => i = j
Unwritten(p) == c[p].pc = "pid" => pidfile[Lab(p)] = 0
Collectors == (\A l \in Labs : Tracked(l) /\ Alone(l)) /\ \A p \in Procs : Unwritten(p)

\* How far a teardown has come: the workers before the one it works on have
\* nothing left that was not overlooked unless one of them failed, and of that
\* one neither a collector after the first command nor, unless it was
\* overlooked, a container after the wait for their removal.
NoCollectorOf(l) == \A i \in Pids : proc[i] # l
Gone(l) == Present(l) \subseteq unread[l] /\ (Crashes \/ NoCollectorOf(l))
TornDown(p) ==
    /\ c[p].pc \in Tearing /\ ~c[p].bad =>
          \A k \in 1..Len(LabsOf[p]) : k < c[p].i => LabsOf[p][k] \in orphaned \/ Gone(LabsOf[p][k])
    /\ c[p].pc = "down" => \A l \in Own(p) : l \in orphaned \/ Gone(l)
    /\ c[p].pc \in {"again", "netrm", "verify"} =>
          Lab(p) \in orphaned \/ Lab(p) \notin up \/ "containers" \in unread[Lab(p)]
    /\ c[p].pc \in Tearing \ {"stop"} /\ ~c[p].err => Crashes \/ NoCollectorOf(Lab(p))

ReadyIsUp(p) == c[p].pc = "ready" => \A l \in Own(p) : l \in up /\ net[l] # {}

HostInv ==
    /\ Types /\ Locked /\ OrphansAreKnown /\ Collectors
    /\ \A p \in Pools : Reserved(p)
    /\ \A p \in Procs : TornDown(p) /\ ReadyIsUp(p)

LEMMA TypesStep ==
    ASSUME Types, [Next]_vars
    PROVE  Types'
<1>1. CASE \E p \in Procs : Deploying(p) \/ Observing(p) \/ BeginTeardown(p) \/ TeardownStep(p) \/ Crash(p)
  BY <1>1, DeployingField, ObservingField, BeginTeardownField, TeardownField, CrashField
<1>2. CASE \E l \in Labs : OrphanRuns(l)
  BY <1>2, OrphanRunsField
<1>3. CASE \E i \in Pids : CollectorDies(i) \/ PidReused(i)
  BY <1>3, ProcessEnds
<1>4. CASE UNCHANGED vars
  BY <1>4 DEF vars, host, Types
<1>. QED  BY <1>1, <1>2, <1>3, <1>4, StepCases

\* The exclusion of the deploy lock.
LEMMA LockedStep ==
    ASSUME Types, Locked, [Next]_vars
    PROVE  Locked'
<1>1. ASSUME NEW p \in Procs, Deploying(p) PROVE Locked'
  <2>1. /\ \A q \in Procs \ {p} : c'[q] = c[q]
        /\ \/ lock' = lock /\ (c'[p].pc \in Holding => c[p].pc \in Holding)
           \/ lock = "none" /\ lock' = p
           \/ c[p].pc \in Holding /\ lock' = "none" /\ c'[p].pc \notin Holding
    BY <1>1, DeployingField DEF Spares
  <2>. QED  BY <2>1, HostAssumption DEF Locked
<1>2. ASSUME NEW p \in Procs, Observing(p) \/ BeginTeardown(p) \/ TeardownStep(p) PROVE Locked'
  <2>1. (\A q \in Procs \ {p} : c'[q] = c[q]) /\ lock' = lock /\ c'[p].pc \notin Holding
    BY <1>2, ObservingField, BeginTeardownField, TeardownField DEF Spares, Holding, Tearing
  <2>. QED  BY <2>1 DEF Locked
<1>3. ASSUME NEW p \in Procs, Crash(p) PROVE Locked'
  <2>1. /\ \A q \in Procs \ {p} : c'[q] = c[q]
        /\ lock' = (IF lock = p THEN "none" ELSE lock) /\ c'[p].pc \notin Holding
    BY <1>3, CrashField DEF Moved, Holding
  <2>. QED  BY <2>1 DEF Locked
<1>4. CASE \E l \in Labs : OrphanRuns(l)
  BY <1>4, OrphanRunsField DEF Locked
<1>5. CASE \E i \in Pids : CollectorDies(i) \/ PidReused(i)
  BY <1>5, ProcessEnds DEF Locked
<1>6. CASE UNCHANGED vars
  BY <1>6 DEF vars, Locked
<1>. QED  BY <1>1, <1>2, <1>3, <1>4, <1>5, <1>6, StepCases

LEMMA OrphansStep ==
    ASSUME Types, OrphansAreKnown, [Next]_vars
    PROVE  OrphansAreKnown'
<1>1. ASSUME NEW p \in Procs, Deploying(p) \/ Observing(p) \/ BeginTeardown(p) \/ TeardownStep(p)
      PROVE  OrphansAreKnown'
  <2>1. UNCHANGED <<orphan, orphaned>>
    BY <1>1, DeployingField, ObservingField, BeginTeardownField, TeardownField DEF host
  <2>. QED  BY <2>1 DEF OrphansAreKnown
<1>2. ASSUME NEW p \in Procs, Crash(p) PROVE OrphansAreKnown'
  BY <1>2, CrashField DEF OrphansAreKnown, Spares
<1>3. CASE \E l \in Labs : OrphanRuns(l)
  BY <1>3, OrphanRunsField DEF OrphansAreKnown
<1>4. CASE \E i \in Pids : CollectorDies(i) \/ PidReused(i)
  BY <1>4, ProcessEnds DEF OrphansAreKnown
<1>5. CASE UNCHANGED vars
  BY <1>5 DEF vars, host, OrphansAreKnown
<1>. QED  BY <1>1, <1>2, <1>3, <1>4, <1>5, StepCases

\* What a pool chose stays free as long as the networks of the others shrink.
LEMMA ReservedStays ==
    ASSUME NEW p \in Pools, Reserved(p), c'[p] = c[p], orphaned \subseteq orphaned',
           \A k \in Labs \ orphaned' : net'[k] \subseteq net[k]
    PROVE  Reserved(p)'
<1>1. SUFFICES ASSUME c[p].pc \in {"check", "deploy"}
               PROVE  /\ \A l, k \in Own(p) : l # k => c[p].sub[l] \cap c[p].sub[k] = {}
                      /\ \A l \in Own(p) : c[p].dep[l] \in {"todo", "busy"} =>
                            c[p].sub[l] \cap Foreign = {} /\ \A k \in Labs \ orphaned' : c[p].sub[l] \cap net'[k] = {}
  BY DEF Reserved, Own
<1>2. /\ \A l, k \in Own(p) : l # k => c[p].sub[l] \cap c[p].sub[k] = {}
      /\ \A l \in Own(p) : c[p].dep[l] \in {"todo", "busy"} =>
            c[p].sub[l] \cap Foreign = {} /\ \A k \in Labs \ orphaned : c[p].sub[l] \cap net[k] = {}
  BY <1>1 DEF Reserved
<1>3. \A k \in Labs \ orphaned' : k \in Labs \ orphaned
  OBVIOUS
<1>. QED  BY <1>2, <1>3

\* The choice itself.
LEMMA AllocateReserves ==
    ASSUME Types, NEW p \in Pools, Allocate(p)
    PROVE  Reserved(p)'
<1>1. p \in Procs
  BY HostAssumption
<1>2. CASE Moved(p, "failed")
  BY <1>2 DEF Moved, Reserved
<1>3. CASE ~Moved(p, "failed")
  <2>1. /\ UNCHANGED host /\ Len(Selected(p)) >= Len(LabsOf[p])
        /\ \A l \in Own(p) : c'[p].sub[l] = Selected(p)[Index(p, l)]
    BY <1>1, <1>3, AllocateField
  <2>2. Apart(Selected(p)) /\ Len(Selected(p)) \in Nat /\ Len(LabsOf[p]) \in Nat
    BY <1>1, SelectedAreApart, OwnLabs DEF Apart
  <2>3. \A l \in Own(p) : Index(p, l) \in 1..Len(Selected(p)) /\ LabsOf[p][Index(p, l)] = l
    BY <1>1, <2>1, <2>2, OwnLabs
  <2>4. \A l, k \in Own(p) : l # k => c'[p].sub[l] \cap c'[p].sub[k] = {}
    BY <2>1, <2>2, <2>3 DEF Apart
  <2>5. \A l \in Own(p) : c'[p].sub[l] \cap Used = {}
    BY <2>1, <2>2, <2>3 DEF Apart
  <2>6. Foreign \subseteq Used /\ \A k \in Labs : net[k] \subseteq Used
    BY DEF Used
  <2>7. \A l \in Own(p) : c'[p].sub[l] \cap Foreign = {} /\ \A k \in Labs : c'[p].sub[l] \cap net'[k] = {}
    BY <2>1, <2>5, <2>6 DEF host
  <2>. QED  BY <2>4, <2>7 DEF Reserved, Own
<1>. QED  BY <1>2, <1>3

\* A step of the deployment of the pool itself.
LEMMA DeployingReserves ==
    ASSUME Types, NEW p \in Pools, Reserved(p), Deploying(p)
    PROVE  Reserved(p)'
<1>1. p \in Procs /\ Own(p) \subseteq Labs
  BY HostAssumption, OwnLabs
<1>2. CASE Deploy(p) \/ CancelWait(p) \/ DeployReturns(p) \/ TakeLock(p)
  BY <1>1, <1>2, DeployField, CancelWaitField, DeployReturnsField, TakeLockField DEF Moved, Reserved
<1>3. CASE Allocate(p)
  BY <1>3, AllocateReserves
<1>4. CASE CheckSlots(p)
  <2>1. UNCHANGED host /\ c[p].pc = "check"
        /\ (c'[p].pc = "failed" \/ (c'[p].sub = c[p].sub /\ c'[p].dep = c[p].dep))
    BY <1>1, <1>4, CheckSlotsField DEF Moved
  <2>2. CASE c'[p].pc = "failed"
    BY <2>2 DEF Reserved
  <2>3. CASE c'[p].sub = c[p].sub /\ c'[p].dep = c[p].dep
    <3>1. UNCHANGED <<net, orphaned>>
      BY <2>1 DEF host
    <3>2. /\ \A l, k \in Own(p) : l # k => c[p].sub[l] \cap c[p].sub[k] = {}
          /\ \A l \in Own(p) : c[p].dep[l] \in {"todo", "busy"} =>
                c[p].sub[l] \cap Foreign = {} /\ \A k \in Labs \ orphaned : c[p].sub[l] \cap net[k] = {}
      BY <2>1 DEF Reserved
    <3>. QED  BY <2>3, <3>1, <3>2 DEF Reserved, Own
  <2>. QED  BY <2>1, <2>2, <2>3
<1>5. CASE \E l \in Own(p) : StartLab(p, l)
  <2>1. PICK l \in Own(p) : StartLab(p, l)
    BY <1>5
  <2>2. /\ UNCHANGED host /\ c[p].pc = "deploy" /\ c[p].dep[l] = "todo"
        /\ c'[p].sub = c[p].sub /\ c'[p].dep = [c[p].dep EXCEPT ![l] = "busy"]
    BY <1>1, <2>1, StartLabField
  <2>3. \A k \in Own(p) : c'[p].dep[k] \in {"todo", "busy"} => c[p].dep[k] \in {"todo", "busy"}
    BY <1>1, <2>2 DEF Types, CallRecords
  <2>. QED  BY <2>2, <2>3 DEF host, Reserved, Own
<1>6. CASE \E l \in Own(p) : CreateNetwork(p, l)
  <2>1. PICK l \in Own(p) : CreateNetwork(p, l)
    BY <1>6
  <2>2. /\ c[p].pc = "deploy" /\ c[p].dep[l] = "busy" /\ c'[p].sub = c[p].sub /\ UNCHANGED orphaned
        /\ c'[p].dep = [c[p].dep EXCEPT ![l] = "net"]
        /\ net' = [net EXCEPT ![l] = IF net[l] = {} THEN c[p].sub[l] ELSE net[l]]
    BY <1>1, <2>1, CreateNetworkField
  <2>3. \A k \in Own(p) : c'[p].dep[k] \in {"todo", "busy"} => c[p].dep[k] \in {"todo", "busy"} /\ k # l
    BY <1>1, <2>2 DEF Types, CallRecords
  <2>4. /\ \A j, k \in Own(p) : j # k => c[p].sub[j] \cap c[p].sub[k] = {}
        /\ \A k \in Own(p) : c[p].dep[k] \in {"todo", "busy"} =>
              c[p].sub[k] \cap Foreign = {} /\ \A j \in Labs \ orphaned : c[p].sub[k] \cap net[j] = {}
    BY <2>2 DEF Reserved
  <2>5. \A j \in Labs : net'[j] = net[j] \/ (j = l /\ net'[j] = c[p].sub[l])
    BY <1>1, <2>2 DEF Types
  <2>6. \A k \in Own(p) : c'[p].dep[k] \in {"todo", "busy"} =>
            c[p].sub[k] \cap Foreign = {} /\ \A j \in Labs \ orphaned : c[p].sub[k] \cap net'[j] = {}
    BY <1>1, <2>1, <2>3, <2>4, <2>5
  <2>. QED  BY <2>2, <2>4, <2>6 DEF Reserved, Own
<1>7. CASE \E l \in Own(p) : BootLab(p, l) \/ LabFails(p, l)
  <2>1. PICK l \in Own(p) : BootLab(p, l) \/ LabFails(p, l)
    BY <1>7
  <2>2. /\ UNCHANGED <<net, orphaned>> /\ c[p].pc = "deploy" /\ c'[p].sub = c[p].sub
        /\ \E st \in {"done", "bad"} : c'[p].dep = [c[p].dep EXCEPT ![l] = st]
    BY <1>1, <2>1, BootLabField
  <2>3. \A k \in Own(p) : c'[p].dep[k] \in {"todo", "busy"} => c[p].dep[k] \in {"todo", "busy"}
    BY <1>1, <2>2 DEF Types, CallRecords
  <2>. QED  BY <2>2, <2>3 DEF Reserved, Own
<1>. QED  BY <1>1, <1>2, <1>3, <1>4, <1>5, <1>6, <1>7, DeployingCases

\* The lock keeps every other deployment from making a network meanwhile.
LEMMA ReservedStep ==
    ASSUME Types, Locked, OrphansAreKnown, [Next]_vars, NEW p \in Pools, Reserved(p)
    PROVE  Reserved(p)'
<1>1. p \in Procs
  BY HostAssumption
<1>2. ASSUME NEW q \in Procs, Deploying(q) PROVE Reserved(p)'
  <2>1. CASE q = p
    BY <1>2, <2>1, DeployingReserves
  <2>2. CASE q # p /\ c[p].pc \in {"check", "deploy"}
    <3>1. c[q].pc # "deploy"
      BY <1>1, <2>2 DEF Locked, Holding
    <3>2. UNCHANGED host /\ c'[p] = c[p]
      BY <1>1, <1>2, <2>2, <3>1, DeployingField DEF Spares
    <3>. QED  BY <3>2, ReservedStays DEF host
  <2>3. CASE q # p /\ c[p].pc \notin {"check", "deploy"}
    BY <1>1, <1>2, <2>3, DeployingField DEF Spares, Reserved
  <2>. QED  BY <2>1, <2>2, <2>3
<1>3. ASSUME NEW q \in Procs, Observing(q) \/ BeginTeardown(q) \/ TeardownStep(q) \/ Crash(q) PROVE Reserved(p)'
  <2>1. CASE q = p
    BY <1>1, <1>3, <2>1, ObservingField, BeginTeardownField, TeardownField, CrashField DEF Reserved, Moved, Tearing
  <2>2. CASE q # p
    <3>1. c'[p] = c[p] /\ orphaned \subseteq orphaned' /\ \A k \in Labs : net'[k] \subseteq net[k]
      BY <1>1, <1>3, <2>2, ObservingField, BeginTeardownField, TeardownField, CrashField DEF Spares, host
    <3>. QED  BY <3>1, ReservedStays
  <2>. QED  BY <2>1, <2>2
<1>4. ASSUME NEW l \in Labs, OrphanRuns(l) PROVE Reserved(p)'
  <2>1. l \in orphaned /\ UNCHANGED <<c, orphaned>> /\ \A k \in Labs \ {l} : net'[k] = net[k]
    BY <1>4, OrphanRunsField DEF OrphansAreKnown
  <2>. QED  BY <2>1, ReservedStays
<1>5. CASE \E i \in Pids : CollectorDies(i) \/ PidReused(i)
  BY <1>5, ProcessEnds, ReservedStays
<1>6. CASE UNCHANGED vars
  BY <1>6, ReservedStays DEF vars, host
<1>. QED  BY <1>2, <1>3, <1>4, <1>5, <1>6, StepCases

\* Tracked, for the owner of the lab.
OwnerTracks(p, l) ==
    \A i \in Pids : proc[i] = l =>
        pidfile[l] = i \/ (c[p].pc = "pid" /\ c[p].pid = i /\ Lab(p) = l) \/ (Crashes /\ c[p].pc \in After)

LEMMA TrackedByOwner ==
    ASSUME NEW p \in Procs, NEW l \in Own(p)
    PROVE  Tracked(l) => OwnerTracks(p, l)
<1>1. \A q \in Procs : l \in Own(q) => q = p
  BY OwnLabs
<1>. QED  BY <1>1 DEF Tracked, OwnerTracks

\* The step of one process keeps what is said of the collectors if it does for
\* its own labs.
LEMMA OwnCollectors ==
    ASSUME Types, Collectors, NEW p \in Procs, Spares(p),
           \A l \in Own(p) : OwnerTracks(p, l)' /\ Alone(l)',
           Unwritten(p)'
    PROVE  Collectors'
<1>1. ASSUME NEW l \in Labs, l \notin Own(p) PROVE Tracked(l)' /\ Alone(l)'
  <2>1. Tracked(l) /\ Alone(l)
    BY DEF Collectors
  <2>2. pidfile'[l] = pidfile[l] /\ (\A i \in Pids : proc'[i] = l <=> proc[i] = l) /\ \A q \in Procs \ {p} : c'[q] = c[q]
    BY <1>1 DEF Spares
  <2>3. Alone(l)'
    BY <2>1, <2>2 DEF Alone
  <2>4. \A q \in Procs : l \in Own(q) => c'[q] = c[q]
    BY <1>1, <2>2
  <2>5. Tracked(l)'
    BY <2>1, <2>2, <2>4 DEF Tracked, Own, Lab
  <2>. QED  BY <2>3, <2>5
<1>2. ASSUME NEW l \in Own(p) PROVE Tracked(l)' /\ Alone(l)'
  <2>1. OwnerTracks(p, l)' /\ Alone(l)'
    OBVIOUS
  <2>. QED  BY <2>1 DEF OwnerTracks, Tracked, Own, Lab
<1>3. ASSUME NEW q \in Procs, q # p PROVE Unwritten(q)'
  <2>1. Lab(q) \in Own(q) /\ Lab(q) \in Labs /\ c'[q] = c[q] /\ Unwritten(q)
    BY <1>3, LabType DEF Spares, Collectors
  <2>2. Lab(q) \notin Own(p)
    BY <1>3, <2>1, OwnLabs
  <2>3. pidfile'[Lab(q)] = pidfile[Lab(q)]
    BY <2>1, <2>2 DEF Spares
  <2>. QED  BY <2>1, <2>3 DEF Unwritten, Lab
<1>. QED  BY <1>1, <1>2, <1>3 DEF Collectors

\* A step that starts and stops no collector.
LEMMA QuietCollectors ==
    ASSUME Types, Collectors, NEW p \in Procs, Spares(p), UNCHANGED <<proc, pidfile>>,
           c[p].pc # "pid", c'[p].pc # "pid", c[p].pc \in After => c'[p].pc \in After
    PROVE  Collectors'
<1>1. \A l \in Own(p) : OwnerTracks(p, l) /\ Alone(l)
  BY OwnLabs, TrackedByOwner DEF Collectors
<1>2. \A l \in Own(p) : OwnerTracks(p, l)' /\ Alone(l)'
  BY <1>1 DEF OwnerTracks, Alone
<1>3. Unwritten(p)'
  BY DEF Unwritten
<1>. QED  BY <1>2, <1>3, OwnCollectors

LEMMA StartCollectorTracks ==
    ASSUME Types, Collectors, NEW p \in Procs, StartCollector(p)
    PROVE  Collectors'
<1>1. /\ Types' /\ Spares(p) /\ c[p].pc = "collector" /\ ~Running(Lab(p))
      /\ pidfile' = [pidfile EXCEPT ![Lab(p)] = 0]
      /\ c'[p].pc = "pid" /\ c'[p].i = c[p].i /\ c'[p].pid \in Pids
      /\ proc' = [proc EXCEPT ![c'[p].pid] = Lab(p)] /\ proc[c'[p].pid] = "free"
  BY StartCollectorField
<1>2. Lab(p) \in Own(p) /\ Lab(p) \in Labs /\ Own(p) \subseteq Labs /\ Lab(p)' = Lab(p)
  BY <1>1, LabType, OwnLabs DEF Lab
<1>3. \A l \in Own(p) : OwnerTracks(p, l) /\ Alone(l)
  BY OwnLabs, TrackedByOwner DEF Collectors
<1>4. \A l \in Own(p) : \A i \in Pids : proc[i] = l => pidfile[l] = i
  BY <1>1, <1>3 DEF OwnerTracks, After, Tearing
<1>5. NoCollectorOf(Lab(p))
  BY <1>1, <1>2, <1>4, HostAssumption DEF NoCollectorOf, Running
<1>6. \A l \in Own(p) : \A i \in Pids : proc'[i] = l => (l = Lab(p) /\ i = c'[p].pid) \/ (l # Lab(p) /\ proc[i] = l)
  BY <1>1, <1>2, <1>5, HostAssumption DEF NoCollectorOf, Types
<1>7. \A l \in Own(p) : l # Lab(p) => pidfile'[l] = pidfile[l]
  BY <1>1, <1>2 DEF Types
<1>8. \A l \in Own(p) : OwnerTracks(p, l)'
  BY <1>1, <1>2, <1>4, <1>6, <1>7 DEF OwnerTracks
<1>9. \A l \in Own(p) : Alone(l)'
  BY <1>3, <1>6 DEF Alone
<1>10. Unwritten(p)'
  BY <1>1, <1>2 DEF Unwritten, Types
<1>. QED  BY <1>1, <1>8, <1>9, <1>10, OwnCollectors

LEMMA WritePidTracks ==
    ASSUME Types, Collectors, NEW p \in Procs, WritePid(p)
    PROVE  Collectors'
<1>1. /\ Spares(p) /\ UNCHANGED proc /\ c[p].pc = "pid" /\ c'[p].pc = "telegraf"
      /\ pidfile' = [pidfile EXCEPT ![Lab(p)] = c[p].pid]
  BY WritePidField
<1>2. Lab(p) \in Own(p) /\ Own(p) \subseteq Labs
  BY LabType, OwnLabs
<1>3. \A l \in Own(p) : OwnerTracks(p, l) /\ Alone(l)
  BY OwnLabs, TrackedByOwner DEF Collectors
<1>4. pidfile[Lab(p)] = 0 /\ 0 \notin Pids
  BY <1>1, HostAssumption DEF Collectors, Unwritten
<1>5. \A l \in Own(p) : \A i \in Pids : proc[i] = l => pidfile'[l] = i
  BY <1>1, <1>2, <1>3, <1>4 DEF OwnerTracks, Types, After, Tearing
<1>6. \A l \in Own(p) : OwnerTracks(p, l)' /\ Alone(l)'
  BY <1>1, <1>3, <1>5 DEF OwnerTracks, Alone
<1>7. Unwritten(p)'
  BY <1>1 DEF Unwritten
<1>. QED  BY <1>1, <1>6, <1>7, OwnCollectors

\* The first command of a teardown: the collector is gone, or it is an error.
LEMMA StopCollectorStops ==
    ASSUME Types, Collectors, NEW p \in Procs, StopCollector(p)
    PROVE  /\ Collectors'
           /\ Crashes \/ c'[p].err \/ NoCollectorOf(Lab(p))'
<1>1. /\ Spares(p) /\ c[p].pc = "stop" /\ c'[p].pc = "untele" /\ c'[p].i = c[p].i
      /\ \/ /\ pidfile' = [pidfile EXCEPT ![Lab(p)] = 0]
            /\ proc' = IF Running(Lab(p)) THEN [proc EXCEPT ![pidfile[Lab(p)]] = "free"] ELSE proc
         \/ Running(Lab(p)) /\ c'[p].err = TRUE /\ UNCHANGED <<proc, pidfile>>
  BY StopCollectorField
<1>2. Lab(p) \in Own(p) /\ Lab(p) \in Labs /\ Own(p) \subseteq Labs /\ Lab(p)' = Lab(p)
  BY <1>1, LabType, OwnLabs DEF Lab
<1>3. \A l \in Own(p) : OwnerTracks(p, l) /\ Alone(l)
  BY OwnLabs, TrackedByOwner DEF Collectors
<1>4. Unwritten(p)' /\ c'[p].pc \in After
  BY <1>1 DEF Unwritten, After, Tearing
<1>5. \A l \in Own(p) : \A i \in Pids : proc[i] = l => pidfile[l] = i \/ Crashes
  BY <1>1, <1>3 DEF OwnerTracks
<1>6. CASE UNCHANGED <<proc, pidfile>> /\ c'[p].err = TRUE
  <2>1. \A l \in Own(p) : OwnerTracks(p, l)' /\ Alone(l)'
    BY <1>3, <1>4, <1>5, <1>6 DEF OwnerTracks, Alone
  <2>. QED  BY <1>1, <1>4, <1>6, <2>1, OwnCollectors
<1>7. CASE /\ pidfile' = [pidfile EXCEPT ![Lab(p)] = 0]
           /\ proc' = IF Running(Lab(p)) THEN [proc EXCEPT ![pidfile[Lab(p)]] = "free"] ELSE proc
  <2>1. \A l \in Own(p) : \A i \in Pids : proc'[i] = l => proc[i] = l
    BY <1>2, <1>7, HostAssumption DEF Types, Running
  <2>2. \A i \in Pids : proc'[i] = Lab(p) => Crashes
    BY <1>2, <1>5, <1>7, <2>1, HostAssumption DEF Types, Running
  <2>3. \A l \in Own(p) : l # Lab(p) => pidfile'[l] = pidfile[l]
    BY <1>2, <1>7 DEF Types
  <2>4. \A l \in Own(p) : OwnerTracks(p, l)' /\ Alone(l)'
    BY <1>3, <1>4, <1>5, <2>1, <2>2, <2>3 DEF OwnerTracks, Alone
  <2>5. Crashes \/ NoCollectorOf(Lab(p))'
    BY <1>2, <2>2, HostAssumption DEF NoCollectorOf
  <2>. QED  BY <1>1, <1>4, <2>4, <2>5, OwnCollectors
<1>. QED  BY <1>1, <1>6, <1>7

LEMMA CollectorsStep ==
    ASSUME Types, Collectors, [Next]_vars
    PROVE  Collectors'
<1>1. ASSUME NEW p \in Procs, Deploying(p) PROVE Collectors'
  BY <1>1, DeployingField, QuietCollectors DEF Holding, After, Tearing
<1>2. ASSUME NEW p \in Procs, Observing(p) PROVE Collectors'
  <2>1. CASE StartCollector(p)
    BY <2>1, StartCollectorTracks
  <2>2. CASE WritePid(p)
    BY <2>2, WritePidTracks
  <2>3. CASE UNCHANGED <<proc, pidfile>> /\ c[p].pc # "pid" /\ c'[p].pc # "pid"
    BY <1>2, <2>3, ObservingField, QuietCollectors DEF After, Tearing
  <2>. QED  BY <1>2, <2>1, <2>2, <2>3, ObservingField
<1>3. ASSUME NEW p \in Procs, BeginTeardown(p) PROVE Collectors'
  BY <1>3, BeginTeardownField, QuietCollectors DEF After, Tearing, host
<1>4. ASSUME NEW p \in Procs, TeardownStep(p) PROVE Collectors'
  <2>1. CASE StopCollector(p)
    BY <2>1, StopCollectorStops
  <2>2. CASE UNCHANGED <<proc, pidfile>>
    BY <1>4, <2>2, TeardownField, QuietCollectors DEF After, Tearing
  <2>. QED  BY <1>4, <2>1, <2>2, TeardownField
<1>5. ASSUME NEW p \in Procs, Crash(p) PROVE Collectors'
  <2>1. Spares(p) /\ c'[p].pc = "dead" /\ Crashes /\ UNCHANGED <<proc, pidfile>>
    BY <1>5, CrashField DEF Moved
  <2>2. \A l \in Own(p) : OwnerTracks(p, l)'
    BY <2>1 DEF OwnerTracks, After
  <2>3. \A l \in Own(p) : Alone(l)'
    BY <2>1, OwnLabs DEF Collectors, Alone
  <2>. QED  BY <2>1, <2>2, <2>3, OwnCollectors DEF Unwritten
<1>6. CASE \E l \in Labs : OrphanRuns(l)
  BY <1>6, OrphanRunsField DEF Collectors, Tracked, Alone, Unwritten, Lab, Own
<1>7. CASE \E i \in Pids : CollectorDies(i) \/ PidReused(i)
  <2>1. /\ UNCHANGED <<pidfile, c>>
        /\ \A l \in Labs : \A i \in Pids : proc'[i] = l => proc[i] = l
    BY <1>7, ProcessEnds, HostAssumption DEF Types
  <2>. QED  BY <2>1 DEF Collectors, Tracked, Alone, Unwritten, Lab, Own
<1>8. CASE UNCHANGED vars
  BY <1>8 DEF vars, host, Collectors, Tracked, Alone, Unwritten, Lab, Own
<1>. QED  BY <1>1, <1>2, <1>3, <1>4, <1>5, <1>6, <1>7, <1>8, StepCases

\* What is gone of a lab of p stays gone when another process takes a step.
LEMMA TornDownSpared ==
    ASSUME Types, NEW p \in Procs, NEW q \in Procs, q # p, Spares(q), TornDown(p)
    PROVE  TornDown(p)'
<1>1. c'[p] = c[p] /\ orphaned \subseteq orphaned'
  BY DEF Spares
<1>2. \A l \in Own(p) : l \in Labs /\ l \notin Own(q)
  BY OwnLabs
<1>3. \A l \in Own(p) : /\ net'[l] = net[l] /\ (l \in up' <=> l \in up) /\ (l \in tele' <=> l \in tele)
                        /\ unread'[l] = unread[l] /\ (NoCollectorOf(l) => NoCollectorOf(l)')
  BY <1>2 DEF Spares, NoCollectorOf
<1>4. \A l \in Own(p) : Gone(l) => Gone(l)'
  BY <1>3 DEF Gone, Present
<1>5. Lab(p)' = Lab(p) /\ Lab(p) \in Own(p)
  BY <1>1, LabType DEF Lab
<1>6. \A k \in 1..Len(LabsOf[p]) : LabsOf[p][k] \in Own(p)
  BY OwnLabs
<1>7. NoCollectorOf(Lab(p)) => NoCollectorOf(Lab(p))'
  BY <1>3, <1>5 DEF NoCollectorOf
<1>. QED  BY <1>1, <1>3, <1>4, <1>5, <1>6, <1>7 DEF TornDown, Own

\* What a step of the teardown itself leaves of a lab's absence.
LEMMA TeardownRemoves ==
    ASSUME Types, Collectors, NEW p \in Procs, TeardownStep(p)
    PROVE  /\ orphaned' = orphaned /\ up' \subseteq up
           /\ \A l \in Own(p) : /\ (Gone(l) => Gone(l)') /\ (NoCollectorOf(l) => NoCollectorOf(l)')
                              /\ unread[l] \subseteq unread'[l] /\ Present(l)' \subseteq Present(l)
<1>1. /\ up' \subseteq up /\ tele' \subseteq tele /\ orphaned' = orphaned
      /\ (\A k \in Labs : net'[k] \subseteq net[k] /\ unread[k] \subseteq unread'[k])
      /\ StopCollector(p) \/ UNCHANGED <<proc, pidfile>>
  BY TeardownField
<1>2. Own(p) \subseteq Labs /\ Lab(p) \in Labs
  BY OwnLabs, LabType
<1>3. \A l \in Labs : \A i \in Pids : proc'[i] = l => proc[i] = l
  <2>1. CASE UNCHANGED <<proc, pidfile>>
    BY <2>1
  <2>2. CASE StopCollector(p)
    <3>1. proc' = proc \/ proc' = [proc EXCEPT ![pidfile[Lab(p)]] = "free"]
      BY <2>2, StopCollectorField
    <3>. QED  BY <3>1, HostAssumption DEF Types
  <2>. QED  BY <1>1, <2>1, <2>2
<1>4. \A l \in Own(p) : NoCollectorOf(l) => NoCollectorOf(l)'
  BY <1>2, <1>3 DEF NoCollectorOf
<1>6. \A l \in Own(p) : Present(l)' \subseteq Present(l) /\ unread[l] \subseteq unread'[l]
  BY <1>1, <1>2 DEF Present
<1>5. \A l \in Own(p) : Gone(l) => Gone(l)'
  BY <1>4, <1>6 DEF Gone
<1>. QED  BY <1>1, <1>4, <1>5, <1>6

\* The call moves on within the worker.
LEMMA TornDownWithin ==
    ASSUME Types, Collectors, NEW p \in Procs, TeardownStep(p), TornDown(p),
           c'[p].i = c[p].i, c'[p].bad = c[p].bad, c'[p].pc \in Tearing \ {"stop"},
           c'[p].pc \in {"again", "netrm", "verify"} =>
               Lab(p) \notin up \/ "containers" \in unread'[Lab(p)] \/ c[p].pc \in {"again", "netrm"},
           c[p].pc = "stop" => Crashes \/ c'[p].err \/ NoCollectorOf(Lab(p))',
           c[p].pc # "stop" => c'[p].err = c[p].err
    PROVE  TornDown(p)'
<1>1. /\ orphaned' = orphaned /\ up' \subseteq up /\ c[p].pc \in Tearing
      /\ \A l \in Own(p) : /\ (Gone(l) => Gone(l)') /\ (NoCollectorOf(l) => NoCollectorOf(l)')
                         /\ unread[l] \subseteq unread'[l]
  BY TeardownRemoves, TeardownField
<1>2. Lab(p)' = Lab(p) /\ Lab(p) \in Own(p)
  BY LabType DEF Lab
<1>3. \A k \in 1..Len(LabsOf[p]) : LabsOf[p][k] \in Own(p)
  BY OwnLabs
<1>4. c'[p].pc \in Tearing /\ ~c'[p].bad =>
          \A k \in 1..Len(LabsOf[p]) : k < c'[p].i => LabsOf[p][k] \in orphaned' \/ Gone(LabsOf[p][k])'
  BY <1>1, <1>3 DEF TornDown
<1>5. c'[p].pc # "down"
  BY DEF Tearing
<1>6. c'[p].pc \in {"again", "netrm", "verify"} =>
          Lab(p) \in orphaned' \/ Lab(p) \notin up' \/ "containers" \in unread'[Lab(p)]
  BY <1>1, <1>2 DEF TornDown
<1>7. NoCollectorOf(Lab(p)) => NoCollectorOf(Lab(p))'
  BY <1>1, <1>2 DEF NoCollectorOf
<1>8. c'[p].pc \in Tearing \ {"stop"} /\ ~c'[p].err => Crashes \/ NoCollectorOf(Lab(p))'
  BY <1>1, <1>7 DEF TornDown
<1>. QED  BY <1>2, <1>4, <1>5, <1>6, <1>8 DEF TornDown, Own

\* The teardown turns to the next worker, or it ends: of this one nothing is
\* left, or the teardown has failed.
LEMMA TornDownAdvances ==
    ASSUME Types, Collectors, NEW p \in Procs, TeardownStep(p), TornDown(p), NEW failed \in BOOLEAN, Advances(p, failed),
           NEW l \in Own(p), l = Lab(p), ~failed => l \in orphaned \/ Gone(l)'
    PROVE  TornDown(p)'
<1>1. /\ orphaned' = orphaned /\ c[p].pc \in Tearing
      /\ \A m \in Own(p) : Gone(m) => Gone(m)'
  BY TeardownRemoves, TeardownField
<1>2. Lab(p) = LabsOf[p][c[p].i] /\ c[p].i \in 1..Len(LabsOf[p]) /\ Len(LabsOf[p]) \in Nat
  BY OwnLabs DEF Lab, Types
<1>3. /\ \A k \in 1..Len(LabsOf[p]) : LabsOf[p][k] \in Own(p)
      /\ \A m \in Own(p) : \E k \in 1..Len(LabsOf[p]) : LabsOf[p][k] = m
  BY OwnLabs
<1>5. ~c[p].bad /\ ~failed =>
          \A k \in 1..Len(LabsOf[p]) : k <= c[p].i => LabsOf[p][k] \in orphaned' \/ Gone(LabsOf[p][k])'
  <2>1. ASSUME ~c[p].bad, ~failed, NEW k \in 1..Len(LabsOf[p]), k <= c[p].i
        PROVE  LabsOf[p][k] \in orphaned' \/ Gone(LabsOf[p][k])'
    <3>1. CASE k = c[p].i
      <4>1. LabsOf[p][k] = l
        BY <1>2, <3>1
      <4>. QED  BY <1>1, <2>1, <4>1
    <3>2. CASE k < c[p].i
      BY <1>1, <1>3, <2>1, <3>2 DEF TornDown
    <3>. QED  BY <1>2, <2>1, <3>1, <3>2
  <2>. QED  BY <2>1
<1>6. CASE /\ c[p].i < Len(LabsOf[p]) /\ c'[p].pc = "stop" /\ c'[p].i = c[p].i + 1
           /\ c'[p].bad = (c[p].bad \/ failed)
  <2>1. ~c'[p].bad => ~c[p].bad /\ ~failed
    BY <1>6
  <2>2. \A k \in 1..Len(LabsOf[p]) : k < c'[p].i => k <= c[p].i
    BY <1>2, <1>6
  <2>3. ~c'[p].bad => \A k \in 1..Len(LabsOf[p]) : k < c'[p].i => LabsOf[p][k] \in orphaned' \/ Gone(LabsOf[p][k])'
    BY <1>5, <2>1, <2>2
  <2>. QED  BY <1>6, <2>3 DEF TornDown
<1>7. CASE /\ c[p].i = Len(LabsOf[p])
           /\ c'[p].pc = IF c[p].bad \/ failed THEN "dirty" ELSE "down"
  <2>1. c'[p].pc = "down" => ~c[p].bad /\ ~failed
    BY <1>7
  <2>2. c'[p].pc = "down" => \A m \in Own(p) : m \in orphaned' \/ Gone(m)'
    BY <1>2, <1>3, <1>5, <1>7, <2>1
  <2>3. c'[p].pc \notin Tearing
    BY <1>7 DEF Tearing
  <2>4. c'[p].pc \notin {"again", "netrm", "verify"}
    BY <1>7
  <2>. QED  BY <2>2, <2>3, <2>4 DEF TornDown, Own
<1>. QED  BY <1>6, <1>7 DEF Advances

LEMMA TeardownKeepsTornDown ==
    ASSUME Types, Collectors, NEW p \in Procs, TeardownStep(p), TornDown(p)
    PROVE  TornDown(p)'
<1>0. Lab(p) \in Own(p)
  BY LabType
<1>1. CASE StopCollector(p)
  <2>1. c[p].pc = "stop" /\ c'[p].pc = "untele" /\ c'[p].i = c[p].i /\ c'[p].bad = c[p].bad
    BY <1>1, StopCollectorField
  <2>2. Crashes \/ c'[p].err \/ NoCollectorOf(Lab(p))'
    BY <1>1, StopCollectorStops
  <2>. QED  BY <2>1, <2>2, TornDownWithin DEF Tearing
<1>2. CASE RemoveTelegraf(p)
  <2>1. c[p].pc = "untele" /\ (Moved(p, "destroy") \/ Advances(p, TRUE))
    BY <1>2, RemoveTelegrafField
  <2>2. CASE Moved(p, "destroy")
    BY <2>1, <2>2, TornDownWithin DEF Tearing, Moved
  <2>. QED  BY <2>1, <2>2, <1>0, TornDownAdvances
<1>3. CASE Destroy(p)
  <2>1. c[p].pc = "destroy" /\ c'[p].pc = "rm" /\ c'[p].i = c[p].i /\ c'[p].bad = c[p].bad /\ c'[p].err = c[p].err
    BY <1>3, DestroyField
  <2>. QED  BY <2>1, TornDownWithin DEF Tearing
<1>4. CASE RemoveContainers(p)
  <2>1. c[p].pc = "rm" /\ (Moved(p, "gone") \/ Advances(p, TRUE))
    BY <1>4, RemoveContainersField
  <2>2. CASE Moved(p, "gone")
    BY <2>1, <2>2, TornDownWithin DEF Tearing, Moved
  <2>. QED  BY <2>1, <2>2, <1>0, TornDownAdvances
<1>5. CASE WaitForRemoval(p)
  <2>1. /\ c[p].pc = "gone"
        /\ \/ /\ Lab(p) \notin up \/ "containers" \in unread'[Lab(p)]
              /\ Moved(p, "netrm") \/ Moved(p, "again")
           \/ Moved(p, "gone")
           \/ Advances(p, TRUE)
    BY <1>5, WaitForRemovalField
  <2>2. CASE /\ Lab(p) \notin up \/ "containers" \in unread'[Lab(p)]
             /\ Moved(p, "netrm") \/ Moved(p, "again")
    BY <2>1, <2>2, TornDownWithin DEF Tearing, Moved
  <2>3. CASE Moved(p, "gone")
    BY <2>1, <2>3, TornDownWithin DEF Tearing, Moved
  <2>. QED  BY <2>1, <2>2, <2>3, <1>0, TornDownAdvances
<1>6. CASE DestroyAgain(p)
  <2>1. /\ c[p].pc = "again"
        /\ \/ c'[p].pc = "netrm" /\ c'[p].i = c[p].i /\ c'[p].bad = c[p].bad /\ c'[p].err = c[p].err
           \/ Advances(p, TRUE)
    BY <1>6, DestroyAgainField
  <2>2. CASE c'[p].pc = "netrm" /\ c'[p].i = c[p].i /\ c'[p].bad = c[p].bad /\ c'[p].err = c[p].err
    BY <2>1, <2>2, TornDownWithin DEF Tearing
  <2>. QED  BY <2>1, <2>2, <1>0, TornDownAdvances
<1>7. CASE RemoveNetwork(p)
  <2>1. c[p].pc = "netrm" /\ (Moved(p, "verify") \/ Advances(p, TRUE))
    BY <1>7, RemoveNetworkField
  <2>2. CASE Moved(p, "verify")
    BY <2>1, <2>2, TornDownWithin DEF Tearing, Moved
  <2>. QED  BY <2>1, <2>2, <1>0, TornDownAdvances
<1>8. CASE Verify(p)
  <2>1. /\ c[p].pc = "verify" /\ UNCHANGED <<net, up, tele, proc>> /\ \A l \in Labs : unread[l] \subseteq unread'[l]
        /\ \/ Advances(p, TRUE)
           \/ Advances(p, FALSE) /\ ~c[p].err /\ Present(Lab(p)) \ {"containers"} \subseteq unread'[Lab(p)]
    BY <1>8, VerifyField
  <2>2. CASE Advances(p, FALSE) /\ ~c[p].err /\ Present(Lab(p)) \ {"containers"} \subseteq unread'[Lab(p)]
    <3>1. PICK l \in Own(p) : l = Lab(p)
      BY <1>0
    <3>2. l \in orphaned \/ l \notin up \/ "containers" \in unread[l]
      BY <2>1, <3>1 DEF TornDown
    <3>3. l \in orphaned \/ Present(l) \subseteq unread'[l]
      <4>1. "containers" \in Present(l) => l \in up
        BY PresentObjects
      <4>2. l \in Labs
        BY OwnLabs
      <4>. QED  BY <2>1, <2>2, <3>1, <3>2, <4>1, <4>2
    <3>4. Crashes \/ NoCollectorOf(l)
      BY <2>1, <2>2, <3>1 DEF TornDown, Tearing
    <3>5. Present(l)' = Present(l) /\ (NoCollectorOf(l) => NoCollectorOf(l)')
      BY <2>1 DEF Present, NoCollectorOf
    <3>6. l \in orphaned \/ Gone(l)'
      BY <3>3, <3>4, <3>5 DEF Gone
    <3>. QED  BY <2>2, <3>1, <3>6, TornDownAdvances
  <2>. QED  BY <2>1, <2>2, <1>0, TornDownAdvances
<1>. QED  BY <1>1, <1>2, <1>3, <1>4, <1>5, <1>6, <1>7, <1>8 DEF TeardownStep

LEMMA TornDownStep ==
    ASSUME Types, OrphansAreKnown, Collectors, [Next]_vars, NEW p \in Procs, TornDown(p)
    PROVE  TornDown(p)'
<1>0. Lab(p) \in Own(p) /\ (\A k \in 1..Len(LabsOf[p]) : LabsOf[p][k] \in Own(p)) /\ Own(p) \subseteq Labs
  BY LabType, OwnLabs
<1>1. ASSUME NEW q \in Procs, Deploying(q) \/ Observing(q) \/ BeginTeardown(q) \/ TeardownStep(q) \/ Crash(q)
      PROVE  TornDown(p)'
  <2>1. CASE q # p
    <3>1. Spares(q)
      BY <1>1, DeployingField, ObservingField, BeginTeardownField, TeardownField, CrashField
    <3>. QED  BY <2>1, <3>1, TornDownSpared
  <2>2. CASE q = p /\ (Deploying(q) \/ Observing(q) \/ Crash(q))
    <3>1. c'[p].pc \notin Tearing \cup {"down"}
      BY <2>2, DeployingField, ObservingField, CrashField DEF Tearing, Holding, Moved
    <3>. QED  BY <3>1 DEF TornDown, Tearing
  <2>3. CASE q = p /\ BeginTeardown(q)
    <3>1. c'[p].pc = "stop" /\ c'[p].i = 1
      BY <2>3, BeginTeardownField
    <3>2. \A k \in 1..Len(LabsOf[p]) : ~(k < 1)
      BY OwnLabs
    <3>. QED  BY <3>1, <3>2 DEF TornDown
  <2>4. CASE q = p /\ TeardownStep(q)
    BY <2>4, TeardownKeepsTornDown
  <2>. QED  BY <1>1, <2>1, <2>2, <2>3, <2>4
<1>2. ASSUME NEW l \in Labs, OrphanRuns(l) PROVE TornDown(p)'
  <2>1. l \in orphaned /\ UNCHANGED <<tele, proc, c, orphaned, unread>>
        /\ \A k \in Labs \ {l} : net'[k] = net[k] /\ (k \in up' <=> k \in up)
    BY <1>2, OrphanRunsField DEF OrphansAreKnown
  <2>2. /\ \A k \in Labs : k \notin orphaned => (Gone(k) => Gone(k)') /\ (k \notin up => k \notin up')
        /\ \A k \in Labs : NoCollectorOf(k) => NoCollectorOf(k)'
    BY <2>1 DEF Gone, Present, NoCollectorOf
  <2>3. Lab(p)' = Lab(p)
    BY <2>1 DEF Lab
  <2>4. NoCollectorOf(Lab(p)) => NoCollectorOf(Lab(p))'
    BY <2>1, <2>3 DEF NoCollectorOf
  <2>. QED  BY <1>0, <2>1, <2>2, <2>3, <2>4 DEF TornDown, Own
<1>3. CASE \E i \in Pids : CollectorDies(i) \/ PidReused(i)
  <2>1. /\ UNCHANGED <<net, up, tele, c, orphaned, unread>>
        /\ \A k \in Labs : \A i \in Pids : proc'[i] = k => proc[i] = k
    BY <1>3, ProcessEnds, HostAssumption
  <2>2. \A k \in Labs : (Gone(k) => Gone(k)') /\ (NoCollectorOf(k) => NoCollectorOf(k)')
    BY <2>1 DEF Gone, Present, NoCollectorOf
  <2>3. Lab(p)' = Lab(p)
    BY <2>1 DEF Lab
  <2>4. NoCollectorOf(Lab(p)) => NoCollectorOf(Lab(p))'
    BY <1>0, <2>1, <2>3 DEF NoCollectorOf
  <2>. QED  BY <1>0, <2>1, <2>2, <2>3, <2>4 DEF TornDown, Own
<1>4. CASE UNCHANGED vars
  BY <1>4 DEF vars, host, TornDown, Gone, Present, NoCollectorOf, Own, Lab
<1>. QED  BY <1>1, <1>2, <1>3, <1>4, StepCases

LEMMA ReadyStep ==
    ASSUME Types, [Next]_vars, NEW p \in Procs, ReadyIsUp(p)
    PROVE  ReadyIsUp(p)'
<1>1. ASSUME NEW q \in Procs, Deploying(q) \/ Observing(q) \/ BeginTeardown(q) \/ TeardownStep(q) \/ Crash(q)
      PROVE  ReadyIsUp(p)'
  <2>1. CASE q # p
    <3>1. Spares(q)
      BY <1>1, DeployingField, ObservingField, BeginTeardownField, TeardownField, CrashField
    <3>2. \A l \in Own(p) : net'[l] = net[l] /\ (l \in up' <=> l \in up)
      BY <2>1, <3>1, OwnLabs DEF Spares
    <3>. QED  BY <2>1, <3>1, <3>2 DEF ReadyIsUp, Spares, Own
  <2>2. CASE q = p /\ Observing(q)
    <3>1. UNCHANGED <<net, up>> /\ (c'[p].pc = "ready" => \A l \in Own(p) : l \in up /\ net[l] # {})
      BY <2>2, ObservingField
    <3>. QED  BY <3>1 DEF ReadyIsUp, Own
  <2>3. CASE q = p /\ ~Observing(q)
    <3>1. c'[p].pc # "ready"
      BY <1>1, <2>3, DeployingField, BeginTeardownField, TeardownField, CrashField DEF Tearing, Holding, Moved
    <3>. QED  BY <3>1 DEF ReadyIsUp
  <2>. QED  BY <2>1, <2>2, <2>3
<1>2. ASSUME NEW l \in Labs, OrphanRuns(l) PROVE ReadyIsUp(p)'
  <2>1. UNCHANGED c /\ up \subseteq up' /\ \A k \in Labs : net[k] # {} => net'[k] # {}
    BY <1>2, OrphanRunsField
  <2>. QED  BY <2>1, OwnLabs DEF ReadyIsUp, Own
<1>3. CASE \E i \in Pids : CollectorDies(i) \/ PidReused(i)
  BY <1>3, ProcessEnds DEF ReadyIsUp, Own
<1>4. CASE UNCHANGED vars
  BY <1>4 DEF vars, host, ReadyIsUp, Own
<1>. QED  BY <1>1, <1>2, <1>3, <1>4, StepCases

LEMMA InitHost == Init => HostInv
<1>. SUFFICES ASSUME Init PROVE HostInv
  OBVIOUS
<1>. DEFINE r == [pc |-> "idle", i |-> 1, pid |-> 0, started |-> FALSE, bad |-> FALSE,
                  err |-> FALSE, rc |-> TRUE,
                  sub |-> [l \in Labs |-> {}], dep |-> [l \in Labs |-> "todo"]]
<1>1. r \in CallRecords
  BY DEF CallRecords, PCs
<1>2. c = [p \in Procs |-> r] /\ r.pc = "idle" /\ r.i = 1
  BY DEF Init
<1>. HIDE DEF r
<1>3. \A p \in Procs : 1 \in 1..Len(LabsOf[p])
  BY OwnLabs
<1>4. \A p \in Procs : c[p] = r
  BY <1>2
<1>5. c \in [Procs -> CallRecords]
  BY <1>1, <1>2
<1>6. Types
  BY <1>2, <1>3, <1>4, <1>5 DEF Init, Types
<1>7. Locked /\ OrphansAreKnown
  BY <1>2, <1>4 DEF Locked, Holding, OrphansAreKnown, Init
<1>8. Collectors
  BY <1>2, <1>4, HostAssumption DEF Collectors, Tracked, Alone, Unwritten, Init
<1>9. \A p \in Procs : Reserved(p) /\ TornDown(p) /\ ReadyIsUp(p)
  BY <1>2, <1>4 DEF Reserved, TornDown, ReadyIsUp, Tearing
<1>. QED  BY <1>6, <1>7, <1>8, <1>9, HostAssumption DEF HostInv

(***************************************************************************)
(* The deploy lock, the choice of subnets, the pid files and the teardown  *)
(* keep the inductive invariant, whatever commands fail and whichever      *)
(* processes die.                                                          *)
(***************************************************************************)
THEOREM HostInvariant == Spec => []HostInv
<1>1. HostInv /\ [Next]_vars => HostInv'
  <2>. SUFFICES ASSUME HostInv, [Next]_vars PROVE HostInv'
    OBVIOUS
  <2>1. /\ Types /\ Locked /\ OrphansAreKnown /\ Collectors
        /\ (\A p \in Pools : Reserved(p)) /\ \A p \in Procs : TornDown(p) /\ ReadyIsUp(p)
    BY DEF HostInv
  <2>2. Types' /\ Locked' /\ OrphansAreKnown' /\ Collectors'
    BY <2>1, TypesStep, LockedStep, OrphansStep, CollectorsStep
  <2>3. \A p \in Pools : Reserved(p)'
    BY <2>1, ReservedStep
  <2>4. \A p \in Procs : TornDown(p)' /\ ReadyIsUp(p)'
    BY <2>1, TornDownStep, ReadyStep
  <2>. QED  BY <2>2, <2>3, <2>4 DEF HostInv
<1>. QED  BY <1>1, InitHost, PTL DEF Spec

-----------------------------------------------------------------------------
(* What follows                                                            *)

\* The types of all the state.
THEOREM HostTypes == Spec => []TypeOK
<1>1. HostInv => TypeOK
  BY DEF HostInv, Types, TypeOK, CallRecords, Objects
<1>. QED  BY <1>1, HostInvariant, PTL

(***************************************************************************)
(* What allocate_management_subnets chose for a pool overlaps nothing on   *)
(* the host until the network of each lab is made: whoever else deploys    *)
(* waits for runtime_deploy_lock.  A deploy command that outlived its      *)
(* process is excepted.                                                    *)
(***************************************************************************)
THEOREM SubnetsAreFree == Spec => []AllocatedIsFree
<1>1. HostInv => AllocatedIsFree
  <2>. SUFFICES ASSUME HostInv, NEW p \in Pools, NEW l \in Own(p),
                       c[p].pc \in {"check", "deploy"}, c[p].dep[l] \in {"todo", "busy"}
                PROVE  c[p].sub[l] \cap (Foreign \cup (UNION {net[k] : k \in Labs \ orphaned})
                                         \cup (UNION {c[p].sub[k] : k \in Own(p) \ {l}})) = {}
    BY DEF AllocatedIsFree
  <2>1. Reserved(p)
    BY DEF HostInv
  <2>2. /\ c[p].sub[l] \cap Foreign = {} /\ \A k \in Labs \ orphaned : c[p].sub[l] \cap net[k] = {}
        /\ \A k \in Own(p) \ {l} : c[p].sub[l] \cap c[p].sub[k] = {}
    BY <2>1 DEF Reserved
  <2>3. c[p].sub[l] \cap UNION {net[k] : k \in Labs \ orphaned} = {}
    BY <2>2
  <2>4. c[p].sub[l] \cap UNION {c[p].sub[k] : k \in Own(p) \ {l}} = {}
    BY <2>2
  <2>. QED  BY <2>2, <2>3, <2>4
<1>. QED  BY <1>1, HostInvariant, PTL

(***************************************************************************)
(* A teardown that reports success has left no network, container or       *)
(* Telegraf but one that the query about it overlooked: of a lab none of   *)
(* whose deploy commands outlived its process, and no collector either     *)
(* where no process died.  So where no query fails it has left nothing.    *)
(***************************************************************************)
THEOREM TeardownsAreClean == Spec => []TornDownIsClean
<1>1. HostInv => TornDownIsClean
  BY DEF HostInv, TornDown, TornDownIsClean, NothingLeft, Gone, NoCollectorOf
<1>. QED  BY <1>1, HostInvariant, PTL

(***************************************************************************)
(* A lab that is ready keeps its containers and its network until its own  *)
(* process tears it down.                                                  *)
(***************************************************************************)
THEOREM ReadyLabsStay == Spec => []ReadyLabStays
<1>1. HostInv => ReadyLabStays
  BY DEF HostInv, ReadyIsUp, ReadyLabStays
<1>. QED  BY <1>1, HostInvariant, PTL

\* A set without two different members has at most one.
LEMMA AtMostOne ==
    ASSUME NEW s, IsFiniteSet(s), \A i, j \in s : i = j
    PROVE  Cardinality(s) <= 1
<1>1. CASE s = {}
  BY <1>1, FS_EmptySet
<1>2. CASE s # {}
  <2>1. PICK i \in s : TRUE
    BY <1>2
  <2>2. s = {i}
    BY <2>1
  <2>. QED  BY <2>2, FS_Singleton
<1>. QED  BY <1>1, <1>2

(***************************************************************************)
(* A lab has at most one collector: one is started only when its pid file  *)
(* names none that runs, and the pid file names the one that does.         *)
(***************************************************************************)
THEOREM OneCollectorEach == Spec => []OneCollector
<1>1. HostInv => OneCollector
  <2>. SUFFICES ASSUME HostInv, NEW l \in Labs PROVE Cardinality({i \in Pids : proc[i] = l}) <= 1
    BY DEF OneCollector
  <2>1. Alone(l)
    BY DEF HostInv, Collectors
  <2>2. IsFiniteSet({i \in Pids : proc[i] = l})
    BY HostAssumption, FS_Subset
  <2>. QED  BY <2>1, <2>2, AtMostOne DEF Alone
<1>. QED  BY <1>1, HostInvariant, PTL

(***************************************************************************)
(* What is on the host for a lab lasts as long as its owner wants it and   *)
(* no longer, but for what the last query about it overlooked: the three   *)
(* theorems above together, as they are checked.                           *)
(***************************************************************************)
THEOREM LabsLast == Spec => []LabsLastAsLongAsTheirOwner
BY TeardownsAreClean, ReadyLabsStay, OneCollectorEach, PTL DEF LabsLastAsLongAsTheirOwner

(***************************************************************************)
(* Nothing a process does ends an unrelated process, whose id a stale pid  *)
(* file may name.                                                          *)
(***************************************************************************)
THEOREM UnrelatedAreSpared == Spec => UnrelatedSpared
<1>1. HostInv /\ [Next]_vars => [UnrelatedSparedStep]_vars
  <2>. SUFFICES ASSUME HostInv, [Next]_vars PROVE UnrelatedSparedStep
    OBVIOUS
  <2>0. Types
    BY DEF HostInv
  <2>1. CASE \E p \in Procs : Deploying(p) \/ Observing(p) \/ BeginTeardown(p) \/ TeardownStep(p) \/ Crash(p)
    BY <2>0, <2>1, DeployingField, ObservingField, BeginTeardownField, TeardownField, CrashField DEF Spares, UnrelatedSparedStep
  <2>2. CASE \E l \in Labs : OrphanRuns(l)
    BY <2>0, <2>2, OrphanRunsField DEF UnrelatedSparedStep
  <2>3. CASE \E i \in Pids : CollectorDies(i) \/ PidReused(i)
    BY <2>0, <2>3, ProcessEnds DEF UnrelatedSparedStep
  <2>4. CASE UNCHANGED vars
    BY <2>4 DEF vars, host, UnrelatedSparedStep
  <2>. QED  BY <2>1, <2>2, <2>3, <2>4, StepCases
<1>. QED  BY <1>1, HostInvariant, PTL DEF Spec, UnrelatedSpared

=============================================================================

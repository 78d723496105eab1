------------------------- MODULE MCServiceLiveness -------------------------
(****************************************************************************)
(* What must end, for TLC: waiting for a lease, a request to the service,    *)
(* and a deployment on a host that others deploy on.                         *)
(****************************************************************************)
EXTENDS Naturals, TLC

VARIABLES
    part,   \* the component that a behaviour is about
    \* its variables, in the order of its own declaration
    s1, s2, s3, s4, s5, s6, s7, s8, s9, s10, s11, s12, s13, s14, s15, s16, s17, s18

vars == <<part, s1, s2, s3, s4, s5, s6, s7, s8, s9, s10, s11, s12, s13, s14, s15, s16, s17, s18>>

Lease == INSTANCE RuntimeLeasePool WITH
    Holders <- 1..3, Records <- {"r1", "r2"}, Scales <- {"xs"}, NoRecord <- "none",
    MaxActive <- 1, TTL <- 1, Grace <- 0, SessionSeconds <- {1}, LeaseWait <- 1,
    MaxTime <- 2, now <- s1, fresh <- s2, pool <- s3, scaleOf <- s4, in_use <- s5,
    quarantined <- s6, lease_deadline <- s7, phase <- s8, held <- s9, wants <- s10,
    deadline <- s11, wakeAt <- s12, owed <- s13, drained <- s14
Service == INSTANCE SimulatorService WITH
    Threads <- {"a", "b", "c"}, Envs <- {"e1"}, NoThread <- "none",
    NoEnv <- "none", MaxToolCalls <- 1, MaxTombstones <- 1, listed <- s1,
    hasEnv <- s2, terminal <- s3, lock <- s4, tombs <- s5, registered <- s6,
    incident <- s7, cleanup <- s8, finishes <- s9, session <- s10, calls <- s11,
    outcomes <- s12, pc <- s13, env <- s14, op <- s15, todo <- s16,
    shutdown <- s17, late <- s18
Host == INSTANCE HostDeployment WITH
    Procs <- {"a", "b"}, Labs <- {"l1", "l3"},
    LabsOf <- "a" :> <<"l1">> @@ "b" :> <<"l3">>, Pools <- {"a"},
    Stride <- "a" :> 1 @@ "b" :> 2, Start <- "a" :> 1 @@ "b" :> 2, LastOctet <- 3,
    Jobs <- 1, Foreign <- {1}, Pids <- {1}, Crashes <- FALSE, lock <- s1,
    net <- s2, up <- s3, tele <- s4, proc <- s5, pidfile <- s6, c <- s7,
    orphan <- s8, orphaned <- s9, unread <- s10

Init ==
    \/ part = "lease" /\ Lease!Init /\ s15 = 0 /\ s16 = 0 /\ s17 = 0 /\ s18 = 0
    \/ part = "service" /\ Service!Init
    \/ part = "host" /\ Host!Init /\ s11 = 0 /\ s12 = 0 /\ s13 = 0 /\ s14 = 0 /\ s15 = 0 /\ s16 = 0 /\ s17 = 0 /\ s18 = 0

LeaseWorks == part = "lease" /\ Lease!Next /\ UNCHANGED <<part, s15, s16, s17, s18>>
ServiceWorks == part = "service" /\ Service!Next /\ UNCHANGED <<part>>
HostWorks == part = "host" /\ Host!Next /\ UNCHANGED <<part, s11, s12, s13, s14, s15, s16, s17, s18>>

Next ==
    \/ LeaseWorks \/ ServiceWorks \/ HostWorks

Spec == Init /\ [][Next]_vars

(***************************************************************************)
(* Threads and processes run on, the clock does, and a thread or a process *)
(* that waits for a lock is not overtaken for ever.  Nobody owes a request *)
(* or a new deployment, and a lab owes no success.                         *)
(***************************************************************************)
InLease(A) == part = "lease" /\ A /\ UNCHANGED <<part, s15, s16, s17, s18>>
InService(A) == part = "service" /\ A /\ UNCHANGED <<part>>
InHost(A) == part = "host" /\ A /\ UNCHANGED <<part, s11, s12, s13, s14, s15, s16, s17, s18>>
Waits(i) == InService(Service!RequestStep(i)) \/ InHost(i \in {"a", "b"} /\ Host!TakeLock(i))

FairSpec ==
    /\ Spec
    /\ WF_vars(InLease(Lease!Tick))
    /\ \A h \in 1..3 :
        /\ WF_vars(InLease(Lease!AcquireTurn(h)))
        /\ WF_vars(InLease(Lease!WaitTimesOut(h)))
        /\ WF_vars(InLease(Lease!ProvisionFailed(h) \/ \E r \in {"r1", "r2"} : Lease!Provisioned(h, r)))
    /\ \A i \in {"a", "b", "c"} : SF_vars(Waits(i))
    /\ \A p \in {"a", "b"} :
        /\ WF_vars(InHost(Host!DeployStep(p)))
        /\ WF_vars(InHost(Host!ObserveStep(p)))
        /\ WF_vars(InHost(Host!TeardownStep(p)))
-----------------------------------------------------------------------------

\* What x has asked for: as thread or process; holder 1 stands for all holders.
Asked(x) ==
    \/ part = "lease" /\ Lease!InAcquire(1)
    \/ part = "service" /\ ~Service!Answered(x)
    \/ part = "host" /\ Host!InLine(x)
HasAnswer(x) ==
    CASE part = "lease" -> Lease!AcquireReturned(1)
      [] part = "service" -> Service!Answered(x)
      [] part = "host" -> Host!Deployed(x)

\* Every acquire of a lease ends, with a runtime or with an error, and every
\* request to the service is answered, although holders, threads and a shutdown
\* compete for it (holder 1, and threads "a" and "b", stand for all, which are
\* interchangeable); and a deployment that waits for the lock of the host gets
\* its turn and ends.
ServiceAnswers == \A x \in {"a", "b"} : Asked(x) ~> HasAnswer(x)
=============================================================================

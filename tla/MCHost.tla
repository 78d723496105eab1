------------------------------- MODULE MCHost -------------------------------
(****************************************************************************)
(* Deployments of two processes on one host for TLC: a pool beside a         *)
(* standalone deployment of a larger scale, whose management networks are    *)
(* twice as wide.                                                            *)
(****************************************************************************)
EXTENDS HostDeployment, TLC

\* The labs each process deploys.
TwoAndOne == "a" :> <<"l1", "l2">> @@ "b" :> <<"l3">>
OneEach == "a" :> <<"l1">> @@ "b" :> <<"l3">>
\* How far apart the management networks lie, and the first one tried.
Strides == "a" :> 1 @@ "b" :> 2
Starts == "a" :> 1 @@ "b" :> 2
=============================================================================

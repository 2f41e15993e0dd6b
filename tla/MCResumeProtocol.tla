-------------------------- MODULE MCResumeProtocol --------------------------
(* Small instances of ResumeProtocol for TLC.                              *)
EXTENDS ResumeProtocol, TLC

CONSTANTS w1, w2, x1, x2, p1, p2, s1, s2

(* Two goroutines of one process, and one goroutine in each of two.        *)
OneProcess   == w1 :> x1 @@ w2 :> x1
TwoProcesses == w1 :> x1 @@ w2 :> x2

(* Definitions cee validate accepts: every step they name is theirs.       *)
First   == [suspended |-> "leaf", onSuccess |-> s1, entry |-> s1,
            steps |-> {s1}]
Renamed == [suspended |-> "leaf", onSuccess |-> s2, entry |-> s2,
            steps |-> {s2}]

Redeployed == {First, Renamed}
Stable     == {First}
=============================================================================

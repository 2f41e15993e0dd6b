----------------------------- MODULE MCService ------------------------------
(* A payment that asks ann, and a check that anyone confirms and that      *)
(* falls back on itself.                                                   *)
EXTENDS Service, TLC

Step(probe, asks, onSuccess, fallback) ==
  [probe |-> probe, asks |-> asks, onSuccess |-> onSuccess, fallback |-> fallback]

MCFlows ==
  [pay   |-> [entry |-> "check",
              steps |-> [check |-> Step(TRUE, None, "send", "ask"),
                         ask   |-> Step(FALSE, "ann", "send", None),
                         send  |-> Step(FALSE, None, None, None)]],
   watch |-> [entry |-> "look",
              steps |-> [look  |-> Step(FALSE, Anyone, "again", None),
                         again |-> Step(FALSE, None, "gone", "again")]]]

(* One payment waits for ann already.                                      *)
MCParked == [p \in {1} |-> [flow |-> "pay", step |-> "ask", audience |-> "ann"]]
MCAsked == {"watch", "unknown"}
=============================================================================

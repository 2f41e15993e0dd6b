------------------------------ MODULE MCEngine ------------------------------
(* Workflows and scripts for checking Engine.                              *)
EXTENDS EngineMeaning, TLC
LOCAL INSTANCE FiniteSetsExt

CONSTANTS f, g

Leaf(onSuccess, policy, probe, compensate, writes) ==
  [type |-> "leaf", onSuccess |-> onSuccess, policy |-> policy, probe |-> probe,
   compensate |-> compensate, writes |-> writes]
Do(onSuccess, writes) == Leaf(onSuccess, None, FALSE, None, writes)
Composite(sub, onSuccess, policy) ==
  [type |-> "composite", sub |-> sub, onSuccess |-> onSuccess,
   policy |-> policy]
Parallel(branches, onSuccess, policy) ==
  [type |-> "parallel", branches |-> branches, onSuccess |-> onSuccess,
   policy |-> policy]
Workflow(entry, steps) == [entry |-> entry, steps |-> steps]

(* The decision a resumption brings.                                       *)
Approved == [NoContext EXCEPT ![g] = 5]

(* Scripts in which at most n of these steps do not answer "ok".           *)
Deviating(root, equipped, leaves, n, answers, probed) ==
  LET deviations == UNION { [D -> answers] :
                            D \in UNION {kSubset(k, leaves) : k \in 0 .. n} }
  IN { [root |-> root, store |-> equipped, sandbox |-> equipped,
        act |-> [s \in leaves |-> IF s \in DOMAIN d THEN d[s] ELSE "ok"],
        healthy |-> h, resolution |-> Approved]
       : d \in deviations, h \in [probed -> BOOLEAN] }
Failing == {"error", "suspend", "panic"}

MCPolicies == [manual |-> "manual", none |-> None, lost |-> "nowhere"]

(* A booking: compensable and probed steps, an approval in the middle, a   *)
(* sub-workflow, fallbacks and a policy whose fallback does not exist; and *)
(* runaways: a cycle of OnSuccess, a sub-workflow that calls itself, and   *)
(* parents with a fallback that must not absorb either.                    *)
RunsWorkflows ==
  [booking |-> Workflow("reserve",
     [reserve |-> Leaf("charge", None, FALSE, "unreserve", <<f, 1>>),
      charge  |-> Leaf("hold", "none", TRUE, "refund", <<g, 1>>),
      hold    |-> Leaf("tell", "manual", FALSE, None, None),
      tell    |-> Composite("notify", "issue", "manual"),
      issue   |-> Leaf(None, "absent", FALSE, "manual", <<f, 2>>),
      manual  |-> Leaf("finish", None, FALSE, "gone", <<g, 2>>),
      finish  |-> Leaf(None, "lost", FALSE, None, None),
      unreserve |-> Do(None, None), refund |-> Do(None, None)]),
   notify |-> Workflow("mail",
     [mail  |-> Leaf("page", None, FALSE, "recall", <<g, 3>>),
      page  |-> Do(None, None),
      recall |-> Do(None, None)]),
   runaway |-> Workflow("both",
     [both |-> Parallel(<<"wind", "spin">>, "again", "manual"),
      again |-> Composite("wind", None, "manual"),
      manual |-> Do("more", None),
      more |-> Composite("unknown", "both", "manual")]),
   wind |-> Workflow("in",
     [in |-> Leaf("deeper", None, FALSE, "out", None),
      deeper |-> Composite("wind", None, "manual"),
      out |-> Do(None, None), manual |-> Do(None, None)]),
   spin |-> Workflow("ping",
     [ping |-> Leaf("pong", "manual", FALSE, None, None),
      pong |-> Do("ping", None),
      manual |-> Leaf("missing", "manual", TRUE, None, None)])]

(* Checks fanned out and joined: a branch that nests another fan-out, and  *)
(* fallbacks inside branches, which make the branches of either fan-out    *)
(* write one field differently.                                            *)
ChecksWorkflows ==
  [opening |-> Workflow("open",
     [open   |-> Leaf("checks", None, FALSE, "close", <<f, 1>>),
      checks |-> Parallel(<<"credit", "nested">>, "decide", "manual"),
      decide |-> Leaf("empty", None, FALSE, None, <<f, 3>>),
      empty  |-> Parallel(<<>>, None, "manual"),
      manual |-> Do("close", <<g, 4>>),
      close  |-> Do(None, None)]),
   credit |-> Workflow("score",
     [score |-> Leaf("note", "manual", FALSE, "close", <<g, 1>>),
      note  |-> Do(None, <<f, 1>>),
      manual |-> Do(None, <<f, 3>>),
      close |-> Do(None, None)]),
   nested |-> Workflow("pair",
     [pair |-> Parallel(<<"left", "right">>, None, "none")]),
   left  |-> Workflow("lone",
     [lone |-> Leaf("ltwo", "manual", FALSE, None, None),
      ltwo |-> Do(None, <<f, 2>>),
      manual |-> Do(None, <<g, 4>>)]),
   right |-> Workflow("rone",
     [rone |-> Leaf(None, "none", TRUE, None, <<g, 1>>)])]

(* A compensable step, then steps any of which may be an approval.         *)
ApprovalWorkflows ==
  [approvals |-> Workflow("reserve",
     [reserve |-> Leaf("first", None, FALSE, "unreserve", None),
      first   |-> Do("second", None),
      second  |-> Do("issue", None),
      issue   |-> Do(None, None),
      unreserve |-> Do(None, None)])]

(* Two branches that write different fields and each take a fallback.      *)
RecoveryWorkflows ==
  [recoveries |-> Workflow("checks",
     [checks |-> Parallel(<<"rating", "address">>, None, None)]),
   rating |-> Workflow("score",
     [score |-> Leaf(None, "manual", FALSE, None, <<f, 1>>),
      manual |-> Do(None, <<f, 2>>)]),
   address |-> Workflow("lookup",
     [lookup |-> Leaf(None, "manual", FALSE, None, <<g, 1>>),
      manual |-> Do(None, <<g, 2>>)])]

BookingLeaves == {"reserve", "charge", "hold", "issue", "manual", "finish",
                  "unreserve", "refund", "mail", "page", "recall"}
(* Last steps do not suspend: see FinalApproval.                           *)
BookingScripts ==
  { s \in Deviating("booking", TRUE, BookingLeaves, 3, Failing, {"charge"}) :
      s.act["issue"] # "suspend" /\ s.act["finish"] # "suspend" }

ChecksLeaves == {"open", "decide", "manual", "close", "score", "note", "lone",
                 "ltwo", "rone"}
ChecksScripts ==
  { s \in Deviating("opening", TRUE, ChecksLeaves, 2, Failing, {"rone"}) :
      s.act["close"] # "suspend" }

RunawayLeaves == {"manual", "in", "out", "ping", "pong"}
RunawayScripts ==
  Deviating("runaway", FALSE, RunawayLeaves, 3, Failing, {})

ApprovalLeaves == {"reserve", "first", "second", "issue", "unreserve"}
Waiting(waits, fails) ==
  { [root |-> "approvals", store |-> TRUE, sandbox |-> FALSE,
     act |-> [s \in ApprovalLeaves |-> CASE s \in waits -> "suspend"
                                       [] s \in fails -> "error"
                                       [] OTHER -> "ok"],
     healthy |-> [s \in {} |-> TRUE], resolution |-> Approved] }
OneApproval    == Waiting({"first"}, {"issue"})
FinalApproval  == Waiting({"issue"}, {})

RecoveryScripts ==
  Deviating("recoveries", TRUE, {"score", "lookup", "manual"}, 2, {"error"}, {})

AllWorkflows == RunsWorkflows @@ ChecksWorkflows
AllScripts == BookingScripts \cup RunawayScripts \cup ChecksScripts
=============================================================================

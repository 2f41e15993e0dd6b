----------------------------- MODULE MCDelivery -----------------------------
(* Manifests for checking Delivery: a base, and what becomes of it when    *)
(* one or two of its fields are written differently.                       *)
EXTENDS Delivery, TLC
LOCAL INSTANCE SequencesExt

Leaf(id, policy, onSuccess, undo) ==
  [id |-> id, type |-> "leaf", action |-> "std.set", with |-> "fields",
   policy |-> policy, onSuccess |-> onSuccess, sub |-> None, branches |-> <<>>,
   undo |-> undo]

(* A booking with a sub-workflow and a fan-out, in workflows 1, 2 and 3.   *)
Base ==
  [name |-> "travel",
   policies |-> <<[id |-> "p", fallback |-> "m"], [id |-> "q", fallback |-> "t"]>>,
   workflows |->
     <<[id |-> "main", entry |-> "a",
        steps |-> <<Leaf("a", "p", "b", "u"),
                    [Leaf("b", None, "c", None) EXCEPT
                       !.type = "composite", !.sub = "sub"],
                    [Leaf("c", "p", None, None) EXCEPT
                       !.type = "parallel", !.branches = <<"sub", "tail">>],
                    Leaf("m", None, None, None), Leaf("u", None, None, None)>>],
       [id |-> "sub", entry |-> "s",
        steps |-> <<Leaf("s", "q", "t", None),
                    [Leaf("t", None, None, None) EXCEPT !.action = "charge"]>>],
       [id |-> "tail", entry |-> "x", steps |-> <<Leaf("x", None, None, None)>>]>>,
   intents |-> <<[node |-> <<"travel", "book">>, entry |-> "main",
                  deprecated |-> None]>>]

(* Other values of the fields of a step, by field.                         *)
StepIdsUsed == {"a", "b", "c", "m", "u", "s", "t", "x", None}
RouteEdits == [policy : {None, "p", "q", "r"}] \cup [onSuccess : StepIdsUsed]
CallEdits ==
  [type : {"leaf", "composite", "parallel", "loop"}]
    \cup [sub : {None, "main", "sub", "tail", "gone"}]
    \cup [branches : {<<>>, <<"sub">>, <<"sub", "sub">>, <<"tail", "main">>,
                      <<"gone", "sub">>, <<None, "tail">>}]
OtherEdits ==
  [id : {None, "a", "t"}] \cup [undo : StepIdsUsed]
    \cup [action : {None, "charge", "std.set", "invented"}] \cup [with : {"typo"}]

EditStep(file, wf, i, e) ==
  [file EXCEPT !.workflows[wf].steps[i] = e @@ @]

AllSteps == {<<1, 1>>, <<1, 2>>, <<1, 3>>, <<1, 4>>, <<2, 1>>, <<2, 2>>, <<3, 1>>}
EditedIn(file, edits, steps) ==
  {EditStep(file, at[1], at[2], e) : at \in steps, e \in edits}

Once == EditedIn(Base, RouteEdits \cup CallEdits \cup OtherEdits, AllSteps)

(* Two steps led elsewhere, or one of another type that calls another.     *)
Twice ==
  (UNION {EditedIn(file, RouteEdits, {<<1, 4>>}) :
            file \in EditedIn(Base, RouteEdits, {<<1, 1>>})})
  \cup (UNION {EditedIn(file, CallEdits, {<<3, 1>>}) :
                  file \in EditedIn(Base, CallEdits, {<<2, 2>>})})

Elsewhere ==
  {[Base EXCEPT !.name = None],
   [Base EXCEPT !.policies[1].id = None], [Base EXCEPT !.policies[1].fallback = None],
   [Base EXCEPT !.policies[2].fallback = "m"], [Base EXCEPT !.policies[2].id = "p"],
   [Base EXCEPT !.workflows[3].id = None], [Base EXCEPT !.workflows[3].id = "sub"],
   [Base EXCEPT !.workflows[1].entry = None], [Base EXCEPT !.workflows[2].entry = "a"],
   [Base EXCEPT !.intents[1].node = None], [Base EXCEPT !.intents[1].node = <<"book">>],
   [Base EXCEPT !.intents[1].entry = None], [Base EXCEPT !.intents[1].entry = "gone"],
   [Base EXCEPT !.intents[1].deprecated = "main"],
   [Base EXCEPT !.intents[1].deprecated = "sub"]}

MCReplies == {None, Base} \cup Once \cup Twice \cup Elsewhere

(* A second domain: of its own ids, or sharing a policy_id with the first. *)
Neighbour(policy) ==
  [name |-> "office",
   policies |-> <<[id |-> policy, fallback |-> "z"]>>,
   workflows |-> <<[id |-> "desk", entry |-> "y",
                    steps |-> <<Leaf("y", policy, "z", "y2"),
                                Leaf("z", None, None, None),
                                Leaf("y2", None, None, None)>>]>>,
   intents |-> <<[node |-> <<"office", "desk">>, entry |-> "desk",
                  deprecated |-> None]>>]
MCNeighbours == {Neighbour("o"), Neighbour("p")}

MCManuscripts ==
  {None, Missing, Base, [Base EXCEPT !.workflows[1].steps[1].onSuccess = "gone"],
   [Base EXCEPT !.workflows[2].steps[2].action = "std.set"]}

Meta(name) == [name |-> name, tier |-> "L1", version |-> "1", domain |-> "travel"]
MCMetas ==
  {Meta("travel"), Meta("visa"), Meta("../visa"), [Meta("visa") EXCEPT !.tier = None],
   [Meta("travel") EXCEPT !.version = None, !.domain = "office"]}

MCStandard == [r \in {"std.set"} |-> {"fields"}]
=============================================================================

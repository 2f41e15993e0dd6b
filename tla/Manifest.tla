------------------------------ MODULE Manifest ------------------------------
(***************************************************************************)
(* A domain manifest: what manifest.Validate reports of a file, and the    *)
(* domain manifest.Load builds from it.                                    *)
(*                                                                         *)
(* A file is None when it is not JSON, or a record                         *)
(*   [name, policies, workflows, intents]                                  *)
(*   policies  : sequence of [id, fallback]                                *)
(*   workflows : sequence of [id, entry, steps : sequence of steps]        *)
(*   steps     : [id, type, action, with, policy, onSuccess, sub,          *)
(*                branches, undo]                                          *)
(*   intents   : sequence of [node, entry, deprecated]                     *)
(* An empty string of the file is None.  A node id is the sequence of its  *)
(* dot-separated parts.  An issue is <<severity, kind>>: its wording and   *)
(* the place it names are left out.                                        *)
(***************************************************************************)
EXTENDS Naturals, Sequences, FiniteSets
LOCAL INSTANCE SequencesExt
LOCAL INSTANCE FiniteSetsExt

CONSTANTS
  None,
  Standard   \* the library: [action_ref -> the "with" its factory accepts]

(* A Go map filled from a list: the last entry of a key is the one kept.   *)
ById(list) ==
  [id \in {list[i].id : i \in DOMAIN list} |->
     list[CHOOSE i \in DOMAIN list :
            /\ list[i].id = id
            /\ \A j \in DOMAIN list : list[j].id = id => j <= i]]

(* The elements of a list that are in S, in their order.                   *)
Only(list, S) ==
  LET kept[i \in 0 .. Len(list)] ==
        IF i = 0 THEN <<>>
        ELSE IF list[i] \in S THEN Append(kept[i - 1], list[i]) ELSE kept[i - 1]
  IN kept[Len(list)]

Named(list) == Only(list, {x \in ToSet(list) : x.id # None})
Ids(list)   == {list[i].id : i \in DOMAIN list}

Fallbacks(file) ==
  [id \in Ids(file.policies) \ {None} |-> ById(file.policies)[id].fallback]

(* The issue, if the condition holds.                                      *)
Report(severity, kind, condition) ==
  IF condition THEN {<<severity, kind>>} ELSE {}
Error(kind, condition)   == Report("error", kind, condition)
Warning(kind, condition) == Report("warning", kind, condition)

-----------------------------------------------------------------------------
(* Graphs: next maps each node to the sequence of its successors.          *)

(* Wrong: the whole path from the root is taken for the cycle.             *)
CloseWhole(path, n) == Append(path, n)

(* The cycle an edge to n closes: the path from n on, and n again.         *)
Close(path, n) ==
  LET i == CHOOSE k \in DOMAIN path : path[k] = n
  IN Append(SubSeq(path, i, Len(path)), n)

(* A search: the marks of the nodes, the path to where it is, the cycle    *)
(* it closed.                                                              *)
Searches(N) == [mark : [N -> {"unvisited", "onStack", "done"}],
                path : Seq(N), cycle : Seq(N)]

(* An edge to m; visit says what visiting a node makes of a search.        *)
Follow(visit, s, m) ==
  IF s.cycle # <<>> \/ s.mark[m] = "done" THEN s
  ELSE IF s.mark[m] = "onStack" THEN [s EXCEPT !.cycle = Close(s.path, m)]
  ELSE visit[m][s]

Along(visit, edges, s) ==
  LET after[i \in 0 .. Len(edges)] ==
        IF i = 0 THEN s ELSE Follow(visit, after[i - 1], edges[i])
  IN after[Len(edges)]

Visit(visit, next, n, s) ==
  LET after == Along(visit, next[n], [s EXCEPT !.mark[n] = "onStack",
                                               !.path = Append(@, n)])
  IN IF after.cycle # <<>>
       THEN after
       ELSE [after EXCEPT !.mark[n] = "done", !.path = Front(@)]

(* Depth-first search from each node in turn, nested no deeper than there  *)
(* are nodes: the first cycle closed, its first node repeated at its end,  *)
(* or <<>>.                                                                *)
FindCycle(nodes, next) ==
  LET N == DOMAIN next
      visit[k \in 0 .. Cardinality(N)] ==
        [n \in N |-> [s \in Searches(N) |->
           IF k = 0 THEN s ELSE Visit(visit[k - 1], next, n, s)]]
      start == [mark |-> [n \in N |-> "unvisited"], path |-> <<>>, cycle |-> <<>>]
  IN Along(visit[Cardinality(N)], nodes, start).cycle

(* The nodes a walk from the entry reaches.                                *)
ReachedFrom(entry, next) ==
  LET Widen(n, reached) == reached \cup UNION {ToSet(next[m]) : m \in reached}
  IN FoldSet(Widen, {entry}, DOMAIN next)

-----------------------------------------------------------------------------
(* What the checks follow: edges whose target exists, in file order.       *)

Steps(wf)   == Named(wf.steps)
StepIds(wf) == Ids(wf.steps) \ {None}

(* The successors of each id: what the items of that id lead to.           *)
Edges(list, ids, targets) ==
  [id \in ids |->
     Only(FlattenSeq([i \in DOMAIN list |-> IF list[i].id = id THEN targets[i] ELSE <<>>]),
          ids \ {None})]

SuccessEdges(wf) ==
  Edges(wf.steps, StepIds(wf), [i \in DOMAIN wf.steps |-> <<wf.steps[i].onSuccess>>])

FallbackOf(fallbacks, s) ==
  IF s.policy \in DOMAIN fallbacks THEN fallbacks[s.policy] ELSE None

AllEdges(fallbacks, wf) ==
  Edges(wf.steps, StepIds(wf),
        [i \in DOMAIN wf.steps |->
           <<wf.steps[i].onSuccess, FallbackOf(fallbacks, wf.steps[i])>>])

WorkflowIds(file) == Ids(file.workflows)

(* The workflows a composite or a parallel step calls.                     *)
Called(s) ==
  CASE s.type = "composite" -> <<s.sub>>
    [] s.type = "parallel"  -> s.branches
    [] OTHER                -> <<>>

SubEdges(file) ==
  Edges(file.workflows, WorkflowIds(file),
        [i \in DOMAIN file.workflows |->
           FlattenSeq([j \in DOMAIN file.workflows[i].steps |->
                         Called(file.workflows[i].steps[j])])])

-----------------------------------------------------------------------------
(* Validate.                                                               *)

(* What a list names more than once.                                       *)
Repeated(list) ==
  {list[i] : i \in {i \in DOMAIN list : \E j \in DOMAIN list : j < i /\ list[j] = list[i]}}

ActionIssues(s) ==
  Error("leaf has no action", s.action = None)
  \cup Error("action misconfigured", /\ s.action \in DOMAIN Standard
                                     /\ s.with \notin Standard[s.action])
  \cup Warning("action left to hooks", /\ s.action # None
                                       /\ s.action \notin DOMAIN Standard)

CompositeIssues(file, s) ==
  Error("no sub-workflow", s.sub = None)
  \cup Error("unknown sub-workflow",
             s.sub # None /\ s.sub \notin WorkflowIds(file))

BranchIssues(file, s) ==
  LET unknown == {b \in ToSet(s.branches) : b \notin WorkflowIds(file)}
  IN Error("no branches", s.branches = <<>>)
     \cup Error("empty branch", None \in ToSet(s.branches))
     \cup Error("unknown branch", unknown \ {None} # {})
     \cup Error("branch listed twice", Repeated(s.branches) \ (unknown \cup {None}) # {})
     \cup Warning("one branch", Len(s.branches) = 1)

(* Wrong: a compensation that names no step is accepted.                   *)
UndoIssuesDangling(wf, s) ==
  Error("compensates itself", s.undo # None /\ s.undo = s.id)

UndoIssues(wf, s) ==
  Error("unknown compensation", s.undo # None /\ s.undo \notin StepIds(wf))
  \cup Error("compensates itself", s.undo # None /\ s.undo = s.id)
  \cup Error("only a leaf compensates",
             s.undo # None /\ s.type \in {"composite", "parallel"})

PolicyIssues(fallbacks, wf, s) ==
  Error("unknown policy", s.policy # None /\ s.policy \notin DOMAIN fallbacks)
  \cup Error("unknown fallback", /\ FallbackOf(fallbacks, s) # None
                                 /\ FallbackOf(fallbacks, s) \notin StepIds(wf))

StepIssues(file, fallbacks, wf, s) ==
  Error("unknown on_success", s.onSuccess # None /\ s.onSuccess \notin StepIds(wf))
  \cup UndoIssues(wf, s)
  \cup PolicyIssues(fallbacks, wf, s)
  \cup CASE s.type = "leaf"      -> ActionIssues(s)
         [] s.type = "composite" -> CompositeIssues(file, s)
         [] s.type = "parallel"  -> BranchIssues(file, s)
         [] OTHER                -> Error("unknown type", TRUE)

Order(list) == [i \in DOMAIN list |-> list[i].id]

GraphIssues(fallbacks, wf) ==
  LET order == Order(Steps(wf))
      next  == AllEdges(fallbacks, wf)
      spins == FindCycle(order, SuccessEdges(wf)) # <<>>
      loops == FindCycle(order, next) # <<>>
  IN Error("on_success cycle", spins)
     \cup Warning("loop through a fallback", ~spins /\ loops)
     \cup Warning("unreachable step",
                  ToSet(order) \ ReachedFrom(wf.entry, next) # {})

WorkflowIssues(file, fallbacks, wf) ==
  Error("no workflow_id", wf.id = None)
  \cup Error("no step_id", None \in Ids(wf.steps))
  \cup Error("duplicate step_id", Cardinality(StepIds(wf)) # Len(Steps(wf)))
  \cup Error("no entry step", wf.entry = None)
  \cup Error("unknown entry step", wf.entry # None /\ wf.entry \notin StepIds(wf))
  \cup (IF wf.entry \in StepIds(wf) THEN GraphIssues(fallbacks, wf) ELSE {})
  \cup UNION {StepIssues(file, fallbacks, wf, wf.steps[i]) : i \in DOMAIN wf.steps}

(* Wrong: only composite steps count as calls.                             *)
SubWorkflowIssuesComposite(file) ==
  Error("sub-workflow cycle",
    \E i \in DOMAIN file.workflows : \E j \in DOMAIN file.workflows[i].steps :
      /\ file.workflows[i].steps[j].type = "composite"
      /\ file.workflows[i].steps[j].sub = file.workflows[i].id)

SubWorkflowIssues(file) ==
  Error("sub-workflow cycle",
        FindCycle(Order(file.workflows), SubEdges(file)) # <<>>)

EntryOf(intent) == IF intent.entry # None THEN intent.entry ELSE intent.deprecated

Conflicting(intent) == /\ intent.entry # None
                       /\ intent.deprecated # None
                       /\ intent.entry # intent.deprecated

IntentIssues(file, intent) ==
  Error("no node_id", intent.node = None)
  \cup Warning("node_id without domain",
               intent.node # None /\ Len(intent.node) = 1)
  \cup Error("conflicting entry", Conflicting(intent))
  \cup Warning("deprecated entry",
               ~Conflicting(intent) /\ intent.deprecated # None)
  \cup Error("no entry workflow", EntryOf(intent) = None)
  \cup Error("unknown entry workflow", /\ EntryOf(intent) # None
                                       /\ EntryOf(intent) \notin WorkflowIds(file))

PolicyListIssues(file) ==
  Error("no policy_id", None \in Ids(file.policies))
  \cup Error("no fallback", \E i \in DOMAIN Named(file.policies) :
                              Named(file.policies)[i].fallback = None)

Validate(file) ==
  IF file = None
    THEN Error("invalid JSON", TRUE)
    ELSE LET fallbacks == Fallbacks(file)
         IN Error("no domain name", file.name = None)
            \cup PolicyListIssues(file)
            \cup (UNION {WorkflowIssues(file, fallbacks, file.workflows[i]) :
                           i \in DOMAIN file.workflows})
            \cup SubWorkflowIssues(file)
            \cup (UNION {IntentIssues(file, file.intents[i]) :
                           i \in DOMAIN file.intents})

OK(issues) == \A issue \in issues : issue[1] # "error"

-----------------------------------------------------------------------------
(* Load.                                                                   *)

(* The standard library first: a hook of the same name is never reached.   *)
Resolves(s, hooks) ==
  IF s.action \in DOMAIN Standard THEN s.with \in Standard[s.action]
                                  ELSE s.action \in hooks

Buildable(s, hooks) ==
  CASE s.type = "leaf"      -> Resolves(s, hooks)
    [] s.type = "composite" -> s.sub # None
    [] s.type = "parallel"  -> /\ s.branches # <<>>
                               /\ None \notin ToSet(s.branches)
                               /\ Repeated(s.branches) = {}
    [] OTHER                -> FALSE

Loads(file, hooks) ==
  /\ file # None
  /\ file.name # None
  /\ \A i \in DOMAIN file.intents : ~Conflicting(file.intents[i])
  /\ \A i \in DOMAIN file.workflows : \A j \in DOMAIN file.workflows[i].steps :
       Buildable(file.workflows[i].steps[j], hooks)

(* The domain of a file that loads: the steps of a workflow by their id.   *)
DomainOf(file) ==
  [name |-> file.name,
   intents |-> [i \in DOMAIN file.intents |->
                  [node |-> file.intents[i].node, entry |-> EntryOf(file.intents[i])]],
   policies |-> file.policies,
   workflows |-> [i \in DOMAIN file.workflows |->
                    [id |-> file.workflows[i].id,
                     entry |-> file.workflows[i].entry,
                     steps |-> ById(file.workflows[i].steps)]]]
=============================================================================

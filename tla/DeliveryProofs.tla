---------------------------- MODULE DeliveryProofs ----------------------------
(***************************************************************************)
(* Proofs about Delivery, for any manifests, catalogs, hooks and hosts:    *)
(* what validates loads, what is drafted or installed can be served, a     *)
(* catalog that linted clean installs what was linted, a run of a manifest *)
(* without errors never meets a reference that leads nowhere, findCycle is *)
(* exact, and a run loops only where Validate said it might.               *)
(***************************************************************************)
EXTENDS Delivery, LeastNumber, SequenceTheorems, TLAPS
LOCAL INSTANCE SequencesExt

(* A condition reported as an error does not hold of a clean report.       *)
LEMMA NoError ==
  ASSUME NEW kind, NEW condition \in BOOLEAN, NEW issues, OK(issues),
         Error(kind, condition) \subseteq issues
  PROVE  ~condition
  BY DEF OK, Error, Report

(* A part of a clean report is clean.                                      *)
LEMMA CleanPart ==
  ASSUME NEW issues, NEW part, OK(issues), part \subseteq issues
  PROVE  OK(part)
  BY DEF OK

(* A step Validate has no error for is one Load builds, given its action.  *)
LEMMA CleanStepBuilds ==
  ASSUME NEW file, NEW fallbacks, NEW wf, NEW s, NEW hooks, s.action \in hooks,
         OK(StepIssues(file, fallbacks, wf, s))
  PROVE  Buildable(s, hooks)
<1>1. CASE s.type = "leaf"
  <2>1. OK(ActionIssues(s))
    BY <1>1, CleanPart, Zenon DEF StepIssues
  <2>2. Error("action misconfigured", /\ s.action \in DOMAIN Standard
                                      /\ s.with \notin Standard[s.action])
          \subseteq ActionIssues(s)
    BY Zenon DEF ActionIssues
  <2>3. ~(s.action \in DOMAIN Standard /\ s.with \notin Standard[s.action])
    BY <2>1, <2>2, NoError, Zenon
  <2> QED
    BY <1>1, <2>3 DEF Buildable, Resolves
<1>2. CASE s.type = "composite"
  <2>1. OK(CompositeIssues(file, s))
    BY <1>2, CleanPart, Zenon DEF StepIssues
  <2>2. Error("no sub-workflow", s.sub = None) \subseteq CompositeIssues(file, s)
    BY Zenon DEF CompositeIssues
  <2>3. s.sub # None
    BY <2>1, <2>2, NoError, Zenon
  <2> QED
    BY <1>2, <2>3 DEF Buildable
<1>3. CASE s.type = "parallel"
  <2> DEFINE unknown == {b \in ToSet(s.branches) : b \notin WorkflowIds(file)}
  <2>1. OK(BranchIssues(file, s))
    BY <1>3, CleanPart, Zenon DEF StepIssues
  <2>2. /\ Error("no branches", s.branches = <<>>) \subseteq BranchIssues(file, s)
        /\ Error("empty branch", None \in ToSet(s.branches)) \subseteq BranchIssues(file, s)
        /\ Error("unknown branch", unknown \ {None} # {}) \subseteq BranchIssues(file, s)
        /\ Error("branch listed twice", Repeated(s.branches) \ (unknown \cup {None}) # {})
             \subseteq BranchIssues(file, s)
    BY Zenon DEF BranchIssues
  <2>3. /\ s.branches # <<>> /\ None \notin ToSet(s.branches)
        /\ unknown \ {None} = {} /\ Repeated(s.branches) \ (unknown \cup {None}) = {}
    BY <2>1, <2>2, NoError, Zenon
  <2>4. Repeated(s.branches) \subseteq ToSet(s.branches)
    BY DEF Repeated, ToSet
  <2>5. Repeated(s.branches) = {}
    BY <2>3, <2>4
  <2> QED
    BY <1>3, <2>3, <2>5 DEF Buildable
<1>4. CASE s.type \notin {"leaf", "composite", "parallel"}
  <2>1. Error("unknown type", TRUE) \subseteq StepIssues(file, fallbacks, wf, s)
    BY <1>4, Zenon DEF StepIssues
  <2> QED
    BY <2>1, NoError, Zenon
<1> QED
  BY <1>1, <1>2, <1>3, <1>4

(* The parts of a report of a file.                                        *)
LEMMA ReportParts ==
  ASSUME NEW file, OK(Validate(file))
  PROVE  /\ file # None /\ file.name # None
         /\ \A i \in DOMAIN file.workflows :
              OK(WorkflowIssues(file, Fallbacks(file), file.workflows[i]))
         /\ \A i \in DOMAIN file.intents : OK(IntentIssues(file, file.intents[i]))
<1>1. file # None
  <2>1. file = None => Error("invalid JSON", TRUE) \subseteq Validate(file)
    BY Zenon DEF Validate
  <2> QED
    BY <2>1, NoError, Zenon
<1> DEFINE flows == {WorkflowIssues(file, Fallbacks(file), file.workflows[i]) :
                       i \in DOMAIN file.workflows}
           intents == {IntentIssues(file, file.intents[i]) : i \in DOMAIN file.intents}
<1>2. Validate(file) = Error("no domain name", file.name = None)
                         \cup PolicyListIssues(file) \cup (UNION flows)
                         \cup SubWorkflowIssues(file) \cup (UNION intents)
  BY <1>1, Zenon DEF Validate
<1>3. /\ Error("no domain name", file.name = None) \subseteq Validate(file)
      /\ \A issues \in flows \cup intents : issues \subseteq Validate(file)
  <2> HIDE DEF flows, intents
  <2> QED
    BY <1>2, Zenon
<1>4. file.name # None
  BY <1>3, NoError, Zenon
<1>5. \A issues \in flows \cup intents : OK(issues)
  <2> HIDE DEF flows, intents
  <2> QED
    BY <1>3, CleanPart, Zenon
<1> QED
  BY <1>1, <1>4, <1>5

(* Validate and Load agree: a manifest without errors loads in every host  *)
(* that has the actions it names (manifest.Validate against manifest.Load  *)
(* and buildStep).                                                         *)
THEOREM ValidLoads ==
  ASSUME NEW file, OK(Validate(file))
  PROVE  Loads(file, Actions(file))
<1>1. file # None /\ file.name # None
  BY ReportParts
<1>2. ASSUME NEW i \in DOMAIN file.intents PROVE ~Conflicting(file.intents[i])
  <2>1. OK(IntentIssues(file, file.intents[i]))
    BY ReportParts
  <2>2. Error("conflicting entry", Conflicting(file.intents[i]))
          \subseteq IntentIssues(file, file.intents[i])
    BY Zenon DEF IntentIssues
  <2>3. Conflicting(file.intents[i]) \in BOOLEAN
    BY DEF Conflicting
  <2> QED
    BY <2>1, <2>2, <2>3, NoError, Zenon
<1>3. ASSUME NEW i \in DOMAIN file.workflows, NEW j \in DOMAIN file.workflows[i].steps
      PROVE  Buildable(file.workflows[i].steps[j], Actions(file))
  <2> DEFINE wf == file.workflows[i]
             issues == StepIssues(file, Fallbacks(file), wf, wf.steps[j])
  <2>1. issues \subseteq WorkflowIssues(file, Fallbacks(file), wf)
    BY Zenon DEF WorkflowIssues
  <2>2. OK(issues)
    BY <2>1, ReportParts, CleanPart
  <2>3. wf.steps[j].action \in Actions(file)
    BY DEF Actions
  <2> QED
    BY <2>2, <2>3, CleanStepBuilds
<1> QED
  BY <1>1, <1>2, <1>3 DEF Loads

-----------------------------------------------------------------------------
(* What is delivered was validated: what an author drafted, what is being  *)
(* written and what is installed.                                          *)
DraftInv ==
  /\ DOMAIN author = {"phase", "hooks", "attempts", "manifest"}
  /\ author.manifest # None =>
       /\ OK(Validate(author.manifest))
       /\ author.hooks = {} => Loads(author.manifest, {})

PluginInv ==
  /\ writing # None => OK(Validate(writing.file))
  /\ \A n \in DOMAIN plugins : plugins[n] # None => OK(Validate(plugins[n]))

(* A catalog is a list, and one that linted clean still does.              *)
Entry == [name : {m.name : m \in Metas}, tier : {m.tier : m \in Metas},
          version : {m.version : m \in Metas}, domain : {m.domain : m \in Metas},
          file : Manuscripts]

IndexInv == index \in Seq(Entry) /\ (linted => OK(Lint))

LEMMA DInit == Init => DraftInv /\ PluginInv /\ IndexInv
  BY DEF Init, DraftInv, PluginInv, IndexInv, Empty

(* Every step but those of a draft leaves the author as it is.             *)
LEMMA AuthorSteps ==
  ASSUME [Next]_vars
  PROVE  Reply \/ ChatFails \/ author' = author
  BY Zenon DEF Next, Walk, vars, catalogVars, walkUnchanged, Publish, Edit, runLint,
     runInstall, Written, InstallDies, runServe, RegisterNeighbour, RegisterItem,
     Start, Succeeds, Fails, Calls, Ends, StepMissing, OnFailure

(* Drafting.                                                               *)
LEMMA DraftNext == DraftInv /\ [Next]_vars => DraftInv'
<1> SUFFICES ASSUME DraftInv, [Next]_vars PROVE DraftInv'
  OBVIOUS
<1>1. CASE Reply
  <2> PICK reply \in Replies :
        author' =
          IF Acceptable(reply)
            THEN [author EXCEPT !.phase = "drafted", !.manifest = reply]
            ELSE [author EXCEPT
                    !.attempts = @ + 1,
                    !.phase = IF author.attempts + 1 = DefaultMaxAttempts
                                THEN "gaveUp" ELSE "drafting"]
    BY <1>1, Zenon DEF Reply
  <2>1. CASE Acceptable(reply)
    BY <2>1 DEF DraftInv, Acceptable
  <2>2. CASE ~Acceptable(reply)
    BY <2>2 DEF DraftInv
  <2> QED
    BY <2>1, <2>2
<1>2. CASE ChatFails
  BY <1>2 DEF ChatFails, DraftInv
<1>3. CASE author' = author
  BY <1>3 DEF DraftInv
<1> QED
  BY <1>1, <1>2, <1>3, AuthorSteps

(* Every other step leaves the catalog and the plugins as they are.        *)
LEMMA CatalogSteps ==
  ASSUME [Next]_vars
  PROVE  \/ Publish \/ Edit \/ runLint \/ runInstall \/ Written \/ InstallDies
         \/ UNCHANGED catalogVars
  BY Zenon DEF Next, Walk, vars, catalogVars, hostVars, walkUnchanged, Reply, ChatFails,
     runServe, RegisterNeighbour, RegisterItem, Start, Succeeds, Fails, Calls,
     Ends, StepMissing, OnFailure

(* Installing: a plugin is what was validated, or cut short.               *)
LEMMA PluginNext == PluginInv /\ [Next]_vars => PluginInv'
<1> SUFFICES ASSUME PluginInv, [Next]_vars PROVE PluginInv'
  OBVIOUS
<1>1. CASE runInstall
  <2> PICK i \in DOMAIN index :
        LET e == Find(index[i].name)
        IN /\ Installs(e)
           /\ writing' = [name |-> e.name, file |-> e.file]
           /\ plugins' = With(plugins, e.name, None)
    BY <1>1 DEF runInstall
  <2> DEFINE e == Find(index[i].name)
  <2>1. OK(Validate(e.file)) /\ writing'.file = e.file
    BY DEF Installs
  <2>2. \A n \in DOMAIN plugins' :
          plugins'[n] # None => n \in DOMAIN plugins /\ plugins'[n] = plugins[n]
    <3> HIDE DEF e
    <3> QED
      BY DEF With
  <2> QED
    BY <2>1, <2>2 DEF PluginInv
<1>2. CASE Written
  BY <1>2 DEF Written, PluginInv
<1>3. CASE InstallDies \/ UNCHANGED <<plugins, writing>>
  BY <1>3 DEF InstallDies, PluginInv
<1> QED
  BY <1>1, <1>2, <1>3, CatalogSteps DEF Publish, Edit, runLint, catalogVars

(* The catalog: every change of it asks for another lint.                  *)
LEMMA IndexNext == IndexInv /\ [Next]_vars => IndexInv'
<1> SUFFICES ASSUME IndexInv, [Next]_vars PROVE IndexInv'
  OBVIOUS
<1>1. CASE Publish
  BY <1>1 DEF Publish, IndexInv, Entry
<1>2. CASE Edit
  <2> PICK i \in DOMAIN index, file \in Manuscripts :
        index' = [index EXCEPT ![i].file = file]
    BY <1>2 DEF Edit
  <2>1. index \in Seq(Entry) /\ index[i] \in Entry
    BY DEF IndexInv
  <2>2. [index[i] EXCEPT !.file = file] \in Entry
    BY <2>1 DEF Entry
  <2>3. index' \in Seq(Entry)
    BY <2>1, <2>2
  <2> QED
    BY <1>2, <2>3 DEF Edit, IndexInv
<1>3. ASSUME index' = index PROVE Lint' = Lint
  <2>1. ASSUME NEW i PROVE LintEntry(i)' = LintEntry(i)
    BY <1>3 DEF LintEntry
  <2> QED
    BY <1>3, <2>1 DEF Lint
<1>4. CASE runLint
  BY <1>3, <1>4 DEF runLint, IndexInv
<1>5. CASE UNCHANGED <<index, linted>>
  BY <1>3, <1>5 DEF IndexInv
<1> QED
  BY <1>1, <1>2, <1>4, <1>5, CatalogSteps DEF runInstall, Written, InstallDies, catalogVars

(* What is printed or installed whole can be served (draft.Draft,          *)
(* catalog.Install against manifest.Load).                                 *)
THEOREM DeliveredIsServable == Spec => []DeliveredServes
<1>1. DraftInv /\ PluginInv => DeliveredServes
  BY ValidLoads DEF DraftInv, PluginInv, DeliveredServes, Serves
<1> QED
  BY DInit, DraftNext, PluginNext, <1>1, PTL DEF Spec

(* A catalog that linted clean installs each entry it lists, and under its *)
(* name no other (catalog.Lint against Find and Install).                  *)
THEOREM LintIsEnough == Spec => []LintedInstalls
<1>1. IndexInv => LintedInstalls
  <2> SUFFICES ASSUME IndexInv, linted, NEW i \in DOMAIN index
               PROVE  Installs(index[i]) /\ Find(index[i].name) = index[i]
    BY DEF LintedInstalls
  <2>1. DOMAIN index \subseteq Nat
    BY DEF IndexInv
  <2>2. ASSUME NEW j \in DOMAIN index
        PROVE  /\ SafeName(index[j].name) /\ index[j].file # Missing
               /\ OK(Validate(index[j].file))
               /\ ~\E k \in 1 .. j - 1 : index[k].name = index[j].name
    <3>1. OK(LintEntry(j))
      <4>1. LintEntry(j) \subseteq Lint
        BY DEF Lint
      <4> QED
        BY <4>1, CleanPart DEF IndexInv
    <3>2. SafeName(index[j].name)
      <4>1. ~SafeName(index[j].name) => Error("unusable name", TRUE) \subseteq LintEntry(j)
        BY Zenon DEF LintEntry
      <4> QED
        BY <3>1, <4>1, NoError, Zenon
    <3>3. Error("duplicate entry name", \E k \in 1 .. j - 1 : index[k].name = index[j].name)
            \subseteq LintEntry(j)
      BY <3>2, Zenon DEF LintEntry
    <3>4. index[j].file = Missing => Error("cannot read manifest", TRUE) \subseteq LintEntry(j)
      BY <3>2, Zenon DEF LintEntry
    <3>5. index[j].file # Missing => Validate(index[j].file) \subseteq LintEntry(j)
      BY <3>2, Zenon DEF LintEntry
    <3>6. ~\E k \in 1 .. j - 1 : index[k].name = index[j].name
      BY <3>1, <3>3, NoError, Zenon
    <3>7. index[j].file # Missing
      BY <3>1, <3>4, NoError, Zenon
    <3> QED
      BY <3>1, <3>2, <3>5, <3>6, <3>7, CleanPart
  <2>3. \A j \in DOMAIN index : index[j].name = index[i].name => j = i
    <3> SUFFICES ASSUME NEW j \in DOMAIN index, index[j].name = index[i].name, j # i
                 PROVE  FALSE
      OBVIOUS
    <3>1. j \in 1 .. i - 1 \/ i \in 1 .. j - 1
      BY DEF IndexInv
    <3> QED
      BY <2>2, <3>1
  <2>4. Find(index[i].name) = index[i]
    <3> DEFINE First(j) == /\ index[j].name = index[i].name
                           /\ \A k \in 1 .. j - 1 : index[k].name # index[i].name
    <3>1. First(i) /\ \A j \in DOMAIN index : First(j) => j = i
      BY <2>2, <2>3
    <3>2. (CHOOSE j \in DOMAIN index : First(j)) = i
      BY <3>1
    <3> QED
      BY <3>2 DEF Find
  <2> QED
    BY <2>2, <2>4 DEF Installs
<1> QED
  BY DInit, IndexNext, <1>1, PTL DEF Spec

-----------------------------------------------------------------------------
(* What an engine holds of the domains registered in it: each thing came   *)
(* from a list of the domain it is stamped with, and of every domain what  *)
(* was registered so far is there, a policy as its last entry says unless  *)
(* another domain has replaced it.                                         *)
Files == {file \in Replies \cup Neighbours : file # None}

Given(d) == Items(DomainOf(hosted[d]))
Left(d)  == IF d = Len(hosted) THEN Len(pending) ELSE 0
Done(d)  == Len(Given(d)) - Left(d)

Placed(d, i) ==
  LET wf == hosted[d].workflows[i]
  IN [id |-> wf.id, entry |-> wf.entry, steps |-> ById(wf.steps), domain |-> d]

QueueInv ==
  /\ hosted \in Seq(Files) /\ IsList(pending)
  /\ hosted = <<>> => pending = <<>>
  /\ hosted # <<>> =>
       LET d == Len(hosted)
       IN /\ Len(pending) <= Len(Given(d))
          /\ \A x \in 1 .. Len(pending) : pending[x] = Given(d)[Done(d) + x]

WorkflowFrom(id) ==
  \E d \in DOMAIN hosted : \E i \in DOMAIN hosted[d].workflows :
    hosted[d].workflows[i].id = id /\ engine.workflows[id] = Placed(d, i)

PolicyFrom(id) ==
  /\ engine.policies[id].domain \in DOMAIN hosted
  /\ id \in Ids(hosted[engine.policies[id].domain].policies)

RouteFrom(x) ==
  \E d \in DOMAIN hosted : \E i \in DOMAIN hosted[d].intents :
    engine.routes[x] = [entry |-> EntryOf(hosted[d].intents[i]), domain |-> d]

EngineInv ==
  /\ DOMAIN engine = {"workflows", "policies", "routes"}
  /\ IsList(engine.routes)
  /\ \A id \in DOMAIN engine.workflows : WorkflowFrom(id)
  /\ \A id \in DOMAIN engine.policies : PolicyFrom(id)
  /\ \A x \in DOMAIN engine.routes : RouteFrom(x)

(* The last of a domain's items of that kind and id.                       *)
LastOf(d, x) ==
  \A y \in DOMAIN Given(d) : y > x =>
    ~(Given(d)[y].kind = Given(d)[x].kind /\ Given(d)[y].item.id = Given(d)[x].item.id)

Registered(d, x) ==
  LET it == Given(d)[x].item
  IN /\ Given(d)[x].kind = "workflow" => it.id \in DOMAIN engine.workflows
     /\ Given(d)[x].kind = "policy" =>
          /\ it.id \in DOMAIN engine.policies
          /\ LastOf(d, x) => \/ engine.policies[it.id].domain # d
                             \/ engine.policies[it.id].fallback = it.fallback

GivenInv == \A d \in DOMAIN hosted : \A x \in 1 .. Done(d) : Registered(d, x)

Dangling == {"missing step", "unknown workflow", "unknown policy", "missing compensation"}

AtHome(fr) ==
  /\ \E i \in DOMAIN RunFile.workflows : fr.wf = Placed(run.domain, i)
  /\ fr.at = None \/ fr.at \in DOMAIN fr.wf.steps
  /\ fr.undo \subseteq DOMAIN fr.wf.steps

Shape(r) ==
  /\ DOMAIN r = {"frames", "domain", "met", "failing", "over", "settled"}
  /\ r.over \in BOOLEAN /\ r.failing \in BOOLEAN
  /\ IsList(r.frames)
  /\ \A k \in DOMAIN r.frames :
       DOMAIN r.frames[k] = {"wf", "at", "visited", "detour", "undo"}

RunInv ==
  /\ Shape(run) /\ (run.over \/ run.frames # <<>>)
  /\ run.domain \in DOMAIN hosted
  /\ run.settled => run.domain < Len(hosted) \/ pending = <<>>

Safe(r) ==
  /\ r.met \cap Dangling = {}
  /\ \A k \in DOMAIN r.frames :
       AtHome(r.frames[k]) /\ (k < Len(r.frames) => r.frames[k].at # None)

SafeWalk ==
  Safe(run) /\ (run.failing /\ ~run.over => Top.at # None)

WalkInv == run # None => RunInv /\ (Sound => SafeWalk)
RefsInv == QueueInv /\ EngineInv /\ GivenInv /\ WalkInv
(* The entry of a map filled from a list is the last of the list that has  *)
(* the id.                                                                 *)
LEMMA ByIdIsLast ==
  ASSUME NEW list, IsList(list), NEW id \in Ids(list)
  PROVE  /\ DOMAIN ById(list) = Ids(list)
         /\ \E i \in DOMAIN list :
              /\ list[i].id = id /\ ById(list)[id] = list[i]
              /\ \A j \in DOMAIN list : list[j].id = id => j <= i
<1> DEFINE S == {i \in DOMAIN list : list[i].id = id}
           Last1(i) == /\ list[i].id = id
                       /\ \A j \in DOMAIN list : list[j].id = id => j <= i
<1>1. PICK n \in Nat : DOMAIN list = 1 .. n
  BY DEF IsList
<1>2. S \subseteq 1 .. n /\ S # {}
  BY <1>1 DEF Ids
<1>3. PICK g \in S : \A m \in S : m <= g
  BY <1>1, <1>2, Greatest
<1>4. \E i \in DOMAIN list : Last1(i)
  BY <1>3
<1>5. ById(list)[id] = list[CHOOSE i \in DOMAIN list : Last1(i)]
  BY DEF ById, Ids
<1>6. DOMAIN ById(list) = Ids(list)
  BY DEF ById, Ids
<1> QED
  BY <1>4, <1>5, <1>6

(* What is known of sequences built from lists.                            *)
LEMMA ListOf ==
  ASSUME NEW T, NEW n \in Nat, NEW s \in [1 .. n -> T]
  PROVE  s \in Seq(T) /\ Len(s) = n
  OBVIOUS

Joins(I, A, B, C) ==
  /\ Len(I) = Len(A) + Len(B) + Len(C)
  /\ \A i \in 1 .. Len(A) : I[i] = A[i]
  /\ \A i \in 1 .. Len(B) : I[Len(A) + i] = B[i]
  /\ \A i \in 1 .. Len(C) : I[Len(A) + Len(B) + i] = C[i]

LEMMA ThreeLists ==
  ASSUME NEW T, NEW A \in Seq(T), NEW B \in Seq(T), NEW C \in Seq(T)
  PROVE  A \o B \o C \in Seq(T) /\ Joins(A \o B \o C, A, B, C)
<1>1. A \o B \in Seq(T) /\ Len(A \o B) = Len(A) + Len(B)
  OBVIOUS
<1>2. \A i \in 1 .. Len(A \o B) :
        (A \o B)[i] = IF i <= Len(A) THEN A[i] ELSE B[i - Len(A)]
  OBVIOUS
<1>3. PICK AB \in Seq(T) :
        /\ AB = A \o B
        /\ Len(AB) = Len(A) + Len(B)
        /\ \A i \in 1 .. Len(AB) : AB[i] = IF i <= Len(A) THEN A[i] ELSE B[i - Len(A)]
  BY <1>1, <1>2, Zenon
<1>4. /\ AB \o C \in Seq(T) /\ Len(AB \o C) = Len(AB) + Len(C)
      /\ \A i \in 1 .. Len(AB \o C) :
           (AB \o C)[i] = IF i <= Len(AB) THEN AB[i] ELSE C[i - Len(AB)]
  OBVIOUS
<1>5. PICK I \in Seq(T) :
        /\ I = A \o B \o C
        /\ Len(I) = Len(AB) + Len(C)
        /\ \A i \in 1 .. Len(I) : I[i] = IF i <= Len(AB) THEN AB[i] ELSE C[i - Len(AB)]
  BY <1>3, <1>4, Zenon
<1>6. PICK m \in Nat, n \in Nat, p \in Nat : m = Len(A) /\ n = Len(B) /\ p = Len(C)
  OBVIOUS
<1>7. \A i \in 1 .. m : I[i] = A[i]
  BY <1>3, <1>5, <1>6
<1>8. \A i \in 1 .. n : I[m + i] = B[i]
  BY <1>3, <1>5, <1>6
<1>9. \A i \in 1 .. p : I[m + n + i] = C[i]
  BY <1>3, <1>5, <1>6
<1> QED
  BY <1>3, <1>5, <1>6, <1>7, <1>8, <1>9 DEF Joins

(* Any sequence is a list.                                                 *)
LEMMA SequencesAreLists ==
  ASSUME NEW T, NEW s \in Seq(T)
  PROVE  IsList(s) /\ DOMAIN s = 1 .. Len(s) /\ Len(s) \in Nat
<1>1. s \in [1 .. Len(s) -> ToSet(s)]
  BY DEF ToSet
<1> QED
  BY <1>1, ListOf DEF IsList

(* The items of a domain: its intents, its workflows, its policies.        *)
InOrder(items, file, m, n, p) ==
  /\ m \in Nat /\ DOMAIN file.intents = 1 .. m
  /\ n \in Nat /\ DOMAIN file.workflows = 1 .. n
  /\ p \in Nat /\ DOMAIN file.policies = 1 .. p
  /\ IsList(items) /\ Len(items) = m + n + p
  /\ \A i \in 1 .. m : /\ items[i].kind = "intent"
                       /\ items[i].item.entry = EntryOf(file.intents[i])
  /\ \A i \in 1 .. n :
       /\ items[m + i].kind = "workflow"
       /\ items[m + i].item = [id |-> file.workflows[i].id,
                               entry |-> file.workflows[i].entry,
                               steps |-> ById(file.workflows[i].steps)]
  /\ \A i \in 1 .. p : /\ items[m + n + i].kind = "policy"
                       /\ items[m + n + i].item = file.policies[i]

LEMMA ItemsInOrder ==
  ASSUME NEW file, HasLists(file)
  PROVE  InOrder(Items(DomainOf(file)), file,
                 Len(file.intents), Len(file.workflows), Len(file.policies))
<1>0. PICK m, n, p : m = Len(file.intents) /\ n = Len(file.workflows) /\ p = Len(file.policies)
  OBVIOUS
<1> DEFINE D == DomainOf(file)
           A == Of("intent", D.intents)
           B == Of("workflow", D.workflows)
           C == Of("policy", D.policies)
           T == ToSet(A) \cup ToSet(B) \cup ToSet(C)
<1>1. /\ m \in Nat /\ n \in Nat /\ p \in Nat /\ DOMAIN file.intents = 1 .. m
      /\ DOMAIN file.workflows = 1 .. n /\ DOMAIN file.policies = 1 .. p
  BY <1>0 DEF HasLists, IsList
<1>2. /\ DOMAIN D.intents = 1 .. m /\ DOMAIN D.workflows = 1 .. n /\ D.policies = file.policies
      /\ \A i \in 1 .. m : D.intents[i].entry = EntryOf(file.intents[i])
      /\ \A i \in 1 .. n : D.workflows[i] = [id |-> file.workflows[i].id,
                                             entry |-> file.workflows[i].entry,
                                             steps |-> ById(file.workflows[i].steps)]
  BY <1>1 DEF DomainOf
<1>3. /\ A = [i \in 1 .. m |-> [kind |-> "intent", item |-> D.intents[i]]]
      /\ B = [i \in 1 .. n |-> [kind |-> "workflow", item |-> D.workflows[i]]]
      /\ C = [i \in 1 .. p |-> [kind |-> "policy", item |-> file.policies[i]]]
  BY <1>1, <1>2 DEF Of
<1>4. A \in Seq(T) /\ B \in Seq(T) /\ C \in Seq(T) /\ m = Len(A) /\ n = Len(B) /\ p = Len(C)
  <2>1. /\ A \in [1 .. m -> T] /\ B \in [1 .. n -> T] /\ C \in [1 .. p -> T]
    BY <1>3 DEF ToSet
  <2> HIDE DEF A, B, C, T
  <2> QED
    BY <1>1, <2>1, ListOf
<1>5. Items(D) = A \o B \o C
  BY DEF Items
<1> HIDE DEF A, B, C, T
<1>6. PICK I \in Seq(T) : Items(D) = I /\ Joins(I, A, B, C)
  BY <1>4, <1>5, ThreeLists
<1>7. IsList(Items(D)) /\ Len(Items(D)) = m + n + p
  BY <1>4, <1>6, SequencesAreLists DEF Joins
<1> HIDE DEF D
<1>8. ASSUME NEW i \in 1 .. m
      PROVE  /\ Items(D)[i].kind = "intent"
             /\ Items(D)[i].item.entry = EntryOf(file.intents[i])
  <2>1. Items(D)[i] = [kind |-> "intent", item |-> D.intents[i]]
    BY <1>3, <1>4, <1>6 DEF Joins
  <2> QED
    BY <1>2, <2>1
<1>9. ASSUME NEW i \in 1 .. n
      PROVE  /\ Items(D)[m + i].kind = "workflow"
             /\ Items(D)[m + i].item = [id |-> file.workflows[i].id,
                                        entry |-> file.workflows[i].entry,
                                        steps |-> ById(file.workflows[i].steps)]
  <2>1. Items(D)[m + i] = B[i]
    BY <1>4, <1>6 DEF Joins
  <2>2. B[i] = [kind |-> "workflow", item |-> D.workflows[i]]
    BY <1>3
  <2> QED
    BY <1>2, <2>1, <2>2
<1>10. ASSUME NEW i \in 1 .. p
       PROVE  /\ Items(D)[m + n + i].kind = "policy"
              /\ Items(D)[m + n + i].item = file.policies[i]
  <2>1. Items(D)[m + n + i] = [kind |-> "policy", item |-> file.policies[i]]
    BY <1>3, <1>4, <1>6 DEF Joins
  <2> QED
    BY <2>1
<1> QED
  BY <1>0, <1>1, <1>7, <1>8, <1>9, <1>10, Zenon DEF D, InOrder

-----------------------------------------------------------------------------
(* What a report without errors says of a file: every reference leads      *)
(* somewhere.                                                              *)
LeadsSomewhere(file, wf, s) ==
  /\ s.onSuccess = None \/ s.onSuccess \in StepIds(wf)
  /\ s.undo = None \/ s.undo \in StepIds(wf)
  /\ s.policy = None \/ s.policy \in Ids(file.policies) \ {None}
  /\ FallbackOf(Fallbacks(file), s) = None \/ FallbackOf(Fallbacks(file), s) \in StepIds(wf)
  /\ s.type # "leaf" => Callees(s) \subseteq WorkflowIds(file)

LEMMA CleanStep ==
  ASSUME NEW file, NEW wf, NEW s, OK(StepIssues(file, Fallbacks(file), wf, s))
  PROVE  LeadsSomewhere(file, wf, s)
<1> DEFINE fallbacks == Fallbacks(file)
           issues == StepIssues(file, fallbacks, wf, s)
<1>1. s.onSuccess = None \/ s.onSuccess \in StepIds(wf)
  <2>1. Error("unknown on_success", s.onSuccess # None /\ s.onSuccess \notin StepIds(wf))
          \subseteq issues
    BY Zenon DEF StepIssues
  <2> QED
    BY <2>1, NoError, Zenon
<1>2. s.undo = None \/ s.undo \in StepIds(wf)
  <2>1. Error("unknown compensation", s.undo # None /\ s.undo \notin StepIds(wf))
          \subseteq issues
    BY Zenon DEF StepIssues, UndoIssues
  <2> QED
    BY <2>1, NoError, Zenon
<1>3. s.policy = None \/ s.policy \in DOMAIN fallbacks
  <2>1. Error("unknown policy", s.policy # None /\ s.policy \notin DOMAIN fallbacks)
          \subseteq issues
    BY Zenon DEF StepIssues, PolicyIssues
  <2> QED
    BY <2>1, NoError, Zenon
<1>4. FallbackOf(fallbacks, s) = None \/ FallbackOf(fallbacks, s) \in StepIds(wf)
  <2>1. Error("unknown fallback", /\ FallbackOf(fallbacks, s) # None
                                  /\ FallbackOf(fallbacks, s) \notin StepIds(wf))
          \subseteq issues
    BY Zenon DEF StepIssues, PolicyIssues
  <2> QED
    BY <2>1, NoError, Zenon
<1>5. CASE s.type = "composite"
  <2>1. CompositeIssues(file, s) \subseteq issues
    BY <1>5, Zenon DEF StepIssues
  <2>2. /\ Error("no sub-workflow", s.sub = None) \subseteq issues
        /\ Error("unknown sub-workflow", s.sub # None /\ s.sub \notin WorkflowIds(file))
             \subseteq issues
    BY <2>1, Zenon DEF CompositeIssues
  <2>3. s.sub # None /\ ~(s.sub # None /\ s.sub \notin WorkflowIds(file))
    BY <2>2, NoError, Zenon
  <2> QED
    BY <1>1, <1>2, <1>3, <1>4, <1>5, <2>3 DEF LeadsSomewhere, Callees, Fallbacks
<1>6. CASE s.type = "parallel"
  <2> DEFINE unknown == {b \in ToSet(s.branches) : b \notin WorkflowIds(file)}
  <2>1. BranchIssues(file, s) \subseteq issues
    BY <1>6, Zenon DEF StepIssues
  <2>2. /\ Error("empty branch", None \in ToSet(s.branches)) \subseteq issues
        /\ Error("unknown branch", unknown \ {None} # {}) \subseteq issues
    BY <2>1, Zenon DEF BranchIssues
  <2>3. None \notin ToSet(s.branches) /\ unknown \ {None} = {}
    BY <2>2, NoError, Zenon
  <2>4. ToSet(s.branches) \subseteq WorkflowIds(file)
    BY <2>3
  <2> QED
    BY <1>1, <1>2, <1>3, <1>4, <1>6, <2>4 DEF LeadsSomewhere, Callees, Fallbacks
<1>7. CASE s.type = "leaf"
  BY <1>1, <1>2, <1>3, <1>4, <1>7 DEF LeadsSomewhere, Fallbacks
<1>8. CASE s.type \notin {"leaf", "composite", "parallel"}
  <2>1. Error("unknown type", TRUE) \subseteq issues
    BY <1>8, Zenon DEF StepIssues
  <2> QED
    BY <2>1, NoError, Zenon
<1> QED
  BY <1>5, <1>6, <1>7, <1>8

LEMMA CleanFile ==
  ASSUME NEW file, OK(Validate(file))
  PROVE  /\ \A i \in DOMAIN file.intents : EntryOf(file.intents[i]) \in WorkflowIds(file)
         /\ \A i \in DOMAIN file.workflows :
              LET wf == file.workflows[i]
              IN /\ wf.entry \in StepIds(wf) /\ None \notin Ids(wf.steps)
                 /\ \A j \in DOMAIN wf.steps : LeadsSomewhere(file, wf, wf.steps[j])
<1>1. ASSUME NEW i \in DOMAIN file.intents
      PROVE  EntryOf(file.intents[i]) \in WorkflowIds(file)
  <2> DEFINE entry == EntryOf(file.intents[i])
             issues == IntentIssues(file, file.intents[i])
  <2>1. /\ Error("no entry workflow", entry = None) \subseteq issues
        /\ Error("unknown entry workflow", entry # None /\ entry \notin WorkflowIds(file))
             \subseteq issues
    BY Zenon DEF IntentIssues
  <2>2. entry # None /\ ~(entry # None /\ entry \notin WorkflowIds(file))
    BY <2>1, NoError, ReportParts, Zenon
  <2> QED
    BY <2>2
<1>2. ASSUME NEW i \in DOMAIN file.workflows
      PROVE  LET wf == file.workflows[i]
             IN /\ wf.entry \in StepIds(wf) /\ None \notin Ids(wf.steps)
                /\ \A j \in DOMAIN wf.steps : LeadsSomewhere(file, wf, wf.steps[j])
  <2> DEFINE wf == file.workflows[i]
             issues == WorkflowIssues(file, Fallbacks(file), wf)
  <2>1. OK(issues)
    BY ReportParts
  <2>2. /\ Error("no step_id", None \in Ids(wf.steps)) \subseteq issues
        /\ Error("no entry step", wf.entry = None) \subseteq issues
        /\ Error("unknown entry step", wf.entry # None /\ wf.entry \notin StepIds(wf))
             \subseteq issues
        /\ \A j \in DOMAIN wf.steps :
             StepIssues(file, Fallbacks(file), wf, wf.steps[j]) \subseteq issues
    BY Zenon DEF WorkflowIssues
  <2>3. /\ None \notin Ids(wf.steps) /\ wf.entry # None
        /\ ~(wf.entry # None /\ wf.entry \notin StepIds(wf))
    BY <2>1, <2>2, NoError, Zenon
  <2>4. \A j \in DOMAIN wf.steps : LeadsSomewhere(file, wf, wf.steps[j])
    <3> TAKE j \in DOMAIN wf.steps
    <3>1. StepIssues(file, Fallbacks(file), wf, wf.steps[j]) \subseteq issues
      BY <2>2, Zenon
    <3>2. OK(StepIssues(file, Fallbacks(file), wf, wf.steps[j]))
      BY <2>1, <3>1, CleanPart
    <3> QED
      BY <3>2, CleanStep
  <2> QED
    BY <2>3, <2>4
<1> QED
  BY <1>1, <1>2

-----------------------------------------------------------------------------
(* What an item is, by its place.                                          *)
AnItem(file, it) ==
  \/ /\ it.kind = "intent"
     /\ \E i \in DOMAIN file.intents : it.item.entry = EntryOf(file.intents[i])
  \/ /\ it.kind = "workflow"
     /\ \E i \in DOMAIN file.workflows :
          it.item = [id |-> file.workflows[i].id, entry |-> file.workflows[i].entry,
                     steps |-> ById(file.workflows[i].steps)]
  \/ /\ it.kind = "policy"
     /\ \E i \in DOMAIN file.policies : it.item = file.policies[i]

LEMMA EveryItem ==
  ASSUME NEW file, HasLists(file)
  PROVE  LET items == Items(DomainOf(file))
         IN /\ IsList(items) /\ Len(items) \in Nat /\ DOMAIN items = 1 .. Len(items)
            /\ \A x \in 1 .. Len(items) : AnItem(file, items[x])
<1>1. PICK items, m, n, p :
        items = Items(DomainOf(file)) /\ InOrder(items, file, m, n, p)
  BY ItemsInOrder
<1>2. /\ m \in Nat /\ n \in Nat /\ p \in Nat /\ Len(items) = m + n + p
      /\ DOMAIN file.intents = 1 .. m
      /\ DOMAIN file.workflows = 1 .. n /\ DOMAIN file.policies = 1 .. p
  BY <1>1 DEF InOrder
<1>3. ASSUME NEW x \in 1 .. Len(items) PROVE AnItem(file, items[x])
  <2>1. CASE x <= m
    <3>1. x \in 1 .. m
      BY <1>2, <2>1
    <3> QED
      BY <1>1, <3>1 DEF AnItem, InOrder
  <2>2. CASE m < x /\ x <= m + n
    <3>1. PICK i \in 1 .. n : x = m + i
      <4>1. x - m \in 1 .. n /\ x = m + (x - m)
        BY <1>2, <2>2
      <4> QED
        BY <4>1
    <3>2. /\ items[m + i].kind = "workflow"
          /\ items[m + i].item = [id |-> file.workflows[i].id,
                                  entry |-> file.workflows[i].entry,
                                  steps |-> ById(file.workflows[i].steps)]
      BY <1>1, Zenon DEF InOrder
    <3> QED
      BY <1>2, <3>1, <3>2, Zenon DEF AnItem
  <2>3. CASE m + n < x
    <3>1. PICK i \in 1 .. p : x = m + n + i
      <4>1. x - (m + n) \in 1 .. p /\ x = m + n + (x - (m + n))
        BY <1>2, <2>3
      <4> QED
        BY <4>1
    <3>2. items[m + n + i].kind = "policy" /\ items[m + n + i].item = file.policies[i]
      BY <1>1, Zenon DEF InOrder
    <3> QED
      BY <1>2, <3>1, <3>2, Zenon DEF AnItem
  <2> QED
    BY <1>2, <2>1, <2>2, <2>3
<1>4. Len(items) \in Nat /\ DOMAIN items = 1 .. Len(items)
  BY <1>1 DEF IsList, InOrder
<1> QED
  BY <1>1, <1>3, <1>4 DEF InOrder

(* Every workflow and every policy of a file is an item, and what a policy *)
(* says last comes after all else said of it.                              *)
LEMMA EveryEntry ==
  ASSUME NEW file, HasLists(file)
  PROVE  LET items == Items(DomainOf(file))
         IN /\ \A id \in WorkflowIds(file) : \E x \in 1 .. Len(items) :
                 items[x].kind = "workflow" /\ items[x].item.id = id
            /\ \A id \in Ids(file.policies) : \E x \in 1 .. Len(items) :
                 /\ items[x].kind = "policy" /\ items[x].item.id = id
                 /\ items[x].item.fallback = ById(file.policies)[id].fallback
                 /\ \A y \in 1 .. Len(items) : y > x =>
                      ~(items[y].kind = "policy" /\ items[y].item.id = id)
<1>1. PICK items, m, n, p :
        items = Items(DomainOf(file)) /\ InOrder(items, file, m, n, p)
  BY ItemsInOrder
<1>2. /\ m \in Nat /\ n \in Nat /\ p \in Nat /\ Len(items) = m + n + p
      /\ DOMAIN file.intents = 1 .. m
      /\ DOMAIN file.workflows = 1 .. n /\ DOMAIN file.policies = 1 .. p
  BY <1>1 DEF InOrder
<1>3. ASSUME NEW id \in WorkflowIds(file)
      PROVE  \E x \in 1 .. Len(items) : items[x].kind = "workflow" /\ items[x].item.id = id
  <2>1. PICK i \in 1 .. n : file.workflows[i].id = id
    BY <1>2 DEF WorkflowIds, Ids
  <2>2. m + i \in 1 .. Len(items)
    BY <1>2
  <2>3. items[m + i].kind = "workflow" /\ items[m + i].item.id = file.workflows[i].id
    <3>1. /\ items[m + i].kind = "workflow"
          /\ items[m + i].item = [id |-> file.workflows[i].id,
                                  entry |-> file.workflows[i].entry,
                                  steps |-> ById(file.workflows[i].steps)]
      BY <1>1, Zenon DEF InOrder
    <3> QED
      BY <3>1
  <2> QED
    BY <2>1, <2>2, <2>3
<1>4. ASSUME NEW id \in Ids(file.policies)
      PROVE  \E x \in 1 .. Len(items) :
               /\ items[x].kind = "policy" /\ items[x].item.id = id
               /\ items[x].item.fallback = ById(file.policies)[id].fallback
               /\ \A y \in 1 .. Len(items) : y > x =>
                    ~(items[y].kind = "policy" /\ items[y].item.id = id)
  <2>1. PICK i \in 1 .. p :
          /\ file.policies[i].id = id /\ ById(file.policies)[id] = file.policies[i]
          /\ \A j \in 1 .. p : file.policies[j].id = id => j <= i
    BY <1>2, ByIdIsLast DEF HasLists
  <2>2. m + n + i \in 1 .. Len(items)
    BY <1>2
  <2>3. ASSUME NEW y \in 1 .. Len(items), y > m + n + i
        PROVE  ~(items[y].kind = "policy" /\ items[y].item.id = id)
    <3>1. PICK j \in 1 .. p : y = m + n + j /\ j > i
      <4>1. y - (m + n) \in 1 .. p /\ y = m + n + (y - (m + n)) /\ y - (m + n) > i
        BY <1>2, <2>3
      <4> QED
        BY <4>1
    <3>2. items[y].item = file.policies[j]
      BY <1>1, <3>1 DEF InOrder
    <3> QED
      BY <2>1, <3>1, <3>2
  <2>4. items[m + n + i].kind = "policy" /\ items[m + n + i].item = file.policies[i]
    BY <1>1 DEF InOrder
  <2> QED
    BY <2>1, <2>2, <2>3, <2>4
<1> QED
  BY <1>1, <1>3, <1>4

-----------------------------------------------------------------------------
(* The domains a host registered, and the file each was built from.        *)
LEMMA HostedFiles ==
  ASSUME QueueInv
  PROVE  /\ Len(hosted) \in Nat /\ DOMAIN hosted = 1 .. Len(hosted)
         /\ \A d \in DOMAIN hosted :
              /\ hosted[d] \in Files /\ HasLists(hosted[d])
              /\ IsList(Given(d)) /\ Len(Given(d)) \in Nat
              /\ DOMAIN Given(d) = 1 .. Len(Given(d))
              /\ \A x \in 1 .. Len(Given(d)) : AnItem(hosted[d], Given(d)[x])
         /\ Len(pending) \in Nat /\ (Len(pending) = 0 <=> pending = <<>>)
<1>1. hosted \in Seq(Files)
  BY DEF QueueInv
<1>2. \A d \in DOMAIN hosted : hosted[d] \in Files /\ HasLists(hosted[d])
  BY <1>1, DeliveryAssumption DEF Files
<1>3. Len(pending) \in Nat /\ (Len(pending) = 0 <=> pending = <<>>)
  BY DEF QueueInv, IsList
<1> QED
  BY <1>1, <1>2, <1>3, EveryItem DEF Given

(* A domain that comes to be registered leaves the others as they are.     *)
LEMMA HostingKeeps ==
  ASSUME QueueInv, EngineInv, GivenInv, pending = <<>>, NEW file \in Files,
         hosted' = Append(hosted, file), pending' = Items(DomainOf(file)),
         engine' = engine
  PROVE  /\ QueueInv' /\ EngineInv' /\ GivenInv'
         /\ Len(hosted') = Len(hosted) + 1
         /\ \A d \in DOMAIN hosted : d \in DOMAIN hosted' /\ hosted'[d] = hosted[d]
<1> PICK n \in Nat : n = Len(hosted)
  BY HostedFiles, Zenon
<1>1. /\ hosted' \in Seq(Files) /\ Len(hosted') = n + 1 /\ DOMAIN hosted = 1 .. n
      /\ \A d \in 1 .. n : hosted'[d] = hosted[d]
      /\ hosted'[n + 1] = file /\ DOMAIN hosted' = 1 .. n + 1
  BY DEF QueueInv
<1>2. HasLists(file)
  BY DeliveryAssumption DEF Files
<1>3. /\ IsList(pending') /\ Len(pending') \in Nat /\ pending' = Given(n + 1)'
  BY <1>1, <1>2, EveryItem DEF Given
<1>4. ASSUME NEW d \in 1 .. n
      PROVE  Given(d)' = Given(d) /\ Done(d)' = Done(d)
  <2>1. Given(d)' = Given(d)
    BY <1>1 DEF Given
  <2>2. Left(d) = 0 /\ Left(d)' = 0
    BY <1>1 DEF Left
  <2> QED
    BY <2>1, <2>2 DEF Done
<1>5. Done(n + 1)' = 0
  BY <1>1, <1>3 DEF Done, Left
<1>6. QueueInv'
  <2>1. \A x \in 1 .. Len(pending') : pending'[x] = Given(n + 1)'[Done(n + 1)' + x]
    BY <1>3, <1>5
  <2> QED
    BY <1>1, <1>3, <2>1 DEF QueueInv
<1>7. EngineInv'
  <2>1. \A d \in 1 .. n : \A i : Placed(d, i)' = Placed(d, i)
    BY <1>1 DEF Placed
  <2>2. ASSUME NEW id \in DOMAIN engine.workflows PROVE WorkflowFrom(id)'
    <3>1. WorkflowFrom(id)
      BY DEF EngineInv
    <3>2. PICK d \in 1 .. n : \E i \in DOMAIN hosted[d].workflows :
            hosted[d].workflows[i].id = id /\ engine.workflows[id] = Placed(d, i)
      BY <1>1, <3>1 DEF WorkflowFrom
    <3> QED
      BY <1>1, <2>1, <3>2 DEF WorkflowFrom
  <2>3. ASSUME NEW x \in DOMAIN engine.routes PROVE RouteFrom(x)'
    <3>1. RouteFrom(x)
      BY DEF EngineInv
    <3>2. PICK d \in 1 .. n : \E i \in DOMAIN hosted[d].intents :
            engine.routes[x] = [entry |-> EntryOf(hosted[d].intents[i]), domain |-> d]
      BY <1>1, <3>1 DEF RouteFrom
    <3> QED
      BY <1>1, <3>2 DEF RouteFrom
  <2>4. ASSUME NEW id \in DOMAIN engine.policies PROVE PolicyFrom(id)'
    <3>1. PolicyFrom(id)
      BY DEF EngineInv
    <3> QED
      BY <1>1, <3>1 DEF PolicyFrom
  <2> QED
    BY <2>2, <2>3, <2>4 DEF EngineInv
<1>8. GivenInv'
  <2>1. ASSUME NEW d \in 1 .. n + 1, NEW x \in 1 .. Done(d)'
        PROVE  d \in 1 .. n /\ x \in 1 .. Done(d)
    BY <1>4, <1>5
  <2>2. ASSUME NEW d \in 1 .. n, NEW x \in 1 .. Done(d)
        PROVE  Registered(d, x)'
    <3>1. Registered(d, x)
      BY <1>1 DEF GivenInv
    <3>2. LastOf(d, x)' = LastOf(d, x)
      BY <1>4 DEF LastOf
    <3> QED
      BY <1>4, <3>1, <3>2 DEF Registered
  <2> QED
    BY <1>1, <2>1, <2>2 DEF GivenInv
<1> QED
  BY <1>1, <1>6, <1>7, <1>8

(* A list with one more element.                                           *)
Extended(long, list, e) ==
  /\ IsList(long) /\ Len(long) = Len(list) + 1 /\ DOMAIN long = 1 .. Len(list) + 1
  /\ DOMAIN list = 1 .. Len(list) /\ Len(list) \in Nat
  /\ long[Len(list) + 1] = e
  /\ \A x \in 1 .. Len(list) : long[x] = list[x]

LEMMA AppendedList ==
  ASSUME NEW list, IsList(list), NEW e
  PROVE  Extended(Append(list, e), list, e)
<1> DEFINE T == ToSet(list) \cup {e}
<1>1. list \in Seq(ToSet(list))
  BY DEF IsList
<1>2. list \in Seq(T) /\ e \in T
  BY <1>1
<1> HIDE DEF T
<1>3. /\ Append(list, e) \in Seq(T) /\ Len(Append(list, e)) = Len(list) + 1
      /\ Append(list, e)[Len(list) + 1] = e
      /\ DOMAIN list = 1 .. Len(list) /\ Len(list) \in Nat
      /\ \A x \in 1 .. Len(list) : Append(list, e)[x] = list[x]
  BY <1>2
<1>4. IsList(Append(list, e)) /\ DOMAIN Append(list, e) = 1 .. Len(list) + 1
  BY <1>3, SequencesAreLists
<1> QED
  BY <1>3, <1>4 DEF Extended

(* One more item is registered.                                            *)
LEMMA RegisteringKeeps ==
  ASSUME QueueInv, EngineInv, GivenInv, RegisterItem
  PROVE  QueueInv' /\ EngineInv' /\ GivenInv'
<1> PICK n \in Nat : n = Len(hosted)
  BY HostedFiles, Zenon
<1> DEFINE x0 == Done(n) + 1
           it == Head(pending).item
<1>1. /\ n \in Nat /\ n \in DOMAIN hosted /\ pending # <<>> /\ hosted' = hosted
      /\ pending' = Tail(pending) /\ DOMAIN hosted = 1 .. n
  BY HostedFiles DEF RegisterItem, QueueInv
<1>2. /\ IsList(pending') /\ Len(pending) \in Nat \ {0} /\ Len(pending') = Len(pending) - 1
      /\ Head(pending) = pending[1]
      /\ \A x \in 1 .. Len(pending') : pending'[x] = pending[x + 1]
  <2>1. pending \in Seq(ToSet(pending)) /\ pending # <<>>
    BY <1>1 DEF QueueInv, IsList
  <2>2. /\ Tail(pending) \in Seq(ToSet(pending)) /\ Len(Tail(pending)) = Len(pending) - 1
        /\ Len(pending) \in Nat \ {0} /\ Head(pending) = pending[1]
        /\ \A x \in 1 .. Len(Tail(pending)) : Tail(pending)[x] = pending[x + 1]
    BY <2>1
  <2> QED
    BY <1>1, <2>2, SequencesAreLists
<1>3. \A d : Given(d)' = Given(d)
  BY <1>1 DEF Given
<1>4. /\ \A d \in DOMAIN hosted \ {n} : Done(d)' = Done(d)
      /\ Done(n) = Len(Given(n)) - Len(pending) /\ Done(n)' = Done(n) + 1
      /\ Done(n) \in Nat /\ x0 \in 1 .. Len(Given(n)) /\ Len(Given(n)) \in Nat
      /\ Head(pending) = Given(n)[x0]
  <2>1. Len(Given(n)) \in Nat /\ Len(pending) <= Len(Given(n))
    BY <1>1, HostedFiles DEF QueueInv
  <2>2. /\ \A d \in DOMAIN hosted \ {n} : Left(d)' = Left(d)
        /\ Left(n) = Len(pending) /\ Left(n)' = Len(pending')
    BY <1>1 DEF Left
  <2>3. Done(n) = Len(Given(n)) - Len(pending) /\ Done(n)' = Done(n) + 1
    <3>1. Done(n) = Len(Given(n)) - Len(pending)
      BY <2>2 DEF Done
    <3>2. Done(n)' = Len(Given(n)) - Len(pending')
      <4>1. Done(n)' = Len(Given(n)') - Left(n)'
        BY DEF Done
      <4> QED
        BY <1>3, <2>2, <4>1
    <3> QED
      BY <1>2, <2>1, <3>1, <3>2
  <2>4. pending[1] = Given(n)[Done(n) + 1]
    BY <1>1, <1>2 DEF QueueInv
  <2> QED
    BY <1>2, <1>3, <2>1, <2>2, <2>3, <2>4 DEF Done
<1>5. QueueInv'
  <2>1. ASSUME NEW x \in 1 .. Len(pending') PROVE pending'[x] = Given(n)[Done(n) + 1 + x]
    <3>1. x + 1 \in 1 .. Len(pending)
      BY <1>2
    <3>2. pending[x + 1] = Given(n)[Done(n) + (x + 1)]
      BY <1>1, <3>1 DEF QueueInv
    <3>3. Done(n) + (x + 1) = Done(n) + 1 + x
      BY <1>4
    <3> QED
      BY <1>2, <3>2, <3>3
  <2> QED
    BY <1>1, <1>2, <1>3, <1>4, <2>1 DEF QueueInv
<1>6. \A d, i : Placed(d, i)' = Placed(d, i)
  BY <1>1 DEF Placed
<1>7. AnItem(hosted[n], Head(pending))
  BY <1>1, <1>4, HostedFiles
<1>8. /\ DOMAIN engine = {"workflows", "policies", "routes"}
      /\ \A d, x : LastOf(d, x)' = LastOf(d, x)
  BY <1>3 DEF EngineInv, LastOf
(* What has been registered of a domain: x0 too, if it is the last.        *)
<1>9. ASSUME NEW d \in DOMAIN hosted, NEW x \in 1 .. Done(d)'
      PROVE  (x \in 1 .. Done(d) /\ Registered(d, x)) \/ (d = n /\ x = x0)
  <2>1. x \in 1 .. Done(d) \/ (d = n /\ x = x0)
    <3>1. CASE d # n
      BY <1>4, <3>1
    <3>2. CASE d = n
      <4>1. x \in 1 .. Done(n) + 1
        BY <1>4, <3>2
      <4> QED
        BY <1>4, <3>2, <4>1
    <3> QED
      BY <3>1, <3>2
  <2> QED
    BY <2>1 DEF GivenInv
<1> HIDE DEF it, x0
<1>10. CASE Head(pending).kind = "intent"
  <2>1. /\ engine'.workflows = engine.workflows /\ engine'.policies = engine.policies
        /\ engine'.routes = Append(engine.routes, [entry |-> it.entry, domain |-> n])
        /\ DOMAIN engine' = {"workflows", "policies", "routes"}
    BY <1>8, <1>10 DEF RegisterItem, it
  <2>2. PICK i \in DOMAIN hosted[n].intents : it.entry = EntryOf(hosted[n].intents[i])
    BY <1>7, <1>10 DEF AnItem, it
  <2>3. /\ IsList(engine'.routes)
        /\ \A x \in DOMAIN engine'.routes :
             \/ x \in DOMAIN engine.routes /\ engine'.routes[x] = engine.routes[x]
             \/ engine'.routes[x] = [entry |-> it.entry, domain |-> n]
    <3>1. Extended(engine'.routes, engine.routes, [entry |-> it.entry, domain |-> n])
      BY <2>1, AppendedList DEF EngineInv
    <3> QED
      BY <3>1 DEF Extended
  <2>4. EngineInv'
    <3>1. ASSUME NEW x \in DOMAIN engine'.routes PROVE RouteFrom(x)'
      <4>1. CASE x \in DOMAIN engine.routes /\ engine'.routes[x] = engine.routes[x]
        <5>1. RouteFrom(x)
          BY <4>1 DEF EngineInv
        <5> QED
          BY <1>1, <4>1, <5>1 DEF RouteFrom
      <4>2. CASE engine'.routes[x] = [entry |-> it.entry, domain |-> n]
        BY <1>1, <2>2, <4>2 DEF RouteFrom
      <4> QED
        BY <2>3, <4>1, <4>2
    <3>2. ASSUME NEW id \in DOMAIN engine'.workflows PROVE WorkflowFrom(id)'
      <4>1. WorkflowFrom(id)
        BY <2>1 DEF EngineInv
      <4> QED
        BY <1>1, <1>6, <2>1, <4>1 DEF WorkflowFrom
    <3>3. ASSUME NEW id \in DOMAIN engine'.policies PROVE PolicyFrom(id)'
      <4>1. PolicyFrom(id)
        BY <2>1 DEF EngineInv
      <4> QED
        BY <1>1, <2>1, <4>1 DEF PolicyFrom
    <3> QED
      BY <2>1, <2>3, <3>1, <3>2, <3>3 DEF EngineInv
  <2>5. GivenInv'
    <3>1. ASSUME NEW d \in DOMAIN hosted, NEW x \in 1 .. Done(d)' PROVE Registered(d, x)'
      BY <1>3, <1>4, <1>8, <1>9, <1>10, <2>1 DEF Registered
    <3> QED
      BY <1>1, <3>1 DEF GivenInv
  <2> QED
    BY <1>5, <2>4, <2>5
<1>11. CASE Head(pending).kind = "workflow"
  <2>1. /\ engine'.policies = engine.policies /\ engine'.routes = engine.routes
        /\ engine'.workflows = With(engine.workflows, it.id, Stamped(it))
        /\ DOMAIN engine' = {"workflows", "policies", "routes"}
    BY <1>8, <1>11 DEF RegisterItem, it
  <2>2. PICK i \in DOMAIN hosted[n].workflows :
          it = [id |-> hosted[n].workflows[i].id, entry |-> hosted[n].workflows[i].entry,
                steps |-> ById(hosted[n].workflows[i].steps)]
    BY <1>7, <1>11 DEF AnItem, it
  <2>3. Stamped(it) = Placed(n, i) /\ it.id = hosted[n].workflows[i].id
    BY <2>2 DEF Stamped, Placed
  <2>4. /\ DOMAIN engine'.workflows = DOMAIN engine.workflows \cup {it.id}
        /\ engine'.workflows[it.id] = Placed(n, i)
        /\ \A id \in DOMAIN engine.workflows \ {it.id} :
             engine'.workflows[id] = engine.workflows[id]
    BY <2>1, <2>3 DEF With
  <2>5. EngineInv'
    <3>1. ASSUME NEW x \in DOMAIN engine'.routes PROVE RouteFrom(x)'
      <4>1. RouteFrom(x)
        BY <2>1 DEF EngineInv
      <4> QED
        BY <1>1, <2>1, <4>1 DEF RouteFrom
    <3>2. ASSUME NEW id \in DOMAIN engine'.workflows PROVE WorkflowFrom(id)'
      <4>1. CASE id = it.id
        BY <1>1, <1>6, <2>3, <2>4, <4>1 DEF WorkflowFrom
      <4>2. CASE id # it.id
        <5>1. WorkflowFrom(id) /\ engine'.workflows[id] = engine.workflows[id]
          BY <2>4, <4>2 DEF EngineInv
        <5> QED
          BY <1>1, <1>6, <5>1 DEF WorkflowFrom
      <4> QED
        BY <4>1, <4>2
    <3>3. ASSUME NEW id \in DOMAIN engine'.policies PROVE PolicyFrom(id)'
      <4>1. PolicyFrom(id)
        BY <2>1 DEF EngineInv
      <4> QED
        BY <1>1, <2>1, <4>1 DEF PolicyFrom
    <3>4. IsList(engine'.routes)
      BY <2>1 DEF EngineInv
    <3> QED
      BY <2>1, <3>1, <3>2, <3>3, <3>4 DEF EngineInv
  <2>6. GivenInv'
    <3>1. ASSUME NEW d \in DOMAIN hosted, NEW x \in 1 .. Done(d)' PROVE Registered(d, x)'
      <4>1. CASE x \in 1 .. Done(d) /\ Registered(d, x)
        BY <1>3, <1>8, <2>1, <2>4, <4>1 DEF Registered
      <4>2. CASE d = n /\ x = x0
        <5>1. Given(d)'[x].item = it /\ Given(d)'[x].kind = "workflow"
          BY <1>3, <1>4, <1>11, <4>2 DEF it
        <5> QED
          BY <2>4, <5>1 DEF Registered
      <4> QED
        BY <1>9, <4>1, <4>2
    <3> QED
      BY <1>1, <3>1 DEF GivenInv
  <2> QED
    BY <1>5, <2>5, <2>6
<1>12. CASE Head(pending).kind = "policy"
  <2>1. /\ engine'.workflows = engine.workflows /\ engine'.routes = engine.routes
        /\ engine'.policies = With(engine.policies, it.id,
                                 [fallback |-> it.fallback, domain |-> n])
        /\ DOMAIN engine' = {"workflows", "policies", "routes"}
    BY <1>8, <1>12 DEF RegisterItem, it
  <2>2. it.id \in Ids(hosted[n].policies)
    BY <1>7, <1>12 DEF AnItem, it, Ids
  <2>3. /\ DOMAIN engine'.policies = DOMAIN engine.policies \cup {it.id}
        /\ engine'.policies[it.id] = [fallback |-> it.fallback, domain |-> n]
        /\ \A id \in DOMAIN engine.policies \ {it.id} :
             engine'.policies[id] = engine.policies[id]
    BY <2>1 DEF With
  <2>4. EngineInv'
    <3>1. ASSUME NEW x \in DOMAIN engine'.routes PROVE RouteFrom(x)'
      <4>1. RouteFrom(x)
        BY <2>1 DEF EngineInv
      <4> QED
        BY <1>1, <2>1, <4>1 DEF RouteFrom
    <3>2. ASSUME NEW id \in DOMAIN engine'.workflows PROVE WorkflowFrom(id)'
      <4>1. WorkflowFrom(id)
        BY <2>1 DEF EngineInv
      <4> QED
        BY <1>1, <1>6, <2>1, <4>1 DEF WorkflowFrom
    <3>3. ASSUME NEW id \in DOMAIN engine'.policies PROVE PolicyFrom(id)'
      <4>1. CASE id = it.id
        BY <1>1, <2>2, <2>3, <4>1 DEF PolicyFrom
      <4>2. CASE id # it.id
        <5>1. PolicyFrom(id) /\ engine'.policies[id] = engine.policies[id]
          BY <2>3, <4>2 DEF EngineInv
        <5> QED
          BY <1>1, <5>1 DEF PolicyFrom
      <4> QED
        BY <4>1, <4>2
    <3>4. IsList(engine'.routes)
      BY <2>1 DEF EngineInv
    <3> QED
      BY <2>1, <3>1, <3>2, <3>3, <3>4 DEF EngineInv
  <2>5. GivenInv'
    <3>1. ASSUME NEW d \in DOMAIN hosted, NEW x \in 1 .. Done(d)' PROVE Registered(d, x)'
      <4> DEFINE id == Given(d)[x].item.id
      <4>1. CASE d = n /\ x = x0
        <5>1. Given(d)'[x].item = it /\ Given(d)'[x].kind = "policy"
          BY <1>3, <1>4, <1>12, <4>1 DEF it
        <5> QED
          BY <2>3, <5>1 DEF Registered
      <4>2. CASE Registered(d, x) /\ Given(d)[x].kind # "policy"
        BY <1>3, <2>1, <4>2 DEF Registered
      <4>3. CASE Registered(d, x) /\ Given(d)[x].kind = "policy" /\ id # it.id
        <5>1. engine'.policies[id] = engine.policies[id] /\ id \in DOMAIN engine'.policies
          BY <2>3, <4>3 DEF Registered
        <5> QED
          BY <1>3, <1>8, <4>3, <5>1 DEF Registered
      <4>4. CASE Registered(d, x) /\ Given(d)[x].kind = "policy" /\ id = it.id /\ d # n
        BY <1>3, <2>3, <4>4 DEF Registered
      <4>5. CASE /\ x \in 1 .. Done(d) /\ Given(d)[x].kind = "policy"
                 /\ id = it.id /\ d = n
        <5>1. x0 > x /\ x0 \in DOMAIN Given(n)
          <6>1. DOMAIN Given(n) = 1 .. Len(Given(n))
            BY <1>1, HostedFiles
          <6> QED
            BY <1>4, <4>5, <6>1 DEF x0
        <5>2. ~LastOf(d, x)
          BY <1>4, <1>12, <4>5, <5>1 DEF LastOf, it
        <5> QED
          BY <1>3, <1>8, <2>3, <4>5, <5>2 DEF Registered
      <4> QED
        BY <1>9, <4>1, <4>2, <4>3, <4>4, <4>5
    <3> QED
      BY <1>1, <3>1 DEF GivenInv
  <2> QED
    BY <1>5, <2>4, <2>5
<1> QED
  BY <1>7, <1>10, <1>11, <1>12 DEF AnItem

-----------------------------------------------------------------------------
(* A domain registered whole, whose ids no other uses, is there as its     *)
(* file says.                                                              *)
LEMMA WholeDomain ==
  ASSUME QueueInv, EngineInv, GivenInv, NEW d \in DOMAIN hosted,
         d < Len(hosted) \/ pending = <<>>,
         \A e \in DOMAIN hosted : e # d =>
           /\ WorkflowIds(hosted[d]) \cap WorkflowIds(hosted[e]) = {}
           /\ Ids(hosted[d].policies) \cap Ids(hosted[e].policies) = {}
  PROVE  /\ \A id \in WorkflowIds(hosted[d]) :
              /\ id \in DOMAIN engine.workflows
              /\ \E i \in DOMAIN hosted[d].workflows : engine.workflows[id] = Placed(d, i)
         /\ \A id \in Ids(hosted[d].policies) :
              /\ id \in DOMAIN engine.policies
              /\ engine.policies[id].fallback = ById(hosted[d].policies)[id].fallback
<1>1. /\ HasLists(hosted[d]) /\ Len(Given(d)) \in Nat /\ Len(hosted) \in Nat
      /\ DOMAIN hosted = 1 .. Len(hosted) /\ DOMAIN Given(d) = 1 .. Len(Given(d))
  BY HostedFiles
<1>2. Done(d) = Len(Given(d))
  <2>1. Left(d) = 0
    BY <1>1, HostedFiles DEF Left
  <2> QED
    BY <1>1, <2>1 DEF Done
<1>3. \A x \in 1 .. Len(Given(d)) : Registered(d, x)
  BY <1>2 DEF GivenInv
<1>4. ASSUME NEW id \in WorkflowIds(hosted[d])
      PROVE  /\ id \in DOMAIN engine.workflows
             /\ \E i \in DOMAIN hosted[d].workflows : engine.workflows[id] = Placed(d, i)
  <2>1. PICK x \in 1 .. Len(Given(d)) :
          Given(d)[x].kind = "workflow" /\ Given(d)[x].item.id = id
    BY <1>1, EveryEntry DEF Given
  <2>2. id \in DOMAIN engine.workflows
    BY <1>3, <2>1 DEF Registered
  <2>3. WorkflowFrom(id)
    BY <2>2 DEF EngineInv
  <2>4. PICK e \in DOMAIN hosted : \E i \in DOMAIN hosted[e].workflows :
          hosted[e].workflows[i].id = id /\ engine.workflows[id] = Placed(e, i)
    BY <2>3 DEF WorkflowFrom
  <2>5. id \in WorkflowIds(hosted[e])
    BY <2>4 DEF WorkflowIds, Ids
  <2>6. e = d
    BY <2>5
  <2> QED
    BY <2>2, <2>4, <2>6
<1>5. ASSUME NEW id \in Ids(hosted[d].policies)
      PROVE  /\ id \in DOMAIN engine.policies
             /\ engine.policies[id].fallback = ById(hosted[d].policies)[id].fallback
  <2>1. PICK x \in 1 .. Len(Given(d)) :
          /\ Given(d)[x].kind = "policy" /\ Given(d)[x].item.id = id
          /\ Given(d)[x].item.fallback = ById(hosted[d].policies)[id].fallback
          /\ \A y \in 1 .. Len(Given(d)) : y > x =>
               ~(Given(d)[y].kind = "policy" /\ Given(d)[y].item.id = id)
    BY <1>1, EveryEntry DEF Given
  <2>2. LastOf(d, x)
    BY <1>1, <2>1 DEF LastOf
  <2>3. /\ id \in DOMAIN engine.policies
        /\ \/ engine.policies[id].domain # d
           \/ engine.policies[id].fallback = Given(d)[x].item.fallback
    BY <1>3, <2>1, <2>2 DEF Registered
  <2>4. PolicyFrom(id)
    BY <2>3 DEF EngineInv
  <2>5. engine.policies[id].domain = d
    BY <2>4 DEF PolicyFrom
  <2> QED
    BY <2>1, <2>3, <2>5
<1> QED
  BY <1>4, <1>5

(* Where a step of a frame at home leads.                                  *)
Leads(fr) ==
  LET steps == DOMAIN fr.wf.steps
      s == fr.wf.steps[fr.at]
  IN /\ None \notin steps
     /\ s.onSuccess = None \/ s.onSuccess \in steps
     /\ s.undo = None \/ s.undo \in steps
     /\ s.policy # None =>
          /\ s.policy \in DOMAIN engine.policies
          /\ \/ engine.policies[s.policy].fallback = None
             \/ engine.policies[s.policy].fallback \in steps
     /\ s.type # "leaf" => \A sub \in Callees(s) :
          /\ sub \in DOMAIN engine.workflows
          /\ AtHome(Frame(engine.workflows[sub]))
          /\ Frame(engine.workflows[sub]).at # None

LEMMA HomeFrames ==
  ASSUME QueueInv, NEW d \in DOMAIN hosted, d = run.domain, OK(Validate(hosted[d])),
         NEW i \in DOMAIN hosted[d].workflows
  PROVE  /\ AtHome(Frame(Placed(d, i))) /\ Frame(Placed(d, i)).at # None
         /\ DOMAIN Placed(d, i).steps = Ids(hosted[d].workflows[i].steps)
         /\ None \notin Ids(hosted[d].workflows[i].steps)
<1> DEFINE wf == hosted[d].workflows[i]
<1>1. wf.entry \in StepIds(wf) /\ None \notin Ids(wf.steps)
  BY CleanFile
<1>2. DOMAIN Placed(d, i).steps = Ids(wf.steps) /\ Placed(d, i).entry = wf.entry
  BY DEF Placed, ById, Ids
<1>3. /\ Frame(Placed(d, i)).wf = Placed(d, i) /\ Frame(Placed(d, i)).at = wf.entry
      /\ Frame(Placed(d, i)).undo = {}
  BY <1>2 DEF Frame
<1> QED
  BY <1>1, <1>2, <1>3 DEF AtHome, RunFile, StepIds

LEMMA HomeLeads ==
  ASSUME QueueInv, EngineInv, GivenInv, RunInv, Sound, NEW fr, AtHome(fr), fr.at # None
  PROVE  Leads(fr)
<1> PICK d \in DOMAIN hosted : d = run.domain
  BY DEF RunInv
<1>1. /\ OK(Validate(hosted[d])) /\ (d < Len(hosted) \/ pending = <<>>)
      /\ \A e \in DOMAIN hosted : e # d =>
           /\ WorkflowIds(hosted[d]) \cap WorkflowIds(hosted[e]) = {}
           /\ Ids(hosted[d].policies) \cap Ids(hosted[e].policies) = {}
  BY DEF Sound, RunInv, RunFile
<1>1a. /\ \A id \in WorkflowIds(hosted[d]) :
            /\ id \in DOMAIN engine.workflows
            /\ \E k \in DOMAIN hosted[d].workflows : engine.workflows[id] = Placed(d, k)
       /\ \A id \in Ids(hosted[d].policies) :
            /\ id \in DOMAIN engine.policies
            /\ engine.policies[id].fallback = ById(hosted[d].policies)[id].fallback
  BY <1>1, WholeDomain
<1>2. PICK i \in DOMAIN hosted[d].workflows : fr.wf = Placed(d, i)
  BY DEF AtHome, RunFile
<1> DEFINE wf == hosted[d].workflows[i]
           s == fr.wf.steps[fr.at]
<1>3. HasLists(hosted[d])
  BY HostedFiles
<1>4. DOMAIN fr.wf.steps = Ids(wf.steps) /\ None \notin Ids(wf.steps) /\ fr.at \in Ids(wf.steps)
  BY <1>1, <1>2, HomeFrames DEF AtHome
<1>5. PICK j \in DOMAIN wf.steps : s = wf.steps[j]
  <2>1. IsList(wf.steps)
    BY <1>3 DEF HasLists
  <2>2. fr.wf.steps = ById(wf.steps)
    BY <1>2 DEF Placed
  <2> QED
    BY <1>4, <2>1, <2>2, ByIdIsLast
<1>6. LeadsSomewhere(hosted[d], wf, s)
  BY <1>1, <1>5, CleanFile
<1>7. \A id : id \in StepIds(wf) => id \in DOMAIN fr.wf.steps
  BY <1>4 DEF StepIds
<1>8. ASSUME s.policy # None
      PROVE  /\ s.policy \in DOMAIN engine.policies
             /\ \/ engine.policies[s.policy].fallback = None
                \/ engine.policies[s.policy].fallback \in DOMAIN fr.wf.steps
  <2>1. s.policy \in Ids(hosted[d].policies) \ {None}
    BY <1>6, <1>8 DEF LeadsSomewhere
  <2>2. FallbackOf(Fallbacks(hosted[d]), s) = ById(hosted[d].policies)[s.policy].fallback
    BY <2>1 DEF FallbackOf, Fallbacks
  <2>3. /\ s.policy \in DOMAIN engine.policies
        /\ engine.policies[s.policy].fallback = ById(hosted[d].policies)[s.policy].fallback
    BY <1>1a, <2>1
  <2> QED
    BY <1>6, <1>7, <2>2, <2>3 DEF LeadsSomewhere
<1>9. ASSUME s.type # "leaf", NEW sub \in Callees(s)
      PROVE  /\ sub \in DOMAIN engine.workflows
             /\ AtHome(Frame(engine.workflows[sub]))
             /\ Frame(engine.workflows[sub]).at # None
  <2>1. sub \in WorkflowIds(hosted[d])
    BY <1>6, <1>9 DEF LeadsSomewhere
  <2>2. /\ sub \in DOMAIN engine.workflows
        /\ \E k \in DOMAIN hosted[d].workflows : engine.workflows[sub] = Placed(d, k)
    BY <1>1a, <2>1
  <2> QED
    BY <1>1, <2>2, HomeFrames
<1> QED
  BY <1>4, <1>6, <1>7, <1>8, <1>9 DEF Leads, LeadsSomewhere

-----------------------------------------------------------------------------
(* What is left of a list without its last element.                        *)
LEMMA FrontOfList ==
  ASSUME NEW s, IsList(s), s # <<>>
  PROVE  /\ Len(s) \in Nat \ {0} /\ DOMAIN s = 1 .. Len(s) /\ Last(s) = s[Len(s)]
         /\ IsList(Front(s)) /\ Len(Front(s)) = Len(s) - 1
         /\ \A k \in 1 .. Len(s) - 1 : Front(s)[k] = s[k]
<1>1. s \in Seq(ToSet(s))
  BY DEF IsList
<1>2. Len(s) \in Nat \ {0} /\ DOMAIN s = 1 .. Len(s)
  BY <1>1
<1>3. /\ Front(s) \in Seq(ToSet(s)) /\ Len(Front(s)) = Len(s) - 1
      /\ \A k \in 1 .. Len(s) - 1 : Front(s)[k] = s[k]
  BY <1>1, <1>2 DEF Front
<1> QED
  BY <1>2, <1>3, SequencesAreLists DEF Last

(* The current frame ends.                                                 *)
LEMMA PopKeeps ==
  ASSUME NEW r, Shape(r), r.frames # <<>>, NEW failed \in BOOLEAN
  PROVE  LET q == Pop(r, failed)
         IN /\ Shape(q) /\ (q.over \/ q.frames # <<>>)
            /\ q.domain = r.domain /\ q.settled = r.settled /\ q.failing = failed
            /\ Safe(r) => Safe(q) /\ (~q.over => Last(q.frames).at # None)
<1> DEFINE q == Pop(r, failed)
<1>1. PICK n \in Nat \ {0} :
        /\ n = Len(r.frames) /\ DOMAIN r.frames = 1 .. n
        /\ IsList(Front(r.frames)) /\ Len(Front(r.frames)) = n - 1
        /\ \A k \in 1 .. n - 1 : Front(r.frames)[k] = r.frames[k]
  BY FrontOfList DEF Shape
<1>2. /\ DOMAIN q = DOMAIN r /\ q.frames = Front(r.frames) /\ q.failing = failed
      /\ (q.over <=> n = 1) /\ q.over \in BOOLEAN /\ q.domain = r.domain
      /\ q.settled = r.settled /\ q.met = r.met
  BY <1>1 DEF Pop, Shape
<1> HIDE DEF q
<1>3. /\ IsList(q.frames) /\ DOMAIN q.frames = 1 .. n - 1 /\ Len(q.frames) = n - 1
      /\ \A k \in 1 .. n - 1 : q.frames[k] = r.frames[k]
  BY <1>1, <1>2 DEF IsList
<1>4. Shape(q)
  BY <1>1, <1>2, <1>3 DEF Shape
<1>5. ~q.over => q.frames # <<>>
  BY <1>2, <1>3
<1>6. ASSUME Safe(r) PROVE Safe(q) /\ (~q.over => Last(q.frames).at # None)
  <2>1. Safe(q)
    BY <1>1, <1>2, <1>3, <1>6 DEF Safe
  <2>2. ASSUME ~q.over PROVE Last(q.frames).at # None
    <3>1. n - 1 \in 1 .. n - 1 /\ Last(q.frames) = r.frames[n - 1]
      BY <1>2, <1>3, <2>2 DEF Last
    <3> QED
      BY <1>1, <1>6, <3>1 DEF Safe
  <2> QED
    BY <2>1, <2>2
<1> QED
  BY <1>2, <1>4, <1>5, <1>6 DEF q

(* The current frame goes on at another step, or at its end.               *)
LEMMA GoToKeeps ==
  ASSUME NEW r, Shape(r), r.frames # <<>>, NEW id, NEW detour \in BOOLEAN
  PROVE  LET q == GoTo(r, id, detour)
         IN /\ Shape(q) /\ q.frames # <<>>
            /\ q.domain = r.domain /\ q.settled = r.settled /\ ~q.failing
            /\ Safe(r) /\ (id = None \/ id \in DOMAIN Last(r.frames).wf.steps) => Safe(q)
<1> DEFINE q == GoTo(r, id, detour)
           top == Last(r.frames)
           fr == [top EXCEPT !.visited = @ \cup {top.at}, !.at = id, !.detour = @ \/ detour]
<1>1. PICK n \in Nat \ {0} :
        /\ n = Len(r.frames) /\ DOMAIN r.frames = 1 .. n /\ top = r.frames[n]
        /\ IsList(Front(r.frames)) /\ Len(Front(r.frames)) = n - 1
        /\ \A k \in 1 .. n - 1 : Front(r.frames)[k] = r.frames[k]
  BY FrontOfList DEF Shape
<1>2. /\ DOMAIN fr = {"wf", "at", "visited", "detour", "undo"}
      /\ fr.wf = top.wf /\ fr.at = id /\ fr.undo = top.undo
  BY <1>1 DEF Shape
<1>3. /\ DOMAIN q = DOMAIN r /\ q.frames = Append(Front(r.frames), fr) /\ q.failing = FALSE
      /\ q.over = r.over /\ q.domain = r.domain /\ q.settled = r.settled
      /\ q.met \subseteq r.met \cup {"came back by a fallback", "came back"}
  BY Zenon DEF GoTo, Shape
<1> HIDE DEF q, fr, top
<1>4. Extended(q.frames, Front(r.frames), fr)
  BY <1>1, <1>3, AppendedList, Zenon
<1>5. PICK frames :
        /\ frames = q.frames /\ IsList(frames) /\ Len(frames) = n /\ DOMAIN frames = 1 .. n
        /\ frames[n] = fr /\ frames # <<>>
        /\ \A k \in 1 .. n - 1 : frames[k] = r.frames[k]
  <2>1. /\ IsList(q.frames) /\ Len(q.frames) = n /\ DOMAIN q.frames = 1 .. n
        /\ q.frames[n] = fr
        /\ \A k \in 1 .. n - 1 : q.frames[k] = r.frames[k]
    BY <1>1, <1>4 DEF Extended
  <2>2. q.frames # <<>>
    BY <2>1
  <2> QED
    BY <2>1, <2>2
<1>6. Shape(q)
  <2>1. \A k \in 1 .. n : DOMAIN frames[k] = {"wf", "at", "visited", "detour", "undo"}
    BY <1>1, <1>2, <1>5 DEF Shape
  <2> QED
    BY <1>3, <1>4, <1>5, <2>1, Zenon DEF Shape
<1>7. ASSUME Safe(r), id = None \/ id \in DOMAIN top.wf.steps PROVE Safe(q)
  <2>1. AtHome(fr)
    <3>1. AtHome(top)
      BY <1>1, <1>7 DEF Safe
    <3> QED
      BY <1>2, <1>7, <3>1 DEF AtHome
  <2>2. q.met \cap Dangling = {}
    BY <1>3, <1>7, Zenon DEF Safe, Dangling
  <2>3. \A k \in 1 .. n : AtHome(frames[k]) /\ (k < n => frames[k].at # None)
    BY <1>1, <1>5, <1>7, <2>1 DEF Safe
  <2> QED
    BY <1>4, <1>5, <2>2, <2>3 DEF Safe
<1> QED
  BY <1>3, <1>4, <1>5, <1>6, <1>7, Zenon DEF q, top

(* What the walk comes to keeps the invariant if it keeps its parts.       *)
Onwards(q) ==
  /\ Shape(q) /\ (q.over \/ q.frames # <<>>)
  /\ q.domain = run.domain /\ q.settled = run.settled
  /\ Sound => Safe(q) /\ (q.failing /\ ~q.over => Last(q.frames).at # None)

LEMMA WalkOnwards ==
  ASSUME WalkInv, run # None, hosted' = hosted, pending' = pending, Onwards(run')
  PROVE  WalkInv'
<1> SUFFICES ASSUME run' # None PROVE RunInv' /\ (Sound' => SafeWalk')
  BY DEF WalkInv
<1>1. run'.domain = run.domain /\ run'.settled = run.settled
  BY DEF Onwards
<1>2. \A d, i : Placed(d, i)' = Placed(d, i)
  BY DEF Placed
<1>3. RunFile' = RunFile /\ (Sound' => Sound)
  BY <1>1 DEF Sound, RunFile
<1>4. ASSUME NEW fr, AtHome(fr) PROVE AtHome(fr)'
  BY <1>1, <1>2, <1>3, <1>4 DEF AtHome
<1>5. RunInv'
  BY <1>1 DEF Onwards, RunInv, WalkInv, Shape
<1>6. ASSUME Sound' PROVE SafeWalk'
  <2>1. Safe(run') /\ (run'.failing /\ ~run'.over => Last(run'.frames).at # None)
    BY <1>3, <1>6 DEF Onwards
  <2> QED
    BY <1>4, <2>1 DEF SafeWalk, Safe, Top
<1> QED
  BY <1>5, <1>6

(* What is known of the current frame of a run that goes on.               *)
LEMMA AtTop ==
  ASSUME QueueInv, EngineInv, GivenInv, WalkInv, Walking
  PROVE  /\ RunInv /\ Shape(run) /\ run.frames # <<>>
         /\ Top = run.frames[Len(run.frames)] /\ Len(run.frames) \in DOMAIN run.frames
         /\ DOMAIN run.frames = 1 .. Len(run.frames) /\ Len(run.frames) \in Nat
         /\ Sound => Safe(run) /\ AtHome(Top)
         /\ Sound /\ run.failing => Top.at # None
         /\ Sound /\ Top.at # None => Leads(Top) /\ AtStep
<1>1. RunInv /\ Shape(run) /\ run.frames # <<>>
  BY DEF Walking, WalkInv, RunInv
<1>2. /\ Top = run.frames[Len(run.frames)] /\ Len(run.frames) \in DOMAIN run.frames
      /\ DOMAIN run.frames = 1 .. Len(run.frames) /\ Len(run.frames) \in Nat
  BY <1>1, FrontOfList DEF Shape, Top
<1>3. Sound => Safe(run) /\ AtHome(Top) /\ (run.failing => Top.at # None)
  BY <1>2 DEF Walking, WalkInv, SafeWalk, Safe
<1>4. Sound /\ Top.at # None => Leads(Top) /\ AtStep
  BY <1>1, <1>3, HomeLeads DEF AtHome, AtStep
<1> QED
  BY <1>1, <1>2, <1>3, <1>4

LEMMA SucceedsKeeps ==
  ASSUME QueueInv, EngineInv, GivenInv, WalkInv, Succeeds
  PROVE  WalkInv'
<1> DEFINE r == IF Step.undo = None THEN run
                ELSE [run EXCEPT !.frames[Len(run.frames)].undo = @ \cup {Step.undo}]
<1>1. /\ run' = GoTo(r, Step.onSuccess, FALSE) /\ hosted' = hosted /\ pending' = pending
      /\ Walking /\ AtStep /\ run # None
  BY DEF Succeeds, walkUnchanged, Walking
<1>2. /\ Shape(run) /\ run.frames # <<>> /\ Top = run.frames[Len(run.frames)]
      /\ Len(run.frames) \in DOMAIN run.frames /\ DOMAIN run.frames = 1 .. Len(run.frames)
      /\ Len(run.frames) \in Nat /\ Top.at # None
  BY <1>1, AtTop DEF AtStep
<1>3. /\ Shape(r) /\ r.frames # <<>> /\ Last(r.frames).wf = Top.wf
      /\ r.domain = run.domain /\ r.settled = run.settled
      /\ Sound => Safe(r)
  <2>1. CASE Step.undo = None
    BY <1>1, <1>2, <2>1, AtTop DEF Top
  <2>2. CASE Step.undo # None
    <3> DEFINE n == Len(run.frames)
               fr == [Top EXCEPT !.undo = @ \cup {Step.undo}]
               frames == [run.frames EXCEPT ![n] = fr]
    <3>1. r = [run EXCEPT !.frames = frames]
      BY <1>2, <2>2
    <3>2. /\ DOMAIN r = DOMAIN run /\ r.frames = frames /\ r.over = run.over
          /\ r.failing = run.failing /\ r.met = run.met
          /\ r.domain = run.domain /\ r.settled = run.settled
      BY <1>2, <3>1 DEF Shape
    <3>3. DOMAIN Top = {"wf", "at", "visited", "detour", "undo"}
      BY <1>2 DEF Shape
    <3>4. DOMAIN fr = DOMAIN Top /\ fr.wf = Top.wf /\ fr.at = Top.at
          /\ fr.undo = Top.undo \cup {Step.undo}
      BY <3>3
    <3>5. DOMAIN frames = 1 .. n /\ frames[n] = fr /\ \A k \in 1 .. n : k # n => frames[k] = run.frames[k]
      BY <1>2
    <3> HIDE DEF r, frames, fr
    <3>6. IsList(frames)
      <4>1. frames \in [1 .. n -> ToSet(frames)]
        BY <3>5 DEF ToSet, frames
      <4> QED
        BY <1>2, <3>5, <4>1, ListOf DEF IsList
    <3>7. frames # <<>> /\ Last(frames) = fr
      <4>1. Len(frames) = n
        BY <1>2, <3>5, <3>6 DEF IsList
      <4> QED
        BY <1>2, <3>5, <3>6, <4>1 DEF Last, IsList
    <3>8. Shape(r)
      BY <1>2, <3>2, <3>3, <3>4, <3>5, <3>6 DEF Shape
    <3>9. ASSUME Sound PROVE Safe(r)
      <4>1. Safe(run) /\ AtHome(Top) /\ Leads(Top)
        BY <1>1, <1>2, <3>9, AtTop
      <4>2. AtHome(fr)
        BY <2>2, <3>4, <4>1 DEF AtHome, Leads, Step
      <4>3. \A k \in 1 .. n : AtHome(frames[k]) /\ (k < n => frames[k].at # None)
        BY <1>2, <3>5, <4>1, <4>2 DEF Safe
      <4> QED
        <5>1. Len(frames) = n
          BY <1>2, <3>5, <3>6 DEF IsList
        <5> QED
          BY <3>2, <3>5, <4>1, <4>3, <5>1 DEF Safe
    <3> QED
      BY <3>2, <3>4, <3>7, <3>8, <3>9
  <2> QED
    BY <2>1, <2>2
<1>4. Sound => Step.onSuccess = None \/ Step.onSuccess \in DOMAIN Top.wf.steps
  BY <1>1, <1>2, AtTop, Zenon DEF Leads, Step
<1> HIDE DEF r
<1>5. Onwards(run')
  BY <1>1, <1>3, <1>4, GoToKeeps DEF Onwards
<1> QED
  BY <1>1, <1>5, WalkOnwards

LEMMA FailsKeeps ==
  ASSUME QueueInv, EngineInv, GivenInv, WalkInv, Fails
  PROVE  WalkInv'
<1>1. /\ run' = [run EXCEPT !.failing = TRUE] /\ hosted' = hosted /\ pending' = pending
      /\ Walking /\ AtStep /\ run # None
  BY DEF Fails, walkUnchanged, Walking
<1>2. Shape(run) /\ run.frames # <<>> /\ Top.at # None /\ (Sound => Safe(run))
  BY <1>1, AtTop DEF AtStep
<1>3. /\ DOMAIN run' = DOMAIN run /\ run'.frames = run.frames /\ run'.failing = TRUE
      /\ run'.over = run.over /\ run'.met = run.met /\ run'.domain = run.domain
      /\ run'.settled = run.settled
  BY <1>1, <1>2 DEF Shape
<1>4. Onwards(run')
  BY <1>2, <1>3 DEF Onwards, Shape, Safe, Top
<1> QED
  BY <1>1, <1>4, WalkOnwards

LEMMA CallsKeeps ==
  ASSUME QueueInv, EngineInv, GivenInv, WalkInv, Calls
  PROVE  WalkInv'
<1>1. PICK sub \in Callees(Step) :
        run' = IF Len(run.frames) > MaxDepth
                 THEN [Meets("too deep") EXCEPT !.over = TRUE, !.failing = TRUE]
               ELSE IF sub \notin DOMAIN engine.workflows
                 THEN [Meets("unknown workflow") EXCEPT !.failing = TRUE]
                 ELSE [run EXCEPT !.frames = Append(@, Frame(engine.workflows[sub]))]
  BY Zenon DEF Calls
<1>2. /\ hosted' = hosted /\ pending' = pending /\ Walking /\ AtStep /\ run # None
      /\ Step.type # "leaf" /\ ~run.failing
  BY Zenon DEF Calls, walkUnchanged, Walking
<1>3. /\ Shape(run) /\ run.frames # <<>> /\ Top = run.frames[Len(run.frames)]
      /\ Top.at # None /\ DOMAIN run.frames = 1 .. Len(run.frames) /\ Len(run.frames) \in Nat
      /\ Sound => Safe(run) /\ Leads(Top)
  BY <1>2, AtTop DEF AtStep
<1>4. Sound => /\ sub \in DOMAIN engine.workflows
               /\ AtHome(Frame(engine.workflows[sub])) /\ Frame(engine.workflows[sub]).at # None
  BY <1>2, <1>3, Zenon DEF Leads, Step
<1> SUFFICES Onwards(run')
  BY <1>2, WalkOnwards
<1>5. CASE Len(run.frames) > MaxDepth
  <2>1. /\ DOMAIN run' = DOMAIN run /\ run'.frames = run.frames /\ run'.failing = TRUE
        /\ run'.over = TRUE /\ run'.met = run.met \cup {"too deep"}
        /\ run'.domain = run.domain /\ run'.settled = run.settled
    BY <1>1, <1>3, <1>5 DEF Shape, Meets
  <2>2. Shape(run')
    BY <1>3, <2>1, Zenon DEF Shape
  <2>3. Sound => Safe(run')
    BY <1>3, <2>1, Zenon DEF Safe, Dangling
  <2> QED
    BY <2>1, <2>2, <2>3, Zenon DEF Onwards
<1>6. CASE ~(Len(run.frames) > MaxDepth) /\ sub \notin DOMAIN engine.workflows
  <2>1. /\ DOMAIN run' = DOMAIN run /\ run'.frames = run.frames /\ run'.failing = TRUE
        /\ run'.over = run.over
        /\ run'.domain = run.domain /\ run'.settled = run.settled
    BY <1>1, <1>3, <1>6 DEF Shape, Meets
  <2>2. Shape(run')
    BY <1>3, <2>1 DEF Shape
  <2> QED
    BY <1>3, <1>4, <1>6, <2>1, <2>2 DEF Onwards
<1>7. CASE ~(Len(run.frames) > MaxDepth) /\ sub \in DOMAIN engine.workflows
  <2> DEFINE fr == Frame(engine.workflows[sub])
             n == Len(run.frames)
  <2>1. /\ DOMAIN run' = DOMAIN run /\ run'.frames = Append(run.frames, fr)
        /\ run'.failing = run.failing /\ run'.over = run.over /\ run'.met = run.met
        /\ run'.domain = run.domain /\ run'.settled = run.settled
    BY <1>1, <1>3, <1>7, Zenon DEF Shape
  <2>2. DOMAIN fr = {"wf", "at", "visited", "detour", "undo"}
    BY DEF Frame
  <2> HIDE DEF fr
  <2>3. Extended(run'.frames, run.frames, fr)
    BY <1>3, <2>1, AppendedList DEF Shape
  <2>4. /\ IsList(run'.frames) /\ DOMAIN run'.frames = 1 .. n + 1 /\ Len(run'.frames) = n + 1
        /\ run'.frames[n + 1] = fr /\ run'.frames # <<>>
        /\ \A k \in 1 .. n : run'.frames[k] = run.frames[k]
    BY <1>3, <2>3 DEF Extended
  <2>5. Shape(run')
    <3>1. \A k \in 1 .. n + 1 : DOMAIN run'.frames[k] = {"wf", "at", "visited", "detour", "undo"}
      BY <1>3, <2>2, <2>4 DEF Shape
    <3> QED
      BY <1>3, <2>1, <2>4, <3>1 DEF Shape
  <2>6. ASSUME Sound PROVE Safe(run')
    <3>1. AtHome(fr) /\ Safe(run)
      BY <1>3, <1>4, <2>6 DEF fr
    <3>2. \A k \in 1 .. n + 1 : AtHome(run'.frames[k]) /\ (k < n + 1 => run'.frames[k].at # None)
      <4> TAKE k \in 1 .. n + 1
      <4>1. CASE k = n + 1
        BY <2>4, <3>1, <4>1
      <4>2. CASE k \in 1 .. n - 1
        <5>1. k \in DOMAIN run.frames /\ k < Len(run.frames) /\ run'.frames[k] = run.frames[k]
          BY <1>3, <2>4, <4>2
        <5> QED
          BY <3>1, <5>1 DEF Safe
      <4>3. CASE k = n
        BY <1>3, <2>4, <3>1, <4>3 DEF Safe
      <4> QED
        BY <1>3, <4>1, <4>2, <4>3
    <3> QED
      BY <2>1, <2>4, <3>1, <3>2 DEF Safe
  <2> QED
    BY <1>2, <2>1, <2>4, <2>5, <2>6 DEF Onwards
<1> QED
  BY <1>5, <1>6, <1>7

LEMMA EndsKeeps ==
  ASSUME QueueInv, EngineInv, GivenInv, WalkInv, Ends
  PROVE  WalkInv'
<1> DEFINE r == Pop(run, FALSE)
<1>1. /\ run' = IF r.over THEN r
               ELSE GoTo(r, Last(r.frames).wf.steps[Last(r.frames).at].onSuccess, FALSE)
      /\ hosted' = hosted /\ pending' = pending /\ Walking /\ run # None
  BY DEF Ends, walkUnchanged, Walking
<1>2. Shape(run) /\ run.frames # <<>> /\ RunInv /\ (Sound => Safe(run))
  BY <1>1, AtTop
<1>3. /\ Shape(r) /\ (r.over \/ r.frames # <<>>)
      /\ r.domain = run.domain /\ r.settled = run.settled /\ r.failing = FALSE
      /\ Safe(run) => Safe(r) /\ (~r.over => Last(r.frames).at # None)
  BY <1>2, PopKeeps
<1> HIDE DEF r
<1> SUFFICES Onwards(run')
  BY <1>1, WalkOnwards
<1>4. CASE r.over
  BY <1>1, <1>2, <1>3, <1>4 DEF Onwards
<1>5. CASE ~r.over
  <2> DEFINE top == Last(r.frames)
             id == top.wf.steps[top.at].onSuccess
  <2>1. run' = GoTo(r, id, FALSE) /\ r.frames # <<>>
    BY <1>1, <1>3, <1>5
  <2>2. ASSUME Sound PROVE Safe(r) /\ (id = None \/ id \in DOMAIN top.wf.steps)
    <3>1. Safe(r) /\ top.at # None
      BY <1>2, <1>3, <1>5, <2>2
    <3>2. AtHome(top)
      BY <1>3, <2>1, <3>1, FrontOfList DEF Shape, Safe
    <3>3. Leads(top)
      BY <1>2, <2>2, <3>1, <3>2, HomeLeads
    <3> QED
      BY <3>1, <3>3, Zenon DEF Leads
  <2> HIDE DEF id
  <2> QED
    BY <1>3, <2>1, <2>2, GoToKeeps DEF Onwards
<1> QED
  BY <1>4, <1>5

LEMMA StepMissingKeeps ==
  ASSUME QueueInv, EngineInv, GivenInv, WalkInv, StepMissing
  PROVE  WalkInv'
<1> DEFINE r == Meets("missing step")
<1>1. /\ run' = Pop(r, TRUE) /\ Top.at # None /\ ~AtStep
      /\ hosted' = hosted /\ pending' = pending /\ Walking /\ run # None
  BY Zenon DEF StepMissing, walkUnchanged, Walking
<1>2. Shape(run) /\ run.frames # <<>> /\ ~Sound
  BY <1>1, AtTop, Zenon
<1>3. /\ Shape(r) /\ r.frames # <<>> /\ r.domain = run.domain /\ r.settled = run.settled
  BY <1>2 DEF Shape, Meets
<1> HIDE DEF r
<1>4. Onwards(run')
  BY <1>1, <1>2, <1>3, PopKeeps DEF Onwards
<1> QED
  BY <1>1, <1>4, WalkOnwards

LEMMA OnFailureKeeps ==
  ASSUME QueueInv, EngineInv, GivenInv, WalkInv, OnFailure
  PROVE  WalkInv'
<1> DEFINE known == Step.policy # None /\ Step.policy \in DOMAIN engine.policies
           fallback == IF known THEN engine.policies[Step.policy].fallback ELSE None
           unmet == (IF Step.policy # None /\ ~known THEN {"unknown policy"} ELSE {})
                    \cup (IF Top.undo \subseteq DOMAIN Top.wf.steps
                            THEN {} ELSE {"missing compensation"})
           r == Pop(run, TRUE)
<1>1. /\ run' = IF fallback # None THEN GoTo(run, fallback, TRUE)
                 ELSE [r EXCEPT !.met = @ \cup unmet]
      /\ hosted' = hosted /\ pending' = pending /\ Walking /\ run.failing /\ run # None
  BY Zenon DEF OnFailure, walkUnchanged, Walking
<1>2. Shape(run) /\ run.frames # <<>>
  BY <1>1, AtTop, Zenon
<1>3. ASSUME Sound
      PROVE  /\ Safe(run) /\ unmet = {}
             /\ fallback = None \/ fallback \in DOMAIN Top.wf.steps
  <2>1. Safe(run) /\ AtHome(Top) /\ Leads(Top)
    BY <1>1, <1>3, AtTop, Zenon
  <2> QED
    BY <2>1, Zenon DEF Leads, Step, AtHome
<1> HIDE DEF unmet, fallback, known
<1> SUFFICES Onwards(run')
  BY <1>1, WalkOnwards
<1>4. CASE fallback # None
  BY <1>1, <1>2, <1>3, <1>4, GoToKeeps DEF Onwards, Top
<1>5. CASE fallback = None
  <2>1. /\ Shape(r) /\ (r.over \/ r.frames # <<>>)
        /\ r.domain = run.domain /\ r.settled = run.settled
        /\ Safe(run) => Safe(r) /\ (~r.over => Last(r.frames).at # None)
    BY <1>2, PopKeeps
  <2> HIDE DEF r
  <2>2. /\ DOMAIN run' = DOMAIN r /\ run'.frames = r.frames /\ run'.failing = r.failing
        /\ run'.over = r.over /\ run'.domain = r.domain /\ run'.settled = r.settled
        /\ run'.met = r.met \cup unmet
    BY <1>1, <1>5, <2>1 DEF Shape
  <2>3. Shape(run')
    BY <2>1, <2>2 DEF Shape
  <2>4. Sound => Safe(run') /\ (~r.over => Last(r.frames).at # None)
    BY <1>3, <2>1, <2>2 DEF Safe
  <2> QED
    BY <2>1, <2>2, <2>3, <2>4 DEF Onwards
<1> QED
  BY <1>4, <1>5

(* A run begins at home.                                                   *)
LEMMA StartKeeps ==
  ASSUME QueueInv, EngineInv, GivenInv, Start
  PROVE  WalkInv'
<1>1. hosted' = hosted /\ pending' = pending
  BY Zenon DEF Start
<1>2. \A d, i : Placed(d, i)' = Placed(d, i)
  BY <1>1 DEF Placed
<1>3. CASE \E id \in DOMAIN engine.workflows :
             run' = Begun(<<Frame(engine.workflows[id])>>, engine.workflows[id].domain, {})
  <2>1. PICK id \in DOMAIN engine.workflows :
          run' = Begun(<<Frame(engine.workflows[id])>>, engine.workflows[id].domain, {})
    BY <1>3
  <2>2. WorkflowFrom(id)
    BY DEF EngineInv
  <2>3. PICK d \in DOMAIN hosted : \E i \in DOMAIN hosted[d].workflows :
          engine.workflows[id] = Placed(d, i)
    BY <2>2 DEF WorkflowFrom
  <2>4. PICK i \in DOMAIN hosted[d].workflows : engine.workflows[id] = Placed(d, i)
    BY <2>3
  <2> PICK fr : fr = Frame(Placed(d, i))
    OBVIOUS
  <2>5. DOMAIN fr = {"wf", "at", "visited", "detour", "undo"} /\ Placed(d, i).domain = d
    BY DEF Frame, Placed
  <2>6. run' = Begun(<<fr>>, d, {})
    BY <2>1, <2>4, <2>5
  <2>7. /\ DOMAIN run' = {"frames", "domain", "met", "failing", "over", "settled"}
        /\ run'.frames = <<fr>> /\ run'.domain = d /\ run'.met = {} /\ run'.failing = FALSE
        /\ run'.over = FALSE /\ (run'.settled => d < Len(hosted) \/ pending = <<>>)
    BY <2>6 DEF Begun
  <2>8. PICK frames : /\ frames = <<fr>> /\ IsList(frames) /\ Len(frames) = 1
                      /\ DOMAIN frames = 1 .. 1 /\ frames[1] = fr /\ frames # <<>>
    <3>1. <<fr>> \in Seq({fr}) /\ Len(<<fr>>) = 1 /\ <<fr>>[1] = fr /\ <<fr>> # <<>>
      OBVIOUS
    <3> QED
      BY <3>1, SequencesAreLists
  <2>9. Shape(run')
    <3>1. \A k \in 1 .. 1 : DOMAIN frames[k] = {"wf", "at", "visited", "detour", "undo"}
      BY <2>5, <2>8
    <3> QED
      BY <2>7, <2>8, <3>1 DEF Shape
  <2>10. RunInv'
    <3>1. Shape(run)'
      BY <2>9 DEF Shape
    <3> QED
      BY <1>1, <2>7, <3>1 DEF RunInv
  <2>11. ASSUME Sound' PROVE SafeWalk'
    <3>1. OK(Validate(hosted'[run'.domain]))
      BY <2>11 DEF Sound, RunFile
    <3>2. AtHome(fr)' /\ fr.at # None
      <4>1. HasLists(hosted[d]) /\ OK(Validate(hosted[d]))
        BY <1>1, <2>7, <3>1, HostedFiles
      <4>2. /\ hosted[d].workflows[i].entry \in StepIds(hosted[d].workflows[i])
            /\ None \notin Ids(hosted[d].workflows[i].steps)
        BY <4>1, CleanFile
      <4>3. DOMAIN Placed(d, i).steps = Ids(hosted[d].workflows[i].steps)
        BY DEF Placed, ById, Ids
      <4>4. fr.wf = Placed(d, i) /\ fr.at = hosted[d].workflows[i].entry /\ fr.undo = {}
        BY DEF Frame, Placed
      <4>5. run'.domain = d /\ RunFile' = hosted[d]
        BY <1>1, <2>7 DEF RunFile
      <4>6. \E k \in DOMAIN hosted[d].workflows : fr.wf = Placed(d, k)
        BY <4>4
      <4>7. fr.at \in DOMAIN fr.wf.steps /\ fr.at # None
        BY <4>2, <4>3, <4>4 DEF StepIds
      <4>8. \A k : Placed(run.domain, k)' = Placed(d, k)
        BY <1>2, <4>5
      <4> QED
        BY <4>4, <4>5, <4>6, <4>7, <4>8 DEF AtHome
    <3>3. \A k \in DOMAIN frames : AtHome(frames[k])' /\ ~(k < Len(frames))
      BY <2>8, <3>2
    <3> QED
      BY <2>7, <2>8, <3>3 DEF SafeWalk, Safe, Dangling
  <2> QED
    BY <2>10, <2>11 DEF WalkInv
<1>4. CASE \E route \in ToSet(engine.routes) :
             /\ route.entry \notin DOMAIN engine.workflows
             /\ run' = Begun(<<>>, route.domain, {"unknown workflow"})
  <2>1. PICK x \in DOMAIN engine.routes :
          /\ engine.routes[x].entry \notin DOMAIN engine.workflows
          /\ run' = Begun(<<>>, engine.routes[x].domain, {"unknown workflow"})
    BY <1>4, Zenon DEF ToSet
  <2>2. RouteFrom(x)
    BY DEF EngineInv
  <2>3. PICK d \in DOMAIN hosted : \E i \in DOMAIN hosted[d].intents :
          engine.routes[x] = [entry |-> EntryOf(hosted[d].intents[i]), domain |-> d]
    BY <2>2 DEF RouteFrom
  <2>4. PICK i \in DOMAIN hosted[d].intents :
          engine.routes[x] = [entry |-> EntryOf(hosted[d].intents[i]), domain |-> d]
    BY <2>3
  <2> DEFINE entry == EntryOf(hosted[d].intents[i])
  <2> HIDE DEF entry
  <2>x. engine.routes[x] = [entry |-> entry, domain |-> d]
    BY <2>4 DEF entry
  <2>y. engine.routes[x].entry = entry /\ engine.routes[x].domain = d
    BY <2>x
  <2>5. run' = Begun(<<>>, d, {"unknown workflow"}) /\ entry \notin DOMAIN engine.workflows
    BY <2>1, <2>y, Zenon
  <2>6. /\ DOMAIN run' = {"frames", "domain", "met", "failing", "over", "settled"}
        /\ run'.frames = <<>> /\ run'.domain = d /\ run'.failing = FALSE
        /\ run'.over = TRUE /\ (run'.settled => d < Len(hosted) \/ pending = <<>>)
    BY <2>5, Zenon DEF Begun
  <2>7. RunInv'
    <3>0. PICK frames : frames = <<>> /\ IsList(frames) /\ DOMAIN frames = {}
      <4>1. <<>> \in Seq({}) /\ DOMAIN <<>> = {}
        OBVIOUS
      <4> QED
        BY <4>1, SequencesAreLists
    <3>1. Shape(run)'
      BY <2>6, <3>0 DEF Shape
    <3> QED
      BY <1>1, <2>6, <3>1 DEF RunInv
  <2>8. ~Sound'
    <3>1. SUFFICES ASSUME Sound' PROVE FALSE
      OBVIOUS
    <3>2. /\ OK(Validate(hosted[d])) /\ (d < Len(hosted) \/ pending = <<>>)
          /\ \A e \in DOMAIN hosted : e # d =>
               /\ WorkflowIds(hosted[d]) \cap WorkflowIds(hosted[e]) = {}
               /\ Ids(hosted[d].policies) \cap Ids(hosted[e].policies) = {}
      BY <1>1, <2>6, <3>1 DEF Sound, RunFile
    <3>3. EntryOf(hosted[d].intents[i]) \in WorkflowIds(hosted[d])
      BY <3>2, CleanFile
    <3>4. EntryOf(hosted[d].intents[i]) \in DOMAIN engine.workflows
      BY <3>2, <3>3, WholeDomain
    <3> QED
      BY <2>5, <3>4, Zenon DEF entry
  <2> QED
    BY <2>7, <2>8 DEF WalkInv
<1> QED
  BY <1>3, <1>4, Zenon DEF Start

(* A run goes on over its own domain while another comes to be registered. *)
LEMMA HostingWalks ==
  ASSUME QueueInv, WalkInv, run' = run, Len(hosted') = Len(hosted) + 1,
         DOMAIN hosted' = 1 .. Len(hosted'),
         \A d \in DOMAIN hosted : d \in DOMAIN hosted' /\ hosted'[d] = hosted[d]
  PROVE  WalkInv'
<1> SUFFICES ASSUME run # None PROVE RunInv' /\ (Sound' => SafeWalk')
  BY DEF WalkInv
<1>1. RunInv /\ run.domain \in DOMAIN hosted
  BY DEF WalkInv, RunInv
<1>2. RunFile' = RunFile /\ \A i : Placed(run.domain, i)' = Placed(run.domain, i)
  BY <1>1 DEF RunFile, Placed
<1>3. RunInv'
  <2>1. run.domain \in 1 .. Len(hosted) /\ Len(hosted) \in Nat
    BY <1>1, HostedFiles
  <2>2. run.domain < Len(hosted')
    BY <2>1
  <2>3. Shape(run)'
    BY <1>1 DEF RunInv, Shape
  <2> QED
    BY <1>1, <2>2, <2>3 DEF RunInv
<1>4. ASSUME Sound' PROVE SafeWalk'
  <2>1. Sound
    BY <1>2, <1>4 DEF Sound
  <2>2. SafeWalk
    BY <2>1 DEF WalkInv
  <2>3. \A k \in DOMAIN run.frames : AtHome(run.frames[k])' = AtHome(run.frames[k])
    BY <1>2 DEF AtHome
  <2> QED
    BY <2>2, <2>3 DEF SafeWalk, Safe, Top
<1> QED
  BY <1>3, <1>4

(* A run goes on over its own domain while what is left of one is          *)
(* registered.                                                             *)
LEMMA RegisteringWalks ==
  ASSUME QueueInv, WalkInv, RegisterItem
  PROVE  WalkInv'
<1> SUFFICES ASSUME run # None PROVE RunInv' /\ (Sound' => SafeWalk')
  BY DEF WalkInv, RegisterItem
<1>1. RunInv /\ run' = run /\ hosted' = hosted /\ pending # <<>>
  BY DEF WalkInv, RegisterItem
<1>2. RunFile' = RunFile /\ \A i : Placed(run.domain, i)' = Placed(run.domain, i)
  BY <1>1 DEF RunFile, Placed
<1>3. RunInv'
  <2>1. Shape(run)'
    BY <1>1 DEF RunInv, Shape
  <2> QED
    BY <1>1, <2>1 DEF RunInv
<1>4. ASSUME Sound' PROVE SafeWalk'
  <2>1. SafeWalk
    BY <1>1, <1>2, <1>4 DEF Sound, WalkInv
  <2>2. \A k \in DOMAIN run.frames : AtHome(run.frames[k])' = AtHome(run.frames[k])
    BY <1>1, <1>2 DEF AtHome
  <2> QED
    BY <1>1, <2>1, <2>2 DEF SafeWalk, Safe, Top
<1> QED
  BY <1>3, <1>4

LEMMA RefsInit == Init => RefsInv
<1> SUFFICES ASSUME Init PROVE RefsInv
  OBVIOUS
<1>1. hosted = <<>> /\ pending = <<>> /\ run = None
      /\ engine = [workflows |-> Empty, policies |-> Empty, routes |-> <<>>]
  BY DEF Init
<1>2. <<>> \in Seq({}) /\ DOMAIN <<>> = {} /\ <<>> \in Seq(Files)
  OBVIOUS
<1>3. IsList(<<>>)
  BY <1>2, SequencesAreLists
<1>4. QueueInv
  BY <1>1, <1>2, <1>3 DEF QueueInv
<1>5. EngineInv
  BY <1>1, <1>2, <1>3 DEF EngineInv, Empty
<1>6. GivenInv
  BY <1>1, <1>2 DEF GivenInv
<1> QED
  BY <1>1, <1>4, <1>5, <1>6 DEF RefsInv, WalkInv

(* Drafting and the catalog touch nothing the host has.                    *)
LEMMA HostSteps ==
  ASSUME [Next]_vars
  PROVE  runServe \/ RegisterNeighbour \/ RegisterItem \/ Start \/ Walk \/ UNCHANGED hostVars
  BY Zenon DEF Next, vars, catalogVars, hostVars, Reply, ChatFails, Publish, Edit,
     runLint, runInstall, Written, InstallDies

LEMMA RefsNext == RefsInv /\ [Next]_vars => RefsInv'
<1> SUFFICES ASSUME RefsInv, [Next]_vars PROVE RefsInv'
  OBVIOUS
<1> USE DEF RefsInv
<1>1. CASE runServe \/ RegisterNeighbour
  <2>1. PICK file \in Files :
          /\ hosted' = Append(hosted, file) /\ pending' = Items(DomainOf(file))
          /\ pending = <<>> /\ engine' = engine /\ run' = run
    <3>1. CASE runServe
      <4>1. PICK file \in Replies :
              /\ Loads(file, author.hooks) /\ hosted' = <<file>>
              /\ pending' = Items(DomainOf(file))
        BY <3>1 DEF runServe
      <4>2. hosted = <<>> /\ engine' = engine /\ run' = run
        BY <3>1 DEF runServe
      <4>3. file \in Files /\ hosted' = Append(hosted, file)
        BY <4>1, <4>2 DEF Files, Loads
      <4> QED
        BY <4>1, <4>2, <4>3 DEF QueueInv
    <3>2. CASE RegisterNeighbour
      BY <3>2 DEF RegisterNeighbour, Files, Loads
    <3> QED
      BY <1>1, <3>1, <3>2
  <2>2. /\ QueueInv' /\ EngineInv' /\ GivenInv'
        /\ Len(hosted') = Len(hosted) + 1
        /\ \A d \in DOMAIN hosted : d \in DOMAIN hosted' /\ hosted'[d] = hosted[d]
    BY <2>1, HostingKeeps
  <2>3. DOMAIN hosted' = 1 .. Len(hosted')
    BY <2>2 DEF QueueInv
  <2> QED
    BY <2>1, <2>2, <2>3, HostingWalks
<1>2. CASE RegisterItem
  BY <1>2, RegisteringKeeps, RegisteringWalks
<1>3. CASE UNCHANGED <<engine, pending, hosted>> /\ WalkInv'
  <2>1. QueueInv'
    BY <1>3 DEF QueueInv, Given, Done, Left
  <2>2. EngineInv'
    BY <1>3 DEF EngineInv, WorkflowFrom, PolicyFrom, RouteFrom, Placed
  <2>3. GivenInv'
    BY <1>3 DEF GivenInv, Registered, LastOf, Given, Done, Left
  <2> QED
    BY <1>3, <2>1, <2>2, <2>3
<1>4. CASE Start
  BY <1>3, <1>4, StartKeeps, Zenon DEF Start
<1>5. CASE Walk
  <2>1. WalkInv'
    BY <1>5, SucceedsKeeps, FailsKeeps, CallsKeeps, EndsKeeps, StepMissingKeeps,
       OnFailureKeeps DEF Walk
  <2>2. UNCHANGED <<engine, pending, hosted>>
    BY <1>5, Zenon DEF Walk, Succeeds, Fails, Calls, Ends, StepMissing, OnFailure, walkUnchanged
  <2> QED
    BY <1>3, <2>1, <2>2
<1>6. CASE UNCHANGED hostVars
  <2>1. WalkInv'
    BY <1>6 DEF hostVars, WalkInv, RunInv, Shape, Sound, RunFile, SafeWalk, Safe, AtHome, Placed, Top
  <2> QED
    BY <1>3, <1>6, <2>1 DEF hostVars
<1> QED
  BY <1>1, <1>2, <1>4, <1>5, <1>6, HostSteps

(* A run of a manifest without errors never meets a reference that leads   *)
(* nowhere, whatever fails and while another domain is registered          *)
(* (manifest.Validate against what runFrom and unwind look up).            *)
THEOREM ValidRunsAreSafe == Spec => []ValidRunsNeverDangle
<1>1. RefsInv => ValidRunsNeverDangle
  BY Zenon DEF RefsInv, WalkInv, SafeWalk, Safe, Dangling, ValidRunsNeverDangle
<1> QED
  BY RefsInit, RefsNext, <1>1, PTL DEF Spec

-----------------------------------------------------------------------------
(* A draft ends once it is taken or its attempts are used up, and a plugin *)
(* has a name a file may have.                                             *)
DraftTypes ==
  /\ DOMAIN author = {"phase", "hooks", "attempts", "manifest"}
  /\ author.phase \in {"idle", "drafting", "drafted", "gaveUp", "failed"}
  /\ author.attempts \in 0 .. DefaultMaxAttempts
  /\ author.phase = "drafting" => author.attempts < DefaultMaxAttempts
  /\ author.manifest # None => author.phase = "drafted"

NamesInv ==
  /\ DOMAIN plugins \cap UnsafeNames = {}
  /\ writing # None => writing.name \in DOMAIN plugins

LEMMA TypesInit == Init => DraftTypes /\ NamesInv
  BY DeliveryAssumption DEF Init, DraftTypes, NamesInv, Empty

LEMMA TypesNext == DraftTypes /\ NamesInv /\ [Next]_vars => DraftTypes' /\ NamesInv'
<1> SUFFICES ASSUME DraftTypes, NamesInv, [Next]_vars PROVE DraftTypes' /\ NamesInv'
  OBVIOUS
<1>1. DraftTypes'
  <2>1. CASE Reply
    <3> PICK reply \in Replies :
          author' =
            IF Acceptable(reply)
              THEN [author EXCEPT !.phase = "drafted", !.manifest = reply]
              ELSE [author EXCEPT
                      !.attempts = @ + 1,
                      !.phase = IF author.attempts + 1 = DefaultMaxAttempts
                                  THEN "gaveUp" ELSE "drafting"]
      BY <2>1, Zenon DEF Reply
    <3>1. author.phase = "drafting"
      BY <2>1 DEF Reply
    <3>2. CASE Acceptable(reply)
      BY <3>1, <3>2 DEF DraftTypes
    <3>3. CASE ~Acceptable(reply)
      BY <3>1, <3>3, DeliveryAssumption DEF DraftTypes
    <3> QED
      BY <3>2, <3>3
  <2>2. CASE ChatFails
    BY <2>2 DEF ChatFails, DraftTypes
  <2>3. CASE author' = author
    BY <2>3 DEF DraftTypes
  <2> QED
    BY <2>1, <2>2, <2>3, AuthorSteps
<1>2. NamesInv'
  <2>1. CASE runInstall
    <3>1. PICK e : /\ Installs(e) /\ writing' = [name |-> e.name, file |-> e.file]
                   /\ plugins' = With(plugins, e.name, None)
      BY <2>1 DEF runInstall
    <3>2. DOMAIN plugins' = DOMAIN plugins \cup {e.name}
      BY <3>1 DEF With
    <3> QED
      BY <3>1, <3>2 DEF NamesInv, Installs, SafeName
  <2>2. CASE Written
    BY <2>2 DEF Written, NamesInv
  <2>3. CASE InstallDies \/ UNCHANGED <<plugins, writing>>
    BY <2>3 DEF InstallDies, NamesInv
  <2> QED
    BY <2>1, <2>2, <2>3, CatalogSteps DEF Publish, Edit, runLint, catalogVars
<1> QED
  BY <1>1, <1>2

(* A draft gives up after its attempts, cee install writes only under      *)
(* names a file may have, and a run has a frame until it is over.          *)
THEOREM DeliveryTypes == Spec => []TypeOK
<1>1. DraftTypes /\ NamesInv /\ IndexInv /\ RefsInv => TypeOK
  <2> SUFFICES ASSUME DraftTypes, NamesInv, IndexInv, RefsInv PROVE TypeOK
    OBVIOUS
  <2>1. \A i \in DOMAIN index : index[i] \in Entry
    BY DEF IndexInv
  <2>2. \A i \in DOMAIN index : index[i].file \in Manuscripts
    BY <2>1 DEF Entry
  <2>3. run # None => run.over \/ run.frames # <<>>
    BY DEF RefsInv, WalkInv, RunInv
  <2> QED
    BY <2>2, <2>3 DEF TypeOK, DraftTypes, NamesInv
<1> QED
  BY DInit, IndexNext, RefsInit, RefsNext, TypesInit, TypesNext, <1>1, PTL DEF Spec

-----------------------------------------------------------------------------
(* Lists: what is filtered out of one, and what lists make in a row.       *)
Kept(f, list, S) ==
  f = [i \in 0 .. Len(list) |->
         IF i = 0 THEN <<>>
         ELSE IF list[i] \in S THEN Append(f[i - 1], list[i]) ELSE f[i - 1]]

LEMMA OnlyKeeps ==
  ASSUME NEW T, NEW list \in Seq(T), NEW S
  PROVE  Only(list, S) \in Seq(S) /\ ToSet(Only(list, S)) = ToSet(list) \cap S
<1> PICK n \in Nat : n = Len(list) /\ DOMAIN list = 1 .. n
  OBVIOUS
<1> DEFINE Upto(i) == {list[j] : j \in 1 .. i} \cap S
           Right(i, q) == q \in Seq(S) /\ ToSet(q) = Upto(i)
<1>1. Right(0, <<>>)
  BY DEF ToSet
<1>2. ASSUME NEW i \in 1 .. n, NEW q, Right(i - 1, q)
      PROVE  Right(i, IF list[i] \in S THEN Append(q, list[i]) ELSE q)
  <2>1. 1 .. i = (1 .. i - 1) \cup {i}
    BY <1>2
  <2>2. CASE list[i] \in S
    <3>1. Append(q, list[i]) \in Seq(S)
      BY <1>2, <2>2
    <3>2. ToSet(Append(q, list[i])) = ToSet(q) \cup {list[i]}
      <4>1. DOMAIN Append(q, list[i]) = DOMAIN q \cup {Len(q) + 1}
        BY <1>2
      <4>2. /\ \A j \in DOMAIN q : Append(q, list[i])[j] = q[j]
            /\ Append(q, list[i])[Len(q) + 1] = list[i]
        BY <1>2
      <4> QED
        BY <4>1, <4>2 DEF ToSet
    <3> QED
      BY <1>2, <2>1, <2>2, <3>1, <3>2
  <2>3. CASE list[i] \notin S
    BY <1>2, <2>1, <2>3
  <2> QED
    BY <2>2, <2>3
<1> PICK F : F = [i \in 0 .. n |-> {q \in Seq(S) : ToSet(q) = Upto(i)}]
  OBVIOUS
<1> PICK step : step = [i \in 1 .. n |-> [q \in F[i - 1] |->
                          IF list[i] \in S THEN Append(q, list[i]) ELSE q]]
  OBVIOUS
<1>3. \A i \in 0 .. n : \A q : q \in F[i] <=> Right(i, q)
  OBVIOUS
<1> HIDE DEF Right
<1>4. \E f : Kept(f, list, S)
  <2>1. \A i \in 1 .. n : i - 1 \in 0 .. n /\ i \in 0 .. n
    OBVIOUS
  <2>2. \A i \in 1 .. n : \A q \in F[i - 1] :
          step[i][q] = IF list[i] \in S THEN Append(q, list[i]) ELSE q
    OBVIOUS
  <2>3. \A i \in 1 .. n : \A q \in F[i - 1] : step[i][q] \in F[i]
    BY <1>2, <1>3, <2>1, <2>2
  <2>4. <<>> \in F[0]
    BY <1>1, <1>3
  <2>5. PICK f : Recurs(f, n, <<>>, step) /\ \A i \in 0 .. n : f[i] \in F[i]
    BY <2>3, <2>4, Recursion, Zenon
  <2>6. f = [i \in 0 .. n |->
               IF i = 0 THEN <<>>
               ELSE IF list[i] \in S THEN Append(f[i - 1], list[i]) ELSE f[i - 1]]
    <3>1. \A i \in 0 .. n : i # 0 => i \in 1 .. n /\ i - 1 \in 0 .. n
      OBVIOUS
    <3>2. \A i \in 0 .. n : i # 0 => f[i - 1] \in F[i - 1]
      BY <2>5, <3>1
    <3> QED
      BY <2>2, <2>5, <3>1, <3>2 DEF Recurs
  <2> QED
    BY <2>6 DEF Kept
<1>5. PICK f : Kept(f, list, S) /\ Only(list, S) = f[Len(list)]
  BY <1>4, Zenon DEF Only, Kept
<1> DEFINE D == {i \in 0 .. n : Right(i, f[i])}
<1>6. /\ f[0] = <<>>
      /\ \A i \in 1 .. n : f[i] = IF list[i] \in S THEN Append(f[i - 1], list[i]) ELSE f[i - 1]
  <2>1. 0 \in 0 .. n /\ \A i \in 1 .. n : i \in 0 .. n /\ i # 0
    OBVIOUS
  <2>2. \A i \in 0 .. n :
          f[i] = IF i = 0 THEN <<>>
                 ELSE IF list[i] \in S THEN Append(f[i - 1], list[i]) ELSE f[i - 1]
    BY <1>5 DEF Kept
  <2> QED
    BY <2>1, <2>2
<1>7. 0 .. n \subseteq D
  <2>1. 0 \in D
    BY <1>1, <1>6
  <2>2. \A i \in 1 .. n : i - 1 \in D => i \in D
    BY <1>2, <1>6
  <2> HIDE DEF D
  <2> QED
    BY <2>1, <2>2, Climb
<1>8. Right(n, f[n])
  BY <1>7
<1>9. Upto(n) = ToSet(list) \cap S
  BY DEF ToSet
<1> QED
  BY <1>5, <1>8, <1>9 DEF Right

LEMMA Joined ==
  ASSUME NEW S, NEW q \in Seq(S), NEW r \in Seq(S)
  PROVE  ToSet(q \o r) = ToSet(q) \cup ToSet(r)
<1> PICK m, n \in Nat : /\ m = Len(q) /\ DOMAIN q = 1 .. m
                        /\ n = Len(r) /\ DOMAIN r = 1 .. n
  OBVIOUS
<1> PICK s : s = q \o r
  OBVIOUS
<1>1. /\ DOMAIN s = 1 .. m + n
      /\ \A j \in 1 .. m + n : s[j] = IF j <= m THEN q[j] ELSE r[j - m]
  <2>1. s \in Seq(S) /\ Len(s) = m + n
    OBVIOUS
  <2>2. DOMAIN s = 1 .. m + n
    BY <2>1
  <2>3. \A j \in 1 .. m + n : s[j] = IF j <= m THEN q[j] ELSE r[j - m]
    OBVIOUS
  <2> QED
    BY <2>2, <2>3
<1>2. \A j \in 1 .. m : j \in 1 .. m + n /\ s[j] = q[j]
  BY <1>1
<1>3. \A j \in 1 .. n : m + j \in 1 .. m + n /\ s[m + j] = r[j]
  <2> TAKE j \in 1 .. n
  <2>1. m + j \in 1 .. m + n /\ ~(m + j <= m) /\ m + j - m = j
    OBVIOUS
  <2> QED
    BY <1>1, <2>1
<1>4. \A j \in 1 .. m + n :
        (j \in 1 .. m /\ s[j] = q[j]) \/ (j - m \in 1 .. n /\ s[j] = r[j - m])
  BY <1>1
<1>5. /\ ToSet(s) = {s[j] : j \in 1 .. m + n}
      /\ ToSet(q) = {q[j] : j \in 1 .. m} /\ ToSet(r) = {r[j] : j \in 1 .. n}
  BY <1>1 DEF ToSet
<1>6. ASSUME NEW j \in 1 .. m + n PROVE s[j] \in ToSet(q) \cup ToSet(r)
  <2>1. CASE j \in 1 .. m /\ s[j] = q[j]
    BY <1>5, <2>1
  <2>2. CASE j - m \in 1 .. n /\ s[j] = r[j - m]
    BY <1>5, <2>2
  <2> QED
    BY <1>4, <2>1, <2>2
<1>7. \A x \in ToSet(q) \cup ToSet(r) : x \in ToSet(s)
  BY <1>2, <1>3, <1>5, Zenon
<1>8. \A x \in ToSet(s) : x \in ToSet(q) \cup ToSet(r)
  BY <1>5, <1>6, Zenon
<1>9. ToSet(s) = ToSet(q) \cup ToSet(r)
  BY <1>7, <1>8
<1> QED
  BY <1>9

Flattens(f, seqs, n) ==
  f = [i \in 1 .. n |-> IF i = 1 THEN seqs[i] ELSE f[i - 1] \o seqs[i]]

LEMMA Flattened ==
  ASSUME NEW S, NEW seqs \in Seq(Seq(S))
  PROVE  /\ FlattenSeq(seqs) \in Seq(S)
         /\ ToSet(FlattenSeq(seqs)) = UNION {ToSet(seqs[i]) : i \in DOMAIN seqs}
<1> PICK n \in Nat : n = Len(seqs) /\ DOMAIN seqs = 1 .. n
  OBVIOUS
<1> DEFINE Upto(i) == UNION {ToSet(seqs[j]) : j \in 1 .. i}
           Right(i, q) == q \in Seq(S) /\ ToSet(q) = Upto(i)
<1>1. CASE n = 0
  <2>1. FlattenSeq(seqs) = seqs
    BY <1>1, Zenon DEF FlattenSeq
  <2> QED
    BY <1>1, <2>1 DEF ToSet
<1>2. CASE n # 0
  <2>1. Right(0, <<>>)
    BY DEF ToSet
  <2>2. ASSUME NEW i \in 1 .. n, NEW q, Right(i - 1, q)
        PROVE  Right(i, q \o seqs[i])
    <3>1. seqs[i] \in Seq(S) /\ q \in Seq(S)
      BY <2>2
    <3>2. ToSet(q \o seqs[i]) = ToSet(q) \cup ToSet(seqs[i])
      BY <3>1, Joined
    <3>3. 1 .. i = (1 .. i - 1) \cup {i}
      BY <2>2
    <3> QED
      BY <2>2, <3>1, <3>2, <3>3
  <2> PICK F : F = [i \in 0 .. n |-> {q \in Seq(S) : ToSet(q) = Upto(i)}]
    OBVIOUS
  <2> PICK step : step = [i \in 1 .. n |-> [q \in F[i - 1] |-> q \o seqs[i]]]
    OBVIOUS
  <2>3. \A i \in 0 .. n : \A q : q \in F[i] <=> Right(i, q)
    OBVIOUS
  <2> HIDE DEF Right
  <2>4. \E f : Flattens(f, seqs, n)
    <3>1. \A i \in 1 .. n : i - 1 \in 0 .. n /\ i \in 0 .. n
      OBVIOUS
    <3>2. \A i \in 1 .. n : \A q \in F[i - 1] : step[i][q] = q \o seqs[i]
      OBVIOUS
    <3>3. \A i \in 1 .. n : \A q \in F[i - 1] : step[i][q] \in F[i]
      BY <2>2, <2>3, <3>1, <3>2
    <3>4. <<>> \in F[0]
      BY <2>1, <2>3
    <3>5. PICK g : Recurs(g, n, <<>>, step) /\ \A i \in 0 .. n : g[i] \in F[i]
      BY <3>3, <3>4, Recursion, Zenon
    <3>6. g[0] = <<>> /\ \A i \in 1 .. n : g[i] = g[i - 1] \o seqs[i]
      <4>1. 0 \in 0 .. n /\ \A i \in 1 .. n : i \in 0 .. n /\ i # 0 /\ i - 1 \in 0 .. n
        OBVIOUS
      <4> QED
        BY <3>2, <3>5, <4>1, Zenon DEF Recurs
    <3> PICK f : f = [i \in 1 .. n |-> g[i]]
      OBVIOUS
    <3>7. ASSUME NEW i \in 1 .. n PROVE f[i] = IF i = 1 THEN seqs[i] ELSE f[i - 1] \o seqs[i]
      <4>1. CASE i = 1
        <5>1. <<>> \o seqs[i] = seqs[i]
          OBVIOUS
        <5>2. g[i - 1] = <<>>
          BY <3>6, <4>1
        <5>3. f[i] = g[i - 1] \o seqs[i]
          BY <3>6
        <5> QED
          BY <4>1, <5>1, <5>2, <5>3
      <4>2. CASE i # 1
        <5>1. i - 1 \in 1 .. n
          BY <4>2
        <5> QED
          BY <3>6, <4>2, <5>1
      <4> QED
        BY <4>1, <4>2
    <3> PICK h : h = [i \in 1 .. n |-> IF i = 1 THEN seqs[i] ELSE f[i - 1] \o seqs[i]]
      OBVIOUS
    <3>8. h = f
      BY <3>7
    <3> QED
      BY <3>8 DEF Flattens
  <2>5. PICK f : Flattens(f, seqs, n) /\ FlattenSeq(seqs) = f[n]
    BY <1>2, <2>4, Zenon DEF FlattenSeq, Flattens
  <2>6. /\ f[1] = seqs[1]
        /\ \A i \in 1 .. n : i # 1 => f[i] = f[i - 1] \o seqs[i]
    <3>1. 1 \in 1 .. n
      BY <1>2
    <3> QED
      BY <2>5, <3>1 DEF Flattens
  <2> DEFINE D == {i \in 0 .. n : i = 0 \/ Right(i, f[i])}
  <2>7. 0 .. n \subseteq D
    <3>1. ASSUME NEW i \in 1 .. n, i - 1 \in D PROVE i \in D
      <4>1. CASE i = 1
        <5>0. Right(i - 1, <<>>)
          BY <2>1, <4>1
        <5>1. Right(i, <<>> \o seqs[i])
          BY <2>2, <5>0
        <5>2. <<>> \o seqs[i] = seqs[i]
          OBVIOUS
        <5> QED
          BY <2>6, <4>1, <5>1, <5>2
      <4>2. CASE i # 1
        <5>1. Right(i - 1, f[i - 1])
          BY <3>1, <4>2
        <5>2. Right(i, f[i - 1] \o seqs[i])
          BY <2>2, <5>1
        <5>3. f[i] = f[i - 1] \o seqs[i]
          BY <2>6, <4>2
        <5>4. Right(i, f[i])
          BY <5>2, <5>3
        <5> QED
          BY <5>4
      <4> QED
        BY <4>1, <4>2
    <3>2. 0 \in D
      OBVIOUS
    <3> HIDE DEF D
    <3> QED
      BY <3>1, <3>2, Climb
  <2>8. Right(n, f[n])
    BY <1>2, <2>7
  <2> QED
    BY <2>5, <2>8 DEF Right
<1> QED
  BY <1>1, <1>2

-----------------------------------------------------------------------------
(* findCycle.  A search that has closed no cycle is proper: what is on the *)
(* stack lies on the path, the path follows edges, and what is done leads  *)
(* only to what is done and closes no cycle.                               *)
IsGraph(next) ==
  IsFiniteSet(DOMAIN next) /\ \A n \in DOMAIN next : next[n] \in Seq(DOMAIN next)

Marked(s, mark) == {m \in DOMAIN s.mark : s.mark[m] = mark}

Proper(next, s) ==
  /\ s \in Searches(DOMAIN next) /\ s.cycle = <<>>
  /\ Marked(s, "onStack") \subseteq ToSet(s.path)
  /\ \A k \in 1 .. Len(s.path) - 1 : s.path[k + 1] \in ToSet(next[s.path[k]])
  /\ \A m \in Marked(s, "done") : ToSet(next[m]) \subseteq Marked(s, "done")
  /\ \A C \in SUBSET Marked(s, "done") : C # {} => \E n \in C : ToSet(next[n]) \cap C = {}

Circles(next, cycle) ==
  /\ cycle \in Seq(DOMAIN next) /\ Len(cycle) > 1 /\ cycle[1] = cycle[Len(cycle)]
  /\ \A k \in 1 .. Len(cycle) - 1 : cycle[k + 1] \in ToSet(next[cycle[k]])

(* What has become of a search that went to each of ms.                    *)
Keeps(s, r) ==
  r.path = s.path /\ \A m \in DOMAIN s.mark : s.mark[m] # "unvisited" => r.mark[m] = s.mark[m]

Closed(next, r) == r \in Searches(DOMAIN next) /\ r.cycle # <<>> /\ Circles(next, r.cycle)

Went(next, s, r, ms) ==
  Closed(next, r) \/ (Proper(next, r) /\ Keeps(s, r) /\ \A m \in ms : r.mark[m] = "done")

At(next, s, ms) == s.path = <<>> \/ ms \subseteq ToSet(next[Last(s.path)])

(* visit does its work in searches with at most k nodes unvisited.         *)
Visits(next, visit, k) ==
  \A n \in DOMAIN next : \A s \in Searches(DOMAIN next) :
    /\ Proper(next, s) /\ s.mark[n] = "unvisited" /\ At(next, s, {n})
    /\ Cardinality(Marked(s, "unvisited")) <= k
    => Went(next, s, visit[n][s], {n})

LEMMA ASearch ==
  ASSUME NEW N, NEW s \in Searches(N)
  PROVE  /\ s = [mark |-> s.mark, path |-> s.path, cycle |-> s.cycle]
         /\ s.mark \in [N -> {"unvisited", "onStack", "done"}] /\ DOMAIN s.mark = N
         /\ s.path \in Seq(N) /\ s.cycle \in Seq(N)
  BY DEF Searches

(* The cycle that an edge back to the path closes.                         *)
LEMMA CloseCircles ==
  ASSUME NEW next, NEW path \in Seq(DOMAIN next), NEW m \in ToSet(path),
         \A k \in 1 .. Len(path) - 1 : path[k + 1] \in ToSet(next[path[k]]),
         m \in ToSet(next[Last(path)])
  PROVE  Circles(next, Close(path, m)) /\ Close(path, m) # <<>>
<1> PICK l \in Nat : l = Len(path) /\ DOMAIN path = 1 .. l
  OBVIOUS
<1>1. \E k \in DOMAIN path : path[k] = m
  BY DEF ToSet
<1>2. PICK i \in 1 .. l : path[i] = m /\ Close(path, m) = Append(SubSeq(path, i, l), m)
  BY <1>1, Zenon DEF Close
<1> PICK sub : sub = SubSeq(path, i, l)
  OBVIOUS
<1>3. sub \in Seq(DOMAIN next) /\ Len(sub) = l - i + 1 /\ \A k \in 1 .. l - i + 1 : sub[k] = path[i + k - 1]
  OBVIOUS
<1> PICK cycle : cycle = Append(sub, m)
  OBVIOUS
<1>4. m \in DOMAIN next
  BY <1>2
<1>5. /\ cycle \in Seq(DOMAIN next) /\ Len(cycle) = l - i + 2
      /\ cycle[l - i + 2] = m /\ \A k \in 1 .. l - i + 1 : cycle[k] = path[i + k - 1]
  BY <1>3, <1>4
<1>6. cycle[1] = m
  BY <1>2, <1>5
<1>7. ASSUME NEW k \in 1 .. l - i + 1 PROVE cycle[k + 1] \in ToSet(next[cycle[k]])
  <2>1. CASE k = l - i + 1
    <3>1. cycle[k] = path[l] /\ cycle[k + 1] = m
      BY <1>5, <2>1
    <3>2. Last(path) = path[l]
      BY DEF Last
    <3> QED
      BY <3>1, <3>2
  <2>2. CASE k # l - i + 1
    <3> PICK j : j = i + k - 1
      OBVIOUS
    <3>0. i \in 1 .. l /\ k \in 1 .. l - i + 1 /\ l \in Nat /\ k # l - i + 1 /\ j = i + k - 1
      BY <1>2, <2>2
    <3>1. j \in 1 .. l - 1 /\ k + 1 \in 1 .. l - i + 1 /\ i + (k + 1) - 1 = j + 1
      BY ONLY <3>0
    <3>2. cycle[k] = path[j] /\ cycle[k + 1] = path[j + 1]
      BY <1>5, <3>1
    <3> QED
      BY <3>1, <3>2
  <2> QED
    BY <2>1, <2>2
<1>a. Len(cycle) > 1 /\ Len(cycle) - 1 = l - i + 1
  <2>1. i \in 1 .. l /\ l \in Nat /\ Len(cycle) = l - i + 2
    BY <1>2, <1>5
  <2> QED
    BY ONLY <2>1
<1>8. Circles(next, cycle)
  <2>1. cycle[1] = cycle[Len(cycle)]
    BY <1>5, <1>6
  <2>2. \A k \in 1 .. Len(cycle) - 1 : cycle[k + 1] \in ToSet(next[cycle[k]])
    BY <1>7, <1>a, Zenon
  <2> QED
    BY <1>5, <1>a, <2>1, <2>2 DEF Circles
<1>9. Close(path, m) = cycle
  BY <1>2
<1>10. cycle # <<>>
  <2>1. cycle = <<>> => Len(cycle) = 0
    OBVIOUS
  <2> QED
    BY ONLY <1>a, <2>1
<1> QED
  BY <1>8, <1>9, <1>10

LEMMA FollowKeeps ==
  ASSUME NEW next, NEW visit, NEW k, NEW s, NEW m \in DOMAIN next,
         Visits(next, visit, k), Proper(next, s), At(next, s, {m}),
         Cardinality(Marked(s, "unvisited")) <= k
  PROVE  Went(next, s, Follow(visit, s, m), {m})
<1> DEFINE N == DOMAIN next
<1>0. s \in Searches(N) /\ s.cycle = <<>>
  BY DEF Proper
<1>1. s.mark[m] \in {"unvisited", "onStack", "done"}
  BY <1>0, ASearch
<1>2. CASE s.mark[m] = "done"
  <2>1. Follow(visit, s, m) = s
    BY <1>2 DEF Follow
  <2> QED
    BY <1>2, <2>1 DEF Went, Keeps
<1>3. CASE s.mark[m] = "onStack"
  <2>1. Follow(visit, s, m) = [s EXCEPT !.cycle = Close(s.path, m)]
    BY <1>0, <1>3 DEF Follow
  <2>2. m \in ToSet(s.path)
    BY <1>0, <1>3, ASearch DEF Proper, Marked
  <2>3. s.path # <<>>
    BY <2>2 DEF ToSet
  <2>4. Circles(next, Close(s.path, m)) /\ Close(s.path, m) # <<>>
    <3>1. s.path \in Seq(N) /\ m \in ToSet(next[Last(s.path)])
      BY <1>0, <2>3, ASearch DEF At
    <3> QED
      BY <2>2, <3>1, CloseCircles DEF Proper
  <2> PICK cycle : cycle = Close(s.path, m)
    OBVIOUS
  <2>5. cycle \in Seq(N)
    BY <2>4 DEF Circles
  <2>6. [s EXCEPT !.cycle = cycle] \in Searches(N) /\ [s EXCEPT !.cycle = cycle].cycle = cycle
    BY <1>0, <2>5 DEF Searches
  <2> QED
    BY <2>1, <2>4, <2>6 DEF Went, Closed
<1>4. CASE s.mark[m] = "unvisited"
  <2>1. Follow(visit, s, m) = visit[m][s]
    BY <1>0, <1>4 DEF Follow
  <2> QED
    BY <1>0, <1>4, <2>1 DEF Visits
<1> QED
  BY <1>1, <1>2, <1>3, <1>4

(* What was not unvisited before is not unvisited after.                   *)
LEMMA FewerUnvisited ==
  ASSUME NEW next, IsGraph(next), NEW s \in Searches(DOMAIN next),
         NEW r \in Searches(DOMAIN next), Keeps(s, r)
  PROVE  /\ Marked(r, "unvisited") \subseteq Marked(s, "unvisited")
         /\ Cardinality(Marked(r, "unvisited")) <= Cardinality(Marked(s, "unvisited"))
<1>1. DOMAIN s.mark = DOMAIN next /\ DOMAIN r.mark = DOMAIN next
  BY ASearch
<1>2. Marked(r, "unvisited") \subseteq Marked(s, "unvisited")
  BY <1>1 DEF Keeps, Marked
<1>3. Marked(s, "unvisited") \subseteq DOMAIN next
  BY <1>1 DEF Marked
<1>4. IsFiniteSet(Marked(s, "unvisited"))
  BY <1>3, FS_Subset DEF IsGraph
<1> QED
  BY <1>2, <1>4, FS_Subset

Follows(f, visit, edges, s) ==
  f = [i \in 0 .. Len(edges) |-> IF i = 0 THEN s ELSE Follow(visit, f[i - 1], edges[i])]

LEMMA FollowOn ==
  ASSUME NEW next, IsGraph(next), NEW visit, NEW k \in Nat, Visits(next, visit, k),
         NEW s, Proper(next, s), Cardinality(Marked(s, "unvisited")) <= k,
         NEW m \in DOMAIN next, At(next, s, {m}), 
         NEW ms \in SUBSET DOMAIN next, NEW r, Went(next, s, r, ms)
  PROVE  Went(next, s, Follow(visit, r, m), ms \cup {m})
<1>1. CASE Closed(next, r)
  <2>1. Follow(visit, r, m) = r
    BY <1>1 DEF Closed, Follow
  <2> QED
    BY <1>1, <2>1 DEF Went
<1>2. CASE Proper(next, r) /\ Keeps(s, r) /\ \A x \in ms : r.mark[x] = "done"
  <2>1. s \in Searches(DOMAIN next) /\ r \in Searches(DOMAIN next)
    BY <1>2 DEF Proper
  <2>2. Cardinality(Marked(r, "unvisited")) <= k
    <3>1. Cardinality(Marked(r, "unvisited")) <= Cardinality(Marked(s, "unvisited"))
      BY <1>2, <2>1, FewerUnvisited
    <3>2. Cardinality(Marked(r, "unvisited")) \in Nat /\ Cardinality(Marked(s, "unvisited")) \in Nat
      <4>1. Marked(r, "unvisited") \subseteq DOMAIN next /\ Marked(s, "unvisited") \subseteq DOMAIN next
        BY <2>1, ASearch DEF Marked
      <4>2. IsFiniteSet(Marked(r, "unvisited")) /\ IsFiniteSet(Marked(s, "unvisited"))
        BY <4>1, FS_Subset DEF IsGraph
      <4> QED
        BY <4>2, FS_CardinalityType
    <3> QED
      BY <3>1, <3>2
  <2>3. At(next, r, {m})
    BY <1>2 DEF At, Keeps
  <2> PICK q : q = Follow(visit, r, m)
    OBVIOUS
  <2>4. Went(next, r, q, {m})
    BY <1>2, <2>2, <2>3, FollowKeeps
  <2>5. CASE Closed(next, q)
    BY <2>5 DEF Went
  <2>6. CASE Proper(next, q) /\ Keeps(r, q) /\ q.mark[m] = "done"
    <3>1. DOMAIN s.mark = DOMAIN next /\ DOMAIN r.mark = DOMAIN next
      BY <2>1, ASearch
    <3>2. Keeps(s, q)
      BY <1>2, <2>6, <3>1 DEF Keeps
    <3>3. \A x \in ms : x \in DOMAIN next => q.mark[x] = "done"
      BY <1>2, <2>6, <3>1 DEF Keeps
    <3> QED
      BY <2>6, <3>2, <3>3 DEF Went
  <2> QED
    BY <2>4, <2>5, <2>6 DEF Went
<1> QED
  BY <1>1, <1>2 DEF Went

LEMMA AlongKeeps ==
  ASSUME NEW next, IsGraph(next), NEW visit, NEW k \in Nat, Visits(next, visit, k),
         NEW s, Proper(next, s), Cardinality(Marked(s, "unvisited")) <= k,
         NEW edges \in Seq(DOMAIN next), At(next, s, ToSet(edges))
  PROVE  Went(next, s, Along(visit, edges, s), ToSet(edges))
<1> PICK n \in Nat : n = Len(edges) /\ DOMAIN edges = 1 .. n
  OBVIOUS
<1> DEFINE Upto(i) == {edges[j] : j \in 1 .. i}
           Right(i, r) == Went(next, s, r, Upto(i))
<1>1. \A i \in 0 .. n : Upto(i) \in SUBSET DOMAIN next
  OBVIOUS
<1>2. Right(0, s)
  BY DEF Went, Keeps
<1>3. ASSUME NEW i \in 1 .. n, NEW r, Right(i - 1, r)
      PROVE  Right(i, Follow(visit, r, edges[i]))
  <2>1. Upto(i) = Upto(i - 1) \cup {edges[i]}
    <3>1. 1 .. i = (1 .. i - 1) \cup {i}
      BY <1>3
    <3> QED
      BY <3>1
  <2>2. edges[i] \in DOMAIN next /\ edges[i] \in ToSet(edges) /\ Upto(i - 1) \in SUBSET DOMAIN next
    BY <1>1, <1>3 DEF ToSet
  <2>3. At(next, s, {edges[i]})
    BY <2>2 DEF At
  <2> HIDE DEF Upto
  <2> QED
    BY <1>3, <2>1, <2>2, <2>3, FollowOn
<1> PICK F : F = [i \in 0 .. n |-> {r \in Searches(DOMAIN next) : Right(i, r)}]
  OBVIOUS
<1>5. \A i \in 0 .. n : \A r : r \in F[i] <=> Right(i, r)
  <2>1. \A i \in 0 .. n : F[i] = {r \in Searches(DOMAIN next) : Right(i, r)}
    OBVIOUS
  <2>2. \A i, r : Right(i, r) => r \in Searches(DOMAIN next)
    BY DEF Went, Closed, Proper
  <2> HIDE DEF Right
  <2> QED
    BY <2>1, <2>2
<1> PICK step : step = [i \in 1 .. n |-> [r \in F[i - 1] |-> Follow(visit, r, edges[i])]]
  OBVIOUS
<1> HIDE DEF Right
<1>6. \E f : Follows(f, visit, edges, s)
  <2>1. \A i \in 1 .. n : i - 1 \in 0 .. n /\ i \in 0 .. n
    OBVIOUS
  <2>2. \A i \in 1 .. n : \A r \in F[i - 1] : step[i][r] = Follow(visit, r, edges[i])
    OBVIOUS
  <2>3. \A i \in 1 .. n : \A r \in F[i - 1] : step[i][r] \in F[i]
    BY <1>3, <1>5, <2>1, <2>2
  <2>4. s \in F[0]
    BY <1>2, <1>5
  <2>5. PICK f : Recurs(f, n, s, step) /\ \A i \in 0 .. n : f[i] \in F[i]
    BY <2>3, <2>4, Recursion
  <2>6. f = [i \in 0 .. n |-> IF i = 0 THEN s ELSE Follow(visit, f[i - 1], edges[i])]
    <3>1. \A i \in 0 .. n : i # 0 => i \in 1 .. n /\ i - 1 \in 0 .. n
      OBVIOUS
    <3>2. \A i \in 0 .. n : i # 0 => f[i - 1] \in F[i - 1]
      BY <2>5, <3>1
    <3>3. f = [i \in 0 .. n |-> IF i = 0 THEN s ELSE step[i][f[i - 1]]]
      BY <2>5 DEF Recurs
    <3>4. \A i \in 0 .. n : i # 0 => step[i][f[i - 1]] = Follow(visit, f[i - 1], edges[i])
      BY <2>2, <3>1, <3>2
    <3> QED
      BY <3>3, <3>4
  <2> QED
    BY <2>6 DEF Follows
<1>7. PICK f : Follows(f, visit, edges, s) /\ Along(visit, edges, s) = f[Len(edges)]
  BY <1>6, Zenon DEF Along, Follows
<1>8. /\ f[0] = s
      /\ \A i \in 1 .. n : f[i] = Follow(visit, f[i - 1], edges[i])
  <2>1. 0 \in 0 .. n /\ \A i \in 1 .. n : i \in 0 .. n /\ i # 0
    OBVIOUS
  <2>2. \A i \in 0 .. n : f[i] = IF i = 0 THEN s ELSE Follow(visit, f[i - 1], edges[i])
    BY <1>7 DEF Follows
  <2> QED
    BY <2>1, <2>2
<1> DEFINE D == {i \in 0 .. n : Right(i, f[i])}
<1>9. 0 .. n \subseteq D
  <2>1. 0 \in D
    BY <1>2, <1>8
  <2>2. \A i \in 1 .. n : i - 1 \in D => i \in D
    BY <1>3, <1>8
  <2> HIDE DEF D
  <2> QED
    BY <2>1, <2>2, Climb
<1>10. Right(n, f[n])
  BY <1>9
<1>11. Upto(n) = ToSet(edges)
  BY DEF ToSet
<1> QED
  BY <1>7, <1>10, <1>11 DEF Right

(* A visit of a node marks it done unless it closes a cycle.               *)
LEMMA VisitKeeps ==
  ASSUME NEW next, IsGraph(next), NEW visit, NEW k \in Nat, Visits(next, visit, k),
         NEW n \in DOMAIN next, NEW s, Proper(next, s), s.mark[n] = "unvisited",
         At(next, s, {n}), Cardinality(Marked(s, "unvisited")) <= k + 1
  PROVE  Went(next, s, Visit(visit, next, n, s), {n})
<1> DEFINE N == DOMAIN next
<1>1. s \in Searches(N) /\ s.cycle = <<>>
  BY DEF Proper
<1>2. /\ s.mark \in [N -> {"unvisited", "onStack", "done"}] /\ DOMAIN s.mark = N
      /\ s.path \in Seq(N) /\ s = [mark |-> s.mark, path |-> s.path, cycle |-> s.cycle]
  BY <1>1, ASearch
<1> PICK path : path = Append(s.path, n)
  OBVIOUS
<1> PICK mark : mark = [s.mark EXCEPT ![n] = "onStack"]
  OBVIOUS
<1> PICK s0 : s0 = [s EXCEPT !.mark[n] = "onStack", !.path = Append(@, n)]
  OBVIOUS
<1>3. s0.mark = mark /\ s0.path = path /\ s0.cycle = <<>> /\ s0 \in Searches(N)
  <2>1. s0 = [mark |-> mark, path |-> path, cycle |-> <<>>]
    BY <1>1, <1>2
  <2>2. mark \in [N -> {"unvisited", "onStack", "done"}] /\ path \in Seq(N)
    BY <1>2
  <2> QED
    <3>1. <<>> \in Seq(N)
      OBVIOUS
    <3>2. [mark |-> mark, path |-> path, cycle |-> <<>>] \in Searches(N)
      BY <2>2, <3>1 DEF Searches
    <3>3. s0.mark = mark /\ s0.path = path /\ s0.cycle = <<>>
      BY ONLY <2>1
    <3> QED
      BY <2>1, <3>2, <3>3
<1>4. /\ path \in Seq(N) /\ Len(path) = Len(s.path) + 1 /\ path[Len(path)] = n
      /\ Last(path) = n /\ Front(path) = s.path
      /\ \A i \in 1 .. Len(s.path) : path[i] = s.path[i]
      /\ ToSet(path) = ToSet(s.path) \cup {n}
  <2>1. /\ path \in Seq(N) /\ Len(path) = Len(s.path) + 1 /\ path[Len(path)] = n
        /\ \A i \in 1 .. Len(s.path) : path[i] = s.path[i]
    BY <1>2
  <2>2. Last(path) = n
    BY <2>1 DEF Last
  <2>3. Front(path) = s.path
    <3>1. SubSeq(path, 1, Len(s.path)) = s.path
      BY <1>2
    <3> QED
      BY <1>2, <2>1, <3>1 DEF Front
  <2>4. ToSet(path) = ToSet(s.path) \cup {n}
    <3>1. DOMAIN path = 1 .. Len(s.path) + 1 /\ DOMAIN s.path = 1 .. Len(s.path) /\ Len(s.path) \in Nat
      BY <1>2, <2>1
    <3>2. 1 .. Len(s.path) + 1 = (1 .. Len(s.path)) \cup {Len(s.path) + 1}
      BY <3>1
    <3> QED
      BY <2>1, <3>1, <3>2 DEF ToSet
  <2> QED
    BY <2>1, <2>2, <2>3, <2>4
<1>5. /\ DOMAIN mark = N /\ mark[n] = "onStack" /\ \A m \in N : m # n => mark[m] = s.mark[m]
      /\ Marked(s0, "done") = Marked(s, "done")
      /\ Marked(s0, "onStack") = Marked(s, "onStack") \cup {n}
      /\ Marked(s0, "unvisited") = Marked(s, "unvisited") \ {n}
  <2>1. DOMAIN mark = N /\ mark[n] = "onStack" /\ \A m \in N : m # n => mark[m] = s.mark[m]
    BY <1>2
  <2> QED
    BY <1>2, <1>3, <2>1 DEF Marked
<1>6. Cardinality(Marked(s0, "unvisited")) <= k
  <2>1. Marked(s, "unvisited") \subseteq N /\ n \in Marked(s, "unvisited")
    BY <1>2 DEF Marked
  <2>2. IsFiniteSet(Marked(s, "unvisited"))
    BY <2>1, FS_Subset DEF IsGraph
  <2>3. /\ Cardinality(Marked(s, "unvisited") \ {n}) = Cardinality(Marked(s, "unvisited")) - 1
        /\ Cardinality(Marked(s, "unvisited")) \in Nat
    BY <2>1, <2>2, FS_RemoveElement, FS_CardinalityType
  <2>4. Cardinality(Marked(s0, "unvisited")) = Cardinality(Marked(s, "unvisited")) - 1
    BY <1>5, <2>3, Zenon
  <2> QED
    BY <2>3, <2>4
<1>7. Proper(next, s0)
  <2>1. Marked(s0, "onStack") \subseteq ToSet(s0.path)
    BY <1>3, <1>4, <1>5 DEF Proper
  <2>2. \A i \in 1 .. Len(path) - 1 : path[i + 1] \in ToSet(next[path[i]])
    <3> TAKE i \in 1 .. Len(path) - 1
    <3>1. Len(s.path) \in Nat /\ i \in 1 .. Len(s.path)
      BY <1>2, <1>4
    <3>2. CASE i = Len(s.path)
      <4>1. s.path # <<>> /\ path[i] = s.path[i] /\ path[i + 1] = n
        BY <1>4, <3>1, <3>2
      <4>2. Last(s.path) = path[i]
        BY <3>2, <4>1 DEF Last
      <4> QED
        BY <4>1, <4>2 DEF At
    <3>3. CASE i # Len(s.path)
      <4>1. i \in 1 .. Len(s.path) - 1 /\ i + 1 \in 1 .. Len(s.path)
        BY <3>1, <3>3
      <4>2. path[i] = s.path[i] /\ path[i + 1] = s.path[i + 1]
        BY <1>4, <3>1, <4>1
      <4> QED
        BY <4>1, <4>2 DEF Proper
    <3> QED
      BY <3>2, <3>3
  <2> QED
    BY <1>3, <1>5, <2>1, <2>2 DEF Proper
<1> PICK after : after = Along(visit, next[n], s0)
  OBVIOUS
<1>8. Went(next, s0, after, ToSet(next[n]))
  <2>1. At(next, s0, ToSet(next[n]))
    BY <1>3, <1>4 DEF At
  <2>2. next[n] \in Seq(DOMAIN next)
    BY DEF IsGraph
  <2> QED
    BY <1>6, <1>7, <2>1, <2>2, AlongKeeps
<1>9. Visit(visit, next, n, s) = IF after.cycle # <<>> THEN after
                                 ELSE [after EXCEPT !.mark[n] = "done", !.path = Front(@)]
  BY Zenon DEF Visit
<1>10. CASE Closed(next, after)
  BY <1>9, <1>10 DEF Went, Closed
<1>11. CASE Proper(next, after) /\ Keeps(s0, after) /\ \A m \in ToSet(next[n]) : after.mark[m] = "done"
  <2>1. after \in Searches(N) /\ after.cycle = <<>>
    BY <1>11 DEF Proper
  <2>2. /\ after.mark \in [N -> {"unvisited", "onStack", "done"}] /\ DOMAIN after.mark = N
        /\ after = [mark |-> after.mark, path |-> after.path, cycle |-> after.cycle]
    BY <2>1, ASearch
  <2> PICK ended : ended = [after.mark EXCEPT ![n] = "done"]
    OBVIOUS
  <2> PICK r : r = [after EXCEPT !.mark[n] = "done", !.path = Front(@)]
    OBVIOUS
  <2>3. after.path = path /\ after.mark[n] = "onStack"
        /\ \A m \in N : m # n /\ s.mark[m] # "unvisited" => after.mark[m] = s.mark[m]
    BY <1>3, <1>5, <1>11 DEF Keeps
  <2>4. r = [mark |-> ended, path |-> s.path, cycle |-> <<>>]
    BY <1>4, <2>1, <2>2, <2>3
  <2>5. /\ ended \in [N -> {"unvisited", "onStack", "done"}] /\ DOMAIN ended = N
        /\ ended[n] = "done" /\ \A m \in N : m # n => ended[m] = after.mark[m]
    BY <2>2
  <2>6. r \in Searches(N) /\ r.mark = ended /\ r.path = s.path /\ r.cycle = <<>>
    <3>1. <<>> \in Seq(N) /\ s.path \in Seq(N)
      BY <1>2
    <3> PICK back : back = s.path
      OBVIOUS
    <3>2. [mark |-> ended, path |-> back, cycle |-> <<>>] \in Searches(N)
      BY <2>5, <3>1 DEF Searches
    <3>3. r.mark = ended /\ r.path = s.path /\ r.cycle = <<>>
      BY ONLY <2>4
    <3> QED
      BY <2>4, <3>2, <3>3
  <2>7. /\ Marked(r, "done") = Marked(after, "done") \cup {n} /\ n \notin Marked(after, "done")
        /\ Marked(r, "onStack") = Marked(after, "onStack") \ {n}
    BY <2>2, <2>3, <2>5, <2>6 DEF Marked
  <2>8. ToSet(next[n]) \subseteq Marked(after, "done")
    <3>1. ToSet(next[n]) \subseteq N
      BY DEF IsGraph, ToSet
    <3> QED
      BY <1>11, <2>2, <3>1 DEF Marked
  <2>9. \A m \in Marked(r, "done") : ToSet(next[m]) \subseteq Marked(after, "done")
    BY <1>11, <2>7, <2>8 DEF Proper
  <2>10. ASSUME NEW C \in SUBSET Marked(r, "done"), C # {}
         PROVE  \E m \in C : ToSet(next[m]) \cap C = {}
    <3>1. CASE C \ {n} = {}
      <4>1. n \in C /\ C = {n}
        BY <2>10, <3>1
      <4> QED
        BY <2>7, <2>8, <4>1
    <3>2. CASE C \ {n} # {}
      <4>1. C \ {n} \in SUBSET Marked(after, "done")
        BY <2>7
      <4>2. PICK m \in C \ {n} : ToSet(next[m]) \cap (C \ {n}) = {}
        BY <1>11, <3>2, <4>1 DEF Proper
      <4>3. n \notin ToSet(next[m])
        BY <2>7, <2>9
      <4> QED
        BY <4>2, <4>3
    <3> QED
      BY <3>1, <3>2
  <2>11. Proper(next, r)
    <3>1. Marked(r, "onStack") \subseteq ToSet(r.path)
      <4>1. Marked(after, "onStack") \subseteq ToSet(path)
        BY <1>11, <2>3 DEF Proper
      <4> QED
        BY <1>4, <2>6, <2>7, <4>1
    <3>2. \A i \in 1 .. Len(r.path) - 1 : r.path[i + 1] \in ToSet(next[r.path[i]])
      BY <2>6 DEF Proper
    <3> QED
      BY <2>6, <2>7, <2>9, <2>10, <3>1, <3>2 DEF Proper
  <2>12. Keeps(s, r)
    BY <1>2, <2>3, <2>5, <2>6 DEF Keeps
  <2> QED
    BY <1>9, <2>1, <2>5, <2>6, <2>11, <2>12 DEF Went
<1> QED
  BY <1>8, <1>10, <1>11 DEF Went

(* Visits nested ever deeper.                                              *)
Deeper(visit, next) ==
  [n \in DOMAIN next |-> [s \in Searches(DOMAIN next) |-> Visit(visit, next, n, s)]]

Nests(f, next, n) ==
  f = [k \in 0 .. n |->
         [m \in DOMAIN next |-> [s \in Searches(DOMAIN next) |->
            IF k = 0 THEN s ELSE Visit(f[k - 1], next, m, s)]]]

LEMMA NestsExists ==
  ASSUME NEW next, NEW n \in Nat
  PROVE  \E f : Nests(f, next, n)
<1> DEFINE S == {k \in 0 .. n : \E f : Nests(f, next, k)}
           none == [m \in DOMAIN next |-> [s \in Searches(DOMAIN next) |-> s]]
<1>0. ASSUME NEW f, NEW k \in Nat,
             f = [i \in 0 .. k |-> IF i = 0 THEN none ELSE Deeper(f[i - 1], next)]
      PROVE  Nests(f, next, k)
  <2> PICK h : h = [i \in 0 .. k |->
                 [m \in DOMAIN next |-> [s \in Searches(DOMAIN next) |->
                    IF i = 0 THEN s ELSE Visit(f[i - 1], next, m, s)]]]
    OBVIOUS
  <2>1. ASSUME NEW i \in 0 .. k PROVE f[i] = h[i]
    <3>1. h[i] = [m \in DOMAIN next |-> [s \in Searches(DOMAIN next) |->
                    IF i = 0 THEN s ELSE Visit(f[i - 1], next, m, s)]]
      OBVIOUS
    <3>2. CASE i = 0
      <4>1. h[i] = none
        BY <3>1, <3>2
      <4> QED
        BY <1>0, <3>2, <4>1
    <3>3. CASE i # 0
      <4>1. h[i] = Deeper(f[i - 1], next)
        BY <3>1, <3>3 DEF Deeper
      <4> QED
        BY <1>0, <3>3, <4>1
    <3> QED
      BY <3>2, <3>3
  <2>2. DOMAIN f = 0 .. k /\ DOMAIN h = 0 .. k /\ f = [i \in 0 .. k |-> f[i]]
    BY <1>0
  <2>3. f = h
    BY <2>1, <2>2
  <2> QED
    BY <2>3 DEF Nests
<1> HIDE DEF none
<1>1. 0 \in S
  <2> PICK f : f = [i \in 0 .. 0 |-> IF i = 0 THEN none ELSE Deeper(none, next)]
    OBVIOUS
  <2>1. f = [i \in 0 .. 0 |-> IF i = 0 THEN none ELSE Deeper(f[i - 1], next)]
    OBVIOUS
  <2> QED
    BY <1>0, <2>1
<1>2. ASSUME NEW k \in 1 .. n, k - 1 \in S PROVE k \in S
  <2>1. k \in Nat /\ k - 1 \in Nat /\ k # 0 /\ k - 1 \in 0 .. k - 1 /\ k \notin 0 .. k - 1 /\ 0 .. k = (0 .. k - 1) \cup {k}
    BY <1>2
  <2>2. PICK g : Nests(g, next, k - 1)
    BY <1>2
  <2>3. \A i \in 0 .. k - 1 : g[i] = IF i = 0 THEN none ELSE Deeper(g[i - 1], next)
    <3> TAKE i \in 0 .. k - 1
    <3>1. g[i] = [m \in DOMAIN next |-> [s \in Searches(DOMAIN next) |->
                    IF i = 0 THEN s ELSE Visit(g[i - 1], next, m, s)]]
      BY <2>2 DEF Nests
    <3>2. CASE i = 0
      BY <3>1, <3>2 DEF none
    <3>3. CASE i # 0
      BY <3>1, <3>3 DEF Deeper
    <3> QED
      BY <3>2, <3>3
  <2> PICK last : last = Deeper(g[k - 1], next)
    OBVIOUS
  <2> PICK f : f = [i \in 0 .. k |-> IF i = k THEN last ELSE g[i]]
    OBVIOUS
  <2>4. f[k] = last /\ \A i \in 0 .. k - 1 : f[i] = g[i]
    BY <2>1
  <2>5. \A i \in 0 .. k : f[i] = IF i = 0 THEN none ELSE Deeper(f[i - 1], next)
    <3> TAKE i \in 0 .. k
    <3>1. CASE i = k
      BY <2>1, <2>4, <3>1
    <3>2. CASE i # k /\ i # 0
      <4>1. i \in 0 .. k - 1 /\ i - 1 \in 0 .. k - 1
        BY <2>1, <3>2
      <4> QED
        BY <2>3, <2>4, <3>2, <4>1
    <3>3. CASE i # k /\ i = 0
      BY <2>1, <2>3, <2>4, <3>3
    <3> QED
      BY <3>1, <3>2, <3>3
  <2>6. f = [i \in 0 .. k |-> IF i = 0 THEN none ELSE Deeper(f[i - 1], next)]
    <3> PICK h : h = [i \in 0 .. k |-> IF i = 0 THEN none ELSE Deeper(f[i - 1], next)]
      OBVIOUS
    <3>1. h = f
      BY <2>5
    <3> QED
      BY <3>1
  <2>7. Nests(f, next, k)
    BY <1>0, <2>1, <2>6
  <2> QED
    BY <1>2, <2>7
<1>3. 0 .. n \subseteq S
  <2> HIDE DEF S
  <2> QED
    BY <1>1, <1>2, Climb
<1> QED
  BY <1>3

LEMMA NestsVisit ==
  ASSUME NEW next, IsGraph(next), NEW n \in Nat, NEW f, Nests(f, next, n)
  PROVE  Visits(next, f[n], n)
<1> DEFINE S == {k \in 0 .. n : Visits(next, f[k], k)}
<1>1. 0 \in S
  <2> SUFFICES ASSUME NEW m \in DOMAIN next, NEW s \in Searches(DOMAIN next),
                      s.mark[m] = "unvisited",
                      Cardinality(Marked(s, "unvisited")) <= 0
               PROVE  FALSE
    BY DEF Visits
  <2>1. DOMAIN s.mark = DOMAIN next
    BY ASearch
  <2>2. m \in Marked(s, "unvisited") /\ Marked(s, "unvisited") \subseteq DOMAIN next
    BY <2>1 DEF Marked
  <2>3. IsFiniteSet(Marked(s, "unvisited"))
    BY <2>2, FS_Subset DEF IsGraph
  <2>4. Cardinality(Marked(s, "unvisited")) = 0
    BY <2>3, FS_CardinalityType
  <2> QED
    BY <2>2, <2>3, <2>4, FS_EmptySet
<1>2. ASSUME NEW k \in 1 .. n, k - 1 \in S PROVE k \in S
  <2>1. Visits(next, f[k - 1], k - 1) /\ k - 1 \in Nat /\ k # 0 /\ (k - 1) + 1 = k /\ k \in 0 .. n
    BY <1>2
  <2>2. f[k] = [m \in DOMAIN next |-> [s \in Searches(DOMAIN next) |->
                  IF k = 0 THEN s ELSE Visit(f[k - 1], next, m, s)]]
    BY <2>1 DEF Nests
  <2>3. ASSUME NEW m \in DOMAIN next, NEW s \in Searches(DOMAIN next),
               Proper(next, s), s.mark[m] = "unvisited", At(next, s, {m}),
               Cardinality(Marked(s, "unvisited")) <= k
        PROVE  Went(next, s, f[k][m][s], {m})
    <3>1. f[k][m][s] = Visit(f[k - 1], next, m, s)
      BY <2>1, <2>2
    <3>2. Went(next, s, Visit(f[k - 1], next, m, s), {m})
      BY <2>1, <2>3, VisitKeeps
    <3> QED
      BY <3>1, <3>2
  <2>4. Visits(next, f[k], k)
    BY <2>3 DEF Visits
  <2> QED
    BY <2>1, <2>4
<1>3. 0 .. n \subseteq S
  <2> HIDE DEF S
  <2> QED
    BY <1>1, <1>2, Climb
<1> QED
  BY <1>3

(* A list that runs in a circle shows a cycle of the graph.                *)
LEMMA CirclesAreCycles ==
  ASSUME NEW next, NEW cycle, Circles(next, cycle)
  PROVE  Cyclic(next)
<1> PICK l \in Nat : l = Len(cycle) /\ DOMAIN cycle = 1 .. l /\ l > 1
  BY DEF Circles
<1> PICK C : C = ToSet(cycle)
  OBVIOUS
<1>1. C \in SUBSET DOMAIN next /\ C # {} /\ C = {cycle[k] : k \in 1 .. l}
  BY DEF Circles, ToSet
<1>2. ASSUME NEW k \in 1 .. l PROVE ToSet(next[cycle[k]]) \cap C # {}
  <2>1. CASE k # l
    <3>1. k \in 1 .. l - 1 /\ k + 1 \in 1 .. l
      BY <2>1
    <3>2. cycle[k + 1] \in ToSet(next[cycle[k]])
      BY <3>1 DEF Circles
    <3> QED
      BY <1>1, <3>1, <3>2
  <2>2. CASE k = l
    <3>1. 1 \in 1 .. l - 1 /\ 1 + 1 \in 1 .. l
      OBVIOUS
    <3>2. cycle[1 + 1] \in ToSet(next[cycle[1]]) /\ cycle[1] = cycle[l]
      BY <3>1 DEF Circles
    <3> QED
      BY <1>1, <2>2, <3>1, <3>2
  <2> QED
    BY <2>1, <2>2
<1>3. \A n \in C : ToSet(next[n]) \cap C # {}
  BY <1>1, <1>2
<1> QED
  BY <1>1, <1>3 DEF Cyclic

(* findCycle finds a cycle exactly when there is one, and it is one.       *)
LEMMA SearchIsExact ==
  ASSUME NEW next, IsGraph(next), NEW nodes \in Seq(DOMAIN next), ToSet(nodes) = DOMAIN next,
         NEW found, found = FindCycle(nodes, next)
  PROVE  /\ found # <<>> <=> Cyclic(next)
         /\ found # <<>> => Circles(next, found)
<1> PICK N : N = DOMAIN next
  OBVIOUS
<1> PICK n \in Nat : n = Cardinality(N)
  BY FS_CardinalityType DEF IsGraph
<1> PICK start : start = [mark |-> [m \in N |-> "unvisited"], path |-> <<>>, cycle |-> <<>>]
  OBVIOUS
<1>1. \E f : Nests(f, next, Cardinality(DOMAIN next))
  BY NestsExists
<1>2. PICK f : /\ Nests(f, next, Cardinality(DOMAIN next))
               /\ FindCycle(nodes, next) =
                    Along(f[Cardinality(DOMAIN next)], nodes,
                          [mark |-> [m \in DOMAIN next |-> "unvisited"],
                           path |-> <<>>, cycle |-> <<>>]).cycle
  BY <1>1, Zenon DEF FindCycle, Nests
<1>3. Visits(next, f[n], n)
  BY <1>2, NestsVisit
<1> PICK last : last = Along(f[n], nodes, start)
  OBVIOUS
<1>4. found = last.cycle
  BY <1>2
<1> PICK mark : mark = [m \in N |-> "unvisited"]
  OBVIOUS
<1>5. start.mark = mark /\ start.path = <<>> /\ start.cycle = <<>> /\ DOMAIN mark = N
      /\ \A m \in N : mark[m] = "unvisited"
  OBVIOUS
<1>6. start \in Searches(N)
  <2>1. <<>> \in Seq(N) /\ mark \in [N -> {"unvisited", "onStack", "done"}]
    OBVIOUS
  <2> QED
    BY <2>1 DEF Searches
<1>7. Marked(start, "done") = {} /\ Marked(start, "onStack") = {} /\ Marked(start, "unvisited") = N
  BY <1>5 DEF Marked
<1>8. Proper(next, start)
  <2>1. 1 .. Len(start.path) - 1 = {}
    BY <1>5
  <2> QED
    BY <1>5, <1>6, <1>7, <2>1 DEF Proper
<1>9. Went(next, start, last, ToSet(nodes))
  <2>1. At(next, start, ToSet(nodes))
    BY <1>5 DEF At
  <2>2. Cardinality(Marked(start, "unvisited")) <= n
    BY <1>7
  <2> QED
    BY <1>3, <1>8, <2>1, <2>2, AlongKeeps
<1>10. CASE Closed(next, last)
  BY <1>4, <1>10, CirclesAreCycles DEF Closed
<1>11. CASE Proper(next, last) /\ \A m \in ToSet(nodes) : last.mark[m] = "done"
  <2>1. found = <<>> /\ last \in Searches(N)
    BY <1>4, <1>11 DEF Proper
  <2>2. Marked(last, "done") = N
    <3>1. DOMAIN last.mark = N
      BY <2>1, ASearch
    <3>2. \A m \in N : last.mark[m] = "done"
      BY <1>11
    <3> QED
      BY <3>1, <3>2 DEF Marked
  <2>3. ~Cyclic(next)
    BY <1>11, <2>2 DEF Proper, Cyclic
  <2> QED
    BY <2>1, <2>3
<1> QED
  BY <1>9, <1>10, <1>11 DEF Went

-----------------------------------------------------------------------------
(* The graphs of a file: their nodes, and where each step and workflow     *)
(* leads.                                                                  *)
LEMMA FiniteIds ==
  ASSUME NEW list, IsList(list)
  PROVE  IsFiniteSet(Ids(list))
<1>1. Len(list) \in Nat /\ DOMAIN list = 1 .. Len(list)
  BY SequencesAreLists DEF IsList
<1>2. 1 \in Int /\ Len(list) \in Int
  BY <1>1
<1>3. IsFiniteSet(DOMAIN list)
  BY <1>1, <1>2, FS_Interval
<1>4. PICK f : f = [i \in DOMAIN list |-> list[i].id]
  OBVIOUS
<1>5. Ids(list) = {f[i] : i \in DOMAIN list} /\ DOMAIN f = DOMAIN list
  BY <1>4 DEF Ids
<1> QED
  BY <1>3, <1>5, FiniteImage

(* Each item leads to its targets that are ids.                            *)
Leading(next, list, ids, targets) ==
  /\ IsGraph(next) /\ DOMAIN next = ids
  /\ \A i \in DOMAIN list : list[i].id \in ids =>
       ToSet(targets[i]) \cap (ids \ {None}) \subseteq ToSet(next[list[i].id])

LEMMA EdgesLead ==
  ASSUME NEW list, IsList(list), NEW ids, IsFiniteSet(ids), NEW targets, NEW T,
         \A i \in DOMAIN list : targets[i] \in Seq(T)
  PROVE  Leading(Edges(list, ids, targets), list, ids, targets)
<1> PICK next : next = Edges(list, ids, targets)
  OBVIOUS
<1>1. Len(list) \in Nat /\ DOMAIN list = 1 .. Len(list)
  BY SequencesAreLists DEF IsList
<1>2. DOMAIN next = ids
  BY DEF Edges
<1>3. ASSUME NEW id \in ids
      PROVE  /\ next[id] \in Seq(ids)
             /\ \A i \in DOMAIN list : list[i].id = id =>
                  ToSet(targets[i]) \cap (ids \ {None}) \subseteq ToSet(next[id])
  <2>1. PICK rows : rows = [i \in DOMAIN list |-> IF list[i].id = id THEN targets[i] ELSE <<>>]
    OBVIOUS
  <2>2. next[id] = Only(FlattenSeq(rows), ids \ {None})
    BY <2>1 DEF Edges
  <2>3. rows \in Seq(Seq(T))
    <3>1. \A i \in DOMAIN list : rows[i] \in Seq(T)
      BY <2>1
    <3>2. DOMAIN rows = 1 .. Len(list)
      BY <1>1, <2>1
    <3>3. rows \in [1 .. Len(list) -> Seq(T)]
      BY <1>1, <2>1, <3>1, <3>2
    <3> QED
      BY <1>1, <3>3, ListOf
  <2>4. /\ FlattenSeq(rows) \in Seq(T)
        /\ ToSet(FlattenSeq(rows)) = UNION {ToSet(rows[i]) : i \in DOMAIN rows}
    BY <2>3, Flattened
  <2>5. /\ next[id] \in Seq(ids \ {None})
        /\ ToSet(next[id]) = ToSet(FlattenSeq(rows)) \cap (ids \ {None})
    BY <2>2, <2>4, OnlyKeeps
  <2>6. next[id] \in Seq(ids)
    BY <2>5
  <2>7. ASSUME NEW i \in DOMAIN list, list[i].id = id
        PROVE  ToSet(targets[i]) \cap (ids \ {None}) \subseteq ToSet(next[id])
    <3>1. i \in DOMAIN rows /\ rows[i] = targets[i]
      BY <2>1, <2>7
    <3> QED
      BY <2>4, <2>5, <3>1
  <2> QED
    BY <2>6, <2>7
<1>4. IsGraph(next)
  BY <1>2, <1>3 DEF IsGraph
<1>5. Leading(next, list, ids, targets)
  BY <1>2, <1>3, <1>4 DEF Leading
<1> QED
  BY <1>5

LEMMA OrderOf ==
  ASSUME NEW T, NEW list \in Seq(T), NEW N, N = {x.id : x \in ToSet(list)}
  PROVE  Order(list) \in Seq(N) /\ ToSet(Order(list)) = N
<1>1. PICK n \in Nat : n = Len(list) /\ DOMAIN list = 1 .. n
  OBVIOUS
<1>2. PICK q : q = Order(list)
  OBVIOUS
<1>2a. q = [i \in DOMAIN list |-> list[i].id]
  BY <1>2, Zenon DEF Order
<1>2b. DOMAIN q = 1 .. n /\ \A i \in 1 .. n : q[i] = list[i].id
  BY <1>1, <1>2a
<1>3. \A i \in 1 .. n : q[i] \in N
  BY <1>1, <1>2b DEF ToSet
<1>4. q \in [1 .. n -> N]
  BY <1>1, <1>2a, <1>3
<1>5. q \in Seq(N)
  BY <1>4, ListOf
<1>6. ToSet(q) = N
  BY <1>1, <1>2b DEF ToSet
<1> QED
  BY <1>2, <1>5, <1>6

(* The steps that have an id, and their ids.                               *)
LEMMA StepOrder ==
  ASSUME NEW wf, IsList(wf.steps)
  PROVE  /\ Order(Steps(wf)) \in Seq(StepIds(wf)) /\ ToSet(Order(Steps(wf))) = StepIds(wf)
         /\ IsFiniteSet(StepIds(wf))
<1>1. PICK S : S = {x \in ToSet(wf.steps) : x.id # None}
  OBVIOUS
<1>2. Steps(wf) \in Seq(S) /\ ToSet(Steps(wf)) = ToSet(wf.steps) \cap S
  BY <1>1, OnlyKeeps DEF Steps, Named, IsList
<1>3. StepIds(wf) = {x.id : x \in ToSet(Steps(wf))}
  BY <1>1, <1>2 DEF StepIds, Ids, ToSet
<1>4. IsFiniteSet(StepIds(wf))
  <2>1. IsFiniteSet(Ids(wf.steps)) /\ StepIds(wf) \in SUBSET Ids(wf.steps)
    BY FiniteIds DEF StepIds
  <2> QED
    BY <2>1, FS_Subset
<1> QED
  BY <1>2, <1>3, <1>4, OrderOf

LEMMA WorkflowOrder ==
  ASSUME NEW file, HasLists(file)
  PROVE  /\ Order(file.workflows) \in Seq(WorkflowIds(file))
         /\ ToSet(Order(file.workflows)) = WorkflowIds(file)
         /\ IsFiniteSet(WorkflowIds(file))
<1>1. IsList(file.workflows)
  BY DEF HasLists
<1>2. WorkflowIds(file) = {x.id : x \in ToSet(file.workflows)}
  BY DEF WorkflowIds, Ids, ToSet
<1> QED
  BY <1>1, <1>2, OrderOf, FiniteIds DEF IsList, WorkflowIds

(* on_success: where each step leads when it succeeds.                     *)
LEMMA SuccessLeads ==
  ASSUME NEW wf, IsList(wf.steps)
  PROVE  /\ IsGraph(SuccessEdges(wf)) /\ DOMAIN SuccessEdges(wf) = StepIds(wf)
         /\ \A i \in DOMAIN wf.steps :
              wf.steps[i].id \in StepIds(wf) /\ wf.steps[i].onSuccess \in StepIds(wf) =>
                wf.steps[i].onSuccess \in ToSet(SuccessEdges(wf)[wf.steps[i].id])
<1> PICK targets : targets = [i \in DOMAIN wf.steps |-> <<wf.steps[i].onSuccess>>]
  OBVIOUS
<1> PICK T : T = {wf.steps[i].onSuccess : i \in DOMAIN wf.steps}
  OBVIOUS
<1>1. ASSUME NEW i \in DOMAIN wf.steps PROVE targets[i] \in Seq(T)
  <2>1. PICK a : a = wf.steps[i].onSuccess
    OBVIOUS
  <2>2. targets[i] = <<a>> /\ a \in T
    BY <2>1
  <2>3. <<a>> \in Seq(T)
    BY <2>2
  <2> QED
    BY <2>2, <2>3
<1>2. Leading(SuccessEdges(wf), wf.steps, StepIds(wf), targets)
  BY <1>1, StepOrder, EdgesLead DEF SuccessEdges
<1>3. \A i \in DOMAIN wf.steps : wf.steps[i].onSuccess \in ToSet(targets[i])
  BY DEF ToSet
<1>4. None \notin StepIds(wf)
  BY DEF StepIds
<1> QED
  BY <1>2, <1>3, <1>4 DEF Leading

(* on_success and the fallback of the policy.                              *)
LEMMA AllLead ==
  ASSUME NEW fallbacks, NEW wf, IsList(wf.steps)
  PROVE  /\ IsGraph(AllEdges(fallbacks, wf)) /\ DOMAIN AllEdges(fallbacks, wf) = StepIds(wf)
         /\ \A i \in DOMAIN wf.steps : wf.steps[i].id \in StepIds(wf) =>
              {wf.steps[i].onSuccess, FallbackOf(fallbacks, wf.steps[i])} \cap StepIds(wf)
                \subseteq ToSet(AllEdges(fallbacks, wf)[wf.steps[i].id])
<1> PICK targets : targets = [i \in DOMAIN wf.steps |->
                     <<wf.steps[i].onSuccess, FallbackOf(fallbacks, wf.steps[i])>>]
  OBVIOUS
<1> PICK T : T = UNION {{wf.steps[i].onSuccess, FallbackOf(fallbacks, wf.steps[i])} :
                          i \in DOMAIN wf.steps}
  OBVIOUS
<1>1. ASSUME NEW i \in DOMAIN wf.steps
      PROVE  /\ targets[i] \in Seq(T)
             /\ ToSet(targets[i]) = {wf.steps[i].onSuccess, FallbackOf(fallbacks, wf.steps[i])}
  <2>1. PICK a, b : a = wf.steps[i].onSuccess /\ b = FallbackOf(fallbacks, wf.steps[i])
    OBVIOUS
  <2>2. targets[i] = <<a, b>> /\ a \in T /\ b \in T
    BY <2>1
  <2>3. <<a, b>> \in Seq(T)
    BY <2>2
  <2>4. ToSet(<<a, b>>) = {a, b}
    BY DEF ToSet
  <2> QED
    BY <2>1, <2>2, <2>3, <2>4
<1>2. Leading(AllEdges(fallbacks, wf), wf.steps, StepIds(wf), targets)
  BY <1>1, StepOrder, EdgesLead DEF AllEdges
<1>4. StepIds(wf) \ {None} = StepIds(wf)
  BY DEF StepIds
<1> QED
  BY <1>1, <1>2, <1>4 DEF Leading

(* Composite and parallel steps: the workflows each calls.                 *)
LEMMA SubsLead ==
  ASSUME NEW file, HasLists(file)
  PROVE  /\ IsGraph(SubEdges(file)) /\ DOMAIN SubEdges(file) = WorkflowIds(file)
         /\ \A i \in DOMAIN file.workflows : \A j \in DOMAIN file.workflows[i].steps :
              ToSet(Called(file.workflows[i].steps[j])) \cap (WorkflowIds(file) \ {None})
                \subseteq ToSet(SubEdges(file)[file.workflows[i].id])
<1> DEFINE steps(i) == file.workflows[i].steps
<1> PICK T : T = UNION {UNION {ToSet(Called(steps(i)[j])) : j \in DOMAIN steps(i)} :
                          i \in DOMAIN file.workflows}
  OBVIOUS
<1> PICK targets : targets = [i \in DOMAIN file.workflows |->
                     FlattenSeq([j \in DOMAIN steps(i) |-> Called(steps(i)[j])])]
  OBVIOUS
<1>1. ASSUME NEW i \in DOMAIN file.workflows
      PROVE  /\ targets[i] \in Seq(T)
             /\ \A j \in DOMAIN steps(i) : ToSet(Called(steps(i)[j])) \subseteq ToSet(targets[i])
  <2>1. PICK rows : rows = [j \in DOMAIN steps(i) |-> Called(steps(i)[j])]
    OBVIOUS
  <2>2. IsList(steps(i)) /\ \A j \in DOMAIN steps(i) : IsList(steps(i)[j].branches)
    BY DEF HasLists
  <2>3. Len(steps(i)) \in Nat /\ DOMAIN steps(i) = 1 .. Len(steps(i))
    BY <2>2, SequencesAreLists DEF IsList
  <2>4. ASSUME NEW j \in DOMAIN steps(i) PROVE Called(steps(i)[j]) \in Seq(T)
    <3>1. ToSet(Called(steps(i)[j])) \subseteq T
      OBVIOUS
    <3>2. PICK s : s = steps(i)[j]
      OBVIOUS
    <3>3. IsList(Called(s))
      <4>1. CASE s.type = "composite"
        <5>1. Called(s) = <<s.sub>>
          BY <4>1 DEF Called
        <5>2. <<s.sub>> \in Seq({s.sub})
          OBVIOUS
        <5> QED
          BY <5>1, <5>2, SequencesAreLists
      <4>2. CASE s.type = "parallel"
        BY <2>2, <3>2, <4>2 DEF Called
      <4>3. CASE s.type \notin {"composite", "parallel"}
        <5>1. Called(s) = <<>>
          BY <4>3 DEF Called
        <5>2. <<>> \in Seq({s})
          OBVIOUS
        <5> QED
          BY <5>1, <5>2, SequencesAreLists
      <4> QED
        BY <4>1, <4>2, <4>3
    <3> QED
      BY <3>1, <3>2, <3>3 DEF IsList
  <2>5. rows \in Seq(Seq(T))
    <3>1. rows \in [1 .. Len(steps(i)) -> Seq(T)]
      BY <2>1, <2>3, <2>4
    <3> QED
      BY <2>3, <3>1, ListOf
  <2>6. targets[i] = FlattenSeq(rows)
    BY <2>1
  <2>7. targets[i] \in Seq(T) /\ ToSet(targets[i]) = UNION {ToSet(rows[j]) : j \in DOMAIN rows}
    BY <2>5, <2>6, Flattened
  <2>8. \A j \in DOMAIN steps(i) : j \in DOMAIN rows /\ rows[j] = Called(steps(i)[j])
    BY <2>1
  <2> QED
    BY <2>7, <2>8
<1>2. IsList(file.workflows) /\ IsFiniteSet(WorkflowIds(file))
  BY WorkflowOrder DEF HasLists
<1>3. SubEdges(file) = Edges(file.workflows, WorkflowIds(file), targets)
  BY DEF SubEdges
<1>4. Leading(SubEdges(file), file.workflows, WorkflowIds(file), targets)
  BY <1>1, <1>2, <1>3, EdgesLead
<1>5. \A i \in DOMAIN file.workflows : file.workflows[i].id \in WorkflowIds(file)
  BY DEF WorkflowIds, Ids
<1> QED
  BY <1>1, <1>4, <1>5 DEF Leading

-----------------------------------------------------------------------------
(* What findCycle finds is a cycle, and there to be found.                 *)
Exact(list, next) ==
  LET found == FindCycle(Order(list), next)
  IN /\ found # <<>> <=> Cyclic(next)
     /\ found # <<>> => /\ found[1] = Last(found)
                        /\ \A k \in 1 .. Len(found) - 1 : found[k + 1] \in ToSet(next[found[k]])

(* findCycle is right about every file that is hosted                      *)
(* (validateStepGraph, validateSubWorkflowAcyclic).                        *)
THEOREM CyclesFound == Spec => []CyclesAreExact
<1>1. ASSUME QueueInv PROVE CyclesAreExact
  <2> SUFFICES ASSUME NEW i \in DOMAIN hosted, NEW file, file = hosted[i]
               PROVE  /\ Exact(file.workflows, SubEdges(file))
                      /\ \A k \in DOMAIN file.workflows :
                           LET wf == file.workflows[k]
                           IN /\ Exact(Steps(wf), SuccessEdges(wf))
                              /\ Exact(Steps(wf), AllEdges(Fallbacks(file), wf))
    BY Zenon DEF CyclesAreExact, Exact
  <2>1. ASSUME NEW list, NEW next, IsGraph(next), Order(list) \in Seq(DOMAIN next),
               ToSet(Order(list)) = DOMAIN next
        PROVE  Exact(list, next)
    <3>1. PICK found : found = FindCycle(Order(list), next)
      OBVIOUS
    <3>2. (found # <<>> <=> Cyclic(next)) /\ (found # <<>> => Circles(next, found))
      BY <2>1, <3>1, SearchIsExact
    <3>3. found # <<>> => /\ found[1] = Last(found)
                          /\ \A k \in 1 .. Len(found) - 1 :
                               found[k + 1] \in ToSet(next[found[k]])
      BY <3>2 DEF Circles, Last
    <3> QED
      BY <3>1, <3>2, <3>3 DEF Exact
  <2>2. HasLists(file)
    BY <1>1, HostedFiles
  <2>3. Exact(file.workflows, SubEdges(file))
    BY <2>1, <2>2, WorkflowOrder, SubsLead
  <2>4. ASSUME NEW k \in DOMAIN file.workflows, NEW wf, wf = file.workflows[k]
        PROVE  /\ Exact(Steps(wf), SuccessEdges(wf))
               /\ Exact(Steps(wf), AllEdges(Fallbacks(file), wf))
    <3>1. IsList(wf.steps)
      BY <2>2, <2>4 DEF HasLists
    <3>2. Exact(Steps(wf), SuccessEdges(wf))
      BY <2>1, <3>1, StepOrder, SuccessLeads
    <3>3. Exact(Steps(wf), AllEdges(Fallbacks(file), wf))
      BY <2>1, <3>1, StepOrder, AllLead
    <3> QED
      BY <3>2, <3>3
  <2> QED
    BY <2>3, <2>4
<1> QED
  BY RefsInit, RefsNext, <1>1, PTL DEF Spec, RefsInv

-----------------------------------------------------------------------------
(* What a report without errors says of the loops of a file.               *)
LEMMA NoSuccessLoop ==
  ASSUME NEW file, HasLists(file), OK(Validate(file)), NEW i \in DOMAIN file.workflows,
         NEW wf, wf = file.workflows[i]
  PROVE  /\ ~Cyclic(SuccessEdges(wf))
         /\ Cyclic(AllEdges(Fallbacks(file), wf)) =>
              <<"warning", "loop through a fallback">> \in Validate(file)
<1> PICK fallbacks : fallbacks = Fallbacks(file)
  OBVIOUS
<1> PICK spins \in BOOLEAN :
      spins = (FindCycle(Order(Steps(wf)), SuccessEdges(wf)) # <<>>)
  OBVIOUS
<1> PICK loops \in BOOLEAN :
      loops = (FindCycle(Order(Steps(wf)), AllEdges(fallbacks, wf)) # <<>>)
  OBVIOUS
<1>1. IsList(wf.steps)
  BY DEF HasLists
<1>2. spins <=> Cyclic(SuccessEdges(wf))
  BY <1>1, StepOrder, SuccessLeads, SearchIsExact
<1>3. loops <=> Cyclic(AllEdges(fallbacks, wf))
  BY <1>1, StepOrder, AllLead, SearchIsExact
<1>4. OK(WorkflowIssues(file, fallbacks, wf))
  BY ReportParts
<1>5. wf.entry \in StepIds(wf)
  BY CleanFile
<1>6. GraphIssues(fallbacks, wf) \subseteq WorkflowIssues(file, fallbacks, wf)
  BY <1>5, Zenon DEF WorkflowIssues
<1>7. /\ Error("on_success cycle", spins) \subseteq GraphIssues(fallbacks, wf)
      /\ Warning("loop through a fallback", ~spins /\ loops) \subseteq GraphIssues(fallbacks, wf)
  BY Zenon DEF GraphIssues
<1>8. ~spins
  <2>1. Error("on_success cycle", spins) \subseteq WorkflowIssues(file, fallbacks, wf)
    BY <1>6, <1>7, Zenon
  <2> QED
    BY <1>4, <2>1, NoError, Zenon
<1>9. WorkflowIssues(file, fallbacks, wf) \subseteq Validate(file)
  <2>1. file # None
    BY ReportParts
  <2>2. PICK flows : flows = {WorkflowIssues(file, fallbacks, file.workflows[j]) :
                                j \in DOMAIN file.workflows}
    OBVIOUS
  <2>3. UNION flows \subseteq Validate(file)
    BY <2>1, <2>2, Zenon DEF Validate
  <2>4. WorkflowIssues(file, fallbacks, wf) \in flows
    BY <2>2
  <2> QED
    BY <2>3, <2>4
<1>10. ASSUME loops PROVE <<"warning", "loop through a fallback">> \in Validate(file)
  <2>1. <<"warning", "loop through a fallback">>
          \in Warning("loop through a fallback", ~spins /\ loops)
    BY <1>8, <1>10, Zenon DEF Warning, Report
  <2> QED
    BY <1>6, <1>7, <1>9, <2>1, Zenon
<1> QED
  BY <1>2, <1>3, <1>8, <1>10, Zenon

LEMMA NoCallLoop ==
  ASSUME NEW file, HasLists(file), OK(Validate(file))
  PROVE  ~Cyclic(SubEdges(file))
<1> PICK loops \in BOOLEAN :
      loops = (FindCycle(Order(file.workflows), SubEdges(file)) # <<>>)
  OBVIOUS
<1>1. loops <=> Cyclic(SubEdges(file))
  BY WorkflowOrder, SubsLead, SearchIsExact
<1>2. file # None
  BY ReportParts
<1>3. SubWorkflowIssues(file) = Error("sub-workflow cycle", loops)
  BY DEF SubWorkflowIssues
<1>4. SubWorkflowIssues(file) \subseteq Validate(file)
  BY <1>2, Zenon DEF Validate
<1>5. ~loops
  BY <1>3, <1>4, NoError, Zenon
<1> QED
  BY <1>1, <1>5

-----------------------------------------------------------------------------
(* The trail of a frame: every step it visited led to another it visited   *)
(* or to where it is, by on_success alone if it took no fallback.  Each    *)
(* frame was called from the one below it.                                 *)
Trail(file, fr) ==
  /\ fr.detour \in BOOLEAN
  /\ \E i \in DOMAIN file.workflows :
       LET wf == file.workflows[i]
           ahead == fr.visited \cup {fr.at}
       IN /\ fr.wf.id = wf.id /\ fr.wf.steps = ById(wf.steps)
          /\ fr.at # None =>
               /\ fr.visited \subseteq StepIds(wf)
               /\ \A v \in fr.visited :
                    /\ ToSet(AllEdges(Fallbacks(file), wf)[v]) \cap ahead # {}
                    /\ ~fr.detour => ToSet(SuccessEdges(wf)[v]) \cap ahead # {}

Nested(file, frames) ==
  \A k \in 1 .. Len(frames) - 1 :
    frames[k + 1].wf.id \in ToSet(SubEdges(file)[frames[k].wf.id])

Warned(file, met) ==
  /\ "came back" \notin met
  /\ "came back by a fallback" \in met =>
       <<"warning", "loop through a fallback">> \in Validate(file)

Traced(file, r) ==
  /\ \A k \in DOMAIN r.frames : Trail(file, r.frames[k])
  /\ Nested(file, r.frames) /\ Warned(file, r.met)

LoopInv == run # None /\ Sound => Traced(RunFile, run)

(* A run that nests deeper than the file has workflows is in one of them   *)
(* twice.                                                                  *)
LEMMA NestingBound ==
  ASSUME NEW file, HasLists(file), OK(Validate(file)), NEW r, IsList(r.frames),
         Traced(file, r)
  PROVE  ~(Len(r.frames) > Cardinality(WorkflowIds(file)))
<1> SUFFICES ASSUME Len(r.frames) > Cardinality(WorkflowIds(file)) PROVE FALSE
  OBVIOUS
<1> PICK n \in Nat : n = Len(r.frames) /\ DOMAIN r.frames = 1 .. n
  BY SequencesAreLists DEF IsList
<1> PICK T : T = WorkflowIds(file)
  OBVIOUS
<1> PICK f : f = [k \in 1 .. n |-> r.frames[k].wf.id]
  OBVIOUS
<1>1. IsFiniteSet(T) /\ Cardinality(T) \in Nat
  BY WorkflowOrder, FS_CardinalityType
<1>3. f \in [1 .. n -> T]
  <2>1. ASSUME NEW k \in 1 .. n PROVE f[k] \in T
    <3>1. Trail(file, r.frames[k])
      BY DEF Traced
    <3>2. PICK i \in DOMAIN file.workflows : r.frames[k].wf.id = file.workflows[i].id
      BY <3>1 DEF Trail
    <3> QED
      BY <3>2 DEF WorkflowIds, Ids
  <2> QED
    BY <2>1
<1>6. PICK a \in 1 .. n, b \in 1 .. n : a < b /\ f[a] = f[b]
  <2>1. n > Cardinality(T)
    OBVIOUS
  <2> QED
    <3>1. \A m \in Nat : \A S : IsFiniteSet(S) /\ m > Cardinality(S) =>
            \A g \in [1 .. m -> S] : \E a \in 1 .. m : \E b \in 1 .. m : a < b /\ g[a] = g[b]
      BY TwoAlike
    <3>2. n \in Nat /\ IsFiniteSet(T) /\ n > Cardinality(T)
      BY <1>1, <2>1
    <3>3. \A g \in [1 .. n -> T] :
            \E a \in 1 .. n : \E b \in 1 .. n : a < b /\ g[a] = g[b]
      BY ONLY <3>1, <3>2
    <3>4. \E a \in 1 .. n : \E b \in 1 .. n : a < b /\ f[a] = f[b]
      BY ONLY <1>3, <3>3, Zenon
    <3> QED
      BY <3>4
<1> PICK C : C = {f[k] : k \in a .. b}
  OBVIOUS
<1>7. ASSUME NEW k \in 1 .. n - 1 PROVE f[k + 1] \in ToSet(SubEdges(file)[f[k]])
  <2>1. k \in 1 .. n /\ k + 1 \in 1 .. n
    OBVIOUS
  <2> QED
    BY <2>1 DEF Traced, Nested
<1>8. ASSUME NEW k \in a .. b PROVE ToSet(SubEdges(file)[f[k]]) \cap C # {}
  <2>1. CASE k < b
    <3>1. k \in 1 .. n - 1 /\ k + 1 \in a .. b
      BY <2>1
    <3>2. f[k + 1] \in C
      BY <3>1
    <3>3. f[k + 1] \in ToSet(SubEdges(file)[f[k]])
      BY <1>7, <3>1
    <3> QED
      BY <3>2, <3>3
  <2>2. CASE k = b
    <3>1. a \in 1 .. n - 1 /\ a + 1 \in a .. b
      BY <1>6
    <3>2. f[a + 1] \in C
      BY <3>1
    <3>3. f[a + 1] \in ToSet(SubEdges(file)[f[a]])
      BY <1>7, <3>1
    <3> QED
      BY <1>6, <2>2, <3>2, <3>3
  <2>3. k < b \/ k = b
    BY <1>6
  <2> QED
    BY <2>1, <2>2, <2>3
<1>9. C \in SUBSET T /\ C # {}
  <2>1. a .. b \subseteq 1 .. n /\ a \in a .. b
    BY <1>6
  <2> QED
    BY <1>3, <2>1
<1>10. Cyclic(SubEdges(file))
  <2>1. \A m \in C : ToSet(SubEdges(file)[m]) \cap C # {}
    BY <1>8
  <2>2. DOMAIN SubEdges(file) = T
    BY SubsLead
  <2> QED
    BY <1>9, <2>1, <2>2 DEF Cyclic
<1> QED
  BY <1>10, NoCallLoop

LEMMA TracePop ==
  ASSUME NEW file, NEW r, Shape(r), r.frames # <<>>, Traced(file, r), NEW failed
  PROVE  Traced(file, Pop(r, failed))
<1> PICK n \in Nat \ {0} :
      /\ n = Len(r.frames) /\ DOMAIN r.frames = 1 .. n
      /\ IsList(Front(r.frames)) /\ Len(Front(r.frames)) = n - 1
      /\ \A k \in 1 .. n - 1 : Front(r.frames)[k] = r.frames[k]
  BY FrontOfList DEF Shape
<1> PICK q : q = Pop(r, failed)
  OBVIOUS
<1>1. q.frames = Front(r.frames) /\ q.met = r.met
  BY DEF Pop, Shape
<1>2. DOMAIN q.frames = 1 .. n - 1 /\ Len(q.frames) = n - 1
      /\ \A k \in 1 .. n - 1 : q.frames[k] = r.frames[k]
  BY <1>1, SequencesAreLists DEF IsList
<1>3. \A k \in DOMAIN q.frames : Trail(file, q.frames[k])
  BY <1>2 DEF Traced
<1>4. Nested(file, q.frames)
  <2> SUFFICES ASSUME NEW k \in 1 .. n - 2
               PROVE  q.frames[k + 1].wf.id \in ToSet(SubEdges(file)[q.frames[k].wf.id])
    BY <1>2 DEF Nested
  <2>1. k \in 1 .. n - 1 /\ k + 1 \in 1 .. n - 1
    OBVIOUS
  <2> QED
    BY <1>2, <2>1 DEF Traced, Nested
<1> QED
  BY <1>1, <1>3, <1>4 DEF Traced

(* The frame that goes on leaves its step by an edge of the file; if it    *)
(* comes back to a step, what it visited runs in a circle.                 *)
Onto(file, top, s, id, detour) ==
  /\ top.at # None /\ top.at \in DOMAIN top.wf.steps /\ s = top.wf.steps[top.at]
  /\ id = None \/ id \in DOMAIN top.wf.steps
  /\ id = IF detour THEN FallbackOf(Fallbacks(file), s) ELSE s.onSuccess

Further(top, id, detour, fr) ==
  /\ fr.wf = top.wf /\ fr.visited = top.visited \cup {top.at} /\ fr.at = id
  /\ fr.detour = (top.detour \/ detour)

Warns(file, fr, id) ==
  id \in fr.visited =>
    fr.detour /\ <<"warning", "loop through a fallback">> \in Validate(file)

LEMMA TrailOnto ==
  ASSUME NEW file, HasLists(file), OK(Validate(file)), NEW top, Trail(file, top),
         NEW s, NEW id, NEW detour \in BOOLEAN, Onto(file, top, s, id, detour),
         NEW fr, Further(top, id, detour, fr)
  PROVE  Trail(file, fr) /\ Warns(file, fr, id)
<1>0. /\ fr.wf = top.wf /\ fr.visited = top.visited \cup {top.at} /\ fr.at = id
      /\ fr.detour = (top.detour \/ detour)
  BY DEF Further
<1> PICK i, wf :
      /\ i \in DOMAIN file.workflows /\ wf = file.workflows[i]
      /\ top.wf.id = wf.id /\ top.wf.steps = ById(wf.steps)
      /\ top.visited \subseteq StepIds(wf)
      /\ \A v \in top.visited :
           /\ ToSet(AllEdges(Fallbacks(file), wf)[v]) \cap (top.visited \cup {top.at}) # {}
           /\ ~top.detour => ToSet(SuccessEdges(wf)[v]) \cap (top.visited \cup {top.at}) # {}
  BY DEF Trail, Onto
<1>1. IsList(wf.steps) /\ None \notin Ids(wf.steps) /\ StepIds(wf) = Ids(wf.steps)
  BY CleanFile DEF HasLists, StepIds
<1>2. DOMAIN top.wf.steps = StepIds(wf) /\ top.at \in StepIds(wf)
  BY <1>1, Zenon DEF ById, Ids, Onto
<1>3. PICK j \in DOMAIN wf.steps : wf.steps[j].id = top.at /\ s = wf.steps[j]
  BY <1>1, <1>2, ByIdIsLast DEF Onto
<1> PICK all : all = AllEdges(Fallbacks(file), wf)
  OBVIOUS
<1> PICK succ : succ = SuccessEdges(wf)
  OBVIOUS
<1>4. ASSUME id # None
      PROVE  id \in ToSet(all[top.at]) /\ (~detour => id \in ToSet(succ[top.at]))
  <2>1. id \in StepIds(wf)
    BY <1>2, <1>4 DEF Onto
  <2>2. id \in {s.onSuccess, FallbackOf(Fallbacks(file), s)} /\ (~detour => id = s.onSuccess)
    BY DEF Onto
  <2>3. {s.onSuccess, FallbackOf(Fallbacks(file), s)} \cap StepIds(wf) \subseteq ToSet(all[top.at])
    BY <1>1, <1>2, <1>3, AllLead
  <2>4. s.onSuccess \in StepIds(wf) => s.onSuccess \in ToSet(succ[top.at])
    BY <1>1, <1>2, <1>3, SuccessLeads
  <2> QED
    BY <2>1, <2>2, <2>3, <2>4
<1> PICK seen : seen = fr.visited
  OBVIOUS
<1>5. seen \subseteq StepIds(wf) /\ seen # {} /\ fr.detour \in BOOLEAN
  BY <1>0, <1>2 DEF Trail
<1>6. ASSUME id # None, NEW v \in seen
      PROVE  /\ ToSet(all[v]) \cap (seen \cup {id}) # {}
             /\ ~fr.detour => ToSet(succ[v]) \cap (seen \cup {id}) # {}
  <2>1. CASE v = top.at
    BY <1>0, <1>4, <1>6, <2>1
  <2>2. CASE v \in top.visited
    BY <1>0, <2>2
  <2> QED
    BY <1>0, <2>1, <2>2
<1>7. Trail(file, fr)
  BY <1>0, <1>5, <1>6 DEF Trail
<1>8. ASSUME id \in seen
      PROVE  fr.detour /\ <<"warning", "loop through a fallback">> \in Validate(file)
  <2>1. id # None /\ seen \cup {id} = seen
    BY <1>1, <1>5, <1>8
  <2>2. DOMAIN all = StepIds(wf) /\ DOMAIN succ = StepIds(wf)
    BY <1>1, AllLead, SuccessLeads
  <2>2a. \A v \in seen : /\ ToSet(all[v]) \cap seen # {}
                         /\ ~fr.detour => ToSet(succ[v]) \cap seen # {}
    BY <1>6, <2>1
  <2>3. Cyclic(all)
    BY <1>5, <2>2, <2>2a DEF Cyclic
  <2>4. ~fr.detour => Cyclic(succ)
    BY <1>5, <2>2, <2>2a, Zenon DEF Cyclic
  <2> QED
    BY <1>5, <2>3, <2>4, NoSuccessLoop, Zenon
<1> QED
  BY <1>7, <1>8, Zenon DEF Warns

LEMMA TraceGoTo ==
  ASSUME NEW file, HasLists(file), OK(Validate(file)), NEW r, Shape(r), r.frames # <<>>,
         Traced(file, r), NEW s, NEW id, NEW detour \in BOOLEAN,
         Onto(file, Last(r.frames), s, id, detour)
  PROVE  Traced(file, GoTo(r, id, detour))
<1> PICK top : top = Last(r.frames)
  OBVIOUS
<1>1. PICK n \in Nat \ {0} :
        /\ n = Len(r.frames) /\ DOMAIN r.frames = 1 .. n /\ top = r.frames[n]
        /\ IsList(Front(r.frames)) /\ Len(Front(r.frames)) = n - 1
        /\ \A k \in 1 .. n - 1 : Front(r.frames)[k] = r.frames[k]
  BY FrontOfList DEF Shape
<1> PICK fr : fr = [top EXCEPT !.visited = @ \cup {top.at}, !.at = id, !.detour = @ \/ detour]
  OBVIOUS
<1>2. /\ fr.wf = top.wf /\ fr.at = id /\ fr.visited = top.visited \cup {top.at}
      /\ fr.detour = (top.detour \/ detour)
  BY <1>1 DEF Shape
<1> PICK q : q = GoTo(r, id, detour)
  OBVIOUS
<1>3. q.frames = Append(Front(r.frames), fr)
  BY DEF GoTo, Shape
<1>3a. q.met = r.met \cup (IF id \notin fr.visited THEN {}
                            ELSE IF fr.detour THEN {"came back by a fallback"}
                                 ELSE {"came back"})
  BY DEF GoTo, Shape
<1>4. Extended(q.frames, Front(r.frames), fr)
  BY <1>1, <1>3, AppendedList
<1>5. PICK frames : /\ frames = q.frames /\ Len(frames) = n /\ DOMAIN frames = 1 .. n
                    /\ frames[n] = fr /\ \A k \in 1 .. n - 1 : frames[k] = r.frames[k]
  BY <1>1, <1>4 DEF Extended
<1>6. Trail(file, top)
  BY <1>1 DEF Traced
<1>7. Trail(file, fr) /\ Warns(file, fr, id)
  <2>1. Onto(file, top, s, id, detour) /\ Further(top, id, detour, fr)
    BY <1>2 DEF Further
  <2> QED
    BY <1>6, <2>1, TrailOnto
<1>7a. \A k \in 1 .. n : k = n \/ k \in 1 .. n - 1
  OBVIOUS
<1>8. \A k \in 1 .. n : Trail(file, frames[k])
  <2> TAKE k \in 1 .. n
  <2>1. CASE k = n
    BY <1>5, <1>7, <2>1
  <2>2. CASE k \in 1 .. n - 1
    BY <1>1, <1>5, <2>2 DEF Traced
  <2> QED
    BY <1>7a, <2>1, <2>2
<1>9. Nested(file, frames)
  <2>1. \A k \in 1 .. n : frames[k].wf.id = r.frames[k].wf.id
    BY <1>1, <1>2, <1>5, <1>7a
  <2> SUFFICES ASSUME NEW k \in 1 .. n - 1
               PROVE  frames[k + 1].wf.id \in ToSet(SubEdges(file)[frames[k].wf.id])
    BY <1>5 DEF Nested
  <2>2. k \in 1 .. n /\ k + 1 \in 1 .. n
    OBVIOUS
  <2>3. r.frames[k + 1].wf.id \in ToSet(SubEdges(file)[r.frames[k].wf.id])
    BY <1>1 DEF Traced, Nested
  <2> QED
    BY <2>1, <2>2, <2>3
<1>10. Warned(file, q.met)
  <2>1. Warned(file, r.met)
    BY DEF Traced
  <2>2. CASE id \notin fr.visited
    BY <1>3a, <2>1, <2>2, Zenon DEF Warned
  <2>3. CASE id \in fr.visited
    BY <1>3a, <1>7, <2>1, <2>3, Zenon DEF Warned, Warns
  <2> QED
    BY <2>2, <2>3
<1> QED
  BY <1>5, <1>8, <1>9, <1>10 DEF Traced

(* A frame on top, called from the one below it.                           *)
LEMMA TraceCall ==
  ASSUME NEW file, NEW r, Shape(r), r.frames # <<>>, Traced(file, r),
         NEW fr, Trail(file, fr), fr.wf.id \in ToSet(SubEdges(file)[Last(r.frames).wf.id]),
         NEW q, q.frames = Append(r.frames, fr), q.met = r.met
  PROVE  Traced(file, q)
<1> PICK n \in Nat \ {0} :
      n = Len(r.frames) /\ DOMAIN r.frames = 1 .. n /\ Last(r.frames) = r.frames[n]
  BY FrontOfList DEF Shape
<1>1. Extended(q.frames, r.frames, fr)
  BY AppendedList DEF Shape
<1>2. PICK frames : /\ frames = q.frames /\ Len(frames) = n + 1 /\ DOMAIN frames = 1 .. n + 1
                    /\ frames[n + 1] = fr /\ \A k \in 1 .. n : frames[k] = r.frames[k]
  BY <1>1 DEF Extended
<1>3. \A k \in 1 .. n + 1 : Trail(file, frames[k])
  <2> TAKE k \in 1 .. n + 1
  <2>1. CASE k = n + 1
    BY <1>2, <2>1
  <2>2. CASE k \in 1 .. n
    BY <1>2, <2>2 DEF Traced
  <2> QED
    BY <2>1, <2>2
<1>4. Nested(file, frames)
  <2> SUFFICES ASSUME NEW k \in 1 .. n
               PROVE  frames[k + 1].wf.id \in ToSet(SubEdges(file)[frames[k].wf.id])
    <3>1. Len(frames) - 1 = n
      BY <1>2
    <3> QED
      BY <3>1, Zenon DEF Nested
  <2>1. CASE k = n
    BY <1>2, <2>1
  <2>2. CASE k \in 1 .. n - 1
    <3>1. r.frames[k + 1].wf.id \in ToSet(SubEdges(file)[r.frames[k].wf.id])
      BY <2>2 DEF Traced, Nested
    <3>2. k \in 1 .. n /\ k + 1 \in 1 .. n
      BY <2>2
    <3> QED
      BY <1>2, <3>1, <3>2
  <2> QED
    BY <2>1, <2>2
<1> QED
  BY <1>2, <1>3, <1>4 DEF Traced

-----------------------------------------------------------------------------
(* What a sound run walks is what the file says.                           *)
AsFiled(fr) ==
  LET s == fr.wf.steps[fr.at]
  IN /\ s.policy # None =>
          engine.policies[s.policy].fallback = FallbackOf(Fallbacks(RunFile), s)
     /\ s.policy = None => FallbackOf(Fallbacks(RunFile), s) = None
     /\ s.type # "leaf" => \A sub \in Callees(s) :
          /\ Trail(RunFile, Frame(engine.workflows[sub]))
          /\ Frame(engine.workflows[sub]).wf.id \in ToSet(SubEdges(RunFile)[fr.wf.id])

LEMMA SoundFile ==
  ASSUME QueueInv, RunInv, Sound
  PROVE  HasLists(RunFile) /\ OK(Validate(RunFile))
  BY HostedFiles DEF RunInv, RunFile, Sound

LEMMA NewTrail ==
  ASSUME NEW file, NEW i \in DOMAIN file.workflows, NEW wf,
         wf.id = file.workflows[i].id, wf.steps = ById(file.workflows[i].steps)
  PROVE  Trail(file, Frame(wf))
<1> PICK fr : fr = Frame(wf)
  OBVIOUS
<1>1. fr.wf = wf /\ fr.visited = {} /\ fr.detour = FALSE
  BY DEF Frame
<1> QED
  BY <1>1 DEF Trail

LEMMA SameTrail ==
  ASSUME NEW file, NEW fr, Trail(file, fr), NEW g, g.wf = fr.wf, g.at = fr.at,
         g.visited = fr.visited, g.detour = fr.detour
  PROVE  Trail(file, g)
  BY DEF Trail

LEMMA CleanIds ==
  ASSUME NEW file, OK(Validate(file))
  PROVE  None \notin WorkflowIds(file)
<1>1. ASSUME NEW i \in DOMAIN file.workflows PROVE file.workflows[i].id # None
  <2> PICK wf : wf = file.workflows[i]
    OBVIOUS
  <2>1. Error("no workflow_id", wf.id = None) \subseteq WorkflowIssues(file, Fallbacks(file), wf)
    BY Zenon DEF WorkflowIssues
  <2>2. OK(WorkflowIssues(file, Fallbacks(file), wf))
    BY ReportParts
  <2> QED
    BY <2>1, <2>2, NoError, Zenon
<1> QED
  BY <1>1 DEF WorkflowIds, Ids

(* The steps that call are of the types that validate.                     *)
LEMMA CleanCalls ==
  ASSUME NEW file, OK(Validate(file)), NEW i \in DOMAIN file.workflows,
         NEW j \in DOMAIN file.workflows[i].steps, NEW s, s = file.workflows[i].steps[j],
         s.type # "leaf"
  PROVE  Callees(s) \subseteq ToSet(Called(s))
<1> PICK wf : wf = file.workflows[i]
  OBVIOUS
<1> PICK fallbacks : fallbacks = Fallbacks(file)
  OBVIOUS
<1>1. OK(StepIssues(file, fallbacks, wf, s))
  <2>1. OK(WorkflowIssues(file, fallbacks, wf))
    BY ReportParts
  <2>2. StepIssues(file, fallbacks, wf, s) \subseteq WorkflowIssues(file, fallbacks, wf)
    BY Zenon DEF WorkflowIssues
  <2> QED
    BY <2>1, <2>2, CleanPart
<1>2. CASE s.type = "composite"
  <2>1. Called(s) = <<s.sub>> /\ Callees(s) = {s.sub}
    BY <1>2 DEF Called, Callees
  <2> QED
    BY <2>1 DEF ToSet
<1>3. CASE s.type = "parallel"
  <2>1. Called(s) = s.branches /\ Callees(s) = ToSet(s.branches)
    BY <1>3 DEF Called, Callees
  <2> QED
    BY <2>1
<1>4. CASE s.type \notin {"composite", "parallel"}
  <2>1. Error("unknown type", TRUE) \subseteq StepIssues(file, fallbacks, wf, s)
    BY <1>4, Zenon DEF StepIssues
  <2> QED
    BY <1>1, <2>1, NoError, Zenon
<1> QED
  BY <1>2, <1>3, <1>4

LEMMA HomeFollows ==
  ASSUME QueueInv, EngineInv, GivenInv, RunInv, Sound, NEW fr, AtHome(fr), fr.at # None
  PROVE  AsFiled(fr)
<1> PICK d, file :
      d \in DOMAIN hosted /\ d = run.domain /\ file = hosted[d] /\ file = RunFile
  BY DEF RunInv, RunFile
<1>1. /\ OK(Validate(file)) /\ (d < Len(hosted) \/ pending = <<>>) /\ HasLists(file)
      /\ \A e \in DOMAIN hosted : e # d =>
           /\ WorkflowIds(hosted[d]) \cap WorkflowIds(hosted[e]) = {}
           /\ Ids(hosted[d].policies) \cap Ids(hosted[e].policies) = {}
  BY SoundFile DEF Sound, RunInv
<1>2. /\ \A id \in WorkflowIds(file) :
            /\ id \in DOMAIN engine.workflows
            /\ \E k \in DOMAIN file.workflows : engine.workflows[id] = Placed(d, k)
      /\ \A id \in Ids(file.policies) :
            /\ id \in DOMAIN engine.policies
            /\ engine.policies[id].fallback = ById(file.policies)[id].fallback
  <2>1. /\ \A id \in WorkflowIds(hosted[d]) :
              /\ id \in DOMAIN engine.workflows
              /\ \E k \in DOMAIN hosted[d].workflows : engine.workflows[id] = Placed(d, k)
        /\ \A id \in Ids(hosted[d].policies) :
              /\ id \in DOMAIN engine.policies
              /\ engine.policies[id].fallback = ById(hosted[d].policies)[id].fallback
    BY <1>1, WholeDomain
  <2> QED
    BY <2>1
<1>3. PICK i, wf :
        i \in DOMAIN file.workflows /\ wf = file.workflows[i] /\ fr.wf = Placed(d, i)
  BY DEF AtHome
<1> PICK s : s = fr.wf.steps[fr.at]
  OBVIOUS
<1>4. fr.wf.id = wf.id /\ fr.wf.steps = ById(wf.steps) /\ fr.at \in DOMAIN fr.wf.steps
  BY <1>3 DEF Placed, AtHome
<1>5. PICK j \in DOMAIN wf.steps : s = wf.steps[j]
  <2>1. IsList(wf.steps)
    BY <1>1, <1>3 DEF HasLists
  <2>2. fr.at \in Ids(wf.steps)
    BY <1>4 DEF ById, Ids
  <2> QED
    BY <1>4, <2>1, <2>2, ByIdIsLast
<1>6. LeadsSomewhere(file, wf, s)
  BY <1>1, <1>3, <1>5, CleanFile
<1>7. ASSUME s.policy # None
      PROVE  engine.policies[s.policy].fallback = FallbackOf(Fallbacks(file), s)
  <2>1. s.policy \in Ids(file.policies) \ {None}
    BY <1>6, <1>7 DEF LeadsSomewhere
  <2>2. FallbackOf(Fallbacks(file), s) = ById(file.policies)[s.policy].fallback
    BY <2>1 DEF FallbackOf, Fallbacks
  <2> QED
    BY <1>2, <2>1, <2>2
<1>8. s.policy = None => FallbackOf(Fallbacks(file), s) = None
  BY DEF FallbackOf, Fallbacks
<1>9. ASSUME s.type # "leaf", NEW sub \in Callees(s)
      PROVE  /\ Trail(file, Frame(engine.workflows[sub]))
             /\ Frame(engine.workflows[sub]).wf.id \in ToSet(SubEdges(file)[fr.wf.id])
  <2>1. sub \in WorkflowIds(file) /\ sub # None
    BY <1>1, <1>6, <1>9, CleanIds DEF LeadsSomewhere
  <2>2. sub \in DOMAIN engine.workflows
    BY <1>2, <2>1
  <2>3. engine.workflows[sub].id = sub
    <3>1. WorkflowFrom(sub)
      BY <2>2 DEF EngineInv
    <3>2. PICK e \in DOMAIN hosted : \E k \in DOMAIN hosted[e].workflows :
            hosted[e].workflows[k].id = sub /\ engine.workflows[sub] = Placed(e, k)
      BY <3>1 DEF WorkflowFrom
    <3> QED
      BY <3>2 DEF Placed
  <2>4. PICK k \in DOMAIN file.workflows : engine.workflows[sub] = Placed(d, k)
    BY <1>2, <2>1
  <2>5. Trail(file, Frame(engine.workflows[sub]))
    <3>1. /\ Placed(d, k).id = file.workflows[k].id
          /\ Placed(d, k).steps = ById(file.workflows[k].steps)
      BY DEF Placed
    <3> QED
      BY <2>4, <3>1, NewTrail
  <2>6. Frame(engine.workflows[sub]).wf = engine.workflows[sub]
    BY DEF Frame
  <2>7. sub \in ToSet(Called(s))
    BY <1>1, <1>3, <1>5, <1>9, CleanCalls
  <2>8. sub \in ToSet(SubEdges(file)[wf.id])
    <3>1. ToSet(Called(wf.steps[j])) \cap (WorkflowIds(file) \ {None})
            \subseteq ToSet(SubEdges(file)[wf.id])
      BY <1>1, <1>3, SubsLead
    <3> QED
      BY <1>5, <2>1, <2>7, <3>1
  <2> QED
    BY <1>4, <2>3, <2>5, <2>6, <2>8
<1> QED
  BY <1>7, <1>8, <1>9 DEF AsFiled

-----------------------------------------------------------------------------
(* A step of the walk keeps the trail.                                     *)
LEMMA TraceOnwards ==
  ASSUME LoopInv, run # None, hosted' = hosted, pending' = pending,
         run'.domain = run.domain, run'.settled = run.settled,
         Sound => Traced(RunFile, run')
  PROVE  LoopInv'
<1>1. RunFile' = RunFile /\ (Sound' => Sound)
  BY DEF Sound, RunFile
<1>2. \A file, r : Traced(file, r)' = Traced(file, r)
  OBVIOUS
<1> QED
  BY <1>1 DEF LoopInv

(* To note a compensation leaves the trail as it is.                       *)
Compensates(r, q) ==
  /\ Shape(q) /\ q.frames # <<>> /\ q.domain = r.domain /\ q.settled = r.settled
  /\ Last(q.frames).wf = Last(r.frames).wf /\ Last(q.frames).at = Last(r.frames).at
  /\ \A file : Traced(file, r) => Traced(file, q)

LEMMA UndoTraces ==
  ASSUME NEW r, Shape(r), r.frames # <<>>, NEW step,
         NEW q, q = [r EXCEPT !.frames[Len(r.frames)].undo = @ \cup {step}]
  PROVE  Compensates(r, q)
<1>0. PICK n \in Nat \ {0} :
        n = Len(r.frames) /\ DOMAIN r.frames = 1 .. n /\ Last(r.frames) = r.frames[n]
  BY FrontOfList DEF Shape
<1>1. n \in 1 .. n
  OBVIOUS
<1> PICK top : top = r.frames[n]
  OBVIOUS
<1> PICK fr : fr = [top EXCEPT !.undo = @ \cup {step}]
  OBVIOUS
<1> PICK frames : frames = [r.frames EXCEPT ![n] = fr]
  OBVIOUS
<1>2. q = [r EXCEPT !.frames = frames]
  BY <1>0, <1>1
<1>3. /\ DOMAIN q = DOMAIN r /\ q.frames = frames /\ q.over = r.over
      /\ q.failing = r.failing /\ q.met = r.met
      /\ q.domain = r.domain /\ q.settled = r.settled
  BY <1>2 DEF Shape
<1>4. DOMAIN top = {"wf", "at", "visited", "detour", "undo"}
  BY <1>0, <1>1 DEF Shape
<1>5. /\ DOMAIN fr = DOMAIN top /\ fr.wf = top.wf /\ fr.at = top.at
      /\ fr.visited = top.visited /\ fr.detour = top.detour
  BY <1>4
<1>6. DOMAIN frames = 1 .. n /\ frames[n] = fr
      /\ \A k \in 1 .. n : k # n => frames[k] = r.frames[k]
  BY <1>0, <1>1
<1>7. IsList(frames) /\ Len(frames) = n
  <2>1. PICK T : T = ToSet(frames)
    OBVIOUS
  <2>2. frames \in [1 .. n -> T]
    BY <1>6, <2>1 DEF ToSet
  <2>3. frames \in Seq(T) /\ Len(frames) = n
    BY <2>2, ListOf
  <2> QED
    BY <2>1, <2>3 DEF IsList
<1>8. frames # <<>> /\ Last(frames) = fr
  <2>1. frames # <<>>
    BY <1>7
  <2> QED
    BY <1>6, <1>7, <2>1 DEF Last
<1>9. Shape(q)
  BY <1>0, <1>3, <1>4, <1>5, <1>6, <1>7 DEF Shape
<1>10. ASSUME NEW file, Traced(file, r) PROVE Traced(file, q)
  <2>1. \A k \in 1 .. n : /\ frames[k].wf = r.frames[k].wf
                          /\ frames[k].at = r.frames[k].at
                          /\ frames[k].visited = r.frames[k].visited
                          /\ frames[k].detour = r.frames[k].detour
    BY <1>5, <1>6
  <2>2. ASSUME NEW k \in 1 .. n PROVE Trail(file, frames[k])
    <3>1. Trail(file, r.frames[k])
      BY <1>0, <1>10 DEF Traced
    <3>2. PICK g, h : g = frames[k] /\ h = r.frames[k]
      OBVIOUS
    <3>3. /\ Trail(file, h) /\ g.wf = h.wf /\ g.at = h.at
          /\ g.visited = h.visited /\ g.detour = h.detour
      BY <2>1, <3>1, <3>2
    <3>4. Trail(file, g)
      BY <3>3, SameTrail
    <3> QED
      BY <3>2, <3>4
  <2>3. Nested(file, frames)
    <3> SUFFICES ASSUME NEW k \in 1 .. n - 1
                 PROVE  frames[k + 1].wf.id \in ToSet(SubEdges(file)[frames[k].wf.id])
      BY <1>7 DEF Nested
    <3>1. k \in 1 .. n /\ k + 1 \in 1 .. n
      OBVIOUS
    <3>2. r.frames[k + 1].wf.id \in ToSet(SubEdges(file)[r.frames[k].wf.id])
      BY <1>0, <1>10 DEF Traced, Nested
    <3> QED
      BY <2>1, <3>1, <3>2
  <2> QED
    BY <1>3, <1>6, <1>10, <2>2, <2>3 DEF Traced
<1> QED
  BY <1>0, <1>3, <1>5, <1>8, <1>9, <1>10 DEF Compensates

LEMMA SucceedsTraces ==
  ASSUME QueueInv, EngineInv, GivenInv, WalkInv, LoopInv, Succeeds
  PROVE  LoopInv'
<1> PICK r : r = IF Step.undo = None THEN run
                 ELSE [run EXCEPT !.frames[Len(run.frames)].undo = @ \cup {Step.undo}]
  OBVIOUS
<1>1. /\ run' = GoTo(r, Step.onSuccess, FALSE) /\ hosted' = hosted /\ pending' = pending
      /\ Walking /\ AtStep /\ run # None
  BY DEF Succeeds, walkUnchanged, Walking
<1>2. /\ Shape(run) /\ run.frames # <<>> /\ Top = run.frames[Len(run.frames)]
      /\ Len(run.frames) \in DOMAIN run.frames /\ DOMAIN run.frames = 1 .. Len(run.frames)
      /\ Len(run.frames) \in Nat /\ Top.at # None
  BY <1>1, AtTop DEF AtStep
<1>3. /\ Shape(r) /\ r.frames # <<>> /\ r.domain = run.domain /\ r.settled = run.settled
      /\ Last(r.frames).wf = Top.wf /\ Last(r.frames).at = Top.at
      /\ Sound => Traced(RunFile, r)
  <2>1. CASE Step.undo = None
    BY <1>1, <1>2, <2>1 DEF Top, LoopInv
  <2>2. CASE Step.undo # None
    <3>1. r = [run EXCEPT !.frames[Len(run.frames)].undo = @ \cup {Step.undo}]
      BY <2>2
    <3>2. Compensates(run, r)
      BY <1>2, <3>1, UndoTraces
    <3> QED
      BY <1>1, <3>2 DEF Compensates, LoopInv, Top
  <2> QED
    BY <2>1, <2>2
<1>4. /\ run'.domain = run.domain /\ run'.settled = run.settled
  <2>1. \A id : /\ GoTo(r, id, FALSE).domain = r.domain
                /\ GoTo(r, id, FALSE).settled = r.settled
    BY <1>3 DEF GoTo, Shape
  <2> QED
    BY <1>1, <1>3, <2>1
<1>5. ASSUME Sound PROVE Traced(RunFile, run')
  <2>1. HasLists(RunFile) /\ OK(Validate(RunFile))
    BY <1>1, <1>5, AtTop, SoundFile
  <2>2. Leads(Top)
    BY <1>1, <1>2, <1>5, AtTop
  <2>3. Onto(RunFile, Last(r.frames), Step, Step.onSuccess, FALSE)
    BY <1>1, <1>2, <1>3, <2>2, Zenon DEF Onto, Leads, Step, AtStep
  <2> QED
    BY <1>1, <1>3, <1>5, <2>1, <2>3, TraceGoTo
<1> QED
  BY <1>1, <1>4, <1>5, TraceOnwards

LEMMA FailsTraces ==
  ASSUME QueueInv, EngineInv, GivenInv, WalkInv, LoopInv, Fails
  PROVE  LoopInv'
<1>1. /\ run' = [run EXCEPT !.failing = TRUE] /\ hosted' = hosted /\ pending' = pending
      /\ Walking /\ run # None
  BY DEF Fails, walkUnchanged, Walking
<1>2. Shape(run)
  BY <1>1, AtTop
<1>3. /\ run'.frames = run.frames /\ run'.met = run.met /\ run'.domain = run.domain
      /\ run'.settled = run.settled
  BY <1>1, <1>2 DEF Shape
<1>4. Sound => Traced(RunFile, run')
  BY <1>1, <1>3 DEF LoopInv, Traced
<1> QED
  BY <1>1, <1>3, <1>4, TraceOnwards

LEMMA CallsTraces ==
  ASSUME QueueInv, EngineInv, GivenInv, WalkInv, LoopInv, Calls
  PROVE  LoopInv'
<1>1. PICK sub \in Callees(Step) :
        run' = IF Len(run.frames) > MaxDepth
                 THEN [Meets("too deep") EXCEPT !.over = TRUE, !.failing = TRUE]
               ELSE IF sub \notin DOMAIN engine.workflows
                 THEN [Meets("unknown workflow") EXCEPT !.failing = TRUE]
                 ELSE [run EXCEPT !.frames = Append(@, Frame(engine.workflows[sub]))]
  BY Zenon DEF Calls
<1>2. /\ hosted' = hosted /\ pending' = pending /\ Walking /\ AtStep /\ run # None
      /\ Step.type # "leaf"
  BY Zenon DEF Calls, walkUnchanged, Walking
<1>3. /\ RunInv /\ Shape(run) /\ run.frames # <<>> /\ Top.at # None
      /\ Sound => AtHome(Top)
  BY <1>2, AtTop DEF AtStep
<1>4. CASE Len(run.frames) > MaxDepth \/ sub \notin DOMAIN engine.workflows
  <2>1. /\ run'.frames = run.frames
        /\ run'.met = run.met \cup {"too deep"} \/ run'.met = run.met \cup {"unknown workflow"}
        /\ run'.domain = run.domain /\ run'.settled = run.settled
    BY <1>1, <1>3, <1>4, Zenon DEF Shape, Meets
  <2>2. ASSUME Sound PROVE Traced(RunFile, run')
    <3>1. Traced(RunFile, run)
      BY <1>2, <2>2 DEF LoopInv
    <3>2. Warned(RunFile, run'.met)
      BY <2>1, <3>1, Zenon DEF Traced, Warned
    <3> QED
      BY <2>1, <3>1, <3>2, Zenon DEF Traced
  <2> QED
    BY <1>2, <2>1, <2>2, TraceOnwards, Zenon
<1>5. CASE ~(Len(run.frames) > MaxDepth) /\ sub \in DOMAIN engine.workflows
  <2> PICK fr : fr = Frame(engine.workflows[sub])
    OBVIOUS
  <2>1. /\ run'.frames = Append(run.frames, fr) /\ run'.met = run.met
        /\ run'.domain = run.domain /\ run'.settled = run.settled
    BY <1>1, <1>3, <1>5, Zenon DEF Shape
  <2>2. ASSUME Sound PROVE Traced(RunFile, run')
    <3>1. AsFiled(Top)
      BY <1>3, <2>2, HomeFollows
    <3>2. Trail(RunFile, fr) /\ fr.wf.id \in ToSet(SubEdges(RunFile)[Top.wf.id])
      BY <1>2, <3>1 DEF AsFiled, Step
    <3>3. Traced(RunFile, run)
      BY <1>2, <2>2 DEF LoopInv
    <3> QED
      BY <1>3, <2>1, <3>2, <3>3, TraceCall DEF Top
  <2> QED
    BY <1>2, <2>1, <2>2, TraceOnwards
<1> QED
  BY <1>4, <1>5

LEMMA EndsTraces ==
  ASSUME QueueInv, EngineInv, GivenInv, WalkInv, LoopInv, Ends
  PROVE  LoopInv'
<1> PICK r : r = Pop(run, FALSE)
  BY Zenon
<1>1. /\ run' = IF r.over THEN r
               ELSE GoTo(r, Last(r.frames).wf.steps[Last(r.frames).at].onSuccess, FALSE)
      /\ hosted' = hosted /\ pending' = pending /\ Walking /\ run # None
  BY DEF Ends, walkUnchanged, Walking
<1>2. Shape(run) /\ run.frames # <<>> /\ RunInv /\ (Sound => Safe(run))
  BY <1>1, AtTop
<1>3. /\ Shape(r) /\ (r.over \/ r.frames # <<>>)
      /\ r.domain = run.domain /\ r.settled = run.settled
      /\ Safe(run) => Safe(r) /\ (~r.over => Last(r.frames).at # None)
  BY <1>2, PopKeeps
<1>4. Sound => Traced(RunFile, r)
  BY <1>1, <1>2, TracePop DEF LoopInv
<1>5. CASE r.over
  BY <1>1, <1>3, <1>4, <1>5, TraceOnwards
<1>6. CASE ~r.over
  <2> PICK top : top = Last(r.frames)
    OBVIOUS
  <2> PICK s : s = top.wf.steps[top.at]
    OBVIOUS
  <2>1. run' = GoTo(r, s.onSuccess, FALSE) /\ r.frames # <<>>
    BY <1>1, <1>3, <1>6
  <2>2. run'.domain = run.domain /\ run'.settled = run.settled
    <3>1. \A id : /\ GoTo(r, id, FALSE).domain = r.domain
                  /\ GoTo(r, id, FALSE).settled = r.settled
      BY <1>3 DEF GoTo, Shape
    <3> QED
      BY <1>3, <2>1, <3>1
  <2>3. ASSUME Sound PROVE Traced(RunFile, run')
    <3>1. HasLists(RunFile) /\ OK(Validate(RunFile))
      BY <1>2, <2>3, SoundFile
    <3>2. Safe(r) /\ top.at # None
      BY <1>2, <1>3, <1>6, <2>3
    <3>3. AtHome(top)
      <4>1. Last(r.frames) = r.frames[Len(r.frames)] /\ Len(r.frames) \in DOMAIN r.frames
        <5>1. IsList(r.frames) /\ r.frames # <<>>
          BY <1>3, <2>1 DEF Shape
        <5>2. PICK n \in Nat \ {0} :
                n = Len(r.frames) /\ DOMAIN r.frames = 1 .. n /\ Last(r.frames) = r.frames[n]
          BY <5>1, FrontOfList
        <5>3. n \in 1 .. n
          OBVIOUS
        <5> QED
          BY <5>2, <5>3, Zenon
      <4> QED
        BY <3>2, <4>1 DEF Safe
    <3>4. Leads(top)
      BY <1>2, <2>3, <3>2, <3>3, HomeLeads, Zenon
    <3>5. Onto(RunFile, top, s, s.onSuccess, FALSE)
      BY <3>2, <3>3, <3>4, Zenon DEF Onto, Leads, AtHome
    <3> QED
      BY <1>3, <1>4, <2>1, <2>3, <3>1, <3>5, TraceGoTo
  <2> QED
    BY <1>1, <2>2, <2>3, TraceOnwards
<1> QED
  BY <1>5, <1>6

LEMMA StepMissingTraces ==
  ASSUME QueueInv, EngineInv, GivenInv, WalkInv, LoopInv, StepMissing
  PROVE  LoopInv'
<1> PICK r : r = Meets("missing step")
  BY Zenon
<1>1. /\ run' = Pop(r, TRUE) /\ Top.at # None /\ ~AtStep
      /\ hosted' = hosted /\ pending' = pending /\ Walking /\ run # None
  BY Zenon DEF StepMissing, walkUnchanged, Walking
<1>2. Shape(run) /\ run.frames # <<>> /\ ~Sound
  BY <1>1, AtTop, Zenon
<1>3. /\ Shape(r) /\ r.frames # <<>> /\ r.domain = run.domain /\ r.settled = run.settled
  BY <1>2, Zenon DEF Shape, Meets
<1>4. run'.domain = run.domain /\ run'.settled = run.settled
  BY <1>1, <1>3, PopKeeps, Zenon
<1> QED
  BY <1>1, <1>2, <1>4, TraceOnwards, Zenon

LEMMA OnFailureTraces ==
  ASSUME QueueInv, EngineInv, GivenInv, WalkInv, LoopInv, OnFailure
  PROVE  LoopInv'
<1> PICK known \in BOOLEAN :
      known = (Step.policy # None /\ Step.policy \in DOMAIN engine.policies)
  OBVIOUS
<1> PICK fallback : fallback = IF known THEN engine.policies[Step.policy].fallback ELSE None
  OBVIOUS
<1> PICK unmet :
      unmet = (IF Step.policy # None /\ ~known THEN {"unknown policy"} ELSE {})
              \cup (IF Top.undo \subseteq DOMAIN Top.wf.steps
                      THEN {} ELSE {"missing compensation"})
  BY Zenon
<1> PICK r : r = Pop(run, TRUE)
  BY Zenon
<1>1. /\ run' = IF fallback # None THEN GoTo(run, fallback, TRUE)
                 ELSE [r EXCEPT !.met = @ \cup unmet]
      /\ hosted' = hosted /\ pending' = pending /\ Walking /\ run.failing /\ run # None
  BY Zenon DEF OnFailure, walkUnchanged, Walking
<1>2. Shape(run) /\ run.frames # <<>> /\ RunInv
  BY <1>1, AtTop, Zenon
<1>3. Sound => Traced(RunFile, run)
  BY <1>1, Zenon DEF LoopInv
<1>4. CASE fallback # None
  <2>1. run' = GoTo(run, fallback, TRUE)
    BY <1>1, <1>4, Zenon
  <2>2. run'.domain = run.domain /\ run'.settled = run.settled
    BY <1>2, <2>1, GoToKeeps, Zenon
  <2>3. ASSUME Sound PROVE Traced(RunFile, run')
    <3>1. HasLists(RunFile) /\ OK(Validate(RunFile))
      BY <1>2, <2>3, SoundFile, Zenon
    <3>2. AtHome(Top) /\ Leads(Top) /\ Top.at # None
      BY <1>1, <2>3, AtTop, Zenon
    <3>3. AsFiled(Top)
      BY <1>2, <2>3, <3>2, HomeFollows, Zenon
    <3>4. Step.policy # None /\ fallback = engine.policies[Step.policy].fallback
      BY <1>4, Zenon
    <3>5. fallback = FallbackOf(Fallbacks(RunFile), Step)
      BY <3>3, <3>4, Zenon DEF AsFiled, Step
    <3>6. fallback \in DOMAIN Top.wf.steps
      BY <1>4, <3>2, <3>4, Zenon DEF Leads, Step
    <3>7. Onto(RunFile, Top, Step, fallback, TRUE)
      BY <3>2, <3>5, <3>6, Zenon DEF Onto, Step, AtHome
    <3> QED
      BY <1>2, <1>3, <2>1, <2>3, <3>1, <3>7, TraceGoTo, Zenon DEF Top
  <2> QED
    BY <1>1, <2>2, <2>3, TraceOnwards, Zenon
<1>5. CASE fallback = None
  <2>1. Shape(r) /\ r.domain = run.domain /\ r.settled = run.settled
    BY <1>2, PopKeeps, Zenon
  <2>2. /\ run'.frames = r.frames /\ run'.domain = r.domain /\ run'.settled = r.settled
        /\ run'.met = r.met \cup unmet
    BY <1>1, <1>5, <2>1, Zenon DEF Shape
  <2>3. Sound => Traced(RunFile, r)
    BY <1>2, <1>3, TracePop, Zenon
  <2>4. Sound => Traced(RunFile, run')
    <3>1. {"came back", "came back by a fallback"} \cap unmet = {}
      BY Zenon
    <3> QED
      BY <2>2, <2>3, <3>1, Zenon DEF Traced, Warned
  <2> QED
    BY <1>1, <2>1, <2>2, <2>4, TraceOnwards, Zenon
<1> QED
  BY <1>4, <1>5, Zenon

(* A run begins with nothing behind it.                                    *)
LEMMA StartTraces ==
  ASSUME QueueInv, EngineInv, GivenInv, Start
  PROVE  LoopInv'
<1>1. hosted' = hosted
  BY Zenon DEF Start
<1>2. CASE \E id \in DOMAIN engine.workflows :
             run' = Begun(<<Frame(engine.workflows[id])>>, engine.workflows[id].domain, {})
  <2>1. PICK id \in DOMAIN engine.workflows :
          run' = Begun(<<Frame(engine.workflows[id])>>, engine.workflows[id].domain, {})
    BY <1>2
  <2>2. WorkflowFrom(id)
    BY DEF EngineInv
  <2>3. PICK d, file :
          d \in DOMAIN hosted /\ file = hosted[d] /\
          \E i \in DOMAIN file.workflows : engine.workflows[id] = Placed(d, i)
    BY <2>2 DEF WorkflowFrom
  <2>4. PICK i \in DOMAIN file.workflows : engine.workflows[id] = Placed(d, i)
    BY <2>3
  <2> PICK wf : wf = engine.workflows[id]
    OBVIOUS
  <2>5. wf.domain = d /\ wf.id = file.workflows[i].id /\ wf.steps = ById(file.workflows[i].steps)
    BY <2>3, <2>4 DEF Placed
  <2> PICK fr : fr = Frame(wf)
    OBVIOUS
  <2>6. Trail(file, fr)
    BY <2>5, NewTrail
  <2>7. run' = Begun(<<fr>>, d, {})
    BY <2>1, <2>5
  <2>8. run'.frames = <<fr>> /\ run'.domain = d /\ run'.met = {}
    BY <2>7 DEF Begun
  <2>9. PICK frames : frames = run'.frames /\ DOMAIN frames = 1 .. 1 /\ Len(frames) = 1 /\ frames[1] = fr
    BY <2>8
  <2>10. Traced(file, run')
    <3>1. \A k \in DOMAIN frames : Trail(file, frames[k])
      BY <2>6, <2>9
    <3>2. Nested(file, frames)
      <4>1. 1 .. Len(frames) - 1 = {}
        BY <2>9
      <4> QED
        BY <4>1 DEF Nested
    <3>3. Warned(file, run'.met)
      BY <2>8 DEF Warned
    <3> QED
      BY <2>9, <3>1, <3>2, <3>3 DEF Traced
  <2>11. RunFile' = file
    BY <1>1, <2>3, <2>8 DEF RunFile
  <2>12. \A f, r : Traced(f, r)' = Traced(f, r)
    OBVIOUS
  <2> QED
    BY <2>10, <2>11, <2>12 DEF LoopInv
<1>3. CASE \E route \in ToSet(engine.routes) :
             run' = Begun(<<>>, route.domain, {"unknown workflow"})
  <2>0. PICK d : run' = Begun(<<>>, d, {"unknown workflow"})
    BY <1>3, Zenon
  <2>1. run'.frames = <<>> /\ run'.met = {"unknown workflow"}
    BY <2>0, Zenon DEF Begun
  <2>2. PICK frames : frames = run'.frames /\ DOMAIN frames = {} /\ 1 .. Len(frames) - 1 = {}
    <3>1. DOMAIN <<>> = {} /\ 1 .. Len(<<>>) - 1 = {}
      OBVIOUS
    <3> QED
      BY <2>1, <3>1, Zenon
  <2>3. \A file : Traced(file, run')
    BY <2>1, <2>2, Zenon DEF Traced, Nested, Warned
  <2> QED
    BY <2>3 DEF LoopInv
<1> QED
  BY <1>2, <1>3, Zenon DEF Start

LEMMA LoopNext ==
  ASSUME RefsInv, LoopInv, [Next]_vars
  PROVE  LoopInv'
<1>0. QueueInv /\ EngineInv /\ GivenInv /\ WalkInv
  BY DEF RefsInv
<1>1. CASE runServe \/ RegisterNeighbour
  <2> SUFFICES ASSUME run' # None, Sound' PROVE Traced(RunFile', run')
    BY DEF LoopInv
  <2>1. run' = run /\ \E file : hosted' = Append(hosted, file)
    <3>1. CASE runServe
      <4>1. PICK file : hosted' = <<file>> /\ hosted = <<>> /\ run' = run
        BY <3>1 DEF runServe
      <4> QED
        BY <4>1
    <3>2. CASE RegisterNeighbour
      BY <3>2 DEF RegisterNeighbour
    <3> QED
      BY <1>1, <3>1, <3>2
  <2>2. RunInv
    BY <1>0, <2>1 DEF WalkInv
  <2>3. hosted \in Seq(Files)
    BY <1>0 DEF QueueInv
  <2>4. /\ DOMAIN hosted \subseteq DOMAIN hosted'
        /\ \A d \in DOMAIN hosted : hosted'[d] = hosted[d]
    BY <2>1, <2>3
  <2>5. RunFile' = RunFile
    BY <2>1, <2>2, <2>4 DEF RunFile, RunInv
  <2>6. Sound
    BY <2>1, <2>4, <2>5 DEF Sound
  <2> QED
    BY <2>1, <2>5, <2>6 DEF LoopInv
<1>2. CASE run' = run /\ hosted' = hosted
  BY <1>2 DEF LoopInv, Sound, RunFile
<1>3. CASE Start
  BY <1>0, <1>3, StartTraces
<1>4. CASE Walk
  BY <1>0, <1>4, SucceedsTraces, FailsTraces, CallsTraces, EndsTraces, StepMissingTraces,
     OnFailureTraces DEF Walk
<1>5. CASE RegisterItem
  BY <1>2, <1>5 DEF RegisterItem
<1>6. CASE UNCHANGED hostVars
  BY <1>2, <1>6 DEF hostVars
<1> QED
  BY <1>1, <1>3, <1>4, <1>5, <1>6, HostSteps

(* A run of a manifest without errors comes back to a step only through a  *)
(* fallback of which Validate warned, and never nests deeper than the      *)
(* manifest has workflows (validateStepGraph, validateSubWorkflowAcyclic   *)
(* and findCycle against what runFrom follows).                            *)
THEOREM LoopsAreAnnounced == Spec => []NoSilentLoops
<1>1. Init => LoopInv
  BY DEF Init, LoopInv
<1>2. ASSUME RefsInv, LoopInv PROVE NoSilentLoops
  <2> SUFFICES ASSUME run # None, Sound
               PROVE  /\ "came back" \notin run.met
                      /\ "came back by a fallback" \in run.met =>
                           <<"warning", "loop through a fallback">> \in Validate(RunFile)
                      /\ ~(Len(run.frames) > Cardinality(WorkflowIds(RunFile)))
    BY Zenon DEF NoSilentLoops
  <2>1. Traced(RunFile, run)
    BY <1>2 DEF LoopInv
  <2>2. QueueInv /\ RunInv
    BY <1>2 DEF RefsInv, WalkInv
  <2>3. HasLists(RunFile) /\ OK(Validate(RunFile)) /\ IsList(run.frames)
    BY <2>2, SoundFile DEF RunInv, Shape
  <2>4. ~(Len(run.frames) > Cardinality(WorkflowIds(RunFile)))
    BY <2>1, <2>3, NestingBound
  <2> QED
    BY <2>1, <2>4, Zenon DEF Traced, Warned
<1> QED
  BY RefsInit, RefsNext, LoopNext, <1>1, <1>2, PTL DEF Spec
=============================================================================

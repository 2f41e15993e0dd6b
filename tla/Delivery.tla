------------------------------ MODULE Delivery ------------------------------
(***************************************************************************)
(* A manifest on its way to the engine: drafted with a model (cee draft)   *)
(* or published in a catalog, linted, installed into ./plugins; then       *)
(* loaded (cee serve, or a program of its own with hooks), registered item *)
(* by item in an engine that may already be running workflows, and run.    *)
(*                                                                         *)
(* A run is walked over the registered domain for its references only:     *)
(* any step may fail, one branch of a parallel step stands for each, and   *)
(* the ceiling on steps is left out so that a run that would only end     *)
(* there is seen to come back to a step.                                   *)
(***************************************************************************)
EXTENDS Manifest
LOCAL INSTANCE SequencesExt

CONSTANTS
  Replies,      \* manifests a model may answer a draft with
  Manuscripts,  \* files a catalog's author may publish, unreadable ones Missing
  Metas,        \* what an index may say of an entry: [name, tier, version, domain]
  UnsafeNames,  \* names with a character or a ".." a file name may not have
  Neighbours,   \* domains a host may register beside the one it serves
  HostHooks,    \* hooks of a host that is not the command line
  DefaultMaxAttempts,
  MaxDepth,
  MaxEntries,   \* bound on the entries of the catalog
  Missing

(* What JSON calls an array is a list.                                     *)
IsList(list)   == list \in Seq(ToSet(list))
HasLists(file) ==
  /\ IsList(file.policies) /\ IsList(file.workflows) /\ IsList(file.intents)
  /\ \A i \in DOMAIN file.workflows :
       /\ IsList(file.workflows[i].steps)
       /\ \A j \in DOMAIN file.workflows[i].steps : IsList(file.workflows[i].steps[j].branches)

ASSUME DeliveryAssumption ==
  /\ DefaultMaxAttempts \in Nat \ {0}
  /\ \A file \in Replies \cup Neighbours : file # None => HasLists(file)

VARIABLES
  author,   \* a draft: [phase, hooks, attempts, manifest]
  index,    \* the catalog: sequence of entries, meta and file
  linted,   \* history: cee lint was clean and the catalog has not changed
  plugins,  \* ./plugins: [name -> file], None while a write is cut short
  writing,  \* the install that is writing: [name, file], or None
  engine,   \* what is registered: [workflows, policies, routes]
  pending,  \* what RegisterDomain has still to register
  hosted,   \* files whose domains were registered, the served one first
  run       \* the walk of one run, or None

vars == <<author, index, linted, plugins, writing, engine, pending, hosted, run>>

catalogVars == <<index, linted, plugins, writing>>
hostVars    == <<engine, pending, hosted, run>>

Empty == <<>>   \* the function with an empty domain

(* A map in which the key has been given that value.                       *)
With(map, key, value) ==
  [k \in DOMAIN map \cup {key} |-> IF k = key THEN value ELSE map[k]]

Init ==
  /\ author \in {[phase |-> p, hooks |-> h, attempts |-> 0, manifest |-> None] :
                   p \in {"idle", "drafting"}, h \in {{}, HostHooks}}
  /\ index = <<>> /\ linted = FALSE /\ plugins = Empty /\ writing = None
  /\ engine = [workflows |-> Empty, policies |-> Empty, routes |-> <<>>]
  /\ pending = <<>> /\ hosted = <<>> /\ run = None

-----------------------------------------------------------------------------
(* draft.Draft.                                                            *)

(* Wrong: a draft is taken once its report is clean.                       *)
AcceptableReport(reply) == OK(Validate(reply))

(* Only without hooks can the draft be loaded to see that it builds.       *)
Acceptable(reply) ==
  OK(Validate(reply)) /\ (author.hooks = {} => Loads(reply, {}))

Reply ==
  /\ author.phase = "drafting"
  /\ \E reply \in Replies :
       author' =
         IF Acceptable(reply)
           THEN [author EXCEPT !.phase = "drafted", !.manifest = reply]
           ELSE [author EXCEPT
                   !.attempts = @ + 1,
                   !.phase = IF author.attempts + 1 = DefaultMaxAttempts
                               THEN "gaveUp" ELSE "drafting"]
  /\ UNCHANGED <<catalogVars, hostVars>>

ChatFails ==
  /\ author.phase = "drafting"
  /\ author' = [author EXCEPT !.phase = "failed"]
  /\ UNCHANGED <<catalogVars, hostVars>>

-----------------------------------------------------------------------------
(* The catalog.  Drafting, publishing and serving meet only through files: *)
(* a behaviour has a draft, a catalog, or a host and the file it serves.   *)

AtWork == author.phase = "idle" /\ hosted = <<>>

(* Wrong: any name that is not empty.                                      *)
SafeNameAny(name) == name # None

SafeName(name) == name # None /\ name \notin UnsafeNames

(* The first entry of that name, as cee install looks it up.               *)
Find(name) == index[CHOOSE i \in DOMAIN index :
                      /\ index[i].name = name
                      /\ \A j \in 1 .. i - 1 : index[j].name # name]

Installs(e) ==
  /\ SafeName(e.name)
  /\ e.file # Missing
  /\ OK(Validate(e.file))

(* Wrong: an entry whose manifest cannot be read is passed over.           *)
LintEntryUnread(i) ==
  IF ~SafeName(index[i].name)
    THEN Error("unusable name", TRUE)
    ELSE IF index[i].file = Missing THEN {} ELSE Validate(index[i].file)

LintEntry(i) ==
  LET e == index[i]
  IN IF ~SafeName(e.name)
       THEN Error("unusable name", TRUE)
       ELSE Error("duplicate entry name",
                  \E j \in 1 .. i - 1 : index[j].name = e.name)
            \cup Error("tier", e.tier \notin {"L1", "L2"})
            \cup Warning("no version", e.version = None)
            \cup (IF e.file = Missing
                    THEN Error("cannot read manifest", TRUE)
                    ELSE Warning("domain mismatch",
                                 /\ e.file # None /\ e.file.name # None
                                 /\ e.domain # None /\ e.domain # e.file.name)
                         \cup Validate(e.file))

Lint == UNION {LintEntry(i) : i \in DOMAIN index}

Publish ==
  /\ AtWork /\ Len(index) < MaxEntries
  /\ \E meta \in Metas, file \in Manuscripts :
       index' = Append(index, [name |-> meta.name, tier |-> meta.tier,
                               version |-> meta.version, domain |-> meta.domain,
                               file |-> file])
  /\ linted' = FALSE
  /\ UNCHANGED <<author, plugins, writing, hostVars>>

(* A manifest of the catalog is edited where it lies.                      *)
Edit ==
  /\ AtWork
  /\ \E i \in DOMAIN index, file \in Manuscripts :
       /\ file # index[i].file
       /\ index' = [index EXCEPT ![i].file = file]
  /\ linted' = FALSE
  /\ UNCHANGED <<author, plugins, writing, hostVars>>

runLint ==
  /\ AtWork /\ index # <<>>
  /\ linted' = OK(Lint)
  /\ UNCHANGED <<author, index, plugins, writing, hostVars>>

(* os.WriteFile truncates the plugin, then writes it.                      *)
runInstall ==
  /\ AtWork /\ writing = None
  /\ \E i \in DOMAIN index :
       LET e == Find(index[i].name)
       IN /\ Installs(e)
          /\ writing' = [name |-> e.name, file |-> e.file]
          /\ plugins' = With(plugins, e.name, None)
  /\ UNCHANGED <<author, index, linted, hostVars>>

Written ==
  /\ AtWork /\ writing # None
  /\ plugins' = [plugins EXCEPT ![writing.name] = writing.file]
  /\ writing' = None
  /\ UNCHANGED <<author, index, linted, hostVars>>

InstallDies ==
  /\ AtWork /\ writing # None
  /\ writing' = None
  /\ UNCHANGED <<author, index, linted, plugins, hostVars>>

-----------------------------------------------------------------------------
(* Load and RegisterDomain.                                                *)

(* Intents, then workflows, then policies, each under its own lock.        *)
Of(kind, list)  == [i \in DOMAIN list |-> [kind |-> kind, item |-> list[i]]]
Items(domain) ==
  Of("intent", domain.intents) \o Of("workflow", domain.workflows)
    \o Of("policy", domain.policies)

(* cee serve loads without hooks, a host with its own; neither validates.  *)
(* The file is any, drafts and plugins among them.                         *)
runServe ==
  /\ hosted = <<>> /\ author.phase = "idle" /\ index = <<>>
  /\ \E file \in Replies :
       /\ Loads(file, author.hooks)
       /\ hosted' = <<file>>
       /\ pending' = Items(DomainOf(file))
  /\ UNCHANGED <<author, catalogVars, engine, run>>

(* A host with hooks registers a second domain, runs of the first being    *)
(* under way; cee serve has only the one.                                  *)
RegisterNeighbour ==
  /\ Len(hosted) = 1 /\ pending = <<>> /\ author.hooks # {}
  /\ \E file \in Neighbours :
       /\ Loads(file, HostHooks)
       /\ hosted' = Append(hosted, file)
       /\ pending' = Items(DomainOf(file))
  /\ UNCHANGED <<author, catalogVars, engine, run>>

(* What a domain registers carries its place among the domains (history).  *)
Stamped(wf) == [id |-> wf.id, entry |-> wf.entry, steps |-> wf.steps,
                domain |-> Len(hosted)]

RegisterItem ==
  /\ pending # <<>>
  /\ LET it == Head(pending).item
     IN engine' =
          CASE Head(pending).kind = "intent" ->
                 [engine EXCEPT !.routes =
                    Append(@, [entry |-> it.entry, domain |-> Len(hosted)])]
            [] Head(pending).kind = "workflow" ->
                 [engine EXCEPT !.workflows = With(@, it.id, Stamped(it))]
            [] Head(pending).kind = "policy" ->
                 [engine EXCEPT !.policies =
                    With(@, it.id, [fallback |-> it.fallback, domain |-> Len(hosted)])]
  /\ pending' = Tail(pending)
  /\ UNCHANGED <<author, catalogVars, hosted, run>>

-----------------------------------------------------------------------------
(* A run, as its references see it.  A frame captures the workflow it      *)
(* entered; policies are looked up when they are needed.                   *)

Frame(wf) == [wf |-> wf, at |-> wf.entry, visited |-> {}, detour |-> FALSE,
              undo |-> {}]
Top       == Last(run.frames)
AtStep    == Top.at # None /\ Top.at \in DOMAIN Top.wf.steps
Step      == Top.wf.steps[Top.at]

(* The run meets a problem of its definitions.                             *)
Meets(problem) == [run EXCEPT !.met = @ \cup {problem}]

(* The current frame ends: its caller's step succeeded or failed.          *)
Pop(r, failed) ==
  [r EXCEPT !.frames = Front(@), !.failing = failed,
            !.over = Len(r.frames) = 1]

GoTo(r, id, detour) ==
  LET top == Last(r.frames)
      fr  == [top EXCEPT !.visited = @ \cup {top.at}, !.at = id,
                         !.detour = @ \/ detour]
  IN [r EXCEPT !.frames = Append(Front(@), fr), !.failing = FALSE,
               !.met = @ \cup (IF id \notin fr.visited THEN {}
                               ELSE IF fr.detour THEN {"came back by a fallback"}
                                    ELSE {"came back"})]

(* A run of a domain; it is settled when that is registered whole.         *)
Begun(frames, domain, met) ==
  [frames |-> frames, domain |-> domain, met |-> met, failing |-> FALSE,
   over |-> frames = <<>>,
   settled |-> domain < Len(hosted) \/ pending = <<>>]

(* A program runs what it finds registered: a workflow_id, or the entry of *)
(* an intent, which may be unknown.  A host takes requests once the domain *)
(* it serves is registered.                                                *)
Start ==
  /\ run = None /\ hosted # <<>> /\ (Len(hosted) = 2 \/ pending = <<>>)
  /\ \/ \E id \in DOMAIN engine.workflows :
          LET wf == engine.workflows[id]
          IN run' = Begun(<<Frame(wf)>>, wf.domain, {})
     \/ \E route \in ToSet(engine.routes) :
          /\ route.entry \notin DOMAIN engine.workflows
          /\ run' = Begun(<<>>, route.domain, {"unknown workflow"})
  /\ UNCHANGED <<author, catalogVars, engine, pending, hosted>>

Walking == run # None /\ ~run.over
walkUnchanged == UNCHANGED <<author, catalogVars, engine, pending, hosted>>

Succeeds ==
  /\ Walking /\ ~run.failing /\ AtStep /\ Step.type = "leaf"
  /\ LET r == IF Step.undo = None THEN run
              ELSE [run EXCEPT !.frames[Len(run.frames)].undo = @ \cup {Step.undo}]
     IN run' = GoTo(r, Step.onSuccess, FALSE)
  /\ walkUnchanged

Fails ==
  /\ Walking /\ ~run.failing /\ AtStep /\ Step.type = "leaf"
  /\ run' = [run EXCEPT !.failing = TRUE]
  /\ walkUnchanged

(* The workflows a composite or a parallel step calls.                     *)
Callees(s) == IF s.type = "composite" THEN {s.sub} ELSE ToSet(s.branches)

(* A composite step, or a branch of a parallel one.  The ceiling on depth  *)
(* ends the run: no fallback absorbs it.                                   *)
Calls ==
  /\ Walking /\ ~run.failing /\ AtStep /\ Step.type # "leaf"
  /\ \E sub \in Callees(Step) :
       run' = IF Len(run.frames) > MaxDepth
                THEN [Meets("too deep") EXCEPT !.over = TRUE, !.failing = TRUE]
              ELSE IF sub \notin DOMAIN engine.workflows
                THEN [Meets("unknown workflow") EXCEPT !.failing = TRUE]
                ELSE [run EXCEPT !.frames = Append(@, Frame(engine.workflows[sub]))]
  /\ walkUnchanged

Ends ==
  /\ Walking /\ ~run.failing /\ Top.at = None
  /\ LET r == Pop(run, FALSE)
     IN run' = IF r.over THEN r
               ELSE GoTo(r, Last(r.frames).wf.steps[Last(r.frames).at].onSuccess, FALSE)
  /\ walkUnchanged

StepMissing ==
  /\ Walking /\ ~run.failing /\ Top.at # None /\ ~AtStep
  /\ run' = Pop(Meets("missing step"), TRUE)
  /\ walkUnchanged

(* onFailure: the fallback of the policy; with none the frame is abandoned *)
(* and each of its compensations looked up.  A policy that is not          *)
(* registered is passed over in silence.                                   *)
OnFailure ==
  /\ Walking /\ run.failing
  /\ LET known == Step.policy # None /\ Step.policy \in DOMAIN engine.policies
         fallback == IF known THEN engine.policies[Step.policy].fallback ELSE None
         unmet == (IF Step.policy # None /\ ~known THEN {"unknown policy"} ELSE {})
                  \cup (IF Top.undo \subseteq DOMAIN Top.wf.steps
                          THEN {} ELSE {"missing compensation"})
     IN run' = IF fallback # None
                 THEN GoTo(run, fallback, TRUE)
                 ELSE [Pop(run, TRUE) EXCEPT !.met = @ \cup unmet]
  /\ walkUnchanged

-----------------------------------------------------------------------------
Walk == Succeeds \/ Fails \/ Calls \/ Ends \/ StepMissing \/ OnFailure

Next ==
  \/ Reply \/ ChatFails
  \/ Publish \/ Edit \/ runLint \/ runInstall \/ Written \/ InstallDies
  \/ runServe \/ RegisterNeighbour \/ RegisterItem
  \/ Start \/ Walk

Spec == Init /\ [][Next]_vars

-----------------------------------------------------------------------------
TypeOK ==
  /\ author.phase \in {"idle", "drafting", "drafted", "gaveUp", "failed"}
  /\ author.attempts \in 0 .. DefaultMaxAttempts
  /\ author.manifest # None => author.phase = "drafted"
  /\ \A i \in DOMAIN index : index[i].file \in Manuscripts
  /\ DOMAIN plugins \cap UnsafeNames = {}
  /\ writing # None => writing.name \in DOMAIN plugins
  /\ run # None => run.over \/ run.frames # <<>>

RunFile == hosted[run.domain]

(* The run began once its domain, one without errors, was registered       *)
(* whole, and no domain uses an id of another.                             *)
Sound ==
  /\ run # None /\ run.settled /\ OK(Validate(RunFile))
  /\ \A i, j \in DOMAIN hosted : i # j =>
       /\ WorkflowIds(hosted[i]) \cap WorkflowIds(hosted[j]) = {}
       /\ Ids(hosted[i].policies) \cap Ids(hosted[j].policies) = {}

(* A run of a manifest without errors never meets a reference that leads   *)
(* nowhere: not a step, a sub-workflow or branch, a policy, nor the step   *)
(* that should compensate; whatever fails, and while other domains are     *)
(* registered (manifest.Validate against what runFrom and unwind look up). *)
ValidRunsNeverDangle ==
  run # None /\ run.met \cap {"missing step", "unknown workflow", "unknown policy",
                             "missing compensation"} # {} => ~Sound

(* A run of a manifest without errors comes back to a step only through a  *)
(* fallback and only when Validate warned of it, and never nests deeper    *)
(* than the manifest has workflows (validateStepGraph and                  *)
(* validateSubWorkflowAcyclic against what runFrom follows).               *)
NoSilentLoops ==
  run # None =>
    /\ "came back" \in run.met => ~Sound
    /\ "came back by a fallback" \in run.met =>
         ~Sound \/ <<"warning", "loop through a fallback">> \in Validate(RunFile)
    /\ Len(run.frames) > Cardinality(WorkflowIds(RunFile)) => ~Sound

(* Every action a file names, as the hooks of a host that has them all.    *)
Actions(file) ==
  UNION {{file.workflows[i].steps[j].action : j \in DOMAIN file.workflows[i].steps} :
           i \in DOMAIN file.workflows}

Serves(file, hooks) == OK(Validate(file)) /\ Loads(file, hooks)

(* cee draft prints, and cee install leaves whole, only manifests that can *)
(* be served: no errors, and loadable by a host that has the actions they  *)
(* name; a draft made without hooks by any host.                           *)
DeliveredServes ==
  /\ author.manifest # None =>
       Serves(author.manifest,
              IF author.hooks = {} THEN {} ELSE Actions(author.manifest))
  /\ \A n \in DOMAIN plugins :
       plugins[n] # None => Serves(plugins[n], Actions(plugins[n]))

(* After a clean cee lint, cee install refuses none of the catalog's names *)
(* and installs under each the entry that was linted (Lint against Find,   *)
(* safeName and Install).                                                  *)
LintedInstalls ==
  linted => \A i \in DOMAIN index : Installs(index[i]) /\ Find(index[i].name) = index[i]

(* The reference for findCycle: some nodes each have a successor among     *)
(* them.                                                                   *)
Cyclic(next) ==
  \E C \in SUBSET DOMAIN next : C # {} /\ \A n \in C : ToSet(next[n]) \cap C # {}

(* findCycle finds a cycle exactly when there is one, and the path it      *)
(* reports is one: it follows edges and ends where it began.               *)
CyclesAreExact ==
  \A i \in DOMAIN hosted : engine.routes = <<>> =>
    LET file == hosted[i]
        Exact(list, next) ==
          LET found == FindCycle(Order(list), next)
          IN /\ found # <<>> <=> Cyclic(next)
             /\ found # <<>> => /\ found[1] = Last(found)
                                /\ \A k \in 1 .. Len(found) - 1 :
                                     found[k + 1] \in ToSet(next[found[k]])
    IN /\ Exact(file.workflows, SubEdges(file))
       /\ \A k \in DOMAIN file.workflows :
            LET wf == file.workflows[k]
            IN /\ Exact(Steps(wf), SuccessEdges(wf))
               /\ Exact(Steps(wf), AllEdges(Fallbacks(file), wf))
=============================================================================

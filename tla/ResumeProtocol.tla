--------------------------- MODULE ResumeProtocol ---------------------------
(***************************************************************************)
(* Suspension and resumption of runs over filestore.Store.                 *)
(*                                                                         *)
(* Several processes, each with an Engine of its own, share one state      *)
(* directory.  A worker is a goroutine inside Engine.Run or Engine.ResumeAs *)
(* The store's mutex (mu) serialises the store calls of one process only;  *)
(* between processes nothing but the atomicity of rename protects a        *)
(* pointer.  The directory is modelled twice: as every process sees it     *)
(* (dir) and as it would survive a loss of power (disk).                   *)
(***************************************************************************)
EXTENDS Naturals

CONSTANTS
  Process,     \* processes sharing the directory
  Worker,      \* goroutines calling the engine
  ProcOf,      \* [Worker -> Process]: whose engine a worker calls
  Pointer,     \* resume pointers newPointer can draw
  Step,        \* step ids of the workflow
  Definition,  \* definitions the workflow id may be registered with
  SyncDir,     \* TRUE: a directory update is durable when its call returns
  MaxFaults,   \* bound on crashes, power losses, panics and I/O errors
  None         \* "no worker", "no pointer", "no workflow", and ""

(* The suspended step of a definition (a leaf, another kind of step, or    *)
(* gone), the step its OnSuccess names, the entry step and all step ids.   *)
Definitions == [ suspended : {"leaf", "other", "missing"},
                 onSuccess : Step \cup {None},
                 entry     : Step,
                 steps     : SUBSET Step ]

ASSUME ProcOfAssumption     == ProcOf \in [Worker -> Process]
ASSUME DefinitionAssumption == Definition \subseteq Definitions
ASSUME SyncDirAssumption    == SyncDir \in BOOLEAN
ASSUME MaxFaultsAssumption  == MaxFaults \in Nat
ASSUME NoneAssumption       == /\ None \notin Worker \cup Pointer \cup Step
                               /\ None \notin Definition

VARIABLES
  pc,          \* where each worker is in its call
  ticket,      \* the pointer a worker is resuming, None in a fresh run
  minting,     \* the pointer a worker is saving a suspended run under
  target,      \* leaf.OnSuccess, read when the suspended step was located
  mu,          \* Store.mu of each process: the worker inside, or None
  registry,    \* each engine's definition of the workflow, or None
  authorizer,  \* whether each engine has an Authorizer
  dir,         \* the directory: state files and claims, by pointer
  disk,        \* what of dir would survive a loss of power
  synced,      \* pointers whose file contents reached the disk
  torn,        \* pointers whose file lost its contents to a power loss
  audience,    \* pointers whose State declares an audience
  minted,      \* pointers newPointer has returned
  faults,      \* faults so far
  issued,      \* history: pointers a Save has committed
  taken,       \* history: pointers a Consume has renamed away
  finished,    \* history: pointers a Release has cleared
  runs,        \* history: how often runFrom acted on a resolution
  granted,     \* history: <<worker, pointer>> an Authorizer allowed, per call
  eaten        \* history: pointers claimed whose run could not start

locals  == <<ticket, minting, target>>
config  == <<registry, authorizer>>
files   == <<dir, disk, synced, torn>>
history == <<issued, taken, finished, runs, granted, eaten>>
vars == <<pc, locals, mu, config, files, audience, minted, faults, history>>

Empty == [parked |-> {}, claims |-> {}]

Init ==
  /\ pc         = [w \in Worker |-> "idle"]
  /\ ticket     = [w \in Worker |-> None]
  /\ minting    = [w \in Worker |-> None]
  /\ target     = [w \in Worker |-> None]
  /\ mu         = [x \in Process |-> None]
  /\ registry   = [x \in Process |-> None]
  /\ authorizer = [x \in Process |-> FALSE]
  /\ dir = Empty /\ disk = Empty
  /\ synced = {} /\ torn = {} /\ audience = {} /\ minted = {}
  /\ faults = 0
  /\ issued = {} /\ taken = {} /\ finished = {} /\ granted = {} /\ eaten = {}
  /\ runs = [p \in Pointer |-> 0]

-----------------------------------------------------------------------------
Goto(w, label) == pc' = [pc EXCEPT ![w] = label]

(* The calls of the workers in W are over: their locals go with them.      *)
EndCalls(W) ==
  /\ pc'      = [w \in Worker |-> IF w \in W THEN "idle" ELSE pc[w]]
  /\ ticket'  = [w \in Worker |-> IF w \in W THEN None ELSE ticket[w]]
  /\ minting' = [w \in Worker |-> IF w \in W THEN None ELSE minting[w]]
  /\ target'  = [w \in Worker |-> IF w \in W THEN None ELSE target[w]]

Unlocked(w) == mu[ProcOf[w]] = None
Lock(w)     == mu' = [mu EXCEPT ![ProcOf[w]] = w]
UnlockNone(w) == mu' = mu   \* wrong: an error path that forgets the unlock
Unlock(w)   == mu' = [mu EXCEPT ![ProcOf[w]] = None]

(* Wrong claims: the state file is copied, is deleted once read (what      *)
(* Consume did before claims were kept), is renamed without a suffix.      *)
ClaimedByCopy(d, p, w)   == [d EXCEPT !.claims = @ \cup {<<p, w>>}]
ClaimedByDelete(d, p, w) == [d EXCEPT !.parked = @ \ {p}]
ClaimedBare(d, p, w)     == [parked |-> d.parked \ {p},
                             claims |-> d.claims \cup {p}]

(* What rename(<p>, <p>.<suffix>.claimed) does to the directory.  The       *)
(* random suffix is as distinct as the worker that draws it.               *)
Claimed(d, p, w) == [parked |-> d.parked \ {p},
                     claims |-> d.claims \cup {<<p, w>>}]

(* The directory as updated reaches the disk with the call or, without     *)
(* SyncDir, possibly only with a later update.                             *)
Persist == disk' \in IF SyncDir THEN {dir'} ELSE {disk, dir'}

Fault == faults < MaxFaults /\ faults' = faults + 1

(* Wrong: ResumeAs returns runFrom's result without calling Release.       *)
LeaveRunAtOnce(w) == EndCalls({w})

(* runFrom returned: a resumed call goes on to Release, a fresh one ends.  *)
LeaveRun(w) ==
  IF ticket[w] = None
    THEN EndCalls({w})
    ELSE /\ Goto(w, "returning")
         /\ minting' = [minting EXCEPT ![w] = None]
         /\ UNCHANGED <<ticket, target>>

-----------------------------------------------------------------------------
(* Engine.RegisterWorkflow: adds or overwrites, never removes.             *)
RegisterWorkflow(x, d) ==
  /\ registry' = [registry EXCEPT ![x] = d]
  /\ UNCHANGED <<pc, locals, mu, authorizer, files, audience, minted, faults,
                 history>>

(* Engine.SetAuthorizer, with an authorizer or with nil.                   *)
SetAuthorizer(x, b) ==
  /\ authorizer' = [authorizer EXCEPT ![x] = b]
  /\ UNCHANGED <<pc, locals, mu, registry, files, audience, minted, faults,
                 history>>

(* Whether runFrom, entered at start ("" is the entry step), finds both    *)
(* the workflow and the step.                                              *)
CanStart(x, start) ==
  /\ registry[x] # None
  /\ (IF start = None THEN registry[x].entry ELSE start) \in registry[x].steps

(* Engine.Run on a new request.                                            *)
Run(w) ==
  /\ pc[w] = "idle"
  /\ CanStart(ProcOf[w], None)
  /\ Goto(w, "running")
  /\ UNCHANGED <<locals, mu, config, files, audience, minted, faults, history>>

-----------------------------------------------------------------------------
(* ResumeAs, in the order of its calls.  Store.Load of a pointer that is   *)
(* not there, or torn, returns an error and changes nothing.               *)
Load(w, p) ==
  /\ pc[w] = "idle" /\ Unlocked(w)
  /\ p \in dir.parked \ torn
  /\ Goto(w, "loaded")
  /\ ticket' = [ticket EXCEPT ![w] = p]
  /\ granted' = {g \in granted : g[1] # w}
  /\ UNCHANGED <<minting, target, mu, config, files, audience, minted, faults,
                 issued, taken, finished, runs, eaten>>

(* The workflow is registered and still has the suspended step, as a leaf. *)
Locatable(w) ==
  /\ registry[ProcOf[w]] # None
  /\ registry[ProcOf[w]].suspended = "leaf"

Locate(w) ==
  /\ pc[w] = "loaded" /\ Locatable(w)
  /\ Goto(w, "located")
  /\ target' = [target EXCEPT ![w] = registry[ProcOf[w]].onSuccess]
  /\ UNCHANGED <<ticket, minting, mu, config, files, audience, minted, faults,
                 history>>

(* Wrong: without an Authorizer every suspension is open.                  *)
OpenByDefault(w) == ticket[w] \in audience => ~authorizer[ProcOf[w]]

Open(w) == ticket[w] \notin audience

(* An undirected suspension is open; a directed one needs an Authorizer    *)
(* that says yes.                                                          *)
Authorize(w) ==
  /\ pc[w] = "located"
  /\ \/ Open(w) /\ UNCHANGED granted
     \/ /\ ~Open(w) /\ authorizer[ProcOf[w]]
        /\ granted' = granted \cup {<<w, ticket[w]>>}
  /\ Goto(w, "cleared")
  /\ UNCHANGED <<locals, mu, config, files, audience, minted, faults, issued,
                 taken, finished, runs, eaten>>

(* Wrong: the pointer is deleted before the workflow is looked up.         *)
RefuseByDelete(w) ==
  /\ pc[w] = "loaded" /\ ~Locatable(w)
  /\ dir' = [dir EXCEPT !.parked = @ \ {ticket[w]}]
  /\ Persist /\ EndCalls({w})
  /\ UNCHANGED <<mu, config, synced, torn, audience, minted, faults, history>>

(* ResumeAs refuses before it claims: the step cannot be located, or the   *)
(* audience is not satisfied (no Authorizer, a denial, or its own error).  *)
Refuse(w) ==
  /\ \/ pc[w] = "loaded" /\ ~Locatable(w)
     \/ pc[w] = "located" /\ ~Open(w)
  /\ EndCalls({w})
  /\ UNCHANGED <<mu, config, files, audience, minted, faults, history>>

(* Store.Consume, first half: the rename that claims the state file.       *)
ConsumeRename(w) ==
  /\ pc[w] = "cleared" /\ Unlocked(w)
  /\ ticket[w] \in dir.parked
  /\ dir' = Claimed(dir, ticket[w], w)
  /\ Persist
  /\ taken' = taken \cup {ticket[w]}
  /\ Lock(w) /\ Goto(w, "renamed")
  /\ UNCHANGED <<locals, config, synced, torn, audience, minted, faults, issued,
                 finished, runs, granted, eaten>>

(* The rename finds no file: somebody else holds the ticket.               *)
ConsumeMiss(w) ==
  /\ pc[w] = "cleared" /\ Unlocked(w)
  /\ ticket[w] \notin dir.parked
  /\ EndCalls({w})
  /\ UNCHANGED <<mu, config, files, audience, minted, faults, history>>

(* The rename fails, or no suffix could be drawn: nothing was claimed.     *)
ConsumeFails(w) ==
  /\ pc[w] = "cleared" /\ Unlocked(w)
  /\ Fault /\ EndCalls({w})
  /\ UNCHANGED <<mu, config, files, audience, minted, history>>

(* Store.Consume, second half: read the claim back.                        *)
ConsumeRead(w) ==
  /\ pc[w] = "renamed" /\ ticket[w] \notin torn
  /\ Unlock(w) /\ Goto(w, "claimed")
  /\ UNCHANGED <<locals, config, files, audience, minted, faults, history>>

(* Wrong: a claim that cannot be read goes back into the queue.            *)
RequeueUnreadable(w) ==
  /\ pc[w] = "renamed"
  /\ Fault /\ Unlock(w) /\ EndCalls({w})
  /\ dir' = [parked |-> dir.parked \cup {ticket[w]},
             claims |-> dir.claims \ {<<ticket[w], w>>}]
  /\ Persist
  /\ UNCHANGED <<config, synced, torn, audience, minted, history>>

(* The claim cannot be read: ResumeAs returns the error, the claim stays.  *)
ConsumeReadFails(w) ==
  /\ pc[w] = "renamed"
  /\ Fault /\ Unlock(w) /\ EndCalls({w})
  /\ UNCHANGED <<config, files, audience, minted, history>>

(* runFrom is entered at the OnSuccess that was located earlier, but looks *)
(* the workflow up again; a workflow or step it cannot find is an error    *)
(* that ends the run like any other.                                       *)
EnterRun(w) ==
  /\ pc[w] = "claimed"
  /\ \/ /\ CanStart(ProcOf[w], target[w])
        /\ runs' = [runs EXCEPT ![ticket[w]] = @ + 1]
        /\ Goto(w, "running") /\ UNCHANGED eaten
     \/ /\ ~CanStart(ProcOf[w], target[w])
        /\ eaten' = eaten \cup {ticket[w]}
        /\ Goto(w, "returning") /\ UNCHANGED runs
  /\ UNCHANGED <<locals, mu, config, files, audience, minted, faults, issued,
                 taken, finished, granted>>

(* The run completes, trips its breaker or fails.                          *)
FinishRun(w) ==
  /\ pc[w] = "running"
  /\ LeaveRun(w)
  /\ UNCHANGED <<mu, config, files, audience, minted, faults, history>>

(* An action panics and whoever called the engine recovers: nothing in     *)
(* ResumeAs is deferred, so Release is not called.                         *)
Panic(w) ==
  /\ pc[w] = "running"
  /\ Fault /\ EndCalls({w})
  /\ UNCHANGED <<mu, config, files, audience, minted, history>>

(* Store.Release: remove every claim on the pointer.                       *)
Release(w) ==
  /\ pc[w] = "returning" /\ Unlocked(w)
  /\ dir' = [dir EXCEPT !.claims = {c \in @ : c[1] # ticket[w]}]
  /\ Persist
  /\ finished' = finished \cup {ticket[w]}
  /\ EndCalls({w})
  /\ UNCHANGED <<mu, config, synced, torn, audience, minted, faults, issued,
                 taken, runs, granted, eaten>>

ReleaseFails(w) ==
  /\ pc[w] = "returning" /\ Unlocked(w)
  /\ Fault /\ EndCalls({w})
  /\ UNCHANGED <<mu, config, files, audience, minted, history>>

-----------------------------------------------------------------------------
(* A leaf suspends at the top level: newPointer draws an unused pointer    *)
(* and Store.Save writes the state to a temporary file nobody else reads.  *)
SaveWrite(w, q) ==
  /\ pc[w] = "running" /\ Unlocked(w)
  /\ q \in Pointer \ minted
  /\ minted' = minted \cup {q}
  /\ audience' \in {audience, audience \cup {q}}
  /\ minting' = [minting EXCEPT ![w] = q]
  /\ Lock(w) /\ Goto(w, "writing")
  /\ UNCHANGED <<ticket, target, config, files, faults, history>>

(* Wrong: the temporary file is renamed without being flushed.             *)
SaveNoSync(w) ==
  /\ pc[w] = "writing"
  /\ Goto(w, "syncing")
  /\ UNCHANGED <<locals, mu, config, files, audience, minted, faults, history>>

(* The file is flushed, closed and given its permissions.                  *)
SaveSync(w) ==
  /\ pc[w] = "writing"
  /\ synced' = synced \cup {minting[w]}
  /\ Goto(w, "syncing")
  /\ UNCHANGED <<locals, mu, config, dir, disk, torn, audience, minted, faults,
                 history>>

(* The rename that makes the state file appear under its pointer.          *)
SaveCommit(w) ==
  /\ pc[w] = "syncing"
  /\ dir' = [dir EXCEPT !.parked = @ \cup {minting[w]}]
  /\ Persist
  /\ issued' = issued \cup {minting[w]}
  /\ Unlock(w) /\ LeaveRun(w)
  /\ UNCHANGED <<config, synced, torn, audience, minted, faults, taken,
                 finished, runs, granted, eaten>>

(* A step of Save fails; the deferred Remove clears the temporary file and *)
(* the run ends with an error.                                             *)
SaveFails(w) ==
  /\ pc[w] \in {"writing", "syncing"}
  /\ Fault /\ Unlock(w) /\ LeaveRun(w)
  /\ UNCHANGED <<config, files, audience, minted, history>>

-----------------------------------------------------------------------------
WorkersOf(x) == {w \in Worker : ProcOf[w] = x}

(* A process dies and starts again with an engine nobody has configured.   *)
Crash(x) ==
  /\ Fault /\ EndCalls(WorkersOf(x))
  /\ mu'         = [mu EXCEPT ![x] = None]
  /\ registry'   = [registry EXCEPT ![x] = None]
  /\ authorizer' = [authorizer EXCEPT ![x] = FALSE]
  /\ UNCHANGED <<files, audience, minted, history>>

Names(d) == d.parked \cup {c[1] : c \in d.claims}

(* The machine loses power: every process dies, the directory falls back   *)
(* to what is on disk and a file never synced may have lost its contents.  *)
PowerLoss ==
  /\ Fault /\ EndCalls(Worker)
  /\ mu'         = [x \in Process |-> None]
  /\ registry'   = [x \in Process |-> None]
  /\ authorizer' = [x \in Process |-> FALSE]
  /\ dir' = disk
  /\ torn' = torn \cup (Names(disk) \ synced)
  /\ UNCHANGED <<disk, synced, audience, minted, history>>

-----------------------------------------------------------------------------
(* The steps of a call that has begun.                                     *)
Continue(w) ==
  \/ Locate(w) \/ Authorize(w) \/ Refuse(w)
  \/ ConsumeRename(w) \/ ConsumeMiss(w) \/ ConsumeRead(w)
  \/ EnterRun(w) \/ FinishRun(w) \/ Release(w)
  \/ SaveSync(w) \/ SaveCommit(w)

Next ==
  \/ \E x \in Process : \/ Crash(x)
                        \/ \E d \in Definition : RegisterWorkflow(x, d)
                        \/ \E b \in BOOLEAN : SetAuthorizer(x, b)
  \/ \E w \in Worker : \/ Run(w) \/ Continue(w)
                       \/ ConsumeFails(w) \/ ConsumeReadFails(w)
                       \/ Panic(w) \/ ReleaseFails(w) \/ SaveFails(w)
                       \/ \E p \in Pointer : Load(w, p) \/ SaveWrite(w, p)
  \/ PowerLoss

Spec == Init /\ [][Next]_vars

(* Go keeps running a goroutine that can run, and an action that never     *)
(* panics is assumed to return; no request, fault or deployment has to     *)
(* happen.  sync.Mutex hands the lock to a waiter eventually.              *)
Fairness == \A w \in Worker : WF_vars(Continue(w))

FairSpec == Spec /\ Fairness
-----------------------------------------------------------------------------
(* A worker holds a ticket from the rename that claimed it to the Release. *)
Holding(w, p) ==
  /\ ticket[w] = p
  /\ pc[w] \in {"renamed", "claimed", "running", "writing", "syncing",
                "returning"}

(* Types of the state, every directory entry belonging to a drawn pointer. *)
TypeOK ==
  /\ pc \in [Worker -> {"idle", "loaded", "located", "cleared", "renamed",
                        "claimed", "running", "writing", "syncing",
                        "returning"}]
  /\ ticket \in [Worker -> minted \cup {None}]
  /\ minting \in [Worker -> minted \cup {None}]
  /\ target \in [Worker -> Step \cup {None}]
  /\ mu \in [Process -> Worker \cup {None}]
  /\ registry \in [Process -> Definition \cup {None}]
  /\ authorizer \in [Process -> BOOLEAN]
  /\ dir \in [parked : SUBSET minted, claims : SUBSET (minted \X Worker)]
  /\ disk \in [parked : SUBSET minted, claims : SUBSET (minted \X Worker)]
  /\ minted \subseteq Pointer
  /\ synced \subseteq minted /\ torn \subseteq minted
  /\ audience \subseteq minted
  /\ issued \subseteq minted /\ taken \subseteq minted
  /\ finished \subseteq minted /\ eaten \subseteq minted
  /\ faults \in 0 .. MaxFaults
  /\ runs \in [Pointer -> Nat]
  /\ granted \subseteq Worker \X Pointer

(* A resume pointer is single-use (ResumeAs): whatever the resumers, their *)
(* processes, crashes and power losses, at most one run acts on it.        *)
SingleUse == \A p \in Pointer : runs[p] <= 1

(* No approval vanishes (Save, Consume, Release): the pending queue holds  *)
(* exactly the pointers some Save committed and no Consume has taken, so   *)
(* neither a refused resume nor a crash can remove one from it.            *)
QueueExact == dir.parked = issued \ taken

(* "A claim still sitting there" is a precise signal (Consume, Release):   *)
(* a pointer has a claim exactly when a process took it and no Release of  *)
(* it succeeded.                                                           *)
ClaimSignal == {c[1] : c \in dir.claims} = taken \ finished

(* A visible state file is never half-written (Save syncs the temporary    *)
(* file before the rename): a power loss tears no file that has a name.    *)
NeverTorn == Names(dir) \cap torn = {}

(* A directed suspension is resumed only by a worker its Authorizer said   *)
(* yes to, whatever SetAuthorizer does meanwhile (authorize).              *)
AuthorizedOnly ==
  \A w \in Worker, p \in audience : Holding(w, p) => <<w, p>> \in granted

(* The life of a ticket, read off the directory and the workers.           *)
StageOf(p) ==
  IF p \in dir.parked THEN "parked"
  ELSE IF p \in finished THEN "finished"
  ELSE IF p \notin Names(dir) THEN "unissued"
  ELSE IF \A w \in Worker : ~Holding(w, p) THEN "orphan"
  ELSE IF runs[p] = 0 THEN "taken" ELSE "acted"

Abstract == INSTANCE ResumeTicket
              WITH ticket <- [p \in Pointer |-> StageOf(p)]

(* ResumeAs over filestore implements the life of a ticket: no step takes  *)
(* a ticket twice, acts on it twice or puts it back in the queue.          *)
TicketLife == Abstract!Spec

(* A ticket that was taken is settled: its claim is released, or there was *)
(* a fault and the claim is an orphan.  No error path of ResumeAs skips    *)
(* Release, and none, of Consume, Save or Release, leaves the store locked.*)
TakenIsSettled ==
  \A p \in Pointer :
    StageOf(p) \in {"taken", "acted"} ~>
      StageOf(p) = "finished" \/ (StageOf(p) = "orphan" /\ faults > 0)

-----------------------------------------------------------------------------
(* "Validating with a non-claiming Load first lets cases like 'that        *)
(* workflow is no longer registered' be reported without destroying the    *)
(* archive": no claimed ticket ends because its run could not start.       *)
DeploymentEatsNothing == eaten = {}
=============================================================================

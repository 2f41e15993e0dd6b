# A TLA+ verification of cee

`cee` runs *workflows*: graphs of steps that a domain expert writes down (often as a JSON manifest) and an engine
executes, with probes before risky steps, circuit breakers with fallbacks, compensation of what was done, parallel
branches, and runs that park for days waiting for a human decision and are resumed by another process. This directory
holds models of its core, the TLC configurations that check them on small instances, and proofs of the results that
matter most.

Paths and line numbers refer to the repository's root.

## 1. Inventory

| Component | State it keeps | Operations | What is hard about it | What makes it correct |
|---|---|---|---|---|
| Engine (`execution/engine.go`) | registered workflows and policies, store, authorizer, limits (behind an `RWMutex`); per run: position, context, trace, completed steps | `Run`, `runFrom`, `onFailure`, `suspend`, `ResumeAs`, registration | error paths that must or must not reach the breaker; look-ups repeated after a claim; runaways | the answer is the workflow's meaning; structural errors are never absorbed; every call returns |
| Parallel steps (`parallel.go`) | one outcome per branch | fork, wait, join | goroutines, panics, several failures at once | the result does not depend on scheduling |
| Compensation (`compensate.go`) | list of completed compensable steps | `abandon`, `unwind` | compensations that fail, are missing or panic | each tried exactly once, last first, and accounted for |
| Suspension (`suspend.go`) | `State` by pointer | `Save`, `Load`, `Consume`, `Release` | resumers racing, crashes between two calls | single use; no approval vanishes |
| Authorization (`authorize.go`) | the Authorizer | `SetAuthorizer`, `authorize` | replaced while calls are under way | no directed suspension resumed without a yes |
| `filestore` | one file per suspended run, one per claim | the store's, `Orphaned`, `Pending`, `Delete` | several processes, crashes, power loss, I/O errors | files with a name are whole; a claim is a precise signal; the listings lose no approval and no abandoned claim |
| Manifest (`manifest/`) | none | `Load`, `Validate`, cycle search | what validation accepts and the engine then meets | a valid manifest has no dangling step |
| Replay, policy diff (`replay/`, `policydiff/`) | recorded probes | record, play, compare, classify | recording concurrent branches | equal runs compare equal |
| Intent router (`intentrouter/`) | nodes, cached vectors | `RegisterNode`, `SetVectorizer`, `Match` | cache against a replaced vectorizer | scores compare like with like |
| Registry, sandbox (`registry/`, `sandbox/`) | domains, probes by reference | register, look up | ids shared between domains | a registration overwrites nobody else's |
| LLM injector, standard actions (`llminjector/`, `stdlib/`) | none | extract, check types, carry provenance | values of unknown origin in the context | only declared fields get in, with their provenance |
| HTTP API (`httpapi/`) | none of its own | run, resume, pending | an error replacing a result | a parked run can be found by whoever must resume it |
| Diagnostics, scorecard | counters | observer callbacks | called from several goroutines | counters agree with the run |
| Draft, catalog (`draft/`, `catalog/`) | an index of entries; files in `./plugins` | repair loop, lint, find, install | a report that is clean and a file that does not load; an install cut short; a catalog edited after its lint | what is printed or installed can be served |
| Model, embedding and sandbox clients (`llmhttp/`, `embedhttp/`, `satellites/`) | none | one exchange | errors in every shape, an error page in JSON among them | what was not answered is never taken for a yes |
| Bench, command line, wasm, site, examples | little or none | | | see section 8 |

Interactions: the engine calls the store, the authorizer, the sandbox and the observers; several engines, in several
processes, share one `filestore` directory; `httpapi`, `cmd/cee` and a host's own `handle` (router, then injector, then
engine) call the engine; `manifest` and `registry` register workflows with it, possibly while it is serving; the injector, the router
and the sandboxes ask services that may fail in any way; recorders observe all of it.

## 2. Modules

| Module | Models | Extends / instantiates |
|---|---|---|
| `ResumeTicket` | what a resume pointer promises, whatever store keeps it (abstract) | |
| `ResumeProtocol` | `ResumeAs` and `suspend` of many goroutines in many processes over one `filestore` directory | `ResumeTicket` as `Abstract` |
| `ResumeProtocolProofs` | theorems and proofs about `ResumeProtocol` | `ResumeProtocol`, `TLAPS` |
| `MCResumeProtocol` | instances for TLC | `ResumeProtocol` |
| `ClaimScan` | `Pending` and `Orphaned` walking the directory, with the times of files, while others park, claim, release and void | |
| `ClaimScanProofs` | theorems and proofs about `ClaimScan` | `ClaimScan`, `TLAPS` |
| `MCClaimScan` | two processes, two pointers | `ClaimScan` |
| `Engine` | one run and its resumptions: `runFrom`, `runParallel`, `unwind`, `suspend`, `ResumeAs` | |
| `EngineMeaning` | the reference: what a workflow's answer is, by recursion and without scheduling | `Engine` |
| `EngineProofs` | types, ceilings, the escalation of structural errors and exactness of compensation, proved | `Engine`, `LeastNumber`, `TLAPS` |
| `LeastNumber` | every nonempty set of numbers has a least one, proved from the well-foundedness of finite subsets; from it what holds of all numbers up to one, what a recursive function over them is, and that among more places than values two hold one value | `FiniteSetTheorems`, `TLAPS` |
| `MCEngine` | workflows and scripts for TLC | `EngineMeaning` |
| `Manifest` | what `Validate` reports of a file, what `Load` makes of it, `findCycle` | |
| `Delivery` | a manifest's way: drafted or published, linted, installed, loaded, registered item by item, run | `Manifest` |
| `DeliveryProofs` | theorems and proofs about `Manifest`, its cycle search included, and `Delivery` | `Delivery`, `LeastNumber`, `SequenceTheorems`, `TLAPS` |
| `MCDelivery` | some 2000 manifests, two catalog entries, a second domain | `Delivery` |
| `Endpoints` | exchanges with models and sandboxes: how they break, what a body decodes to, verdicts | |
| `Intake` | extraction with provenance, `sandbox.Probe`, the standard actions, and what JSON does to values | `Endpoints` |
| `Replay` | a run recorded, the recording kept or written, and replayed under a program; `Compare` | `Intake` |
| `PolicyDiff` | past events under two versions of a policy, counted | `Replay` |
| `ReplayProofs` | theorems and proofs about `Intake`, `Replay` and `PolicyDiff` | `PolicyDiff`, `FiniteSetTheorems`, `TLAPS` |
| `MCReplay` | versions of an expense policy, contexts, answers of models and sandboxes | `PolicyDiff` |
| `IntentRouter` | `Match` by two measures while nodes and the vectorizer are set | `Endpoints` |
| `IntentRouterProofs` | theorems and proofs about `IntentRouter` | `IntentRouter`, `LeastNumber`, `SequenceTheorems`, `TLAPS` |
| `MCIntentRouter` | two intents of one domain, one of another | `IntentRouter` |
| `Service` | requests over HTTP and in the process, all at once, over one engine, a `MemoryStore` and the recorders | `ResumeTicket` as `Ticket` |
| `ServiceProofs` | theorems and proofs about `Service` | `Service`, `FiniteSetTheorems`, `TLAPS` |
| `MCService` | two requests, a payment that asks somebody and a check that loops | `Service` |

### ResumeProtocol

A worker is a goroutine inside `Engine.Run` or `Engine.ResumeAs`; `pc` is where it is in that call, `ticket` the pointer
it resumes, `minting` the pointer its run is being parked under. The steps follow the calls in order:

    idle -Load-> loaded -Locate-> located -Authorize-> cleared -ConsumeRename-> renamed
         -ConsumeRead-> claimed -EnterRun-> running -FinishRun-> returning -Release-> idle
                                            running -SaveWrite-> writing -SaveSync-> syncing -SaveCommit-> ...

Every early return is an action of its own (`Refuse`, `ConsumeMiss`, `ConsumeFails`, `ConsumeReadFails`, `SaveFails`,
`ReleaseFails`), and so are `Panic`, `Crash` of a process and `PowerLoss`. `Store.mu` (`mu`) is held through `Consume`
and `Save`, whose steps others can observe through the directory; `Load`'s and `Release`'s single directory operations
are atomic steps that need the mutex free. A refused resumption, including one whose workflow is not registered,
changes nothing but the call; a `Load` that finds nothing likewise, so it is not an action at all.

The directory is modelled twice: `dir` as processes see it, `disk` as it would survive losing power. With `SyncDir` the
two are always equal; without it an update may reach the disk with the call or only with a later update, which is what
file systems do with directory updates nobody synced (`filestore` syncs files, never the directory). The variables `issued`, `taken`,
`finished`, `runs`, `granted` and `eaten` are history: no action's guard reads them.

`newPointer` draws 128 random bits and `claimSuffix` 64: the model takes both to be distinct. The workflow is a
definition (`registry`): whether it still has the suspended step as a leaf, what that step's `OnSuccess` is, its entry
step and its step ids, which is all that `ResumeAs` and `runFrom` look up. Only *where* a run stands relative to
its claim matters here; what it does is `Engine`'s subject.

### ClaimScan

What an operator sees of the directory `ResumeProtocol` is about. `file` is what the directory holds for a pointer, `mtime` the
modification time of that file; `call` is what each process's Store is doing, and only its holder of the mutex is in it. `Pending` is
`PendingBegin`, `PendingList`, a `PendingRead` for each name, `PendingReturn`; `Orphaned` likewise, with `OrphanedStat` and `OrphanedRead`
for each claim. Reading a directory is not atomic: `Listings` are the sets of names it may yield when names come and go meanwhile.
What cannot be read is passed over, and for `Orphaned`, whose `Glob` ignores errors, that may be names as well.

`Save`, `Consume`, `Release` and `Delete` are here what they do to names and times, in one step; how they come about is
`ResumeProtocol`'s subject. `Release` does not ask who claimed, in the code as in the model; a claim that nobody releases any more is one
whose process died, whose removal failed or that could not be read back. One clock serves all processes and the file system.
`claimed` is history.

### Engine

Each activation of `runFrom` is a *frame*, named by its path: `<<>>` is the run, `<<1>>` the first sub-workflow its
current step started. `runFrom`'s `depth` is the length of the path. Frames of a parallel step's branches interleave
freely. A frame is walking the loop, waiting for children, unwinding or ended, with the kind of error or success it ended
with: `ok`, `suspended`, `tripped` (`CircuitBreakerTripped`), `plain` (an error of no type of its own: missing
workflow, step or sandbox), and one kind for each type that `bypassesBreaker` lists.

What actions, probes and the resumer answer, which workflow is run and whether there is a store and a sandbox is fixed
by `script` before the run starts, so the only nondeterminism left is scheduling; that is what makes "the answer does not depend on scheduling" a statement about single states.
A context maps fields to values with `None` for "absent", the two failure keys among them.
Compensations of a frame run in its `unwind` phase, one turn of the loop per step. A panic of an action, or of a compensation
that is a leaf, ends the innermost branch above it, or the whole call when there is none. Registered workflows, policies and limits do not change during
a run.

`EngineMeaning` says what a run answers, as a function: one recursive operator, branches evaluated one after the other.
`AnswersItsMeaning` compares every result the interleaved machine can return with it.

### Manifest and Delivery

`Validate` is modelled issue by issue, as a set of `<<severity, kind>>`; where an issue is and how it is worded is left out. `FindCycle` is
the code's three-colour search, node by node and edge by edge: `Visit` is the closure `visit`, `Along` its loop over the edges of a node, `Follow`
the `switch` on the mark of one of them. A visit nests in visits of other nodes only, so no deeper than there are nodes, which is what the recursion counts. `CyclesAreExact` compares it with the definition of a
cycle. `Load` is what it refuses (`Loads`) and the domain it makes (`DomainOf`), with Go's map semantics: of two
entries with one key the last is kept.

`Delivery` follows one manifest. `Reply` is one turn of `draft.Draft`'s repair loop. `Publish`, `Edit`, `runLint`, `runInstall`,
`Written` and `InstallDies` are a catalog's life; `os.WriteFile` truncates first, so an install that dies leaves a plugin cut
short. `runServe` and `RegisterNeighbour` load a file, and `RegisterItem` registers one intent, workflow or policy of it, under
its own lock, so a run may start or go on in between. A run is *walked*: any step may fail, and the properties only ask which references the
run meets. What is registered carries the place of its domain and a run whether its domain was registered whole when it began (`settled`): both
are history. `DeliveryAssumption` says that the lists of a file, the branches of a step among them, are lists. The ceiling on steps is left out of the walk, so that a run that would only end there is seen to come back. A draft,
a catalog and a host meet only through files, so a behaviour has one of the three.

### Endpoints, Intake, Replay and PolicyDiff

A value knows its Go kind, because that is what `encoding/json` changes: an `int` comes back a `float64`, a `[]string` a
`[]any`. `Extract`, `ContextFrom`, the five standard actions, `Probe` and both sandboxes are operators over such values.
`Replay` has the phases intake (extractions, live), running (each branch a frame of its own: asking a probe and taking its
answer are two steps), recorded (optionally persisted as JSON), intake and run again with a `Player`, compared. A frame's `trace` is of
the steps it took itself; what a fan-out brought back is in `joined`, put before it in the result. `passed` (the places of the trace
whose command a container ran to 0, or a service answered with 200, JSON and no other code) and `guessed` are history. `AddExtraction`, `Persist` and
`Begin` are what a host does between the calls of the program: it puts what `Extract` returned into a context, parks it, and calls `Run`; one that
gives up makes no run. `PolicyDiff` runs each past event under two programs with an engine without store or sandbox, as
`policydiff.build` makes it. `Drain` has no ceiling: `OneWayAssumption` says that no step of a version comes back (`Validate` refuses or warns of the others, `NoSilentLoops`), so that
each is visited once at most and the ceiling of 10 000 steps is far; runs that meet it are `Engine`'s subject.

`ReplayReproduces` has exceptions, and each is a fact about the code: branches that share a probe reference
(`SharesProbes`: their verdicts are recorded in completion order), a join that failed on several fields (`ConflictNamed`: the
error names one by map order), numbers that `%v` prints with an exponent once they are a `float64` (`PrintsAlike`), and branches
that write a field with the very number the input has as an `int` (`Restates`, section 6).
`ProgramAssumption` says that programs are valid, each reference leading to a step, and that they leave the marks on
model-derived fields alone, as the handbook's 1.1.2 asks of manifests and hooks (section 6 again), and compare no lists, on which `==` panics
(`ComparesScalars`). `ReplyAssumption`: what a model said is read from JSON, so writing it as JSON changes nothing.

### IntentRouter

One call of `Match` is a sequence of accesses to the router's maps, each under its lock: the vectorizer, the cache, the
vectorizer again, the cache to fill it, and, once the query has its vector, the nodes (`ReadNodes`). The request to the embedding endpoint is
between two of them; other calls, `RegisterNode` and `SetVectorizer` interleave. A vector is the pair of the vectorizer and the text it was made of, a cosine a constant, a score a fraction. `RouterAssumption` says what the constants are: nodes and queries made of
texts, texts of finitely many words, cosines fractions, and `None` neither a vector nor a vectorizer.

### Service

A request is `idle`, then arrives by one of five actions (`Handle`, `Refuse`, `HttpRun`, `HttpResume`, `HttpPending`) and is served
step by step: `Load`, `Authorize`, `Consume`, `Begin` for a resumption, then the loop (`Turn`, `Probe`, `ProbeOutcome`, `Act`, `Trip`,
`Save`, `ReportSuspension`) and `Respond`, which may be lost. Observers are called where the code calls them, outside any lock, so their
counts lag behind, and each call reads anew which recorder is attached, or that none is; `SetAuthorizer` and `SetObserver` happen in between, so a probe and its
outcome may be told to different ones. `Handle` stands for a host in the process, which calls `Match`, then `Run`. Trips that nobody was told of are
history, like `taker`, `parker` and `mishaps`. Callers and pointers are numbered in the order of arrival and drawing, which loses no behaviour and saves the symmetric ones.

## 3. Runs

All within five million states and two minutes.

| Run | Instance | Checks | Shows |
|---|---|---|---|
| `MCResumeCrash` | 2 processes with a worker each, 2 pointers, 2 faults | `TypeOK SingleUse QueueExact ClaimSignal NeverTorn AuthorizedOnly TicketLife` | two resumers race for one ticket; crash, power loss, panic and I/O errors at every point, two of them in a row |
| `MCResumeSettled` | 2 workers of 1 process, 2 definitions, 1 fault | `TakenIsSettled` | while the workflow is redeployed, every claim is released unless there was a fault, and after one it ends released or orphaned; the mutex is never left locked |
| `MCClaimScan` | 2 processes of which one lists, 2 pointers, ages 0 and 1 on a clock that ticks once | `NoneMissed NothingOutOfSight` | every step of both listings against every change of the files, crashes in the middle of a listing, files that cannot be read |
| `MCEngineRuns` | a booking (11 leaves, up to 3 not answering `ok`, 1 resumption); runaways with up to 3 deviations, without store and sandbox; a fan-out of a workflow and a nested fan-out, up to 2 deviations | `TypeOK CompensationExact AnswersItsMeaning RunsReturn StructuralIsNotAbsorbed` | fallbacks, missing policies and steps, compensations that fail or panic, a suspension, a sub-workflow; cycles, self-calls and panicking branches meet the ceilings (7 steps, depth 3); all interleavings of three branches with leaves |
| `MCDelivery` | some 2000 manifests, one or two edits away from a correct one; a catalog of 2 entries; a second domain, sharing an id or not | `TypeOK ValidRunsNeverDangle NoSilentLoops DeliveredServes LintedInstalls CyclesAreExact` | for each edit: what `Validate` says of it against what the engine meets, while registration goes on |
| `MCReplay` | 13 versions of a policy, 3 inputs, 14 answers of a model, 8 of the sandboxes (a 200 without `exit_code` among them), 3 past events | `TypeOK ReplayReproduces NoDecisionOnAGuess FlipsAreDecisions ActsOnlyRehearsed` | recordings with and without JSON in between, two branches in every order, every pair of versions compared |
| `MCIntentRouter` | 2 calls, 2 vectorizers, 2 changes, an endpoint that fails in 4 ways | `OneMeasure` | the cache filled by one call and read by another, nodes registered in the middle of a call |
| `MCService` | 2 requests over 3 pointers, one run already parked, 1 change of the configuration | `TypeOK AnswersAreTrue CountersAgree TicketLife EveryRequestEnds` | two requests race for one ticket, resume what the other parked, panic, lose answers; the recorder or the authorizer changes under them, no recorder at all among the choices |
| `MCResumeEaten`, `MCEngineReplayed`, `MCEngineForgotten`, `MCEngineDistinct` | | one property each | the disagreements of section 6 |

**Bounds.** Two workers are enough for every race the protocol has: a ticket has one file, and a third contender only
repeats what the second one does. Two pointers are what a run that resumes one ticket and parks under another needs.
Two faults allow a fault during the recovery from a fault. The theorems of section 5 remove these bounds for
safety. In `Engine`, three deviating answers reach a failing step, a failing fallback and a failing compensation in one
run, and two reach every pair of error kinds in two branches of a fan-out; the step ceiling is the longest way through the booking plus one, so that only
cycles meet it. A manifest's checks look at one reference or one graph at a time, so single edits of a base that has every
kind of step reach each issue, and pairs of edits build the cycles across two steps or two workflows. In `MCReplay` two branches with two and
one probes have all interleavings a recorder can tell apart. Two calls of `Match` are what one cache entry made by another call needs, and two
requests what one ticket needs; in `MCClaimScan` the clock has a young, an old and a just old file, and two pointers are what a listing that stops too early needs; three pointers leave one for each request besides the parked run. `MaxChanges` bounds
changes of the configuration, `MaxEntries` the catalog, `MaxTime` the clock, `DefaultMaxAttempts` and `MaxDepth` are the code's own. `MaxResumes` bounds resumptions of one run; `MaxFaults` bounds faults, and both appear in guards only.

**Deadlock** is checked in the resume runs: some call can always be made. It is off in the engine runs, where a finished
run is the end of the behaviour; that a run finishes is what `RunsReturn` is for. It is off in `MCDelivery`, `MCReplay` and
`MCService` for the same reason (a walk, a comparison, the last request ends; `EveryRequestEnds` checks that it does), off in
`MCClaimScan`, as a step of the bounded clock is all that a directory of used-up pointers may have left, and on
in `MCIntentRouter`, where the only state without another step is that every call returned (`Done`).

**Fairness.** `FairSpec` asks weak fairness of each worker's steps inside a call: Go keeps running a runnable goroutine,
and an action is assumed to return. Nothing makes a request arrive, a fault happen or a deployment take place.
Weak fairness suffices for the mutex because finitely many pointers are drawn in an instance, so the other workers take the
lock finitely often; in Go, `sync.Mutex`'s starvation mode hands it to a waiter in any case. `Engine`'s
`Spec` asks weak fairness of `Next`: as long as any goroutine of the run can move, one does. `Service`'s `Spec` asks weak fairness
of each request's own steps: `net/http` runs every handler in a goroutine and nothing it waits for is held across a step. Nothing
makes a caller come.

## 4. Properties and what they are for

* `SingleUse`, `TicketLife`: no two resumers act on one approval, whatever the crash; a ticket only moves forward.
* `QueueExact`, `ClaimSignal`: a pending approval leaves the queue only by being claimed, and a claim is there exactly
  while somebody took the work and did not finish it. This is what an operator relies on when judging orphans.
* `NoneMissed`, `NothingOutOfSight`: an operator who calls `Pending` and then `Orphaned(0)` has seen every approval that was
  waiting, whatever moved in between, and an abandoned claim of the asked age is never left out.
* `NeverTorn`: no reader and no restart sees a half-written state.
* `AuthorizedOnly`: the Authorizer's yes belongs to the call that uses it.
* `TakenIsSettled`: no path of `ResumeAs` forgets the claim or the lock.
* `CompensationExact`: compensations are tried once each, in reverse, after everything else the frame did, and only by
  frames that were abandoned.
* `StructuralIsNotAbsorbed`: a runaway, a conflict or a panic is never turned into a business failure on the way up.
* `AnswersItsMeaning`: outcome, context, trace, and the account of compensations, for every schedule.
* `RunsReturn`: every call comes back.
* `ValidRunsNeverDangle`: what `Validate` passes never meets a missing step, workflow, policy or compensation, whatever fails
  and whatever else is registered meanwhile; its premise (`Sound`) names what a second domain can break.
* `NoSilentLoops`: a run comes back to a step only through a fallback and only if that was warned of, and nests no deeper than there are workflows.
* `DeliveredServes`, `LintedInstalls`: what was accepted can be used, by the command that uses it next.
* `CyclesAreExact`: `findCycle` finds a cycle exactly when there is one, and what it reports is one.
* `ReplayReproduces`: recorder, player and comparison together are the identity on an unchanged program.
* `NoDecisionOnAGuess`: provenance survives branches, JSON and replay, and from `std.require_verified` on a guess a run goes on to the
  fallback or not at all.
* `ActsOnlyRehearsed`: no failure of a sandbox is taken for a healthy rehearsal, and no rehearsal of an earlier visit of a step serves a later one. It does not say
  that the command ran: a service that answers 200 and says nothing of it passes (section 6).
* `FlipsAreDecisions`: the counts of a diff are those of the decisions, and its errors, on both sides, those of the runs.
* `OneMeasure`: one `Match` never compares vectors with words, nor with nodes the domain never had together.
* `AnswersAreTrue`: who is told what, against who took and who parked, however many requests race.
* `CountersAgree`: observed rates are rates at every moment, and no trip is counted twice or lost, whichever recorder is attached.
* `EveryRequestEnds`: no request hangs.

Each has a mutant in `PROJECT.json`: a definition of the model replaced by a plausible bug (marked `Wrong:` in the
modules), under which the run reports the property violated.

## 5. Proofs

`ResumeProtocolProofs` holds for **every** set of processes, workers and pointers, every assignment of workers to
processes, every set of definitions and every number of faults. `ServiceProofs` holds for every set of numbered callers and pointers,
every set of workflows and of runs already parked, and any number of configuration changes; `DeliveryProofs` for every manifest, catalog, library of
actions and host; `ReplayProofs` for every set of programs, inputs, past events and schemas and every answer of models and sandboxes; `ClaimScanProofs` for every set of processes and pointers, all ages and a clock of any length. `IntentRouterProofs` for every set of callers, nodes, vectorizers, cosines and words; `EngineProofs` for every set of workflows and policies, recursive ones
included, every answer of actions and probes, every ceiling and every scheduling of branches.

| Theorem | States | Assumes |
|---|---|---|
| `TypeCorrect` | `Spec => []TypeOK` | |
| `PointersAreSingleUse` | `Spec => []SingleUse` | `SyncDir` |
| `NoApprovalVanishes` | `Spec => []QueueExact` | `SyncDir` |
| `ClaimsAreSignals` | `Spec => []ClaimSignal` | `SyncDir` |
| `ImplementsTicket` | `Spec => TicketLife` | `SyncDir` |
| `DirectedIsAuthorized` | `Spec => []AuthorizedOnly` | |
| `VisibleFilesAreWhole` | `Spec => []NeverTorn` | |
| `ServiceProofs`: `AnswersHold` | `Spec => []AnswersAreTrue` | `ServiceAssumption` |
| `ServiceProofs`: `MemoryStoreImplementsTicket` | `Spec => TicketLife` | `ServiceAssumption` |
| `ServiceProofs`: `ServiceTypes` | `Spec => []TypeOK` | same |
| `ServiceProofs`: `CountsHold` | `Spec => []CountersAgree` | same |
| `DeliveryProofs`: `ValidLoads` | `OK(Validate(file)) => Loads(file, Actions(file))` | |
| `DeliveryProofs`: `DeliveredIsServable` | `Spec => []DeliveredServes` | |
| `DeliveryProofs`: `LintIsEnough` | `Spec => []LintedInstalls` | |
| `DeliveryProofs`: `ValidRunsAreSafe` | `Spec => []ValidRunsNeverDangle` | `DeliveryAssumption` |
| `DeliveryProofs`: `CyclesFound` | `Spec => []CyclesAreExact` | same |
| `DeliveryProofs`: `LoopsAreAnnounced` | `Spec => []NoSilentLoops` | same |
| `DeliveryProofs`: `DeliveryTypes` | `Spec => []TypeOK` | same |
| `ReplayProofs`: `GuessesDecideNothing` | `Spec => []NoDecisionOnAGuess` | `ProgramAssumption`, `ContextAssumption`, `MarksAssumption`, `NoneAssumption` |
| `ReplayProofs`: `ReplayTypes` | `Spec => []TypeOK` | the same as `GuessesDecideNothing` and `ReplyAssumption` |
| `ReplayProofs`: `RehearsedFirst` | `Spec => []ActsOnlyRehearsed` | the same as `GuessesDecideNothing` |
| `ReplayProofs`: `ReplaysAgree` | `Spec => []ReplayReproduces` | the same as `ReplayTypes`, `WantedAssumption` and `ConflictAssumption` |
| `ReplayProofs`: `ReportIsTrue` | `DiffSpec => []FlipsAreDecisions` | `DiffAssumption`, `ConflictAssumption`, `NoneAssumption` |
| `EngineProofs`: `TypeCorrect` | `Spec => []TypeOK` | `LimitAssumption`, `WorkflowAssumption` |
| `EngineProofs`: `StructuralErrorsEscalate` | `Spec => StructuralIsNotAbsorbed` | same |
| `EngineProofs`: `CompensationIsExact` | `Spec => []CompensationExact` | same |
| `IntentRouterProofs`: `MeasuresDoNotMix` | `Spec => []OneMeasure` | `RouterAssumption` |
| `ClaimScanProofs`: `OrphanedMissesNone` | `Spec => []NoneMissed` | `ScanAssumption` |
| `ClaimScanProofs`: `ApprovalsStayInSight` | `Spec => []NothingOutOfSight` | same |

The assumption `SyncDir` is necessary: with `SyncDir = FALSE` TLC violates `SingleUse` within seconds (Consume, power
loss, a second resume).

*Types.* `TypeOK` needs `TicketsHeld` (a call past `Load` has a pointer, a `Save` has one to save under) to be inductive.

*Single use.* `SingleUse` alone says nothing about who may still call `runFrom`. The inductive invariant `IInv` adds that the
disk agrees with the directory (`Durable`), that a ticket passes save, claim and release in order (`Order`), that claim
files are exactly the taken and unreleased tickets (`ClaimsAreTaken`), that a worker past the rename holds such a ticket
(`HoldersTook`) and is the only one to (`OneHolder`: the rename has one winner), that pointers being saved are fresh
(`SavesAreFresh`), and that a ticket whose claim was just read has not been acted on (`RunsOnce`). Most actions are *quiet*: they
move nothing on disk and bring no worker closer to a ticket. `QuietSteps` shows which, `QuietKeeps` that the
invariant survives them, and five lemmas treat the steps that are not: `ConsumeRename`, `EnterRun`, `Release`, `SaveWrite`,
`SaveCommit`.

*Refinement.* The stage of a ticket is read off the directory; `StageIsHistory` shows that the invariant makes it a function of
the history alone, and `QuietAdvances` and `LoudAdvances` that each step moves each ticket along `ResumeTicket`'s arrows.

*Whole files.* `WholeInv`: names, in the directory and on disk, belong to flushed files. It does not need `IInv`.

*Authorization.* `AInv`: a call past `authorize` on a directed suspension has a grant since its `Load`. A crash ends the call,
and an audience cannot be added to a pointer that was already drawn.

*Listings.* The invariant says that a claimed file was modified before it was claimed (`Dated`), what a call in progress has accounted for (`CallInv`:
each file it owes an answer about is still to be looked at, in hand, reported or unread) and what a finished pair of calls knows
(`SightInv`). Files only move on (`Forward`: parked, claimed, gone), so whatever `Pending` did not find parked it need not find again, and is due in
`Orphaned` if it is claimed (`Asked`); nothing that runs do disturbs the rest (`RunsKeep`), and a step of one Store touches that Store alone (`Alone`).

*Service.* `AnswersAreTrue` says nothing of requests under way. `IInv` ties each request to the tickets by where it is
(`RequestInv`: before `Consume` it holds nothing and after it the ticket is its own; it has a `made` pointer from `Save` on)
and each ticket to its two requests (`TicketInv`). `PlainGoes` shows that all steps but an arrival, a `Consume` that succeeds and a `Save` leave
the tickets alone and take one request on (`Onwards`); `GoingKeeps` and `GoingAdvances` treat those at once, and a pair of lemmas
each of the others. `ServiceAssumption` says that callers and pointers are numbers, that what is parked at the start is a run of this process at a step its flow
has (a `MemoryStore` keeps nothing longer), and that `None` is none of the values it is compared with. Types need `FlowInv`: a request
that holds a state stands at a step of its flow, from `Load` through the loop to `Save`, whose parked run can then be taken up again.
For the counts, `CountInv` says of each counter that it is the cardinality of a set of requests, told by where they are: those that ended a certain way and
whose observer has been called. A step moves one request into one such set (`Joining`) or none; `Told` adds the row of the recorder that was told, or of none.

*Delivery.* `CleanStepBuilds` goes through the types of a step: each condition under which `buildStep` refuses is an error of
`Validate`, once the action is known. `LintIsEnough` needs that the catalog is a list of entries and that every
change of it forgets the lint (`IndexInv`); that no name repeats makes the first entry of a name the entry itself.
`ValidRunsAreSafe` needs to know what the host has registered: what is pending is the tail of the last domain's items (`QueueInv`), whatever is
registered came from a domain that is hosted (`EngineInv`), and of each domain everything before the tail is there, a policy as its last entry says
(`GivenInv`). `CleanFile` and `HomeLeads` link the other side: the references a file without errors makes are to what it defines itself. With ids
used once, the frames of a run then stay in the file it began in (`WalkInv`), and a look-up there cannot fail.

*Graphs.* `SearchIsExact` is about any graph of finitely many nodes. A search is `Proper` while it closed no cycle: the nodes on the stack are those
of the path, which follows edges, and a node that is done leads to nodes that are done. `Went` says what following edges makes of it: a closed cycle, or a
proper search with the same path, the same marks wherever there was one and all the edges' ends done. `Visits` says it of the `k`-th nesting for every search that
has at most `k` nodes unvisited, and holds of all `k` by `Climb`. At the end either a cycle is closed, or everything is
done and no set of nodes can have a successor each among them: `OrderOf`, that of the set, which was done first.

*Loops.* What a run has behind it is read off the graphs that `Validate` searched: every step a frame visited leads to another it visited or to where it
is (`Trail`), by `on_success` alone if it took no fallback, and every frame was called from the one below it (`Nested`). When a frame comes back to a step, the visited
steps are a set in which each has a successor, a cycle by definition, so `CyclesFound`'s lemma gives the warning or the error; `NestingBound` finds a
workflow twice in a stack deeper than the file has workflows (`TwoAlike`) and the cycle between the two.

*Replay.* `JsonKeepsMarks` and `ContextFromMarks` say what the marks survive before a run, `Acts` that no step of a program that leaves them
alone changes them and that `std.require_verified` errs on a marked field, `HealthyPassed` that a healthy verdict is one of a command
that a container ran to 0 or of a service's 200 in JSON with no other code, through every shape of an exchange. `IInv` says that every frame carries the marks of the input (`FrameOK`, through `JoinKeeps` also after
the join of branches that each brought them along), and that a frame which goes on from a step it may not act on stands at that step's fallback
(`GoesAround`: the property alone only sees the step after). For probes, a verdict in hand that does not refuse belongs to the visit that
is next in the trace (`Proven`). `ReplayTypes` rests on `OfKeeps` (a queue is read off a recording by a recursive function) and `Queues` (a recorded
reference has a queue, and it is not empty), and on `RestFull`: a player never takes the last answer away. `AdvanceGoesAround` then serves both theorems: what is taken after a refusal or an error is the fallback or the end.

*Repeats.* `ReplayReproduces` relates two runs that are never there together, with JSON between them or not. The recorded one is kept in the
invariant as *courses*: one of the program and, after a fan-out, one of each branch, each a sequence of turns that hear a verdict or move on (`Course`,
`Turn`, `Rejoined`), which as long as the run lasts end at its frames (`Twin`). No two branches ask for one reference (the premise `SharesProbes` excludes), so
what a branch heard is in the log in its own order however the branches interleaved: the log holds of each reference as many verdicts as its courses used
(`Balanced`). In the replay, `RepeatInv` has every frame at a place of its course (`Follows`), and in each queue of the player what the log has from that place
on (`Queued`); a turn of a frame there takes the answer its course took and moves to the next place, so nothing is unmatched. Contexts are not equal but `Alike`,
the same for `Json` and for printing, on which actions and verdicts cannot tell them apart (`ActsAlike`). A join does tell, as it compares a branch's fields with what the
branch began from: `Held` says that a field is as it began in both runs or the same, written, in both, which is where `PrintsAlike` and `Restates` are needed
(`HeldStep`), and `JoinMirrors` that the joins then agree, up to the field a conflict names. `HearingInv` says the same of the extractions, `RunningInv` of the recorded run,
`AfterInv` of what comes after. `ConflictAssumption` says that an error naming a conflict is not the absence of one.

*Diff.* What classifies an event is the set of names of what differs; `Differs` and `Classified` relate that set to the decisions and explanations
themselves, which holds only as the engine's own keys are no business fields (`DiffAssumption`). `OneEnd` says that a version makes one thing of an event,
except that a failed join may name any of the fields in conflict (a Go map's order), and then errs in any case: so the error counts need no
exception. `DiffInv` has the report event by event, and `EventCounts` adds one (`ErringGrows`, for the errors of either side). `DiffKeepsSpec` shows that the theorems about `Replay` hold beside a diff.

*Router.* Fractions are a strict order (`Ordered`, `AboveAll`), and `Leads` says what a fold over the first `n` examples has: the first of the
highest scores among them, or nothing above zero. One example more keeps it (`BetterLeads`), and over all examples it is the match (`LeaderIsBest`). That the
recursive functions, the flattened examples and the fold by words, exist and are what they say is shown by the least number for which they would not
(`FlattenExists`, `BestExists`). `FrameInv` then says of a call that it has compared
a beginning of the examples which the domain had at one
moment since the call began (`Comparing`), before that that it seeks the query's vector (`Seeking`) or has it and is to read the nodes (`Embedded`), and after it what was answered (`Answered`); `CacheInv`, that
every vector in the cache is the present vectorizer's, which a vectorizer set where there was none cannot break: no vector was made before. A
registration only lengthens a domain's list, so what was known stays a beginning of it (`AppendLonger`, `RegisterIInv`).

*Engine.* `EInv` says of each frame that it is well formed (`FrameOK`) and where it may be (`Placed`): its path is no longer than
the depth ceiling allows, and the frame one level up exists, waits, and started at least that many sub-workflows. `TakesOrStarts` reduces
eight of the ten actions to two shapes, taking a frame on and starting children; `AwaitKeeps` uses that a child that
is brought back has ended and so has nobody below it, `PanicKeeps` that clearing a branch clears everything below it. Escalation follows: a
waiting frame is only touched by its own join, by a panic that ends or clears it, or by the end of the call, and
`JoinEscalates` (the first structural error wins, which needs `Least`) and `ReturnEscalates` say what the join makes of a structural error.
`WorkflowAssumption` says that the branches of a parallel step are a list.

*Compensation.* `CompensationExact` speaks of ended frames. `CInv` says of every frame that its log of effects is what it completed,
followed by the undoing of the last `k` completed steps (`Log`), where `k` is 0 while it walks or waits, what unwinding has left behind while it
unwinds, and all or nothing when it has ended, by its kind. Each operator that makes a frame of another has its lemma; the one with
arithmetic in it is `OneMore`, a turn of `unwind`'s loop.

**Only model-checked.** Liveness (`TakenIsSettled`, `RunsReturn`, `EveryRequestEnds`): TLAPS has no rules for fairness
here. `AnswersItsMeaning`: what `EngineMeaning`'s recursive operator computes is out of the prover's reach (it
would need induction over data, and the prover's SMT backend is lost behind `RECURSIVE`).

## 6. Where code and documentation disagree

The first four are runs that end in a counterexample (`expect: violation`), with the quoted line in `PROJECT.json`.

1. `MCResumeEaten`: `runFrom` looks the workflow up a second time after the claim; a deployment in between
   destroys the approval that the validating `Load` was to protect.
2. `MCEngineReplayed`: `OnSuccess = ""` on a suspending step restarts the workflow at its entry when resumed.
3. `MCEngineForgotten`: steps completed before a suspension are not compensated when the resumed run is abandoned.
4. `MCEngineDistinct`: two branches that each recover through a fallback conflict on the failure keys.

Four more are visible in the models without a run of their own:

5. What `Orphaned` gives as the time of a claim, and measures `minAge` from, is when the state was saved (`OrphanedStat`,
   `filestore.go:185-194`): `Consume` renames, and a rename keeps a file's time. A run parked for days and claimed a second ago is reported as abandoned,
   while 5.8 says that `Orphaned` surfaces "when it was claimed" and `filestore_test.go:435` that "an in-flight run must not be reported
   as an orphan". Nothing abandoned is missed for it (`OrphanedMissesNone`).
6. A claim is a rename whose directory nobody syncs; after losing power it may be undone and the pointer used again
   (`MCResumeCrash` with `SyncDir = FALSE`), while the specification's 5.5 calls the pointer single-use.
7. `Release` is not deferred (`engine.go:443`), so a panic that the caller recovers leaves a claim in a process that did
   not die (`Panic`), while 5.8 says the only path that skips `Release` is the process dying.
8. A `State` carries the trace of its own segment only (`Reply`); after a second suspension the first segment's is gone,
   while 5.5 describes the trace as one continuous line.

Others met while modelling that no run of its own settles; most are the premises of section 2 or hazards in `PROJECT.json`:

9. `policydiff.build` gives its engine no store (`policydiff.go:157-165`): a decision that changes only before or after a `std.suspend` fails the same way in
   both versions and counts as unchanged, while the report says "Every one produced an identical outcome" (`policydiff.go:209`).
10. Workflow and policy ids are global (`engine.go:161-171`): a second domain that uses an id replaces the first one's. Intents are visible before
   the workflows they lead to (`registry.go:27`). `ValidRunsNeverDangle` needs both excluded.
11. `Validate` does not ask that what compensates is a leaf (`validate.go:144`) nor that a `workflow_id` is used once
    (`validate.go:70`); manifests that only share ids between each other's sub-workflows pass it, and so do cycles through two
    manifests.
12. `catalog.Install` writes in place (`catalog.go:183`); a plugin cut short is refused by `Load`, not by `cee install`.
13. With hook names given, `draft.Draft` skips the load check (`draft.go:64`): an invented action name passes.
14. A sandbox that answers 200 with JSON that has no `exit_code` counts as healthy (`httpsandbox.go:114`): the zero of the field
    is success. `ActsOnlyRehearsed` therefore says
    what such a service answered, not that it ran the command.
15. `vectorFor` reads the vectorizer again (`router.go:170-180`): `SetVectorizer(nil)` during a `Match` panics, and vectors of a replaced
    vectorizer stay in the cache. `OneMeasure` holds as long as none was replaced.
16. `cee.resumed_by` stays in the context (`engine.go:438`): if a run suspends twice and an unidentified caller resumes it the
    second time, the first approver's name is still there.
17. Over HTTP, 422 "could not be run" also answers a run that acted and then met its ceiling or a missing step, and
    `/v1/pending` leaves the pointers out (`httpapi.go:134`), so a lost response to a suspension loses its pointer.
18. Two branches that probe one reference are recorded in completion order (`replay.go:62`), and a player repeats the last verdict when
    asked more often than recorded (`replay.go:133`).
19. `a == b` in `stdlib.go:162` panics on arrays and maps, which JSON may put in a context.
20. `std.set` writes any key and `std.rule_check` any `result_field` (`stdlib.go:40-60`, `93-112`), `cee.model_derived` among them, and neither `Validate`
    nor `Load` refuses it: a manifest can unmark a field, while the handbook says "no standard action that 'marks a field as verified'
    exists" (`docs/NORMATIVE_HANDBOOK.md:72`). `LeavesMarks` excludes such programs.
21. Whether a branch wrote a field is `reflect.DeepEqual` (`parallel.go:176`), which tells the `int` of a caller from the `float64` of a manifest. Two
    branches that set a field, one to the number the input has and one to another, conflict on an input kept in memory and do not once it has been
    through JSON (the first then wrote nothing): the replay of an unchanged program may come out differently. `ReplayReproduces` excepts
    such programs (`Restates`; the program `Restating` of `MCReplay` is one).

## 7. Plan

In place: the suspension protocol over `filestore` and over `MemoryStore`, both proved against `ResumeTicket`; the listings of the directory; the engine, its
meaning and its proofs; manifests from draft to run; recordings, their replays and diffs, proved; the router, proved; the service. Left: the HTTP
requests of `Service` over `filestore` in several processes, and who can learn a pointer after each failure.

## 8. Not modelled

* The clock stepping back, and clocks that differ between processes and a network file system: `Orphaned` compares the two.
* Wording, rendering and log texts: the Markdown of a diff, the tables of `diagnostics` and `scorecard`, prompts. Gap attribution and
  recurrence of `scorecard` are arithmetic over counters that `Service` has.
* `checkPointer` and file permissions: what a pointer may look like is not part of the protocol; every drawn pointer passes.
* Hosts: what calls the program is modelled from what it can call (`Replay`'s `AddExtraction`, `Persist` and `Begin`, `Service`'s `Handle`).
* `SetLimits` and `RegisterProber` during a run; registration during a run is in `Delivery`.
* Nested values shared between branches, arrays compared with arrays: contexts are flat, values are compared as sets.
* `Player.Fallback` and recordings edited by hand.
* Bodies of HTTP requests, limits on their size, JSON shapes: a body is malformed or it is not.
* `bench`: a pure fold over a corpus, without a state; one unreadable entry ends the whole command (`cmd/cee/main.go:250-276`).
* The command line and wasm front ends beyond the paths that change files or decide; WebAssembly hooks, which are actions with an
  answer or an error; the site generator and the examples, which are not part of the program.

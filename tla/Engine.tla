------------------------------- MODULE Engine -------------------------------
(***************************************************************************)
(* execution.Engine walking a workflow: Run, the loop of runFrom over      *)
(* leaf, composite and parallel steps, circuit breakers, compensation,     *)
(* suspension and ResumeAs, for one run and its resumptions.               *)
(*                                                                         *)
(* Every activation of runFrom is a frame, named by its path from the run: *)
(* <<>> is the run itself and f \o <<i>> the i-th sub-workflow its current *)
(* step started, so the depth of a frame is the length of its path.        *)
(* Branches of a parallel step are goroutines: their frames interleave.    *)
(*                                                                         *)
(* What the environment answers is chosen once (script), so that a run     *)
(* differs from another only by scheduling.  A context maps each field to  *)
(* a value, None when absent; a reason under cee.failure_reason is as      *)
(* precise as the kind of failure.                                         *)
(***************************************************************************)
EXTENDS Naturals, Sequences, FiniteSets
LOCAL INSTANCE SequencesExt

CONSTANTS
  Workflows,   \* registered workflows: [id -> [entry, steps : [id -> step]]]
  Policies,    \* registered policies: [ref -> FallbackStepRef or None]
  Fields,      \* fields actions write
  Scripts,     \* the environments a run may meet
  MaxSteps, MaxDepth,
  MaxResumes,  \* bound on the resumptions of one run
  FailureReasonKey, FailedStepKey,
  None

(* A step: [type, onSuccess, policy] and                                   *)
(*   leaf:      probe (BOOLEAN), compensate, writes : <<field, value>>     *)
(*   composite: sub                                                        *)
(*   parallel:  branches (sequence of workflow ids)                        *)
(* A script: root, the workflow Run is called with; store and sandbox,     *)
(*   whether the engine has them (BOOLEAN); act : [step -> Answers] and    *)
(*   healthy : [step -> BOOLEAN], what actions and probes answer;          *)
(*   resolution : context, what a resumer brings to ResumeAs.              *)
Answers == {"ok", "error", "suspend", "panic"}

ASSUME LimitAssumption ==
  /\ MaxSteps \in Nat \ {0} /\ MaxDepth \in Nat \ {0} /\ MaxResumes \in Nat
  /\ {FailureReasonKey, FailedStepKey} \cap Fields = {}

ASSUME WorkflowAssumption ==
  \A wf \in DOMAIN Workflows : \A id \in DOMAIN Workflows[wf].steps :
    LET s == Workflows[wf].steps[id]
    IN s.type = "parallel" => /\ Len(s.branches) \in Nat
                              /\ DOMAIN s.branches = 1 .. Len(s.branches)

VARIABLES
  script,      \* the environment of this run
  frames,      \* live activations of runFrom, by path
  saved,       \* the State in the store, or None
  result,      \* what Run or ResumeAs last returned, or None
  resumes,     \* resumptions so far
  visited      \* history: steps the run itself visited, over all segments

vars == <<script, frames, saved, result, resumes, visited>>

NoContext == [k \in Fields \cup {FailureReasonKey, FailedStepKey} |-> None]

Merge(base, overlay) ==
  [k \in DOMAIN base |-> IF overlay[k] = None THEN base[k] ELSE overlay[k]]

-----------------------------------------------------------------------------
(* Frames.                                                                 *)

End(fr, kind) == [fr EXCEPT !.phase = "end", !.kind = kind]

(* runFrom's checks before its loop: depth, registration, entry step.      *)
Enter(wf, start, ctx, depth) ==
  LET fresh == [wf |-> wf, at |-> start, ctx |-> ctx, steps |-> 0,
                trace |-> <<>>, done |-> <<>>, left |-> 0,
                undone |-> <<>>, failures |-> <<>>, effects |-> <<>>,
                phase |-> "walk", kind |-> None]
  IN CASE depth > MaxDepth -> End(fresh, "depthLimit")
       [] depth <= MaxDepth /\ wf \notin DOMAIN Workflows -> End(fresh, "plain")
       [] OTHER -> IF start = None
                     THEN [fresh EXCEPT !.at = Workflows[wf].entry]
                     ELSE fresh

(* Wrong: conflicting writes are left to the breaker.                      *)
BypassingNoConflict == {"stepLimit", "depthLimit", "nested", "noStore",
                        "noBranches", "panicked"}

(* Errors that bypass the circuit breaker.                                 *)
Bypassing == {"stepLimit", "depthLimit", "nested", "noStore", "noBranches",
              "conflict", "panicked"}

StepsOf(fr) == Workflows[fr.wf].steps
StepAt(fr)  == StepsOf(fr)[fr.at]

(* abandon: the completed steps are unwound, unless there are none.        *)
Abandon(fr) ==
  IF fr.done = <<>>
    THEN End(fr, "tripped")
    ELSE [fr EXCEPT !.phase = "unwind", !.left = Len(fr.done)]

(* onFailure: the policy's fallback, or the run is abandoned.              *)
OnFailure(fr, why) ==
  LET ref == StepAt(fr).policy
  IN IF ref \in DOMAIN Policies /\ Policies[ref] # None
       THEN [fr EXCEPT !.phase = "walk", !.at = Policies[ref],
                       !.ctx[FailureReasonKey] = why, !.ctx[FailedStepKey] = fr.at]
       ELSE Abandon(fr)

(* A step that succeeded with these additions to context and trace.        *)
Succeed(fr, ctx, trace) ==
  [fr EXCEPT !.phase = "walk", !.at = StepAt(fr).onSuccess,
             !.ctx = ctx, !.trace = @ \o trace]

Output(ctx, step) ==
  IF step.writes = None
    THEN ctx
    ELSE [ctx EXCEPT ![step.writes[1]] = step.writes[2]]

(* A leaf whose action returned: what it did can be undone by the step it  *)
(* names, if it names one.                                                 *)
Complete(fr) ==
  LET s == StepAt(fr)
      after == Succeed(fr, Output(fr.ctx, s), <<>>)
  IN IF s.compensate = None
       THEN after
       ELSE [after EXCEPT
               !.done    = Append(@, [step |-> fr.at, by |-> s.compensate]),
               !.effects = Append(@, <<"did", fr.at>>)]

(* suspend: only at the top level, and only with a store.                  *)
Suspend(fr, depth) ==
  CASE depth > 0 -> End(fr, "nested")
    [] depth = 0 /\ ~script.store -> End(fr, "noStore")
    [] OTHER -> End(fr, "suspended")

-----------------------------------------------------------------------------
(* The join of runParallel.                                                *)

(* What a branch changed of the context it was given.                      *)
Delta(before, after) ==
  {k \in DOMAIN after : after[k] # None /\ after[k] # before[k]}

(* Wrong: outputs are compared, instead of what each branch changed.       *)
ConflictingOutputs(ctx, ends) ==
  \E i, j \in DOMAIN ends :
    \E k \in DOMAIN ctx : ends[i].ctx[k] # ends[j].ctx[k]

Conflicting(ctx, ends) ==
  \E i, j \in DOMAIN ends :
    \E k \in Delta(ctx, ends[i].ctx) \cap Delta(ctx, ends[j].ctx) :
      ends[i].ctx[k] # ends[j].ctx[k]

(* The incoming context with every branch's changes.                       *)
Joined(ctx, ends) ==
  [k \in DOMAIN ctx |->
     LET writers == {i \in DOMAIN ends : k \in Delta(ctx, ends[i].ctx)}
     IN IF writers = {} THEN ctx[k]
        ELSE ends[CHOOSE i \in writers : TRUE].ctx[k]]

Traces(ends) == FlattenSeq([i \in DOMAIN ends |-> ends[i].trace])

(* What a parallel step makes of its branches' ends, in declaration order: *)
(* the first structural error wins, then business failures go to the       *)
(* breaker, then conflicting writes are refused.                           *)
Join(fr, ends) ==
  LET bypassing == {i \in DOMAIN ends : ends[i].kind \in Bypassing}
  IN IF bypassing # {}
       THEN End(fr, ends[CHOOSE i \in bypassing :
                           \A j \in bypassing : i <= j].kind)
     ELSE IF \E i \in DOMAIN ends : ends[i].kind # "ok"
       THEN OnFailure(fr, <<"branches", [i \in DOMAIN ends |-> ends[i].kind]>>)
     ELSE IF Conflicting(fr.ctx, ends)
       THEN End(fr, "conflict")
     ELSE Succeed(fr, Joined(fr.ctx, ends), Traces(ends))

(* What a composite step makes of its sub-workflow's end.                  *)
Return(fr, sub) ==
  IF sub.kind \in Bypassing THEN End(fr, sub.kind)
  ELSE IF sub.kind # "ok" THEN OnFailure(fr, <<"sub", sub.kind>>)
  ELSE Succeed(fr, Merge(fr.ctx, sub.ctx), sub.trace)
-----------------------------------------------------------------------------
(* The run.                                                                *)

Init ==
  /\ script \in Scripts
  /\ frames = [f \in {<<>>} |-> Enter(script.root, None, NoContext, 0)]
  /\ saved = None /\ result = None /\ resumes = 0 /\ visited = <<>>

Put(f, fr) == frames' = [frames EXCEPT ![f] = fr]

Walking(f) == f \in DOMAIN frames /\ frames[f].phase = "walk"

(* The loop of runFrom ends: no next step, the step ceiling, a step that   *)
(* is not there.                                                           *)
Finish(f) ==
  /\ Walking(f) /\ frames[f].at = None
  /\ Put(f, End(frames[f], "ok"))
  /\ UNCHANGED <<script, saved, result, resumes, visited>>

(* Wrong: the ceiling counts steps already taken, not the one begun.       *)
WithinLimitOffByOne(fr) == fr.steps <= MaxSteps

WithinLimit(fr) == fr.steps < MaxSteps

LimitHit(f) ==
  /\ Walking(f) /\ frames[f].at # None
  /\ ~WithinLimit(frames[f])
  /\ Put(f, End(frames[f], "stepLimit"))
  /\ UNCHANGED <<script, saved, result, resumes, visited>>

StepMissing(f) ==
  /\ Walking(f) /\ frames[f].at # None
  /\ WithinLimit(frames[f])
  /\ frames[f].at \notin DOMAIN StepsOf(frames[f])
  /\ Put(f, End(frames[f], "plain"))
  /\ UNCHANGED <<script, saved, result, resumes, visited>>

(* The loop reaches a step of this type: it is counted and traced.         *)
Visits(f, type) ==
  /\ Walking(f) /\ frames[f].at # None
  /\ WithinLimit(frames[f])
  /\ frames[f].at \in DOMAIN StepsOf(frames[f])
  /\ StepAt(frames[f]).type = type
  /\ visited' = IF f = <<>> THEN Append(visited, frames[f].at) ELSE visited

Visited(f) ==
  [frames[f] EXCEPT !.steps = @ + 1, !.trace = Append(@, frames[f].at)]

Probed(f) == StepAt(frames[f]).probe
Healthy(f) == script.healthy[frames[f].at]

(* Wrong: an unhealthy verdict is only reported, the action still runs.    *)
MayActUnprobed(f) == Probed(f) => script.sandbox

(* The probe, where there is one, lets the action run.                     *)
MayAct(f) == Probed(f) => script.sandbox /\ Healthy(f)

(* A leaf whose probe has nobody to ask, or found the step unhealthy.      *)
ProbeRefuses(f) ==
  /\ Visits(f, "leaf")
  /\ ~MayAct(f)
  /\ Put(f, IF script.sandbox THEN OnFailure(Visited(f), <<"unhealthy">>)
            ELSE End(Visited(f), "plain"))
  /\ UNCHANGED <<script, saved, result, resumes>>

Act(f) ==
  LET answer == script.act[frames[f].at]
  IN /\ Visits(f, "leaf")
     /\ MayAct(f)
     /\ \/ answer = "ok"      /\ Put(f, Complete(Visited(f)))
        \/ answer = "error"   /\ Put(f, OnFailure(Visited(f), <<"error">>))
        \/ answer = "suspend" /\ Put(f, Suspend(Visited(f), Len(f)))
     /\ UNCHANGED <<script, saved, result, resumes>>

(* Sub-workflows start on the context of the step that starts them.        *)
Start(f, workflows) ==
  frames' =
    [g \in DOMAIN frames \cup {Append(f, i) : i \in DOMAIN workflows} |->
       IF g = f THEN [Visited(f) EXCEPT !.phase = "wait"]
       ELSE IF g \in DOMAIN frames THEN frames[g]
       ELSE Enter(workflows[Last(g)], None, frames[f].ctx, Len(g))]

Call(f) ==
  /\ Visits(f, "composite")
  /\ Start(f, <<StepAt(frames[f]).sub>>)
  /\ UNCHANGED <<script, saved, result, resumes>>

Fork(f) ==
  /\ Visits(f, "parallel")
  /\ \/ /\ StepAt(frames[f]).branches = <<>>
        /\ Put(f, End(Visited(f), "noBranches"))
     \/ /\ StepAt(frames[f]).branches # <<>>
        /\ Start(f, StepAt(frames[f]).branches)
  /\ UNCHANGED <<script, saved, result, resumes>>

Children(f) == {g \in DOMAIN frames : Len(g) = Len(f) + 1 /\ Front(g) = f}

(* Wrong: wg.Done is not deferred, so a branch that panics never reports.  *)
ChildrenReported(f) ==
  \A g \in Children(f) : frames[g].phase = "end" /\ frames[g].kind # "panicked"

ChildrenEnded(f) == \A g \in Children(f) : frames[g].phase = "end"

(* How many sub-workflows the current step of a frame starts.              *)
Width(fr) == IF StepAt(fr).type = "parallel" THEN Len(StepAt(fr).branches) ELSE 1

(* The sub-workflows of a waiting frame are all back.                      *)
Await(f) ==
  /\ f \in DOMAIN frames /\ frames[f].phase = "wait"
  /\ ChildrenEnded(f)
  /\ LET ends == [i \in 1 .. Width(frames[f]) |-> frames[Append(f, i)]]
     IN frames' =
          [g \in DOMAIN frames \ Children(f) |->
             IF g # f THEN frames[g]
             ELSE IF StepAt(frames[f]).type = "parallel"
               THEN Join(frames[f], ends)
               ELSE Return(frames[f], ends[1])]
  /\ UNCHANGED <<script, saved, result, resumes, visited>>

(* Wrong: compensations run in the order the steps completed.              *)
NextToUndoForward(fr) == fr.done[Len(fr.done) + 1 - fr.left]

NextToUndo(fr) == fr.done[fr.left]

(* Only a leaf is run, and may panic.                                      *)
CompensationPanics(fr) ==
  LET by == NextToUndo(fr).by
  IN /\ by \in DOMAIN StepsOf(fr) /\ StepsOf(fr)[by].type = "leaf"
     /\ script.act[by] = "panic"

(* One turn of unwind's loop: the last completed step not yet undone.  The *)
(* compensation runs without a probe; whatever it returns, the loop goes   *)
(* on.                                                                     *)
Unwind(f) ==
  LET fr    == frames[f]
      entry == NextToUndo(fr)
      able  == /\ entry.by \in DOMAIN StepsOf(fr)
               /\ StepsOf(fr)[entry.by].type = "leaf"
               /\ script.act[entry.by] = "ok"
      tried == [fr EXCEPT !.left = @ - 1,
                          !.effects = Append(@, <<"undo", entry.step>>)]
      after == IF able
                 THEN [tried EXCEPT
                         !.ctx = Output(@, StepsOf(fr)[entry.by]),
                         !.undone = Append(@, entry.step)]
                 ELSE [tried EXCEPT !.failures = Append(@, entry.step)]
  IN /\ f \in DOMAIN frames /\ fr.phase = "unwind"
     /\ ~CompensationPanics(fr)
     /\ Put(f, IF after.left = 0 THEN End(after, "tripped") ELSE after)
     /\ UNCHANGED <<script, saved, result, resumes, visited>>

(* What a call returns besides its error, when it has one.                 *)
Failed == [kind |-> None, ctx |-> NoContext, trace |-> <<>>, undone |-> <<>>,
           failures |-> <<>>]

(* An action, or a compensation, panics.                                   *)
Panicking(f) ==
  \/ /\ Walking(f) /\ frames[f].at # None /\ WithinLimit(frames[f])
     /\ frames[f].at \in DOMAIN StepsOf(frames[f])
     /\ StepAt(frames[f]).type = "leaf" /\ MayAct(f)
     /\ script.act[frames[f].at] = "panic"
  \/ /\ f \in DOMAIN frames /\ frames[f].phase = "unwind"
     /\ CompensationPanics(frames[f])

(* The goroutines a panic in f unwinds through: f and the frames above it  *)
(* that a parallel step started.                                           *)
BranchesAbove(f) ==
  {g \in DOMAIN frames : /\ g # <<>> /\ IsPrefix(g, f)
                         /\ StepAt(frames[Front(g)]).type = "parallel"}

(* The innermost branch recovers the panic, its frame ends and those below *)
(* it are gone; without a branch the panic reaches the caller of the run.  *)
Panic(f) ==
  /\ Panicking(f)
  /\ IF BranchesAbove(f) = {}
       THEN /\ frames' = <<>>
            /\ result' = [Failed EXCEPT !.kind = "panic"]
       ELSE LET b == CHOOSE g \in BranchesAbove(f) :
                       \A h \in BranchesAbove(f) : Len(h) <= Len(g)
            IN /\ frames' = [g \in {g \in DOMAIN frames :
                                      g = b \/ ~IsPrefix(b, g)} |->
                               IF g = b THEN End(frames[b], "panicked")
                               ELSE frames[g]]
               /\ UNCHANGED result
  /\ UNCHANGED <<script, saved, resumes, visited>>

(* Run or ResumeAs returns.  A suspended run leaves its State in the       *)
(* store: position, context and the trace of this segment only.  A resumed *)
(* run's trace is prefixed by the trace in the State it claimed.           *)
Reply ==
  /\ <<>> \in DOMAIN frames /\ frames[<<>>].phase = "end"
  /\ LET fr == frames[<<>>]
         earlier == IF saved = None THEN <<>> ELSE saved.trace
         ran == fr.kind \in {"ok", "suspended"}
     IN /\ result' = IF ran
            THEN [Failed EXCEPT !.kind = fr.kind, !.ctx = fr.ctx,
                                !.trace = earlier \o fr.trace]
            ELSE [Failed EXCEPT !.kind = fr.kind, !.trace = earlier,
                                !.undone = fr.undone, !.failures = fr.failures]
        /\ saved' = IF fr.kind # "suspended" THEN None
                    ELSE [wf |-> fr.wf, at |-> fr.at, ctx |-> fr.ctx,
                          trace |-> fr.trace]
  /\ frames' = <<>>
  /\ UNCHANGED <<script, resumes, visited>>

(* ResumeAs: the resolution is merged into the saved context and runFrom   *)
(* enters at the suspended step's OnSuccess; "" there means the entry step.*)
Resume ==
  /\ DOMAIN frames = {} /\ saved # None /\ result.kind = "suspended"
  /\ resumes < MaxResumes /\ resumes' = resumes + 1
  /\ LET after == Workflows[saved.wf].steps[saved.at].onSuccess
         ctx   == Merge(saved.ctx, script.resolution)
     IN frames' = [f \in {<<>>} |-> Enter(saved.wf, after, ctx, 0)]
  /\ UNCHANGED <<script, saved, result, visited>>

Move(f) ==
  \/ Finish(f) \/ LimitHit(f) \/ StepMissing(f)
  \/ ProbeRefuses(f) \/ Act(f) \/ Call(f) \/ Fork(f) \/ Await(f)
  \/ Unwind(f) \/ Panic(f)

Next == (\E f \in DOMAIN frames : Move(f)) \/ Reply \/ Resume

(* Every goroutine the engine started keeps running.                       *)
Spec == Init /\ [][Next]_vars /\ WF_vars(Next)
-----------------------------------------------------------------------------
Ended(f) == frames[f].phase = "end"

(* The state is well formed: a frame's parent exists and waits for it, and *)
(* no frame is deeper than the ceiling lets runFrom refuse.                *)
TypeOK ==
  /\ resumes \in 0 .. MaxResumes
  /\ \A f \in DOMAIN frames :
       /\ frames[f].phase \in {"walk", "wait", "unwind", "end"}
       /\ frames[f].steps <= MaxSteps
       /\ Len(f) <= MaxDepth + 1
       /\ f # <<>> => /\ Front(f) \in DOMAIN frames
                      /\ frames[Front(f)].phase = "wait"

(* Compensation (abandon, unwind, onFailure): an activation that ends      *)
(* abandoned has tried to undo each completed step that declared a         *)
(* compensation once, last first, after the last thing it did; one that    *)
(* ends otherwise, by success, fallback or structural error, none.         *)
CompensationExact ==
  \A f \in DOMAIN frames :
    LET fx == frames[f].effects
    IN Ended(f) /\ frames[f].kind # "panicked" =>
         \E n \in 0 .. Len(fx) :
           /\ \A i \in 1 .. n : fx[i][1] = "did"
           /\ IF frames[f].kind # "tripped"
                THEN Len(fx) = n
                ELSE /\ Len(fx) = 2 * n
                     /\ \A i \in 1 .. n : fx[n + i] = <<"undo", fx[n + 1 - i][2]>>

(* What the specification calls structural: never a business failure.      *)
Structural == {"stepLimit", "depthLimit", "nested", "noStore", "noBranches",
               "conflict", "panicked"}

(* A step leaves the frame that started f gone, untouched, or ended with a *)
(* structural error.                                                       *)
Escalates(f) ==
  \/ Front(f) \notin DOMAIN frames'
  \/ frames'[Front(f)] = frames[Front(f)]
  \/ /\ frames'[Front(f)].phase = "end"
     /\ frames'[Front(f)].kind \in Structural

EveryErrorEscalates ==
  \A f \in DOMAIN frames :
    f # <<>> /\ Ended(f) /\ frames[f].kind \in Structural => Escalates(f)

(* A structural error is never absorbed (bypassesBreaker): the frame that  *)
(* started the activation ends structurally too; it takes no fallback,     *)
(* compensates nothing and never goes on walking.                          *)
StructuralIsNotAbsorbed == [][EveryErrorEscalates]_vars

(* Every call of Run and ResumeAs returns, cycles, self-calling            *)
(* sub-workflows, failing and panicking branches included.                 *)
RunsReturn == []<>(DOMAIN frames = {})

-----------------------------------------------------------------------------
(* "continues from the suspended step's OnSuccess (the wait is over, so    *)
(* the suspension point itself does not re-run)": in a workflow without    *)
(* cycles the run visits no step twice.                                    *)
NothingReruns == \A i, j \in DOMAIN visited : visited[i] = visited[j] => i = j

(* "When a run is abandoned, the engine unwinds the completed steps that   *)
(* declared a compensation": those completed before a suspension too.      *)
AbandonUndoesAll ==
  \A i \in DOMAIN visited :
    LET s == Workflows[script.root].steps[visited[i]]
    IN /\ result # None /\ DOMAIN frames = {} /\ result.kind = "tripped"
       /\ s.type = "leaf" /\ script.act[visited[i]] = "ok"
       /\ (s.probe => script.healthy[visited[i]])
       /\ s.compensate # None
       => visited[i] \in ToSet(result.undone) \cup ToSet(result.failures)

(* "Branches must write distinct output fields" is all a join asks: where  *)
(* the actions of different workflows write different fields, no join is   *)
(* refused.                                                                *)
DistinctFieldsJoin == \A f \in DOMAIN frames : frames[f].kind # "conflict"
=============================================================================

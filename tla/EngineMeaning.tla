---------------------------- MODULE EngineMeaning ----------------------------
(***************************************************************************)
(* What a run answers, by recursion on the workflow and without any        *)
(* scheduling: the reference Engine is compared with.  Sub-workflows are   *)
(* evaluated one after the other, in declaration order.                    *)
(***************************************************************************)
EXTENDS Engine
LOCAL INSTANCE FiniteSetsExt
LOCAL INSTANCE SequencesExt

Answer(kind, at, ctx, trace, undone, failures) ==
  [kind |-> kind, at |-> at, ctx |-> ctx, trace |-> trace,
   undone |-> undone, failures |-> failures]

Broken(kind) == Answer(kind, None, NoContext, <<>>, <<>>, <<>>)

(* Whether a compensation succeeds, by the leaf that performs it.          *)
Undoes(steps, by) ==
  by \in DOMAIN steps /\ steps[by].type = "leaf" /\ script.act[by] = "ok"

Kept(entries, Test(_)) == [i \in DOMAIN SelectSeq(entries, Test) |->
                             SelectSeq(entries, Test)[i].step]

(* Giving up after these completed steps: undone and failed, last first;   *)
(* a compensation that panics takes the whole run with it.                 *)
GiveUp(steps, done) ==
  LET back == Reverse(done)
  IN IF \E i \in DOMAIN back : /\ back[i].by \in DOMAIN steps
                               /\ steps[back[i].by].type = "leaf"
                               /\ script.act[back[i].by] = "panic"
       THEN Broken("panic")
       ELSE Answer("tripped", None, NoContext, <<>>,
                   Kept(back, LAMBDA e : Undoes(steps, e.by)),
                   Kept(back, LAMBDA e : ~Undoes(steps, e.by)))

Changes(ctx, ends) ==
  {<<k, ends[i].ctx[k]>> : k \in DOMAIN ctx, i \in DOMAIN ends}
    \ {<<k, ctx[k]>> : k \in DOMAIN ctx}

(* What a step amounts to: go on with this context and this much more      *)
(* trace, fail as a business failure for this reason, or stop the run with *)
(* this kind.                                                              *)
Go(ctx, more) == [do |-> "go", kind |-> "ok", ctx |-> ctx, trace |-> more]
Fail(why) == [do |-> "fail", kind |-> why, ctx |-> NoContext, trace |-> <<>>]
Stop(kind) == [do |-> "stop", kind |-> kind, ctx |-> NoContext, trace |-> <<>>]

LeafMeans(s, at, ctx, depth) ==
  CASE s.probe /\ ~script.sandbox -> Stop("plain")
    [] s.probe /\ script.sandbox /\ ~script.healthy[at] -> Fail(<<"unhealthy">>)
    [] OTHER ->
       CASE script.act[at] = "ok" -> Go(Output(ctx, s), <<>>)
         [] script.act[at] = "error" -> Fail(<<"error">>)
         [] script.act[at] = "panic" -> Stop("panic")
         [] script.act[at] = "suspend" ->
              Stop(IF depth > 0 THEN "nested"
                   ELSE IF script.store THEN "suspended" ELSE "noStore")

(* Sub-workflows that ended so, under a composite and a parallel step.     *)
CompositeMeans(sub) ==
  CASE sub.kind = "ok" -> Go(sub.ctx, sub.trace)
    [] sub.kind \in Structural \cup {"panic"} -> Stop(sub.kind)
    [] OTHER -> Fail(<<"sub", sub.kind>>)

ParallelMeans(ctx, subs) ==
  LET broken == {i \in DOMAIN subs : subs[i].kind \in Structural \cup {"panic"}}
      diff   == Changes(ctx, subs)
      joined == [k \in DOMAIN ctx |->
                   IF \E c \in diff : c[1] = k
                     THEN (CHOOSE c \in diff : c[1] = k)[2] ELSE ctx[k]]
  IN CASE subs = <<>> -> Stop("noBranches")
       [] broken # {} ->
          LET first == subs[Min(broken)].kind
          IN Stop(IF first = "panic" THEN "panicked" ELSE first)
       [] OTHER ->
          IF \E i \in DOMAIN subs : subs[i].kind # "ok"
            THEN Fail(<<"branches", [i \in DOMAIN subs |-> subs[i].kind]>>)
          ELSE IF \E c, d \in diff : c[1] = d[1] /\ c[2] # d[2]
            THEN Stop("conflict")
          ELSE Go(joined, FlattenSeq([i \in DOMAIN subs |-> subs[i].trace]))

RECURSIVE Evaluate(_, _, _, _, _, _, _)
(* These steps from this one on, at this depth, after the steps of trace,  *)
(* n of them in this activation, with these compensable steps completed.   *)
Evaluate(steps, at, ctx, depth, n, trace, done) ==
  LET s    == steps[at]
      refs == CASE s.type = "leaf" -> <<>>
                [] s.type = "composite" -> <<s.sub>>
                [] s.type = "parallel" -> s.branches
      subs == [i \in DOMAIN refs |->
                 IF depth = MaxDepth THEN Broken("depthLimit")
                 ELSE IF refs[i] \notin DOMAIN Workflows THEN Broken("plain")
                 ELSE LET w == Workflows[refs[i]]
                      IN Evaluate(w.steps, w.entry, ctx, depth + 1, 0,
                                  <<>>, <<>>)]
      step == CASE s.type = "leaf" -> LeafMeans(s, at, ctx, depth)
                [] s.type = "composite" -> CompositeMeans(subs[1])
                [] s.type = "parallel" -> ParallelMeans(ctx, subs)
      fallback == IF s.policy \in DOMAIN Policies THEN Policies[s.policy]
                  ELSE None
      here == Append(trace, at)
      went == step.do = "go"
      undo == IF went /\ s.type = "leaf" /\ s.compensate # None
                THEN <<[step |-> at, by |-> s.compensate]>> ELSE <<>>
  IN CASE at = None -> Answer("ok", None, ctx, trace, <<>>, <<>>)
       [] at # None /\ n = MaxSteps -> Broken("stepLimit")
       [] at # None /\ n # MaxSteps /\ at \notin DOMAIN steps -> Broken("plain")
       [] OTHER ->
          CASE step.do = "stop" /\ step.kind = "suspended" ->
                 Answer("suspended", at, ctx, here, <<>>, <<>>)
            [] step.do = "stop" /\ step.kind # "suspended" -> Broken(step.kind)
            [] step.do = "fail" /\ fallback = None -> GiveUp(steps, done)
            [] OTHER ->
               Evaluate(steps, IF went THEN s.onSuccess ELSE fallback,
                        IF went THEN step.ctx
                                ELSE [ctx EXCEPT ![FailureReasonKey] = step.kind,
                                                 ![FailedStepKey] = at],
                        depth, n + 1, here \o step.trace, done \o undo)

(* The run of the root from this step on, at the top level.                *)
RunMeans(at, ctx) ==
  Evaluate(Workflows[script.root].steps, at, ctx, 0, 0, <<>>, <<>>)

FirstSegment == RunMeans(Workflows[script.root].entry, NoContext)

SecondSegment ==
  LET first == FirstSegment
      ctx   == [k \in DOMAIN first.ctx |->
                  IF script.resolution[k] # None THEN script.resolution[k]
                                                 ELSE first.ctx[k]]
      after == Workflows[script.root].steps[first.at].onSuccess
      next  == RunMeans(after, ctx)
  IN [next EXCEPT !.trace = first.trace \o @]

(* A run and its resumption answer what the workflow means: neither the    *)
(* outcome, the context, the trace nor the account of what was undone      *)
(* depends on how branches were scheduled (runFrom, runParallel, Resume).  *)
AnswersItsMeaning ==
  DOMAIN frames = {} =>
    LET meaning == IF resumes = 0 THEN FirstSegment ELSE SecondSegment
    IN \A part \in {"kind", "ctx", "trace", "undone", "failures"} :
         result.kind # "panic" => result[part] = meaning[part]
=============================================================================

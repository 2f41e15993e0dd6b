---------------------------- MODULE ReplayProofs ----------------------------
(***************************************************************************)
(* Proofs about Replay, for any programs, contexts, schemas and answers of *)
(* models and sandboxes: what a model supplied stays marked and is decided *)
(* on by no guarded step, no step with a probe acts unrehearsed, a         *)
(* recording keeps what was recorded, its replay comes out as the run did, *)
(* and the report of a diff counts the decisions (PolicyDiff).             *)
(***************************************************************************)
EXTENDS PolicyDiff, LeastNumber, FiniteSetTheorems, TLAPS
LOCAL INSTANCE SequencesExt
LOCAL INSTANCE FiniteSetsExt

-----------------------------------------------------------------------------
(* Provenance, through JSON and extractions.                               *)

Marked(c) == DOMAIN c = Keys /\ Provenance(c) \subseteq Fields

(* A list of strings, read back from JSON, is the list.                    *)
LEMMA ReadBack ==
  ASSUME NEW S, NEW A, A = {<<"string", s>> : s \in S}
  PROVE  {v[2] : v \in {w \in A : w[1] = "string"}} = S
<1>1. \A w \in A : w[1] = "string" /\ w[2] \in S
  OBVIOUS
<1>2. ASSUME NEW s \in S PROVE s \in {v[2] : v \in {w \in A : w[1] = "string"}}
  <2>1. <<"string", s>> \in A
    OBVIOUS
  <2>2. <<"string", s>> \in {w \in A : w[1] = "string"}
    BY <2>1
  <2>3. s = <<"string", s>>[2]
    OBVIOUS
  <2> QED
    BY <2>2, <2>3
<1> QED
  BY <1>1, <1>2

(* JSON changes the kind of the marks, not what is marked.                 *)
LEMMA JsonKeepsMarks ==
  ASSUME NEW c, Marked(c)
  PROVE  Marked(JsonContext(c)) /\ Provenance(JsonContext(c)) = Provenance(c)
<1> DEFINE was == c[ModelDerivedKey]
           is  == JsonContext(c)[ModelDerivedKey]
<1>1. is = Json(was) /\ DOMAIN JsonContext(c) = Keys
  BY DEF JsonContext, Keys, CeeKeys
<1>2. CASE was = None
  BY <1>1, <1>2 DEF Json, Provenance, Marked
<1>3. CASE was # None /\ was[1] = "strings"
  <2>1. Provenance(c) = was[2] /\ was[2] \in SUBSET Fields
    BY <1>3 DEF Provenance, Marked
  <2>2. is = <<"array", {<<"string", s>> : s \in was[2]}>>
    BY <1>1, <1>3 DEF Json
  <2>3. is # None
    BY <2>1, <2>2, MarksAssumption
  <2>4. Provenance(JsonContext(c)) = {v[2] : v \in {w \in is[2] : w[1] = "string"}}
    BY <2>2, <2>3 DEF Provenance
  <2>5. is[2] = {<<"string", s>> : s \in was[2]}
    BY <2>2
  <2>6. {v[2] : v \in {w \in is[2] : w[1] = "string"}} = was[2]
    BY <2>5, ReadBack
  <2> QED
    BY <1>1, <2>1, <2>4, <2>6 DEF Marked
<1>4. CASE was # None /\ was[1] = "int"
  <2>1. is = <<"float", was[2]>>
    BY <1>1, <1>4 DEF Json
  <2>2. Provenance(JsonContext(c)) = {} /\ Provenance(c) = {}
    BY <1>4, <2>1 DEF Provenance
  <2> QED
    BY <1>1, <2>2 DEF Marked
<1>5. CASE was # None /\ was[1] \notin {"strings", "int"}
  <2>1. is = was
    BY <1>1, <1>5 DEF Json
  <2> QED
    BY <1>1, <2>1 DEF Provenance, Marked
<1> QED
  BY <1>2, <1>3, <1>4, <1>5

(* What an extraction supplies are fields of its schema, and all of them.  *)
Supplies(r) ==
  /\ r.derived \subseteq Fields
  /\ \A k \in DOMAIN r.payload : r.payload[k] # None => k \in r.derived

(* An extraction marks what it wrote, and unmarks nothing.                 *)
LEMMA ContextFromMarks ==
  ASSUME NEW c, Marked(c), NEW r, Supplies(r)
  PROVE  /\ Marked(ContextFrom(c, r))
         /\ Provenance(c) \cup r.derived \subseteq Provenance(ContextFrom(c, r))
<1> DEFINE derived == Provenance(c) \cup r.derived
           over == Overlay(c, r.payload)
<1>1. derived \in SUBSET Fields
  BY DEF Marked, Supplies
<1>2. DOMAIN over = Keys
  BY DEF Overlay
<1>3. CASE derived # {}
  <2>1. ContextFrom(c, r) = [over EXCEPT ![ModelDerivedKey] = <<"strings", derived>>]
    BY <1>3 DEF ContextFrom
  <2>2. /\ DOMAIN ContextFrom(c, r) = Keys
        /\ ContextFrom(c, r)[ModelDerivedKey] = <<"strings", derived>>
    BY <1>2, <2>1 DEF Keys, CeeKeys
  <2>3. <<"strings", derived>> # None
    BY <1>1, MarksAssumption
  <2>4. Provenance(ContextFrom(c, r)) = derived
    BY <2>2, <2>3 DEF Provenance
  <2> QED
    BY <1>1, <2>2, <2>4 DEF Marked
<1>4. CASE derived = {}
  <2>1. ContextFrom(c, r) = over
    BY <1>4 DEF ContextFrom
  <2>2. over[ModelDerivedKey] = c[ModelDerivedKey]
    BY <1>4 DEF Overlay, Supplies, Keys, CeeKeys
  <2> QED
    BY <1>2, <1>4, <2>1, <2>2 DEF Marked, Provenance
<1> QED
  BY <1>3, <1>4

LEMMA ExtractSupplies ==
  ASSUME NEW ref, NEW reply, Extract(ref, reply).success
  PROVE  Supplies(Extract(ref, reply))
<1>1. ref \in DOMAIN Schemas /\ reply # None
  BY DEF Extract
<1>2. /\ Extract(ref, reply).derived = DOMAIN Schemas[ref]
      /\ Extract(ref, reply).payload =
           [k \in Keys |-> IF k \in DOMAIN Schemas[ref] THEN reply[k] ELSE None]
  BY <1>1 DEF Extract
<1> QED
  BY <1>1, <1>2, MarksAssumption DEF Supplies

-----------------------------------------------------------------------------
(* Steps.                                                                  *)

Flow(steps) ==
  \A id \in DOMAIN steps :
    /\ Leads(steps, steps[id].onSuccess) /\ Leads(steps, steps[id].fallback)
    /\ Configured(steps[id].action, steps[id].with) /\ LeavesMarks(steps[id])
    /\ ComparesScalars(steps[id])

(* A comparison has an answer or is an error.                              *)
LEMMA Compared ==
  ASSUME NEW got, NEW want, NEW op \in ValidOps
  PROVE  Compare(got, op, want) \in {"true", "false", "error"}
<1>1. CASE op = "eq"
  BY <1>1 DEF Compare
<1>2. CASE op = "neq"
  BY <1>2 DEF Compare
<1>3. CASE op = "in"
  BY <1>3 DEF Compare
<1>4. CASE op \in {"gt", "gte", "lt", "lte"}
  BY <1>4 DEF Compare
<1> QED
  BY <1>1, <1>2, <1>3, <1>4 DEF ValidOps

(* A configured action answers, fails or suspends; it leaves the marks     *)
(* alone, and does not succeed on marked fields it is to refuse.           *)
LEMMA Acts ==
  ASSUME NEW s, Configured(s.action, s.with), LeavesMarks(s), NEW c, DOMAIN c = Keys
  PROVE  LET a == Act(s.action, s.with, c)
         IN /\ a.kind \in {"ok", "error", "suspend"}
            /\ a.kind = "ok" => Overlay(c, a.output)[ModelDerivedKey] = c[ModelDerivedKey]
            /\ s.action = "std.require_verified"
                 /\ s.with.fields \cap Provenance(c) # {} => a.kind = "error"
<1> DEFINE a == Act(s.action, s.with, c)
<1>1. \A out : ModelDerivedKey \notin DOMAIN out \/ out[ModelDerivedKey] = None
                => Overlay(c, out)[ModelDerivedKey] = c[ModelDerivedKey]
  BY DEF Overlay, Keys, CeeKeys
<1>2. NoContext[ModelDerivedKey] = None
  BY DEF NoContext, Keys, CeeKeys
<1>3. CASE s.action = "std.set"
  <2>1. a = Answer("ok", s.with.fields, None)
    BY <1>3 DEF Act, setAction
  <2> QED
    BY <1>1, <1>3, <2>1 DEF Answer, LeavesMarks
<1>4. CASE s.action = "std.require"
  <2>1. a = requireAction(s.with, c) /\ s.with.op \in ValidOps
    BY <1>4 DEF Act, Configured, comparisonParams
  <2>2. Compare(c[s.with.field], s.with.op, s.with.value) \in {"true", "false", "error"}
    BY <2>1, Compared
  <2>3. a.kind = "error" \/ (a.kind = "ok" /\ a.output = NoContext)
    BY <2>1, <2>2 DEF requireAction, Answer
  <2> QED
    BY <1>1, <1>2, <1>4, <2>3
<1>5. CASE s.action = "std.rule_check"
  <2>1. a = ruleCheckAction(s.with, c) /\ s.with.result_field # ModelDerivedKey
    BY <1>5 DEF Act, LeavesMarks
  <2>2. \/ a.kind = "error"
        \/ a.kind = "ok" /\ \E v : a.output = Writes(s.with.result_field, v)
    BY <2>1 DEF ruleCheckAction, Answer
  <2>3. \A v : Writes(s.with.result_field, v)[ModelDerivedKey] = None
    BY <1>2, <2>1 DEF Writes, NoContext, Keys, CeeKeys
  <2> QED
    BY <1>1, <1>5, <2>2, <2>3
<1>6. CASE s.action = "std.suspend"
  <2>1. a.kind = "suspend"
    BY <1>6 DEF Act, suspendAction, Answer
  <2> QED
    BY <1>6, <2>1
<1>7. CASE s.action = "std.require_verified"
  <2>1. a = requireVerifiedAction(s.with, c)
    BY <1>7 DEF Act
  <2>2. \/ a.kind = "error"
        \/ a.kind = "ok" /\ a.output = NoContext /\ s.with.fields \cap Provenance(c) = {}
    BY <2>1 DEF requireVerifiedAction, Answer
  <2> QED
    BY <1>1, <1>2, <1>7, <2>2
<1> QED
  BY <1>3, <1>4, <1>5, <1>6, <1>7 DEF Configured

-----------------------------------------------------------------------------
(* Frames.                                                                 *)

Parts == {"steps", "at", "ctx", "joined", "trace", "verdict", "passed", "joins", "end", "why"}

Shape(fr) ==
  /\ DOMAIN fr = Parts /\ DOMAIN fr.ctx = Keys /\ Flow(fr.steps)
  /\ fr.trace \in Seq(DOMAIN fr.steps)
  /\ fr.end \in {None, "done", "failed", "suspended"}
  /\ Walking(fr) => fr.at \in DOMAIN fr.steps
  /\ fr.joins => fr.trace = <<>> /\ Walking(fr)

(* Whoever goes on from such a step goes on to its fallback.               *)
GoesAround(fr, places) ==
  /\ NeverActsOn(fr, places)
  /\ Len(fr.trace) \in places /\ Walking(fr) =>
       fr.at = fr.steps[fr.trace[Len(fr.trace)]].fallback

Refused(fr) == fr.verdict # None /\ (fr.verdict.err # None \/ ~fr.verdict.healthy)

(* The step that is taken, its answer, and how the frame goes on.          *)
Took(fr)  == fr.steps[fr.at]
Says(fr)  == Act(Took(fr).action, Took(fr).with, fr.ctx)
FallsBack(fr, next) == Walking(next) /\ next.at = Took(fr).fallback
GoesOn(fr, next) ==
  /\ ~Refused(fr) /\ Says(fr).kind # "error"
  /\ \/ next.end \in {"done", "suspended"}
     \/ Walking(next) /\ next.at = Took(fr).onSuccess

(* A frame of which nothing but these parts changed.                       *)
Onward(fr, next) ==
  /\ DOMAIN next = Parts /\ next.steps = fr.steps /\ next.joins = fr.joins
  /\ next.passed = fr.passed /\ next.verdict = None
  /\ next.trace = Append(fr.trace, fr.at)
  /\ DOMAIN next.ctx = Keys /\ next.ctx[ModelDerivedKey] = fr.ctx[ModelDerivedKey]

Advanced(fr, next) ==
  /\ Onward(fr, next)
  /\ next.end = "failed" \/ FallsBack(fr, next) \/ GoesOn(fr, next)
  /\ Walking(next) => next.at \in DOMAIN fr.steps
  /\ next.end \in {None, "done", "failed", "suspended"}

Failing(fr) == [fr EXCEPT !.trace = Append(@, fr.at), !.verdict = None]

LEMMA FailureAdvances ==
  ASSUME NEW fr, Shape(fr), Walking(fr), NEW why
  PROVE  Advanced(fr, OnFailure(Failing(fr), why))
<1> PICK at : at = Failing(fr)
  OBVIOUS
<1> PICK next : next = OnFailure(at, why)
  OBVIOUS
<1> SUFFICES Advanced(fr, next)
  OBVIOUS
<1> PICK to : to = Took(fr).fallback
  OBVIOUS
<1>1. /\ DOMAIN at = Parts /\ at.steps = fr.steps /\ at.joins = fr.joins /\ at.end = None
      /\ at.passed = fr.passed /\ at.verdict = None /\ at.ctx = fr.ctx
      /\ at.trace = Append(fr.trace, fr.at) /\ fr.at \in DOMAIN fr.steps
      /\ fr.trace \in Seq(DOMAIN fr.steps)
  BY DEF Shape, Parts, Walking, Failing
<1>2. Last(at.trace) = fr.at
  BY <1>1 DEF Last
<1>3. CASE to = None
  <2>1. PICK how : next = End(at, "failed", how)
    BY <1>1, <1>2, <1>3 DEF OnFailure, Took
  <2>2. /\ DOMAIN next = Parts /\ next.steps = at.steps /\ next.joins = at.joins
        /\ next.passed = at.passed /\ next.verdict = at.verdict /\ next.trace = at.trace
        /\ next.end = "failed" /\ next.ctx = at.ctx
    BY <1>1, <2>1 DEF End, Parts
  <2> QED
    BY <1>1, <2>2, NoneAssumption DEF Advanced, Onward, Shape, Walking
<1>4. CASE to # None
  <2>1. to \in DOMAIN fr.steps
    BY <1>1, <1>4 DEF Shape, Flow, Leads, Took
  <2>2. next = [at EXCEPT !.at = to, !.ctx[FailureReasonKey] = <<"string", why>>,
                          !.ctx[FailedStepKey] = <<"string", fr.at>>]
    BY <1>1, <1>2, <1>4 DEF OnFailure, Took
  <2>3. /\ DOMAIN next = Parts /\ next.steps = at.steps /\ next.joins = at.joins
        /\ next.passed = at.passed /\ next.verdict = at.verdict /\ next.trace = at.trace
        /\ next.end = None /\ next.at = to
    BY <1>1, <2>2 DEF Parts
  <2>4. DOMAIN next.ctx = Keys /\ next.ctx[ModelDerivedKey] = fr.ctx[ModelDerivedKey]
    BY <1>1, <2>2 DEF Parts, Shape, Keys, CeeKeys, FailureReasonKey, FailedStepKey,
       ModelDerivedKey
  <2> QED
    BY <1>1, <2>1, <2>3, <2>4 DEF Advanced, Onward, FallsBack, Walking
<1> QED
  BY <1>3, <1>4

(* A step that is taken fails, falls back, or acts: that only when neither *)
(* its probe nor its action refused.                                       *)
LEMMA AdvanceAdvances ==
  ASSUME NEW fr, Shape(fr), Walking(fr), NEW host
  PROVE  Advanced(fr, Advance(fr, host))
<1> PICK next : next = Advance(fr, host)
  OBVIOUS
<1> SUFFICES Advanced(fr, next)
  OBVIOUS
<1> PICK at : at = Failing(fr)
  OBVIOUS
<1> PICK to : to = [at EXCEPT !.at = Took(fr).onSuccess,
                              !.ctx = Overlay(@, Says(fr).output)]
  OBVIOUS
<1> DEFINE bare == Took(fr).probe # None /\ ~host.sandbox
<1>1. /\ DOMAIN at = Parts /\ at.steps = fr.steps /\ at.joins = fr.joins /\ at.end = None
      /\ at.passed = fr.passed /\ at.verdict = None /\ at.ctx = fr.ctx
      /\ at.trace = Append(fr.trace, fr.at) /\ fr.at \in DOMAIN fr.steps
  BY DEF Shape, Parts, Walking, Failing
<1>2. /\ Says(fr).kind \in {"ok", "error", "suspend"}
      /\ Says(fr).kind = "ok" =>
           Overlay(fr.ctx, Says(fr).output)[ModelDerivedKey] = fr.ctx[ModelDerivedKey]
  BY <1>1, Acts DEF Shape, Flow, Says, Took
<1>3. \A how, why : how \in {"done", "failed", "suspended"} =>
        Onward(fr, End(at, how, why)) /\ End(at, how, why).end = how
  BY <1>1 DEF End, Onward, Parts, Shape
<1>4. CASE bare
  <2>1. PICK why : next = End(at, "failed", why)
    BY <1>4, Zenon DEF Advance, Took, Failing
  <2> QED
    BY <1>3, <2>1, NoneAssumption DEF Advanced, Walking
<1>5. CASE ~bare /\ (Refused(fr) \/ Says(fr).kind = "error")
  <2>1. \E why : next = OnFailure(Failing(fr), why)
    BY <1>5, Zenon DEF Advance, Took, Says, Refused, Failing
  <2> QED
    BY <2>1, FailureAdvances, Zenon
<1>6. CASE ~bare /\ ~Refused(fr) /\ Says(fr).kind = "suspend"
  <2>1. PICK why : next \in {End(at, "suspended", why), End(at, "failed", why)}
    BY <1>6, Zenon DEF Advance, Took, Says, Refused, Failing
  <2>2. Onward(fr, next) /\ next.end \in {"suspended", "failed"}
    BY <1>3, <2>1
  <2> QED
    BY <1>6, <2>2, NoneAssumption DEF Advanced, GoesOn, Walking
<1>7. CASE ~bare /\ ~Refused(fr) /\ Says(fr).kind = "ok"
  <2>1. next = IF Took(fr).onSuccess = None THEN End(to, "done", None) ELSE to
    <3>1. CASE Took(fr).onSuccess = None
      BY <1>7, <3>1 DEF Advance, Took, Says, Refused, Failing, End
    <3>2. CASE Took(fr).onSuccess # None
      BY <1>7, <3>2, Zenon DEF Advance, Took, Says, Refused, Failing
    <3> QED
      BY <3>1, <3>2
  <2>2. Onward(fr, to) /\ to.at = Took(fr).onSuccess /\ to.end = None
    BY <1>1, <1>2, <1>7 DEF Onward, Parts, Overlay
  <2>3. /\ Onward(fr, End(to, "done", None)) /\ End(to, "done", None).end = "done"
    BY <2>2 DEF End, Onward, Parts
  <2>4. Leads(fr.steps, Took(fr).onSuccess)
    BY <1>1 DEF Shape, Flow, Took
  <2>5. CASE Took(fr).onSuccess = None
    <3>1. Onward(fr, next) /\ next.end = "done"
      BY <2>1, <2>3, <2>5
    <3> QED
      BY <1>7, <3>1, NoneAssumption DEF Advanced, GoesOn, Walking
  <2>6. CASE Took(fr).onSuccess # None
    <3>1. Onward(fr, next) /\ next.end = None /\ next.at = Took(fr).onSuccess
      BY <2>1, <2>2, <2>6
    <3> QED
      BY <1>7, <2>4, <2>6, <3>1 DEF Advanced, GoesOn, Walking, Leads
  <2> QED
    BY <2>5, <2>6
<1> QED
  BY <1>2, <1>4, <1>5, <1>6, <1>7

Longer(trace, S, id, next) ==
  /\ next \in Seq(S) /\ Len(next) = Len(trace) + 1 /\ next[Len(trace) + 1] = id
  /\ \A i \in 1 .. Len(trace) : next[i] = trace[i]

LEMMA Appended ==
  ASSUME NEW S, NEW trace \in Seq(S), NEW id \in S, NEW next, next = Append(trace, id)
  PROVE  Longer(trace, S, id, next)
  BY DEF Longer

(* A frame that advanced from a step that is not to be acted on went       *)
(* around it.                                                              *)
LEMMA AdvanceGoesAround ==
  ASSUME NEW fr, Shape(fr), Walking(fr), ~fr.joins, NEW next, Advanced(fr, next),
         NEW places, places \subseteq 1 .. Len(fr.trace), GoesAround(fr, places),
         NEW more, more \subseteq {Len(fr.trace) + 1},
         more # {} => Refused(fr) \/ Says(fr).kind = "error"
  PROVE  Shape(next) /\ GoesAround(next, places \cup more)
<1> PICK n : n = Len(fr.trace)
  OBVIOUS
<1>1. /\ n \in Nat /\ fr.trace \in Seq(DOMAIN fr.steps) /\ fr.at \in DOMAIN fr.steps
      /\ next.trace = Append(fr.trace, fr.at) /\ next.steps = fr.steps /\ ~next.joins
  BY DEF Shape, Advanced, Onward
<1>2. /\ next.trace \in Seq(DOMAIN next.steps) /\ Len(next.trace) = n + 1
      /\ next.trace[n + 1] = fr.at /\ \A i \in 1 .. n : next.trace[i] = fr.trace[i]
  <2>1. Longer(fr.trace, DOMAIN fr.steps, fr.at, next.trace)
    BY <1>1, Appended
  <2> QED
    BY <1>1, <2>1 DEF Longer
<1>3. Shape(next)
  BY <1>1, <1>2 DEF Shape, Advanced, Onward
<1>4. ASSUME NEW i \in (places \cup more) \cap 1 .. n
      PROVE  next.trace[i + 1] = next.steps[next.trace[i]].fallback
  <2>1. i \in places
    BY <1>1, <1>4
  <2>2. CASE i = n
    BY <1>1, <1>2, <2>1, <2>2 DEF GoesAround
  <2>3. CASE i \in 1 .. n - 1
    <3>1. fr.trace[i + 1] = fr.steps[fr.trace[i]].fallback
      BY <2>1, <2>3 DEF GoesAround, NeverActsOn
    <3> QED
      BY <1>1, <1>2, <2>3, <3>1
  <2> QED
    BY <1>1, <1>4, <2>2, <2>3
<1>5. ASSUME n + 1 \in places \cup more
      PROVE  /\ next.end \notin {"done", "suspended"}
             /\ Walking(next) => next.at = next.steps[next.trace[n + 1]].fallback
  <2>1. more # {}
    BY <1>1, <1>5
  <2>2. ~GoesOn(fr, next)
    BY <2>1 DEF GoesOn
  <2> QED
    BY <1>1, <1>2, <2>2, NoneAssumption DEF Advanced, FallsBack, Walking, Took
<1>6. NeverActsOn(next, places \cup more)
  BY <1>1, <1>2, <1>4, <1>5 DEF NeverActsOn
<1> QED
  BY <1>2, <1>3, <1>5, <1>6 DEF GoesAround

LEMMA RefusesIll ==
  /\ \A why : ~Refuses(why).healthy
  /\ \A why, err : ~Verdict(FALSE, why, err).healthy
  BY DEF Refuses, Verdict

(* A verdict is healthy only when a sandbox let a command pass.            *)
LEMMA HealthyPassed ==
  ASSUME NEW ref \in DOMAIN Probes, NEW kind, NEW command, NEW x \in Rehearsals[kind],
         SandboxProbe(ref, ProbeBy(kind, command, x)).healthy
  PROVE  HasCommand(command) /\ LetPass(kind, x)
<1> PICK answer : answer = ProbeBy(kind, command, x)
  OBVIOUS
<1>1. answer.healthy
  BY DEF SandboxProbe, Verdict
<1>2. CASE kind = "http"
  <2>1. answer = HttpProbe(command, x)
    BY <1>2 DEF ProbeBy
  <2>2. HasCommand(command)
    <3> SUFFICES ASSUME ~HasCommand(command) PROVE FALSE
      OBVIOUS
    <3>1. answer = Refuses(<<"no command">>)
      BY <2>1, Zenon DEF HttpProbe
    <3> QED
      BY <1>1, <3>1, RefusesIll, Zenon
  <2>3. Failure(x) = None
    <3> SUFFICES ASSUME Failure(x) # None PROVE FALSE
      OBVIOUS
    <3>1. CASE Failure(x) = "request"
      BY <1>1, <2>1, <2>2, <3>1, RefusesIll DEF HttpProbe
    <3>2. CASE Failure(x) # "request"
      <4>1. answer = Refuses(<<Failure(x)>>)
        BY <2>1, <2>2, <3>2 DEF HttpProbe
      <4> QED
        BY <1>1, <4>1, RefusesIll
    <3> QED
      BY <3>1, <3>2
  <2>4. answer = Exited(Decoded(x.body, "exit_code", 0))
    <3>1. CASE None = "request"
      BY <1>1, <2>1, <2>2, <2>3, <3>1, RefusesIll DEF HttpProbe
    <3>2. CASE None # "request"
      BY <2>1, <2>2, <2>3, <3>2 DEF HttpProbe
    <3> QED
      BY <3>1, <3>2
  <2>5. x.fails = None /\ x.status = 200 /\ x.body # None
    BY <2>3, NoneAssumption DEF Failure
  <2>6. Decoded(x.body, "exit_code", 0) = 0
    BY <1>1, <2>4, RefusesIll DEF Exited
  <2>7. "exit_code" \in DOMAIN x.body => x.body.exit_code = 0
    BY <2>6 DEF Decoded
  <2> QED
    BY <1>2, <2>2, <2>5, <2>7 DEF LetPass
<1>3. CASE kind # "http"
  <2>1. answer = DockerProbe(command, x)
    BY <1>3 DEF ProbeBy
  <2>2. HasCommand(command)
    <3> SUFFICES ASSUME ~HasCommand(command) PROVE FALSE
      OBVIOUS
    <3>1. answer = Refuses(<<"no command">>)
      BY <2>1, Zenon DEF DockerProbe
    <3> QED
      BY <1>1, <3>1, RefusesIll, Zenon
  <2>3. ~x.err
    <3> SUFFICES ASSUME x.err PROVE FALSE
      OBVIOUS
    <3>1. answer = Refuses(<<"docker unavailable">>)
      BY <2>1, <2>2, Zenon DEF DockerProbe
    <3> QED
      BY <1>1, <3>1, RefusesIll, Zenon
  <2>4. answer = Exited(x.exit)
    BY <2>1, <2>2, <2>3 DEF DockerProbe
  <2>5. x.exit = 0
    BY <1>1, <2>4, RefusesIll DEF Exited
  <2> QED
    BY <1>3, <2>2, <2>3, <2>5 DEF LetPass
<1> QED
  BY <1>2, <1>3

(* The parts of a join.                                                    *)
Wrote(main, ends, i, k) == ends[i].ctx[k] # None /\ ends[i].ctx[k] # main.ctx[k]
FailedIn(ends) == {<<i, ends[i].why>> : i \in {i \in DOMAIN ends : ends[i].end # "done"}}
Clashes(main, ends) ==
  {k \in Keys : \E i, j \in DOMAIN ends : /\ Wrote(main, ends, i, k) /\ Wrote(main, ends, j, k)
                                          /\ ends[i].ctx[k] # ends[j].ctx[k]}
Writing(main, ends, k) == CHOOSE i \in DOMAIN ends : Wrote(main, ends, i, k)
Joined(main, ends) ==
  [main EXCEPT !.joins = FALSE,
     !.ctx = [k \in Keys |-> IF \E i \in DOMAIN ends : Wrote(main, ends, i, k)
                               THEN ends[Writing(main, ends, k)].ctx[k] ELSE main.ctx[k]],
     !.joined = @ \o FlattenSeq([i \in DOMAIN ends |-> ends[i].trace])]

LEMMA JoinIs ==
  ASSUME NEW main, NEW ends
  PROVE  Joins(main, ends) =
           IF FailedIn(ends) # {}
             THEN {End(Joined(main, ends), "failed", <<Parallel, <<"branches", FailedIn(ends)>>>>)}
           ELSE IF Clashes(main, ends) # {}
             THEN {End(Joined(main, ends), "failed", <<Parallel, <<"conflict", k>>>>) :
                     k \in Clashes(main, ends)}
           ELSE {Joined(main, ends)}
  BY Zenon DEF Joins, FailedIn, Clashes, Joined, Writing, Wrote

(* The join of frames with the marks of the main one keeps them.           *)
LEMMA JoinKeeps ==
  ASSUME NEW main, Shape(main), main.joins, NEW ends,
         \A i \in DOMAIN ends : ends[i].ctx[ModelDerivedKey] = main.ctx[ModelDerivedKey],
         NEW next \in Joins(main, ends)
  PROVE  /\ Shape(next) /\ next.ctx[ModelDerivedKey] = main.ctx[ModelDerivedKey]
         /\ next.trace = <<>> /\ next.verdict = main.verdict /\ next.passed = main.passed
<1> DEFINE wrote(i, k) == ends[i].ctx[k] # None /\ ends[i].ctx[k] # main.ctx[k]
           joined == [k \in Keys |-> IF \E i \in DOMAIN ends : wrote(i, k)
                                       THEN ends[CHOOSE i \in DOMAIN ends : wrote(i, k)].ctx[k]
                                       ELSE main.ctx[k]]
<1>1. joined[ModelDerivedKey] = main.ctx[ModelDerivedKey] /\ DOMAIN joined = Keys
  BY DEF Keys, CeeKeys
<1> PICK after : after = [main EXCEPT !.joins = FALSE, !.ctx = joined,
              !.joined = @ \o FlattenSeq([i \in DOMAIN ends |-> ends[i].trace])]
  BY ZenonT(60)
<1>2. next = after \/ \E why : next = End(after, "failed", why)
  BY ZenonT(60) DEF Joins
<1>3. /\ DOMAIN after = Parts /\ after.steps = main.steps /\ after.trace = <<>> /\ ~after.joins
      /\ after.end = main.end /\ after.at = main.at /\ after.ctx = joined
      /\ after.verdict = main.verdict /\ after.passed = main.passed
  BY DEF Shape, Parts
<1> HIDE DEF joined
<1>4. Shape(after) /\ after.ctx[ModelDerivedKey] = main.ctx[ModelDerivedKey]
  BY <1>1, <1>3 DEF Shape, Walking
<1>5. ASSUME NEW why, next = End(after, "failed", why)
      PROVE  /\ Shape(next) /\ next.ctx = after.ctx
             /\ next.trace = <<>> /\ next.verdict = main.verdict /\ next.passed = main.passed
  <2>1. /\ DOMAIN next = Parts /\ next.steps = main.steps /\ next.trace = <<>> /\ ~next.joins
        /\ next.end = "failed" /\ next.ctx = joined
        /\ next.verdict = main.verdict /\ next.passed = main.passed
    BY <1>3, <1>5 DEF End, Parts
  <2> QED
    BY <1>1, <1>3, <2>1, NoneAssumption DEF Shape, Walking
<1> QED
  BY <1>2, <1>3, <1>4, <1>5, Zenon

-----------------------------------------------------------------------------
(* The invariant.                                                          *)

(* The input is marked, and what a model supplied is marked in it.         *)
ContextInv ==
  /\ program \in Programs /\ Builds(program)
  /\ Marked(base) /\ Marked(ctx) /\ guessed \subseteq Provenance(ctx)

PhaseInv ==
  /\ phase \in {"intake", "running", "recorded", "reintake", "replaying", "compared"}
  /\ phase \in {"intake", "recorded", "reintake"} => threads = <<>>
  /\ phase \in {"running", "replaying"} => DOMAIN threads = 0 .. Len(program.branches)

(* A verdict that does not refuse is one of a command that ran clean.      *)
Proven(fr) == fr.verdict # None /\ ~Refused(fr) => Len(fr.trace) + 1 \in fr.passed

(* Every frame carries the marks of the input.                             *)
FrameOK(fr) == Shape(fr) /\ fr.ctx[ModelDerivedKey] = ctx[ModelDerivedKey]
GuardInv(fr) == GoesAround(fr, Guarded(fr))
ProofInv(fr) == phase = "running" => GoesAround(fr, Unproven(fr)) /\ Proven(fr)
FrameInv(fr) == FrameOK(fr) /\ GuardInv(fr) /\ ProofInv(fr)

IInv == ContextInv /\ PhaseInv /\ \A t \in DOMAIN threads : FrameInv(threads[t])

LEMMA InitIInv == Init => IInv
<1> SUFFICES ASSUME Init PROVE IInv
  OBVIOUS
<1>1. program \in Programs /\ Builds(program) /\ base \in Contexts /\ ctx = base /\ guessed = {}
      /\ phase = "intake" /\ threads = <<>>
  BY DEF Init
<1>2. ContextInv
  BY <1>1, ContextAssumption DEF ContextInv, Marked
<1>3. PhaseInv /\ DOMAIN threads = {}
  BY <1>1 DEF PhaseInv
<1> QED
  BY <1>2, <1>3 DEF IInv

(* A frame that has not taken a step.                                      *)
LEMMA Unmoved ==
  ASSUME NEW fr, FrameOK(fr), fr.trace = <<>>, phase = "running" => Proven(fr)
  PROVE  FrameInv(fr)
<1>1. Guarded(fr) = {} /\ Unproven(fr) = {} /\ Len(fr.trace) = 0
  BY DEF Guarded, Unproven
<1>2. GoesAround(fr, {})
  BY DEF GoesAround, NeverActsOn
<1> QED
  BY <1>1, <1>2 DEF FrameInv, GuardInv, ProofInv

(* A flow of a program that is valid and builds.                           *)
LEMMA Begins ==
  ASSUME NEW flow, Sound(flow),
         \A id \in DOMAIN flow.steps : Configured(flow.steps[id].action, flow.steps[id].with),
         NEW c, Marked(c)
  PROVE  LET fr == Frame(flow, c)
         IN Shape(fr) /\ fr.ctx = c /\ fr.trace = <<>> /\ fr.verdict = None
<1> PICK fr : fr = Frame(flow, c)
  OBVIOUS
<1>1. /\ DOMAIN fr = Parts /\ fr.steps = flow.steps /\ fr.at = flow.entry /\ fr.ctx = c
      /\ fr.trace = <<>> /\ fr.verdict = None /\ fr.joins = FALSE /\ fr.end = None
  BY DEF Frame, Parts
<1>2. Flow(fr.steps)
  BY <1>1 DEF Flow, Sound
<1> QED
  BY <1>1, <1>2 DEF Shape, Marked, Sound

LEMMA StartOK ==
  ASSUME ContextInv
  PROVE  LET ts == Start(program, ctx)
         IN /\ DOMAIN ts = 0 .. Len(program.branches)
            /\ \A t \in DOMAIN ts : FrameOK(ts[t]) /\ ts[t].trace = <<>> /\ ts[t].verdict = None
<1> DEFINE ts == Start(program, ctx)
<1>1. DOMAIN ts = 0 .. Len(program.branches)
  BY DEF Start
<1>2. ASSUME NEW t \in 1 .. Len(program.branches)
      PROVE  FrameOK(ts[t]) /\ ts[t].trace = <<>> /\ ts[t].verdict = None
  <2>1. t \in DOMAIN program.branches /\ program.branches[t] \in ToSet(program.branches)
    BY ProgramAssumption DEF ContextInv, ToSet
  <2>2. Sound(program.branches[t])
    BY <2>1, ProgramAssumption DEF ContextInv
  <2>3. \A id \in DOMAIN program.branches[t].steps :
          Configured(program.branches[t].steps[id].action, program.branches[t].steps[id].with)
    BY <2>1 DEF ContextInv, Builds
  <2>4. ts[t] = Frame(program.branches[t], ctx)
    BY DEF Start
  <2> QED
    BY <2>2, <2>3, <2>4, Begins DEF FrameOK, ContextInv
<1>3. FrameOK(ts[0]) /\ ts[0].trace = <<>> /\ ts[0].verdict = None
  <2> PICK fr : fr = Frame(program, ctx)
    OBVIOUS
  <2>1. Shape(fr) /\ fr.ctx = ctx /\ fr.trace = <<>> /\ fr.verdict = None
    <3>1. \A id \in DOMAIN program.steps :
            Configured(program.steps[id].action, program.steps[id].with)
      BY DEF ContextInv, Builds
    <3> QED
      BY <3>1, ProgramAssumption, Begins DEF ContextInv
  <2>2. fr.end = None
    BY DEF Frame
  <2>3. ts[0] = fr \/ ts[0] = [fr EXCEPT !.joined = <<Parallel>>, !.joins = TRUE]
    BY <1>1, ProgramAssumption DEF Start, ContextInv
  <2>4. /\ DOMAIN ts[0] = Parts /\ ts[0].steps = fr.steps /\ ts[0].at = fr.at
        /\ ts[0].ctx = ctx /\ ts[0].trace = <<>> /\ ts[0].verdict = None /\ ts[0].end = None
    BY <2>1, <2>2, <2>3 DEF Shape, Parts
  <2> QED
    BY <2>1, <2>2, <2>4 DEF FrameOK, Shape, Walking
<1> QED
  BY <1>1, <1>2, <1>3

(* A step of one frame.                                                    *)
LEMMA OneFrame ==
  ASSUME IInv, NEW t \in DOMAIN threads, NEW fr, FrameInv(fr),
         threads' = [threads EXCEPT ![t] = fr], UNCHANGED <<phase, program, base, ctx, guessed>>
  PROVE  IInv'
<1>1. ContextInv' /\ PhaseInv'
  BY DEF IInv, ContextInv, PhaseInv
<1>2. ASSUME NEW u \in DOMAIN threads' PROVE FrameInv(threads'[u])
  BY <1>2, Zenon DEF IInv
<1>3. \A u \in DOMAIN threads' : FrameInv(threads[u])'
  <2> TAKE u \in DOMAIN threads'
  <2>1. FrameInv(threads'[u])
    BY <1>2
  <2> QED
    BY <2>1, Zenon DEF FrameInv, FrameOK, GuardInv, Guarded, ProofInv
<1> QED
  BY <1>1, <1>3 DEF IInv

(* A frame that takes its step, the verdict in hand if it has a probe.     *)
LEMMA AdvanceInv ==
  ASSUME ContextInv, NEW fr, FrameInv(fr), Walking(fr), ~fr.joins,
         fr.steps[fr.at].probe # None => fr.verdict # None, NEW host
  PROVE  FrameInv(Advance(fr, host))
<1> PICK next : next = Advance(fr, host)
  OBVIOUS
<1> PICK n : n = Len(fr.trace)
  OBVIOUS
<1>1. Shape(fr) /\ Advanced(fr, next) /\ fr.at \in DOMAIN fr.steps
  BY AdvanceAdvances DEF FrameInv, FrameOK, Shape
<1>2. /\ next.steps = fr.steps /\ next.passed = fr.passed /\ next.verdict = None
      /\ next.ctx[ModelDerivedKey] = ctx[ModelDerivedKey]
      /\ n \in Nat /\ DOMAIN fr.trace = 1 .. n /\ DOMAIN next.trace = 1 .. n + 1
      /\ next.trace[n + 1] = fr.at /\ \A i \in 1 .. n : next.trace[i] = fr.trace[i]
  <2>1. Longer(fr.trace, DOMAIN fr.steps, fr.at, next.trace)
    BY <1>1, Appended DEF Shape, Advanced, Onward
  <2>2. n \in Nat /\ DOMAIN fr.trace = 1 .. n
    BY <1>1 DEF Shape
  <2> QED
    BY <1>1, <2>1, <2>2 DEF Longer, Advanced, Onward, FrameInv, FrameOK
<1>3. GuardInv(next) /\ Shape(next)
  <2> DEFINE more == {n + 1} \cap Guarded(next)
  <2>1. Guarded(next) = Guarded(fr) \cup more
    BY ONLY <1>2 DEF Guarded
  <2>2. ASSUME more # {} PROVE Says(fr).kind = "error"
    <3>1. /\ Took(fr).action = "std.require_verified"
          /\ Took(fr).with.fields \cap guessed # {}
      BY <1>2, <2>2 DEF Guarded, Took
    <3>2. guessed \subseteq Provenance(fr.ctx)
      BY DEF ContextInv, FrameInv, FrameOK, Provenance
    <3>3. /\ Configured(Took(fr).action, Took(fr).with) /\ LeavesMarks(Took(fr))
          /\ DOMAIN fr.ctx = Keys
      BY <1>1 DEF Shape, Flow, Took
    <3>4. Took(fr).with.fields \cap Provenance(fr.ctx) # {}
      BY <3>1, <3>2
    <3> QED
      BY <3>1, <3>3, <3>4, Acts DEF Says
  <2>3. Guarded(fr) \subseteq 1 .. Len(fr.trace)
    BY <1>2 DEF Guarded
  <2>4. more \subseteq {Len(fr.trace) + 1} /\ GoesAround(fr, Guarded(fr))
    BY DEF FrameInv, GuardInv
  <2> HIDE DEF more
  <2>5. Shape(next) /\ GoesAround(next, Guarded(fr) \cup more)
    <3> PICK places : places = Guarded(fr)
      OBVIOUS
    <3>1. /\ places \subseteq 1 .. Len(fr.trace) /\ GoesAround(fr, places)
          /\ more # {} => Refused(fr) \/ Says(fr).kind = "error"
      BY <2>2, <2>3, <2>4
    <3> QED
      BY ONLY <1>1, <2>4, <3>1, Walking(fr), ~fr.joins, places = Guarded(fr), AdvanceGoesAround
  <2> QED
    BY <2>1, <2>5 DEF GuardInv
<1>4. ASSUME phase = "running" PROVE GoesAround(next, Unproven(next))
  <2> DEFINE more == {n + 1} \cap Unproven(next)
  <2>1. Unproven(next) = Unproven(fr) \cup more
    BY <1>2 DEF Unproven
  <2>2. ASSUME more # {} PROVE Refused(fr)
    <3>1. fr.steps[fr.at].probe # None /\ n + 1 \notin fr.passed
      BY <1>2, <2>2 DEF Unproven
    <3> QED
      BY <1>4, <3>1 DEF FrameInv, ProofInv, Proven
  <2>3. Unproven(fr) \subseteq 1 .. Len(fr.trace)
    BY <1>2 DEF Unproven
  <2>4. more \subseteq {Len(fr.trace) + 1} /\ GoesAround(fr, Unproven(fr))
    BY <1>4 DEF FrameInv, ProofInv
  <2> HIDE DEF more
  <2>5. GoesAround(next, Unproven(fr) \cup more)
    <3> PICK places : places = Unproven(fr)
      OBVIOUS
    <3>1. /\ places \subseteq 1 .. Len(fr.trace) /\ GoesAround(fr, places)
          /\ more # {} => Refused(fr) \/ Says(fr).kind = "error"
      BY <2>2, <2>3, <2>4
    <3> QED
      BY ONLY <1>1, <2>4, <3>1, Walking(fr), ~fr.joins, places = Unproven(fr), AdvanceGoesAround
  <2> QED
    BY <2>1, <2>5
<1> QED
  BY <1>2, <1>3, <1>4 DEF FrameInv, FrameOK, ProofInv, Proven

(* A frame whose probe is answered.                                        *)
LEMMA VerdictInv ==
  ASSUME NEW fr, FrameInv(fr), Walking(fr), NEW next, NEW ran, ran \subseteq {Len(fr.trace) + 1},
         DOMAIN next = DOMAIN fr, next.passed = fr.passed \cup ran,
         \A part \in Parts \ {"verdict", "passed"} : next[part] = fr[part],
         phase = "running" /\ next.verdict # None /\ ~Refused(next) => ran # {}
  PROVE  FrameInv(next)
<1>1. /\ next.steps = fr.steps /\ next.at = fr.at /\ next.ctx = fr.ctx /\ next.trace = fr.trace
      /\ next.joins = fr.joins /\ next.end = fr.end
  BY DEF Parts
<1>2. FrameOK(next)
  BY <1>1 DEF FrameInv, FrameOK, Shape, Walking
<1>3. Len(fr.trace) \in Nat /\ DOMAIN fr.trace = 1 .. Len(fr.trace)
  BY DEF FrameInv, FrameOK, Shape
<1>4. Guarded(next) = Guarded(fr) /\ Unproven(next) = Unproven(fr)
  BY <1>1, <1>3 DEF Guarded, Unproven
<1>5. \A places : GoesAround(next, places) = GoesAround(fr, places)
  BY <1>1 DEF GoesAround, NeverActsOn, Walking
<1>6. phase = "running" => Proven(next)
  BY <1>1 DEF Proven
<1> QED
  BY <1>2, <1>4, <1>5, <1>6 DEF FrameInv, GuardInv, ProofInv

(* What another extraction adds is marked.                                 *)
LEMMA AddsMarked ==
  ASSUME ContextInv, NEW ref, NEW reply, AddExtraction(Extract(ref, reply)),
         UNCHANGED <<program, base>>
  PROVE  ContextInv'
<1> PICK r : r = Extract(ref, reply)
  OBVIOUS
<1>1. CASE r.success
  <2>1. Supplies(r)
    BY <1>1, ExtractSupplies
  <2>2. ctx' = ContextFrom(ctx, r) /\ guessed' = guessed \cup r.derived
    BY <1>1 DEF AddExtraction
  <2>3. Marked(ctx') /\ Provenance(ctx) \cup r.derived \subseteq Provenance(ctx')
    BY <2>1, <2>2, ContextFromMarks DEF ContextInv
  <2> QED
    BY <2>2, <2>3 DEF ContextInv
<1>2. CASE ~r.success
  <2>1. ctx' = ctx /\ guessed' = guessed
    BY <1>2 DEF AddExtraction
  <2> QED
    BY <2>1 DEF ContextInv
<1> QED
  BY <1>1, <1>2

(* Before a run there are no frames.                                       *)
LEMMA NoFrames ==
  ASSUME ContextInv', PhaseInv', threads' = <<>>
  PROVE  IInv'
  BY DEF IInv

-----------------------------------------------------------------------------
(* The actions.                                                            *)

(* Before the run.                                                         *)
LEMMA IntakeIInv ==
  ASSUME IInv, ExtractLive \/ ExtractorFor \/ Persist
  PROVE  IInv'
<1>1. threads = <<>> /\ threads' = <<>> /\ PhaseInv'
  BY DEF IInv, PhaseInv, ExtractLive, ExtractorFor, Persist
<1>2. CASE ExtractLive
  <2>1. PICK x \in ModelReplies : AddExtraction(Extract(Head(wanted), Extractor(x)))
    BY <1>2 DEF ExtractLive
  <2>2. UNCHANGED <<program, base>>
    BY <1>2 DEF ExtractLive
  <2> QED
    BY <1>1, <2>1, <2>2, AddsMarked, NoFrames DEF IInv
<1>3. CASE ExtractorFor
  <2>1. UNCHANGED <<program, base>>
    BY <1>3 DEF ExtractorFor
  <2>2. \E reply : AddExtraction(Extract(Head(wanted), reply))
    BY <1>3 DEF ExtractorFor
  <2> QED
    BY <1>1, <2>1, <2>2, AddsMarked, NoFrames DEF IInv
<1>4. CASE Persist
  <2>1. ctx' = JsonContext(ctx) /\ UNCHANGED <<program, base, guessed>>
    BY <1>4 DEF Persist
  <2>2. ContextInv'
    BY <2>1, JsonKeepsMarks DEF IInv, ContextInv
  <2> QED
    BY <1>1, <2>2, NoFrames
<1> QED
  BY <1>2, <1>3, <1>4

LEMMA BeginIInv == IInv /\ Begin => IInv'
<1> SUFFICES ASSUME IInv, Begin PROVE IInv'
  OBVIOUS
<1>1. /\ threads' = Start(program, ctx) /\ UNCHANGED <<program, base, ctx, guessed>>
      /\ phase' \in {"running", "replaying"}
  BY DEF Begin
<1>2. ContextInv' /\ PhaseInv'
  BY <1>1, StartOK DEF IInv, ContextInv, PhaseInv
<1>3. ASSUME NEW t \in DOMAIN threads' PROVE FrameInv(threads[t])'
  <2>1. FrameOK(threads'[t]) /\ threads'[t].trace = <<>> /\ threads'[t].verdict = None
    BY <1>1, <1>3, StartOK DEF IInv
  <2> PICK fr : fr = threads'[t]
    OBVIOUS
  <2>2. Guarded(fr)' = {} /\ Unproven(fr) = {} /\ Len(fr.trace) = 0
    BY <2>1 DEF Guarded, Unproven
  <2>3. GoesAround(fr, {})
    BY <2>2 DEF GoesAround, NeverActsOn
  <2>4. FrameOK(fr)'
    BY <1>1, <2>1 DEF FrameOK
  <2>5. GuardInv(fr)' /\ ProofInv(fr)'
    BY <2>1, <2>2, <2>3 DEF GuardInv, ProofInv, Proven
  <2> QED
    BY <2>4, <2>5 DEF FrameInv
<1> QED
  BY <1>2, <1>3 DEF IInv

(* A probe is asked of a sandbox.                                          *)
LEMMA InnerProbeIInv ==
  ASSUME IInv, NEW t \in DOMAIN threads, InnerProbe(t)
  PROVE  IInv'
<1> PICK fr : fr = threads[t]
  OBVIOUS
<1> PICK ref : ref = ProbeRef(t)
  OBVIOUS
<1> DEFINE command == fr.ctx["probe_command"]
           n == Len(fr.trace) + 1
<1>1. /\ FrameInv(fr) /\ Walking(fr) /\ DOMAIN fr = Parts
      /\ UNCHANGED <<phase, program, base, ctx, guessed>>
  BY DEF IInv, FrameInv, FrameOK, Shape, InnerProbe, NeedsProbe, Runs
<1>2. ASSUME NEW verdict, NEW ran, ran \subseteq {n},
             verdict # None /\ verdict.healthy => ran # {},
             threads' = [threads EXCEPT ![t] = [fr EXCEPT !.verdict = verdict,
                                                          !.passed = @ \cup ran]]
      PROVE  IInv'
  <2> PICK next : next = [fr EXCEPT !.verdict = verdict, !.passed = @ \cup ran]
    OBVIOUS
  <2>1. /\ DOMAIN next = DOMAIN fr /\ next.passed = fr.passed \cup ran
        /\ \A part \in Parts \ {"verdict", "passed"} : next[part] = fr[part]
        /\ next.verdict = verdict
    BY <1>1 DEF Parts
  <2>2. next.verdict # None /\ ~Refused(next) => ran # {}
    BY <1>2, <2>1 DEF Refused
  <2>3. FrameInv(next)
    BY ONLY <1>1, <1>2, <2>1, <2>2, VerdictInv
  <2> QED
    BY <1>1, <1>2, <2>3, OneFrame
<1>3. CASE ref \notin DOMAIN Probes
  <2>1. PICK verdict : verdict = SandboxProbe(ref, None)
    OBVIOUS
  <2>2. ~verdict.healthy
    BY <1>3, <2>1, RefusesIll, Zenon DEF SandboxProbe
  <2>3. threads' = [threads EXCEPT ![t].verdict = verdict]
    BY <1>3, <2>1 DEF InnerProbe
  <2>4. [fr EXCEPT !.verdict = verdict] =
          [fr EXCEPT !.verdict = verdict, !.passed = @ \cup {}]
    BY <1>1 DEF Parts
  <2>5. threads' = [threads EXCEPT ![t] = [fr EXCEPT !.verdict = verdict,
                                                     !.passed = @ \cup {}]]
    BY <2>3, <2>4
  <2> QED
    BY <1>2, <2>2, <2>5, Zenon
<1>4. CASE ref \in DOMAIN Probes
  <2>1. PICK kind : kind = Probes[ref]
    OBVIOUS
  <2>2. PICK x \in Rehearsals[kind] :
          threads' = [threads EXCEPT ![t] = Asked(fr, ref, kind, x)]
    BY <1>4, <2>1 DEF InnerProbe
  <2>3. PICK verdict : verdict = SandboxProbe(ref, ProbeBy(kind, command, x))
    OBVIOUS
  <2>4. PICK ran : ran = {m \in {n} : HasCommand(command) /\ LetPass(kind, x)}
    OBVIOUS
  <2>5. verdict.healthy => ran # {}
    BY <1>4, <2>3, <2>4, HealthyPassed
  <2>6. threads' = [threads EXCEPT ![t] = [fr EXCEPT !.verdict = verdict,
                                                     !.passed = @ \cup ran]]
    BY <2>2, <2>3, <2>4 DEF Asked
  <2> QED
    BY <1>2, <2>4, <2>5, <2>6, ZenonT(60)
<1> QED
  BY <1>3, <1>4

(* A probe is answered by the player: then nothing is rehearsed.           *)
LEMMA PlayerProbeIInv ==
  ASSUME IInv, NEW t \in DOMAIN threads, PlayerProbe(t)
  PROVE  IInv'
<1> PICK fr : fr = threads[t]
  OBVIOUS
<1>1. /\ FrameInv(fr) /\ Walking(fr) /\ DOMAIN fr = Parts /\ phase = "replaying"
      /\ UNCHANGED <<phase, program, base, ctx, guessed>>
  BY DEF IInv, FrameInv, FrameOK, Shape, PlayerProbe, NeedsProbe, Runs
<1>2. PICK verdict : threads' = [threads EXCEPT ![t].verdict = verdict]
  BY DEF PlayerProbe
<1> PICK next : next = [fr EXCEPT !.verdict = verdict]
  OBVIOUS
<1>3. /\ DOMAIN next = DOMAIN fr /\ next.passed = fr.passed \cup {}
      /\ \A part \in Parts \ {"verdict", "passed"} : next[part] = fr[part]
  BY <1>1 DEF Parts
<1>4. FrameInv(next)
  <2> PICK none : none = {}
    OBVIOUS
  <2>1. none \subseteq {Len(fr.trace) + 1} /\ next.passed = fr.passed \cup none
    BY <1>3
  <2>2. phase # "running"
    BY <1>1
  <2> QED
    BY ONLY <1>1, <1>3, <2>1, <2>2, VerdictInv
<1>5. threads' = [threads EXCEPT ![t] = next]
  BY <1>2
<1> QED
  BY <1>1, <1>4, <1>5, OneFrame

LEMMA StepIInv ==
  ASSUME IInv, NEW t \in DOMAIN threads, Step(t) \/ ReplayStep(t)
  PROVE  IInv'
<1> PICK fr : fr = threads[t]
  OBVIOUS
<1> PICK next : next = Advance(fr, Equipped(t))
  OBVIOUS
<1>1. /\ Runs(t) /\ ~NeedsProbe(t) /\ threads' = [threads EXCEPT ![t] = next]
      /\ UNCHANGED <<phase, program, base, ctx, guessed>>
  BY DEF Step, ReplayStep
<1>2. /\ FrameInv(fr) /\ Walking(fr) /\ ~fr.joins
      /\ fr.steps[fr.at].probe # None => fr.verdict # None
  BY <1>1 DEF IInv, Runs, NeedsProbe, ProbeRef
<1>3. FrameInv(next)
  BY <1>2, AdvanceInv DEF IInv
<1> QED
  BY <1>1, <1>3, OneFrame

LEMMA JoinIInv == IInv /\ Join => IInv'
<1> SUFFICES ASSUME IInv, Join PROVE IInv'
  OBVIOUS
<1> PICK main : main = threads[0]
  OBVIOUS
<1> PICK ends : ends = [t \in 1 .. Len(program.branches) |-> threads[t]]
  OBVIOUS
<1>1. PICK next \in Joins(main, ends) : threads' = [threads EXCEPT ![0] = next]
  BY DEF Join
<1>2. /\ UNCHANGED <<phase, program, base, ctx, guessed>> /\ main.joins
      /\ DOMAIN threads = 0 .. Len(program.branches)
  BY DEF Join, IInv, PhaseInv
<1>3. Len(program.branches) \in Nat
  BY ProgramAssumption DEF IInv, ContextInv
<1>4. 0 \in DOMAIN threads /\ FrameInv(main)
  BY <1>2, <1>3 DEF IInv
<1>5. ASSUME NEW i \in DOMAIN ends
      PROVE  ends[i].ctx[ModelDerivedKey] = main.ctx[ModelDerivedKey]
  BY <1>2, <1>3, <1>4, <1>5 DEF IInv, FrameInv, FrameOK
<1>6. /\ Shape(next) /\ next.ctx[ModelDerivedKey] = main.ctx[ModelDerivedKey]
      /\ next.trace = <<>> /\ next.verdict = main.verdict /\ next.passed = main.passed
  <2>1. Shape(main)
    BY <1>4 DEF FrameInv, FrameOK
  <2> QED
    BY ONLY <1>1, <1>2, <1>5, <2>1, JoinKeeps
<1>7. main.trace = <<>>
  BY <1>2, <1>4 DEF FrameInv, FrameOK, Shape
<1>8. FrameInv(next)
  BY <1>4, <1>6, <1>7, Unmoved DEF FrameInv, FrameOK, ProofInv, Proven, Refused
<1> QED
  BY <1>1, <1>2, <1>4, <1>8, OneFrame

(* After the run.                                                          *)
LEMMA AfterIInv ==
  ASSUME IInv, Finish \/ NewPlayer \/ Replayed
  PROVE  IInv'
<1>1. CASE Finish
  <2>1. /\ UNCHANGED <<program, ctx, guessed>> /\ threads' = <<>> /\ phase' = "recorded"
        /\ base' = base \/ base' = JsonContext(base)
    BY <1>1 DEF Finish
  <2>2. ContextInv' /\ PhaseInv'
    BY <2>1, JsonKeepsMarks DEF IInv, ContextInv, PhaseInv
  <2> QED
    BY <2>1, <2>2, NoFrames
<1>2. CASE NewPlayer
  <2>1. /\ program' \in Programs /\ Builds(program') /\ ctx' = base /\ base' = base
        /\ guessed' = {} /\ phase' = "reintake" /\ threads' = <<>>
    BY <1>2 DEF NewPlayer, IInv, PhaseInv
  <2>2. ContextInv' /\ PhaseInv'
    BY <2>1 DEF IInv, ContextInv, PhaseInv, Builds
  <2> QED
    BY <2>1, <2>2, NoFrames
<1>3. CASE Replayed
  <2>1. /\ UNCHANGED <<program, base, ctx, guessed, threads>> /\ phase' = "compared"
    BY <1>3 DEF Replayed
  <2>2. ContextInv' /\ PhaseInv'
    BY <2>1 DEF IInv, ContextInv, PhaseInv
  <2>3. ASSUME NEW t \in DOMAIN threads' PROVE FrameInv(threads[t])'
    BY <2>1, <2>3 DEF IInv, FrameInv, FrameOK, GuardInv, Guarded, ProofInv
  <2> QED
    BY <2>2, <2>3 DEF IInv
<1> QED
  BY <1>1, <1>2, <1>3

LEMMA NextIInv == IInv /\ [Next]_vars => IInv'
<1> SUFFICES ASSUME IInv, [Next]_vars PROVE IInv'
  OBVIOUS
<1>1. CASE ExtractLive \/ ExtractorFor \/ Persist
  BY <1>1, IntakeIInv
<1>2. CASE Begin
  BY <1>2, BeginIInv
<1>3. CASE Join
  BY <1>3, JoinIInv
<1>4. CASE Finish \/ NewPlayer \/ Replayed
  BY <1>4, AfterIInv
<1>5. ASSUME NEW t \in DOMAIN threads,
             InnerProbe(t) \/ Step(t) \/ PlayerProbe(t) \/ ReplayStep(t)
      PROVE  IInv'
  BY <1>5, InnerProbeIInv, PlayerProbeIInv, StepIInv
<1>6. CASE UNCHANGED vars
  <2>1. ContextInv' /\ PhaseInv'
    BY <1>6 DEF IInv, ContextInv, PhaseInv, vars
  <2>2. ASSUME NEW t \in DOMAIN threads' PROVE FrameInv(threads[t])'
    BY <1>6, <2>2 DEF IInv, FrameInv, FrameOK, GuardInv, Guarded, ProofInv, vars
  <2> QED
    BY <2>1, <2>2 DEF IInv
<1> QED
  BY <1>1, <1>2, <1>3, <1>4, <1>5, <1>6 DEF Next

LEMMA SpecIInv == Spec => []IInv
<1> QED
  BY InitIInv, NextIInv, PTL DEF Spec

-----------------------------------------------------------------------------
(* What a model supplied stays marked in every frame, across the JSON of a *)
(* parked context, the steps, the join of branches and the replay, and a   *)
(* run goes on from std.require_verified on such a field only to the       *)
(* step's fallback (injector.ContextFrom, Provenance, the action).         *)
THEOREM GuessesDecideNothing == Spec => []NoDecisionOnAGuess
<1>1. IInv => NoDecisionOnAGuess
  <2> SUFFICES ASSUME IInv, NEW t \in DOMAIN threads
               PROVE  /\ guessed \subseteq Provenance(threads[t].ctx)
                      /\ NeverActsOn(threads[t], Guarded(threads[t]))
    BY DEF NoDecisionOnAGuess
  <2>1. FrameInv(threads[t])
    BY DEF IInv
  <2>2. guessed \subseteq Provenance(threads[t].ctx)
    BY <2>1 DEF IInv, ContextInv, FrameInv, FrameOK, Provenance
  <2> QED
    BY <2>1, <2>2 DEF FrameInv, GuardInv, GoesAround
<1> QED
  BY <1>1, SpecIInv, PTL

(* A run goes on from a visit of a step with a probe as if it had          *)
(* succeeded only when a container ran its command for this visit to exit  *)
(* code 0, or a service answered 200 in JSON and gave no other code,       *)
(* whatever sandboxes answer: a 200 that says nothing of the command       *)
(* passes (the sandboxes' Probe, and the engine acting on the verdict).    *)
THEOREM RehearsedFirst == Spec => []ActsOnlyRehearsed
<1>1. IInv => ActsOnlyRehearsed
  BY DEF IInv, FrameInv, ProofInv, GoesAround, ActsOnlyRehearsed
<1> QED
  BY <1>1, SpecIInv, PTL

-----------------------------------------------------------------------------
(* What was recorded for a reference.                                      *)

Keeping(f, ref, records) ==
  f = [i \in 0 .. Len(records) |->
         IF i = 0 THEN <<>>
         ELSE IF records[i].ref = ref THEN Append(f[i - 1], records[i]) ELSE f[i - 1]]

LEMMA OfKeeps ==
  ASSUME NEW T, NEW records \in Seq(T), NEW ref
  PROVE  \E f : Keeping(f, ref, records) /\ Of(ref, records) = f[Len(records)]
                /\ \A i \in 0 .. Len(records) : f[i] \in Seq(T)
<1> PICK n \in Nat : n = Len(records) /\ DOMAIN records = 1 .. n
  OBVIOUS
<1> PICK F : F = [i \in 0 .. n |-> Seq(T)]
  OBVIOUS
<1> PICK step : step = [i \in 1 .. n |-> [q \in Seq(T) |->
                          IF records[i].ref = ref THEN Append(q, records[i]) ELSE q]]
  OBVIOUS
<1>0. \A i \in 1 .. n : records[i] \in T
  OBVIOUS
<1>1. \A i \in 1 .. n : \A q \in Seq(T) :
         step[i][q] = IF records[i].ref = ref THEN Append(q, records[i]) ELSE q
  OBVIOUS
<1>2. \A i \in 1 .. n : i - 1 \in 0 .. n /\ i \in 0 .. n
  OBVIOUS
<1>3. \A i \in 0 .. n : F[i] = Seq(T)
  OBVIOUS
<1>4. \A i \in 1 .. n : \A q \in F[i - 1] : step[i][q] \in F[i]
  <2> TAKE i \in 1 .. n
  <2>1. F[i - 1] = Seq(T) /\ F[i] = Seq(T) /\ records[i] \in T
    BY <1>0, <1>2, <1>3
  <2>2. \A q \in Seq(T) : Append(q, records[i]) \in Seq(T)
    BY <2>1
  <2> QED
    BY <1>1, <2>1, <2>2
<1>5. <<>> \in F[0]
  BY <1>3
<1>6. PICK f : Recurs(f, n, <<>>, step) /\ \A i \in 0 .. n : f[i] \in F[i]
  BY ONLY n \in Nat, <1>4, <1>5, Recursion, ZenonT(40)
<1>7. Keeping(f, ref, records)
  <2>1. \A i \in 0 .. n : i # 0 => i \in 1 .. n /\ i - 1 \in 0 .. n
    OBVIOUS
  <2>2. \A i \in 0 .. n : i # 0 => f[i - 1] \in Seq(T)
    BY <1>3, <1>6, <2>1
  <2> QED
    BY <1>1, <1>6, <2>1, <2>2 DEF Recurs, Keeping
<1>8. ASSUME NEW g, Keeping(g, ref, records) PROVE g = f
  <2>0. PICK S : S = {i \in 0 .. n : g[i] = f[i]}
    OBVIOUS
  <2>1. 0 \in S
    BY <1>7, <1>8, <2>0 DEF Keeping
  <2>2. ASSUME NEW i \in 1 .. n, i - 1 \in S PROVE i \in S
    <3>1. i \in 0 .. n /\ i # 0 /\ g[i - 1] = f[i - 1]
      BY <2>0, <2>2
    <3> QED
      BY <1>7, <1>8, <2>0, <3>1 DEF Keeping
  <2>3. 0 .. n \subseteq S
    BY <2>1, <2>2, Climb
  <2>4. \A i \in 0 .. n : g[i] = f[i]
    BY <2>0, <2>3
  <2>5. g = [i \in 0 .. n |-> g[i]] /\ f = [i \in 0 .. n |-> f[i]]
    BY <1>7, <1>8 DEF Keeping
  <2> QED
    BY <2>4, <2>5
<1>9. Of(ref, records) = (CHOOSE g : Keeping(g, ref, records))[Len(records)]
  BY Zenon DEF Of, Keeping
<1>10. (CHOOSE g : Keeping(g, ref, records)) = f
  BY <1>7, <1>8
<1> QED
  BY <1>3, <1>6, <1>7, <1>9, <1>10

LEMMA OfType ==
  ASSUME NEW T, NEW records \in Seq(T), NEW ref
  PROVE  Of(ref, records) \in Seq(T)
<1>1. Len(records) \in 0 .. Len(records)
  OBVIOUS
<1> QED
  BY <1>1, OfKeeps

LEMMA OfNone ==
  ASSUME NEW ref PROVE Of(ref, <<>>) = <<>>
<1>1. <<>> \in Seq({}) /\ Len(<<>>) = 0
  OBVIOUS
<1>2. PICK f : Keeping(f, ref, <<>>) /\ Of(ref, <<>>) = f[0]
  BY <1>1, OfKeeps
<1> QED
  BY <1>1, <1>2 DEF Keeping

LEMMA OfMore ==
  ASSUME NEW T, NEW records \in Seq(T), NEW r \in T, NEW ref
  PROVE  Of(ref, Append(records, r)) =
           IF r.ref = ref THEN Append(Of(ref, records), r) ELSE Of(ref, records)
<1> PICK n \in Nat : n = Len(records)
  OBVIOUS
<1> PICK more : more = Append(records, r)
  OBVIOUS
<1>1. more \in Seq(T) /\ Len(more) = n + 1 /\ more[n + 1] = r
      /\ \A i \in 1 .. n : more[i] = records[i]
  OBVIOUS
<1>2. PICK f : Keeping(f, ref, records) /\ Of(ref, records) = f[n]
  BY OfKeeps
<1>3. PICK g : Keeping(g, ref, more) /\ Of(ref, more) = g[n + 1]
  <2>1. more \in Seq(T) /\ Len(more) = n + 1
    BY <1>1
  <2>2. \E g : Keeping(g, ref, more) /\ Of(ref, more) = g[Len(more)]
    BY ONLY <2>1, OfKeeps
  <2> QED
    BY <2>1, <2>2
<1>4. PICK S : S = {i \in 0 .. n : g[i] = f[i]}
  OBVIOUS
<1>5. \A i \in 0 .. n : f[i] = IF i = 0 THEN <<>>
                             ELSE IF records[i].ref = ref THEN Append(f[i - 1], records[i]) ELSE f[i - 1]
  BY <1>2 DEF Keeping
<1>6. \A i \in 0 .. n + 1 : g[i] = IF i = 0 THEN <<>>
                             ELSE IF more[i].ref = ref THEN Append(g[i - 1], more[i]) ELSE g[i - 1]
  BY <1>1, <1>3 DEF Keeping
<1>7. 0 \in S
  BY <1>4, <1>5, <1>6
<1>8. ASSUME NEW i \in 1 .. n, i - 1 \in S PROVE i \in S
  BY <1>1, <1>4, <1>5, <1>6, <1>8
<1>9. 0 .. n \subseteq S
  BY <1>7, <1>8, Climb
<1>10. g[n] = f[n]
  BY <1>4, <1>9
<1>11. g[n + 1] = IF r.ref = ref THEN Append(g[n], r) ELSE g[n]
  <2>1. n + 1 \in 0 .. n + 1 /\ n + 1 # 0 /\ n + 1 - 1 = n
    OBVIOUS
  <2> QED
    BY <1>1, <1>6, <2>1
<1> QED
  BY <1>2, <1>3, <1>10, <1>11

(* Each reference that was recorded has a queue.                           *)
LEMMA Queues ==
  ASSUME NEW T, NEW records \in Seq(T), NEW ref \in DOMAIN ByRef(records)
  PROVE  ByRef(records)[ref] # <<>> /\ ByRef(records)[ref] \in Seq(T)
<1> PICK n \in Nat : n = Len(records) /\ DOMAIN records = 1 .. n
  OBVIOUS
<1>1. PICK j \in 1 .. n : records[j].ref = ref
  BY DEF ByRef
<1>2. ByRef(records)[ref] = Of(ref, records)
  BY DEF ByRef
<1>3. PICK f : Keeping(f, ref, records) /\ Of(ref, records) = f[n] /\ \A i \in 0 .. n : f[i] \in Seq(T)
  BY OfKeeps
<1>4. PICK S : S = {i \in 0 .. n : i >= j => f[i] # <<>>}
  OBVIOUS
<1>5. \A i \in 0 .. n : f[i] = IF i = 0 THEN <<>>
                             ELSE IF records[i].ref = ref THEN Append(f[i - 1], records[i]) ELSE f[i - 1]
  BY <1>3 DEF Keeping
<1>6. 0 \in S
  BY <1>4
<1>7. ASSUME NEW i \in 1 .. n, i - 1 \in S PROVE i \in S
  <2>1. i \in 0 .. n /\ i - 1 \in 0 .. n /\ i # 0 /\ f[i - 1] \in Seq(T) /\ records[i] \in T
    BY <1>3
  <2>2. f[i] = IF records[i].ref = ref THEN Append(f[i - 1], records[i]) ELSE f[i - 1]
    BY <1>5, <2>1
  <2>3. Append(f[i - 1], records[i]) # <<>>
    BY <2>1
  <2>4. i >= j => f[i] # <<>>
    <3>1. CASE i = j
      BY <1>1, <2>2, <2>3, <3>1
    <3>2. CASE i > j
      BY <1>4, <1>7, <2>1, <2>2, <2>3, <3>2
    <3> QED
      BY <3>1, <3>2
  <2> QED
    BY <1>4, <2>1, <2>4
<1>8. 0 .. n \subseteq S
  BY <1>6, <1>7, Climb
<1>9. n \in S
  BY <1>8
<1> QED
  BY <1>2, <1>3, <1>4, <1>9, OfType

-----------------------------------------------------------------------------
(* What is recorded stays as it is, and the queues of a player stay full.  *)

Listed(s) == \E T : s \in Seq(T)
Said(extraction) ==
  /\ extraction = [ref |-> extraction.ref, success |-> extraction.success,
                   payload |-> extraction.payload, why |-> extraction.why]
  /\ JsonContext(extraction.payload) = extraction.payload
RecorderInv ==
  /\ DOMAIN recorder = {"verdicts", "extractions"}
  /\ Listed(recorder.verdicts) /\ Listed(recorder.extractions)
  /\ \A i \in DOMAIN recorder.extractions : Said(recorder.extractions[i])
Supplied(queues) == \A ref \in DOMAIN queues : Listed(queues[ref]) /\ queues[ref] # <<>>
PlayerInv ==
  /\ DOMAIN player = {"verdicts", "extractions", "unmatched"}
  /\ Supplied(player.verdicts) /\ Supplied(player.extractions)
EndInv ==
  /\ phase \notin {"intake", "running"} => /\ recording.verdicts = recorder.verdicts
                                          /\ recording.extractions = recorder.extractions
  /\ phase = "compared" => result = Result(threads[0])
TypeInv == IInv /\ RecorderInv /\ PlayerInv /\ EndInv

LEMMA ListedMore ==
  ASSUME NEW s, Listed(s), NEW x
  PROVE  Listed(Append(s, x)) /\ DOMAIN Append(s, x) = DOMAIN s \cup {Len(s) + 1}
         /\ Append(s, x)[Len(s) + 1] = x /\ \A i \in DOMAIN s : Append(s, x)[i] = s[i]
<1>1. PICK T : s \in Seq(T)
  BY DEF Listed
<1>2. s \in Seq(T \cup {x}) /\ x \in T \cup {x}
  BY <1>1
<1>3. Append(s, x) \in Seq(T \cup {x})
  BY <1>2
<1>4. DOMAIN Append(s, x) = DOMAIN s \cup {Len(s) + 1}
         /\ Append(s, x)[Len(s) + 1] = x /\ \A i \in DOMAIN s : Append(s, x)[i] = s[i]
  BY <1>2
<1> QED
  BY <1>3, <1>4 DEF Listed

LEMMA RestFull ==
  ASSUME NEW queue, Listed(queue), queue # <<>>
  PROVE  Listed(Rest(queue)) /\ Rest(queue) # <<>>
<1>1. PICK T : queue \in Seq(T)
  BY DEF Listed
<1>2. CASE Len(queue) > 1
  <2>1. Tail(queue) \in Seq(T) /\ Len(Tail(queue)) = Len(queue) - 1
    BY <1>1, <1>2
  <2>2. Len(Tail(queue)) # 0
    BY <1>1, <1>2, <2>1
  <2>3. Tail(queue) # <<>>
    <3>1. Len(<<>>) = 0
      OBVIOUS
    <3> QED
      BY <2>2, <3>1
  <2> QED
    BY <1>2, <2>1, <2>3 DEF Rest, Listed
<1>3. CASE ~(Len(queue) > 1)
  BY <1>3 DEF Rest
<1> QED
  BY <1>2, <1>3

LEMMA SuppliedRest ==
  ASSUME NEW queues, Supplied(queues), NEW ref \in DOMAIN queues
  PROVE  Supplied([queues EXCEPT ![ref] = Rest(queues[ref])])
<1> PICK next : next = [queues EXCEPT ![ref] = Rest(queues[ref])]
  OBVIOUS
<1>1. DOMAIN next = DOMAIN queues /\ next[ref] = Rest(queues[ref])
      /\ \A other \in DOMAIN queues : other # ref => next[other] = queues[other]
  OBVIOUS
<1>2. Listed(Rest(queues[ref])) /\ Rest(queues[ref]) # <<>>
  BY RestFull DEF Supplied
<1> QED
  BY <1>1, <1>2 DEF Supplied

LEMMA SuppliedBy ==
  ASSUME NEW records, Listed(records) PROVE Supplied(ByRef(records))
<1>1. PICK T : records \in Seq(T)
  BY DEF Listed
<1> QED
  BY <1>1, Queues DEF Listed, Supplied

(* What was extracted is what JSON makes of it.                            *)
LEMMA Extracts ==
  ASSUME NEW x \in ModelReplies, NEW ref
  PROVE  LET payload == Extract(ref, Extractor(x)).payload IN JsonContext(payload) = payload
<1>1. CASE ref \in DOMAIN Schemas
  BY <1>1, ReplyAssumption
<1>2. CASE ref \notin DOMAIN Schemas
  <2>1. Extract(ref, Extractor(x)).payload = NoContext
    BY <1>2 DEF Extract
  <2>2. JsonContext(NoContext) = NoContext
    BY DEF JsonContext, NoContext, Json
  <2> QED
    BY <2>1, <2>2
<1> QED
  BY <1>1, <1>2

LEMMA InitTypeInv == Init => TypeInv
<1> SUFFICES ASSUME Init PROVE TypeInv
  OBVIOUS
<1>1. /\ phase = "intake"
      /\ recorder = [verdicts |-> <<>>, extractions |-> <<>>]
      /\ player = [verdicts |-> <<>>, extractions |-> <<>>, unmatched |-> <<>>]
  BY DEF Init
<1>2. Listed(<<>>) /\ DOMAIN <<>> = {}
  <2>1. <<>> \in Seq({})
    OBVIOUS
  <2> QED
    BY <2>1 DEF Listed
<1> QED
  BY <1>1, <1>2, InitIInv DEF TypeInv, RecorderInv, PlayerInv, Supplied, EndInv

LEMMA NextTypeInv == TypeInv /\ [Next]_vars => TypeInv'
<1> SUFFICES ASSUME TypeInv, [Next]_vars PROVE TypeInv'
  OBVIOUS
<1>1. IInv'
  BY NextIInv DEF TypeInv
<1>2. CASE ExtractLive
  <2>1. PICK x \in ModelReplies :
          LET r == Extract(Head(wanted), Extractor(x))
          IN recorder' = [recorder EXCEPT !.extractions =
                            Append(@, [ref |-> Head(wanted), success |-> r.success,
                                       payload |-> r.payload, why |-> r.why])]
    BY <1>2 DEF ExtractLive
  <2> PICK payload : payload = Extract(Head(wanted), Extractor(x)).payload
    OBVIOUS
  <2>2. PICK e : e.payload = payload
                 /\ e = [ref |-> e.ref, success |-> e.success, payload |-> e.payload, why |-> e.why]
                 /\ recorder' = [recorder EXCEPT !.extractions = Append(recorder.extractions, e)]
    BY <2>1
  <2>3. Said(e)
    BY <2>2, Extracts DEF Said
  <2>4. RecorderInv'
    <3>1. DOMAIN recorder' = DOMAIN recorder /\ recorder'.verdicts = recorder.verdicts
          /\ recorder'.extractions = Append(recorder.extractions, e)
      BY <2>2 DEF TypeInv, RecorderInv
    <3> QED
      BY <2>3, <3>1, ListedMore DEF TypeInv, RecorderInv
  <2>5. phase' = "intake" /\ player' = player
    BY <1>2 DEF ExtractLive
  <2> QED
    BY <1>1, <2>4, <2>5 DEF TypeInv, PlayerInv, EndInv
<1>3. CASE Persist \/ Begin \/ Join
  <2>1. UNCHANGED <<recorder, recording, player, result>>
    BY <1>3 DEF Persist, Begin, Join
  <2>2. /\ phase' \in {"intake", "running"} => phase \in {"intake", "running"}
        /\ phase' \notin {"intake", "running"} => phase \notin {"intake", "running"}
        /\ phase' # "compared"
    BY <1>3 DEF Persist, Begin, Join
  <2> QED
    BY <1>1, <2>1, <2>2 DEF TypeInv, RecorderInv, PlayerInv, EndInv
<1>4. CASE Finish
  <2>1. PICK json \in BOOLEAN :
          /\ recording'.verdicts = recorder.verdicts
          /\ recording'.extractions = [i \in DOMAIN recorder.extractions |->
               [recorder.extractions[i] EXCEPT
                  !.payload = IF json THEN JsonContext(@) ELSE @]]
    <3>1. PICK json \in BOOLEAN :
            LET As(c) == IF json THEN JsonContext(c) ELSE c
                got == Result(threads[0])
            IN /\ recording' =
                    [program |-> program, input |-> base, verdicts |-> recorder.verdicts,
                     extractions |-> [i \in DOMAIN recorder.extractions |->
                        [recorder.extractions[i] EXCEPT !.payload = As(@)]],
                     result |-> [got EXCEPT !.output = As(@)]]
               /\ base' = As(base)
      BY <1>4, Zenon DEF Finish
    <3> QED
      BY <3>1
  <2> PICK was : was = recorder.extractions
    OBVIOUS
  <2>2. \A i \in DOMAIN was : Said(was[i])
    BY DEF TypeInv, RecorderInv
  <2>3. ASSUME NEW i \in DOMAIN was
        PROVE  [was[i] EXCEPT !.payload = IF json THEN JsonContext(@) ELSE @] = was[i]
    <3> PICK e : e = was[i]
      OBVIOUS
    <3>1. (IF json THEN JsonContext(e.payload) ELSE e.payload) = e.payload
      BY <2>2 DEF Said
    <3>2. e = [ref |-> e.ref, success |-> e.success, payload |-> e.payload, why |-> e.why]
      BY <2>2 DEF Said
    <3>3. [e EXCEPT !.payload = e.payload] = e
      BY <3>2
    <3> QED
      BY <3>1, <3>3
  <2>4. recording'.extractions = [i \in DOMAIN was |-> was[i]]
    BY <2>1, <2>3
  <2>5. was = [i \in DOMAIN was |-> was[i]]
    <3>1. PICK T : was \in Seq(T)
      BY DEF TypeInv, RecorderInv, Listed
    <3> QED
      BY <3>1
  <2>6. phase' = "recorded" /\ UNCHANGED <<recorder, player>>
    BY <1>4 DEF Finish
  <2> QED
    BY <1>1, <2>1, <2>4, <2>5, <2>6 DEF TypeInv, RecorderInv, PlayerInv, EndInv
<1>5. CASE NewPlayer
  <2>1. /\ phase = "recorded" /\ phase' = "reintake" /\ UNCHANGED <<recorder, recording>>
        /\ player' = [verdicts |-> ByRef(recorder.verdicts),
                      extractions |-> ByRef(recorder.extractions), unmatched |-> <<>>]
    BY <1>5 DEF NewPlayer, TypeInv, EndInv
  <2>2. Supplied(ByRef(recorder.verdicts)) /\ Supplied(ByRef(recorder.extractions))
    BY SuppliedBy DEF TypeInv, RecorderInv
  <2>3. PlayerInv'
    BY <2>1, <2>2 DEF PlayerInv
  <2> QED
    BY <1>1, <2>1, <2>3 DEF TypeInv, RecorderInv, EndInv
<1>6. CASE ExtractorFor
  <2>1. /\ phase' = phase /\ phase = "reintake" /\ UNCHANGED <<recorder, recording>>
        /\ \/ player' = player
           \/ \E ref \in DOMAIN player.extractions :
                player' = [player EXCEPT !.extractions[ref] = Rest(@)]
           \/ \E ref : player' = [player EXCEPT !.unmatched = Append(@, ref)]
    BY <1>6 DEF ExtractorFor
  <2>2. PlayerInv'
    <3>1. ASSUME NEW ref \in DOMAIN player.extractions,
                 player' = [player EXCEPT !.extractions[ref] = Rest(@)]
          PROVE  PlayerInv'
      <4>1. /\ DOMAIN player' = DOMAIN player /\ player'.verdicts = player.verdicts
            /\ player'.extractions = [player.extractions EXCEPT ![ref] = Rest(player.extractions[ref])]
        BY <3>1 DEF TypeInv, PlayerInv
      <4> QED
        BY <4>1, SuppliedRest DEF TypeInv, PlayerInv
    <3> QED
      BY <2>1, <3>1 DEF TypeInv, PlayerInv
  <2> QED
    BY <1>1, <2>1, <2>2 DEF TypeInv, RecorderInv, EndInv
<1>7. CASE Replayed
  BY <1>1, <1>7 DEF Replayed, TypeInv, RecorderInv, PlayerInv, EndInv
<1>8. ASSUME NEW t \in DOMAIN threads, InnerProbe(t) \/ ReplayStep(t)
      PROVE  TypeInv'
  <2>1. /\ UNCHANGED <<phase, recorder, recording, player, result>> /\ phase # "compared"
    BY <1>8 DEF InnerProbe, ReplayStep
  <2> QED
    BY <1>1, <2>1 DEF TypeInv, RecorderInv, PlayerInv, EndInv
<1>9. ASSUME NEW t \in DOMAIN threads, Step(t)
      PROVE  TypeInv'
  <2>1. /\ phase' = phase /\ phase = "running" /\ UNCHANGED player
        /\ \/ recorder' = recorder
           \/ \E v : recorder' = [recorder EXCEPT !.verdicts = Append(@, v)]
    BY <1>9 DEF Step
  <2>2. RecorderInv'
    <3>1. ASSUME NEW v, recorder' = [recorder EXCEPT !.verdicts = Append(@, v)]
          PROVE  RecorderInv'
      <4>1. DOMAIN recorder' = DOMAIN recorder /\ recorder'.extractions = recorder.extractions
            /\ recorder'.verdicts = Append(recorder.verdicts, v)
        BY <3>1 DEF TypeInv, RecorderInv
      <4> QED
        BY <4>1, ListedMore DEF TypeInv, RecorderInv
    <3> QED
      BY <2>1, <3>1 DEF TypeInv, RecorderInv
  <2> QED
    BY <1>1, <2>1, <2>2 DEF TypeInv, PlayerInv, EndInv
<1>10. ASSUME NEW t \in DOMAIN threads, PlayerProbe(t)
      PROVE  TypeInv'
  <2>1. /\ UNCHANGED <<phase, recorder, recording>> /\ phase = "replaying"
        /\ \/ \E ref \in DOMAIN player.verdicts :
                player' = [player EXCEPT !.verdicts[ref] = Rest(@)]
           \/ \E ref : player' = [player EXCEPT !.unmatched = Append(@, ref)]
    BY <1>10 DEF PlayerProbe
  <2>2. PlayerInv'
    <3>1. ASSUME NEW ref \in DOMAIN player.verdicts,
                 player' = [player EXCEPT !.verdicts[ref] = Rest(@)]
          PROVE  PlayerInv'
      <4>1. /\ DOMAIN player' = DOMAIN player /\ player'.extractions = player.extractions
            /\ player'.verdicts = [player.verdicts EXCEPT ![ref] = Rest(player.verdicts[ref])]
        BY <3>1 DEF TypeInv, PlayerInv
      <4> QED
        BY <4>1, SuppliedRest DEF TypeInv, PlayerInv
    <3> QED
      BY <2>1, <3>1 DEF TypeInv, PlayerInv
  <2> QED
    BY <1>1, <2>1, <2>2 DEF TypeInv, RecorderInv, EndInv
<1>11. CASE UNCHANGED vars
  BY <1>1, <1>11 DEF vars, TypeInv, RecorderInv, PlayerInv, EndInv
<1> QED
  BY <1>2, <1>3, <1>4, <1>5, <1>6, <1>7, <1>8, <1>9, <1>10, <1>11 DEF Next

(* A recording is what the recorder took, also through JSON, a player has  *)
(* an answer left for every reference it knows, and a frame stands at a    *)
(* step of its program (Recorder.Finish, NewPlayer, the engine's loop).    *)
THEOREM ReplayTypes == Spec => []TypeOK
<1>1. TypeInv => TypeOK
  <2> SUFFICES ASSUME TypeInv PROVE TypeOK
    OBVIOUS
  <2>1. \A t \in DOMAIN threads : Shape(threads[t])
    BY DEF TypeInv, IInv, FrameInv, FrameOK
  <2>2. \A t \in DOMAIN threads : ~Walking(threads[t]) \/ threads[t].joins
                                   \/ threads[t].at \in DOMAIN threads[t].steps
    BY <2>1 DEF Shape
  <2>3. guessed \subseteq Fields
    BY DEF TypeInv, IInv, ContextInv, Marked
  <2> QED
    BY <2>2, <2>3 DEF TypeInv, IInv, PhaseInv, EndInv, PlayerInv, Supplied, TypeOK
<1>2. Spec => []TypeInv
  BY InitTypeInv, NextTypeInv, PTL DEF Spec
<1> QED
  BY <1>1, <1>2, PTL

-----------------------------------------------------------------------------
(* A replay under the program that made the recording (ReplayReproduces).  *)
(*                                                                         *)
(* JSON may stand between the run and its replay: what is the same in both *)
(* is the same but for JSON (Alike).  A run is seen as courses of turns,   *)
(* one of each branch and one of the program, which hear a verdict or move *)
(* on; what was heard is in the log at the place the turn was taken at, as *)
(* no two branches ask for one reference.  In the replay each frame stands *)
(* at a place of its course, the queues have what is left from there, and  *)
(* the branches that ended are joined as those of the run were.            *)

(* Values that nothing here tells apart.                                   *)
Alike(a, b) ==
  \/ a = b
  \/ /\ a # None /\ b # None /\ Json(a) # None
     /\ Json(a) = Json(b) /\ Text(a) = Text(b)

LEMMA JsonTwice ==
  ASSUME NEW v
  PROVE  Json(Json(v)) = Json(v) /\ Text(Json(v)) = Json(v)
<1>1. CASE v = None
  BY <1>1 DEF Json, Text
<1>2. CASE v # None /\ v[1] = "int"
  <2>1. Json(v) = <<"float", v[2]>>
    BY <1>2 DEF Json
  <2>2. Json(v)[1] = "float"
    BY <2>1
  <2>3. Json(Json(v)) = Json(v)
    BY <2>2 DEF Json
  <2> QED
    BY <2>2, <2>3 DEF Text
<1>3. CASE v # None /\ v[1] = "strings"
  <2>1. Json(v) = <<"array", {<<"string", s>> : s \in v[2]}>>
    BY <1>3 DEF Json
  <2>2. Json(v)[1] = "array"
    BY <2>1
  <2>3. Json(Json(v)) = Json(v)
    BY <2>2 DEF Json
  <2> QED
    BY <2>2, <2>3 DEF Text
<1>4. CASE v # None /\ v[1] \notin {"int", "strings"}
  <2>1. Json(v) = v
    BY <1>4 DEF Json
  <2> QED
    BY <1>4, <2>1 DEF Text
<1> QED
  BY <1>1, <1>2, <1>3, <1>4

(* What is a scalar, and what is a number.                                 *)
LEMMA AlikeKinds ==
  ASSUME NEW a, NEW b, Alike(a, b)
  PROVE  /\ Numeric(a) <=> Numeric(b)
         /\ Numeric(a) => a[2] = b[2]
         /\ ~Numeric(a) /\ (Scalar(a) \/ Scalar(b)) => a = b
         /\ Scalar(a) <=> Scalar(b)
<1>1. CASE a = b
  BY <1>1
<1>2. CASE a # b
  <2>0. a # None /\ b # None
    BY <1>2 DEF Alike
  <2> DEFINE Plain(v) == v[1] \notin {"int", "strings"}
  <2>1. \A v : v # None /\ v[1] = "int" => Json(v) = <<"float", v[2]>> /\ Json(v)[1] = "float" /\ Json(v)[2] = v[2]
    BY DEF Json
  <2>2. \A v : v # None /\ v[1] = "strings" => Json(v)[1] = "array"
    BY DEF Json
  <2>3. \A v : v # None /\ Plain(v) => Json(v) = v
    BY DEF Json
  <2>4. Json(a) = Json(b)
    BY <1>2 DEF Alike
  <2> HIDE DEF Json
  <2>5. CASE a[1] = "int"
    <3>1. Json(a)[1] = "float" /\ Json(a)[2] = a[2]
      BY <2>0, <2>1, <2>5
    <3>2. CASE b[1] = "int"
      <4>1. Json(b)[2] = b[2]
        BY <2>0, <2>1, <3>2
      <4>2. a[2] = b[2]
        BY <2>4, <3>1, <4>1
      <4>3. Numeric(a) /\ Numeric(b) /\ Scalar(a) /\ Scalar(b)
        BY <2>0, <2>5, <3>2 DEF Numeric, Scalar
      <4> QED
        BY <4>2, <4>3
    <3>3. CASE b[1] = "strings"
      BY <2>0, <2>2, <2>4, <3>1, <3>3
    <3>4. CASE Plain(b)
      BY <2>0, <2>3, <2>4, <2>5, <3>1, <3>4 DEF Numeric, Scalar
    <3> QED
      BY <3>2, <3>3, <3>4
  <2>6. CASE a[1] = "strings"
    <3>1. Json(a)[1] = "array"
      BY <2>0, <2>2, <2>6
    <3>2. CASE b[1] = "int"
      BY <2>0, <2>1, <2>4, <3>1, <3>2
    <3>3. CASE b[1] = "strings"
      BY <2>0, <2>6, <3>3 DEF Numeric, Scalar
    <3>4. CASE Plain(b)
      BY <2>0, <2>3, <2>4, <2>6, <3>1, <3>4 DEF Numeric, Scalar
    <3> QED
      BY <3>2, <3>3, <3>4
  <2>7. CASE Plain(a)
    <3>1. Json(a) = a
      BY <2>0, <2>3, <2>7
    <3>2. CASE b[1] = "int"
      <4>1. a[1] = "float" /\ a[2] = b[2]
        BY <2>0, <2>1, <2>4, <3>1, <3>2
      <4>2. Numeric(a) /\ Numeric(b) /\ Scalar(a) /\ Scalar(b)
        BY <2>0, <3>2, <4>1 DEF Numeric, Scalar
      <4> QED
        BY <4>1, <4>2
    <3>3. CASE b[1] = "strings"
      BY <2>0, <2>2, <2>4, <2>7, <3>1, <3>3 DEF Numeric, Scalar
    <3>4. CASE Plain(b)
      BY <2>0, <2>3, <2>4, <3>1, <3>4
    <3> QED
      BY <3>2, <3>3, <3>4
  <2> QED
    BY <2>5, <2>6, <2>7
<1> QED
  BY <1>1, <1>2

LEMMA AlikeEquals ==
  ASSUME NEW a, NEW b, Alike(a, b), NEW want, Scalar(want)
  PROVE  Equals(a, want) = Equals(b, want)
<1>1. CASE Numeric(a) /\ Numeric(want)
  BY <1>1, AlikeKinds DEF Equals
<1>2. CASE ~(Numeric(a) /\ Numeric(want))
  <2>1. Equals(a, want) = (a = want) /\ Equals(b, want) = (b = want)
    BY <1>2, AlikeKinds DEF Equals
  <2>2. CASE Numeric(a)
    <3>1. Numeric(b) /\ ~Numeric(want)
      BY <1>2, <2>2, AlikeKinds
    <3>2. a # want /\ b # want
      BY <2>2, <3>1
    <3> QED
      BY <2>1, <3>2
  <2>3. CASE ~Numeric(a) /\ (Scalar(a) \/ Scalar(b))
    BY <2>1, <2>3, AlikeKinds
  <2>4. CASE ~Scalar(a) /\ ~Scalar(b)
    <3>1. a # want /\ b # want
      BY <2>4
    <3> QED
      BY <2>1, <3>1
  <2> QED
    BY <2>2, <2>3, <2>4
<1> QED
  BY <1>1, <1>2

LEMMA AlikeCompare ==
  ASSUME NEW a, NEW b, Alike(a, b), NEW want, NEW op \in ValidOps,
         op \in {"eq", "neq"} => Scalar(want),
         op = "in" /\ ~Scalar(want) => \A v \in want[2] : Scalar(v)
  PROVE  Compare(a, op, want) = Compare(b, op, want)
<1>1. CASE op = "eq"
  <2>1. Equals(a, want) = Equals(b, want)
    BY <1>1, AlikeEquals
  <2>2. \A v : Compare(v, op, want) = IF Equals(v, want) THEN "true" ELSE "false"
    BY <1>1 DEF Compare
  <2> QED
    BY <2>1, <2>2
<1>2. CASE op = "neq"
  <2>1. Equals(a, want) = Equals(b, want)
    BY <1>2, AlikeEquals
  <2>2. \A v : Compare(v, op, want) = IF Equals(v, want) THEN "false" ELSE "true"
    BY <1>2 DEF Compare
  <2> QED
    BY <2>1, <2>2
<1>3. CASE op = "in"
  <2>1. CASE want = None \/ want[1] # "array"
    BY <1>3, <2>1 DEF Compare
  <2>2. CASE want # None /\ want[1] = "array"
    <3>1. \A v \in want[2] : Equals(a, v) = Equals(b, v)
      BY <1>3, <2>2, AlikeEquals DEF Scalar
    <3>2. \A x : Compare(x, op, want) = IF \E v \in want[2] : Equals(x, v) THEN "true" ELSE "false"
      BY <1>3, <2>2 DEF Compare
    <3>3. (\E v \in want[2] : Equals(a, v)) <=> (\E v \in want[2] : Equals(b, v))
      BY <3>1
    <3> QED
      BY <3>2, <3>3
  <2> QED
    BY <2>1, <2>2
<1>4. CASE op \in {"gt", "gte", "lt", "lte"}
  <2>1. CASE ~Numeric(a) \/ ~Numeric(want)
    BY <1>4, <2>1, AlikeKinds DEF Compare
  <2>2. CASE Numeric(a) /\ Numeric(want)
    <3>1. Numeric(b) /\ a[2] = b[2]
      BY <2>2, AlikeKinds
    <3> QED
      BY <1>4, <2>2, <3>1 DEF Compare
  <2> QED
    BY <2>1, <2>2
<1> QED
  BY <1>1, <1>2, <1>3, <1>4 DEF ValidOps

(* The marks in a list of strings, before or after JSON.                   *)
LEMMA AlikeMarks ==
  ASSUME NEW c, NEW d, Alike(c[ModelDerivedKey], d[ModelDerivedKey])
  PROVE  Provenance(c) = Provenance(d)
<1> PICK a : a = c[ModelDerivedKey]
  OBVIOUS
<1> PICK b : b = d[ModelDerivedKey]
  OBVIOUS
<1> DEFINE Strings(A) == {v[2] : v \in {w \in A : w[1] = "string"}}
           Named(v) == IF v = None THEN {}
                      ELSE IF v[1] = "strings" THEN v[2]
                      ELSE IF v[1] = "array" THEN Strings(v[2]) ELSE {}
<1>1. Provenance(c) = Named(a) /\ Provenance(d) = Named(b)
  BY DEF Provenance
<1>2. ASSUME NEW v, v # None, Json(v) # None PROVE Named(v) = Named(Json(v))
  <2>1. CASE v[1] = "int"
    <3>1. Json(v) = <<"float", v[2]>>
      BY <1>2, <2>1 DEF Json
    <3>2. Json(v)[1] = "float"
      BY <3>1
    <3> QED
      BY <1>2, <2>1, <3>2
  <2>2. CASE v[1] = "strings"
    <3> PICK A : A = {<<"string", s>> : s \in v[2]}
      OBVIOUS
    <3>1. Json(v) = <<"array", A>>
      BY <1>2, <2>2 DEF Json
    <3>2. Json(v)[1] = "array" /\ Json(v)[2] = A
      BY <3>1
    <3>3. Strings(A) = v[2]
      BY ReadBack
    <3>4. Named(v) = v[2]
      BY <1>2, <2>2
    <3>5. Named(Json(v)) = Strings(A)
      BY <1>2, <3>2
    <3> QED
      BY <3>3, <3>4, <3>5
  <2>3. CASE v[1] \notin {"int", "strings"}
    <3>1. Json(v) = v
      BY <1>2, <2>3 DEF Json
    <3> QED
      BY <3>1
  <2> QED
    BY <2>1, <2>2, <2>3
<1> HIDE DEF Named
<1>3. CASE a = b
  BY <1>1, <1>3
<1>4. CASE a # b
  <2>1. a # None /\ b # None /\ Json(a) # None /\ Json(a) = Json(b)
    BY <1>4 DEF Alike
  <2> QED
    BY <1>1, <1>2, <2>1
<1> QED
  BY <1>3, <1>4

(* Actions and steps on contexts that are alike.                           *)
AlikeIn(c, d) == DOMAIN c = Keys /\ DOMAIN d = Keys /\ \A k \in Keys : Alike(c[k], d[k])

LEMMA AlikeText ==
  ASSUME NEW a, NEW b, Alike(a, b)
  PROVE  Text(a) = Text(b) /\ Json(a) = Json(b)
  BY DEF Alike

LEMMA ActsAlike ==
  ASSUME NEW s, Configured(s.action, s.with), ComparesScalars(s), NEW c, NEW d, AlikeIn(c, d)
  PROVE  Act(s.action, s.with, c) = Act(s.action, s.with, d)
<1> PICK w : w = s.with
  OBVIOUS
<1>1. CASE s.action = "std.set"
  BY <1>1 DEF Act, setAction
<1>2. CASE s.action \in {"std.require", "std.rule_check"}
  <2>1. /\ w.op \in ValidOps /\ w.field \in Keys
        /\ w.op \in {"eq", "neq"} => Scalar(w.value)
        /\ w.op = "in" /\ ~Scalar(w.value) => \A v \in w.value[2] : Scalar(v)
    BY <1>2, Zenon DEF Configured, comparisonParams, ComparesScalars
  <2> PICK a : a = c[w.field]
    OBVIOUS
  <2> PICK b : b = d[w.field]
    OBVIOUS
  <2>2. Alike(a, b)
    BY <2>1 DEF AlikeIn
  <2>3. Text(a) = Text(b) /\ Compare(a, w.op, w.value) = Compare(b, w.op, w.value)
    BY ONLY <2>1, <2>2, AlikeText, AlikeCompare
  <2>4. requireAction(w, c) = requireAction(w, d)
    BY <2>3, Zenon DEF requireAction
  <2>5. ruleCheckAction(w, c) = ruleCheckAction(w, d)
    BY <2>3, Zenon DEF ruleCheckAction
  <2> QED
    BY <1>2, <2>4, <2>5 DEF Act
<1>3. CASE s.action = "std.suspend"
  BY <1>3 DEF Act, suspendAction
<1>4. CASE s.action = "std.require_verified"
  <2>1. Provenance(c) = Provenance(d)
    BY AlikeMarks DEF AlikeIn, Keys, CeeKeys
  <2> QED
    BY <1>4, <2>1 DEF Act, requireVerifiedAction
<1> QED
  BY <1>1, <1>2, <1>3, <1>4 DEF Configured

(* What a step may write.                                                  *)
Puts(s, k, v) ==
  \/ /\ s.action = "std.set" /\ k \in DOMAIN s.with.fields
     /\ v = s.with.fields[k] /\ v # None
  \/ v[1] \in {"bool", "string"}

LEMMA ActPuts ==
  ASSUME NEW s, Configured(s.action, s.with), NEW c, NEW k \in Keys,
         NEW out, out = Act(s.action, s.with, c).output, k \in DOMAIN out, out[k] # None
  PROVE  Puts(s, k, out[k])
<1>1. CASE s.action = "std.set"
  <2>1. out = s.with.fields
    BY <1>1 DEF Act, setAction, Answer
  <2> QED
    BY <1>1, <2>1 DEF Puts
<1>2. CASE s.action # "std.set"
  <2>1. \/ out = NoContext
        \/ \E x : out = Writes(s.with.result_field, <<"bool", x>>)
    <3>1. CASE s.action = "std.require"
      <4> PICK a : a = requireAction(s.with, c)
        OBVIOUS
      <4>1. out = a.output
        BY <3>1 DEF Act
      <4>2. PICK held : held = Compare(c[s.with.field], s.with.op, s.with.value)
        OBVIOUS
      <4>3. held \in {"true", "false", "error"}
        <5>1. s.with.op \in ValidOps
          BY <3>1 DEF Configured, comparisonParams
        <5> QED
          BY ONLY <4>2, <5>1, Compared
      <4>4. \E kind, why : a = Answer(kind, NoContext, why)
        <5>1. CASE held = "true"
          BY <4>2, <5>1, Zenon DEF requireAction
        <5>2. CASE held = "false"
          BY <4>2, <5>2 DEF requireAction
        <5>3. CASE held = "error"
          BY <4>2, <5>3 DEF requireAction
        <5> QED
          BY <4>3, <5>1, <5>2, <5>3
      <4> QED
        BY <4>1, <4>4 DEF Answer
    <3>2. CASE s.action = "std.rule_check"
      BY <3>2 DEF Act, ruleCheckAction, Answer
    <3>3. CASE s.action = "std.suspend"
      BY <3>3 DEF Act, suspendAction, Answer
    <3>4. CASE s.action = "std.require_verified"
      BY <3>4 DEF Act, requireVerifiedAction, Answer
    <3> QED
      BY <1>2, <3>1, <3>2, <3>3, <3>4 DEF Configured
  <2>2. NoContext[k] = None
    BY DEF NoContext
  <2>3. PICK x : out = Writes(s.with.result_field, <<"bool", x>>)
    BY <2>1, <2>2
  <2>4. out[k] = None \/ out[k] = <<"bool", x>>
    BY <2>2, <2>3 DEF Writes, NoContext
  <2>5. out[k] = <<"bool", x>>
    BY <2>4
  <2>6. out[k][1] = "bool"
    BY <2>5
  <2> QED
    BY <2>6 DEF Puts
<1> QED
  BY <1>1, <1>2

(* Two frames that have come the same way, on contexts that are alike.     *)
Mirrors(f, g) ==
  /\ f.steps = g.steps /\ f.at = g.at /\ f.joined = g.joined /\ f.trace = g.trace
  /\ f.joins = g.joins /\ f.end = g.end /\ f.why = g.why /\ AlikeIn(f.ctx, g.ctx)

(* What a step that two frames take at once does to their contexts.        *)
WritesAlike(s, f, g, nf, ng) ==
  \A k \in Keys : \/ nf.ctx[k] = f.ctx[k] /\ ng.ctx[k] = g.ctx[k]
                  \/ nf.ctx[k] = ng.ctx[k] /\ Puts(s, k, nf.ctx[k])

(* What of a frame does not come from its context.                         *)
Route(f) == <<f.steps, f.at, f.joined, f.trace, f.joins, f.end, f.why>>

LEMMA MirrorsIs ==
  ASSUME NEW f, NEW g
  PROVE  Mirrors(f, g) <=> Route(f) = Route(g) /\ AlikeIn(f.ctx, g.ctx)
  BY DEF Mirrors, Route

LEMMA WritesMirror ==
  ASSUME NEW s, NEW f, NEW g, NEW nf, NEW ng, AlikeIn(f.ctx, g.ctx),
         DOMAIN nf.ctx = Keys, DOMAIN ng.ctx = Keys, WritesAlike(s, f, g, nf, ng)
  PROVE  AlikeIn(nf.ctx, ng.ctx)
  BY DEF WritesAlike, AlikeIn, Alike

(* The parts a frame fails or falls back with.                             *)
LEMMA FailureIs ==
  ASSUME NEW f, Shape(f), Walking(f), NEW why, NEW nf, nf = OnFailure(Failing(f), why)
  PROVE  /\ Route(nf) = IF Took(f).fallback = None
                         THEN <<f.steps, f.at, f.joined, Append(f.trace, f.at), f.joins,
                                "failed", <<f.at, why>>>>
                         ELSE <<f.steps, Took(f).fallback, f.joined, Append(f.trace, f.at),
                                f.joins, None, f.why>>
         /\ nf.ctx = IF Took(f).fallback = None THEN f.ctx
                     ELSE [f.ctx EXCEPT ![FailureReasonKey] = <<"string", why>>,
                                        ![FailedStepKey] = <<"string", f.at>>]
<1> PICK at : at = Failing(f)
  OBVIOUS
<1> PICK to : to = Took(f).fallback
  OBVIOUS
<1>1. /\ DOMAIN at = Parts /\ at.steps = f.steps /\ at.joins = f.joins /\ at.end = None
      /\ at.why = f.why /\ at.joined = f.joined /\ at.at = f.at /\ at.ctx = f.ctx
      /\ at.trace = Append(f.trace, f.at) /\ f.trace \in Seq(DOMAIN f.steps)
      /\ f.at \in DOMAIN f.steps
  BY DEF Shape, Parts, Walking, Failing
<1>2. Last(at.trace) = f.at
  BY <1>1 DEF Last
<1>3. CASE to = None
  <2>1. nf = End(at, "failed", <<f.at, why>>)
    BY <1>1, <1>2, <1>3 DEF OnFailure, Took
  <2> QED
    BY <1>1, <1>3, <2>1 DEF End, Parts, Route
<1>4. CASE to # None
  <2>1. nf = [at EXCEPT !.at = to, !.ctx[FailureReasonKey] = <<"string", why>>,
                        !.ctx[FailedStepKey] = <<"string", f.at>>]
    BY <1>1, <1>2, <1>4 DEF OnFailure, Took
  <2>2. /\ nf.at = to /\ nf.steps = at.steps /\ nf.joins = at.joins /\ nf.end = at.end
        /\ nf.why = at.why /\ nf.joined = at.joined /\ nf.trace = at.trace
    BY <1>1, <2>1 DEF Parts
  <2>3. nf.ctx = [at.ctx EXCEPT ![FailureReasonKey] = <<"string", why>>,
                                ![FailedStepKey] = <<"string", f.at>>]
    BY <1>1, <2>1 DEF Parts
  <2>4. Route(nf) = <<f.steps, to, f.joined, Append(f.trace, f.at), f.joins, None, f.why>>
    BY <1>1, <2>2 DEF Route
  <2>5. nf.ctx = [f.ctx EXCEPT ![FailureReasonKey] = <<"string", why>>,
                               ![FailedStepKey] = <<"string", f.at>>]
    BY <1>1, <2>3
  <2> QED
    BY <1>4, <2>4, <2>5, Zenon
<1> QED
  BY <1>3, <1>4

LEMMA FailureMirrors ==
  ASSUME NEW f, Shape(f), Walking(f), NEW g, Shape(g), Mirrors(f, g), NEW why,
         NEW nf, nf = OnFailure(Failing(f), why), NEW ng, ng = OnFailure(Failing(g), why)
  PROVE  Mirrors(nf, ng) /\ WritesAlike(Took(f), f, g, nf, ng)
<1>1. Walking(g) /\ Took(f) = Took(g) /\ g.at = f.at
  BY DEF Mirrors, Walking, Took
<1> DEFINE Ends(h) == <<h.steps, h.at, h.joined, Append(h.trace, h.at), h.joins,
                        "failed", <<h.at, why>>>>
           Goes(h) == <<h.steps, Took(h).fallback, h.joined, Append(h.trace, h.at),
                        h.joins, None, h.why>>
           Writ(h) == [h.ctx EXCEPT ![FailureReasonKey] = <<"string", why>>,
                                    ![FailedStepKey] = <<"string", h.at>>]
<1>f. /\ Route(nf) = IF Took(f).fallback = None THEN Ends(f) ELSE Goes(f)
      /\ nf.ctx = IF Took(f).fallback = None THEN f.ctx ELSE Writ(f)
  BY FailureIs
<1>g. /\ Route(ng) = IF Took(g).fallback = None THEN Ends(g) ELSE Goes(g)
      /\ ng.ctx = IF Took(g).fallback = None THEN g.ctx ELSE Writ(g)
  BY <1>1, FailureIs
<1>2. Route(nf) = Route(ng)
  <2>1. Ends(f) = Ends(g) /\ Goes(f) = Goes(g)
    BY <1>1 DEF Mirrors
  <2> HIDE DEF Ends, Goes
  <2> QED
    BY <1>1, <1>f, <1>g, <2>1
<1>3. CASE Took(f).fallback = None
  <2>1. nf.ctx = f.ctx /\ ng.ctx = g.ctx
    BY <1>1, <1>3, <1>f, <1>g
  <2>2. AlikeIn(nf.ctx, ng.ctx)
    BY <2>1 DEF Mirrors
  <2>3. WritesAlike(Took(f), f, g, nf, ng)
    BY <2>1 DEF WritesAlike
  <2> QED
    BY <1>2, <2>2, <2>3, MirrorsIs
<1>4. CASE Took(f).fallback # None
  <2> PICK x : x = <<"string", why>>
    OBVIOUS
  <2> PICK y : y = <<"string", f.at>>
    OBVIOUS
  <2>1. nf.ctx = [f.ctx EXCEPT ![FailureReasonKey] = x, ![FailedStepKey] = y]
    BY <1>4, <1>f
  <2>2. ng.ctx = [g.ctx EXCEPT ![FailureReasonKey] = x, ![FailedStepKey] = y]
    BY <1>1, <1>4, <1>g
  <2>3. x[1] = "string" /\ y[1] = "string"
    OBVIOUS
  <2>4. DOMAIN f.ctx = Keys /\ DOMAIN g.ctx = Keys /\ AlikeIn(f.ctx, g.ctx)
    BY DEF Shape, Mirrors
  <2>5. WritesAlike(Took(f), f, g, nf, ng)
    BY <2>1, <2>2, <2>3, <2>4 DEF WritesAlike, Puts
  <2>6. DOMAIN nf.ctx = Keys /\ DOMAIN ng.ctx = Keys
    BY <2>1, <2>2, <2>4
  <2> QED
    BY <1>2, <2>4, <2>5, <2>6, WritesMirror, MirrorsIs
<1> QED
  BY <1>3, <1>4

(* How a step that is not refused moves a frame.                           *)
WentOn(f) ==
  LET to == Took(f).onSuccess
  IN <<f.steps, to, f.joined, Append(f.trace, f.at), f.joins,
       IF to = None THEN "done" ELSE None, IF to = None THEN None ELSE f.why>>
Paused(f, host) ==
  <<f.steps, f.at, f.joined, Append(f.trace, f.at), f.joins,
    IF host.store THEN "suspended" ELSE "failed",
    IF host.store THEN None ELSE <<f.at, <<"cannot suspend">>>>>>
Mode(verdict) == IF verdict.err # None THEN verdict.err ELSE verdict.mode

LEMMA EndRoute ==
  ASSUME NEW fr, DOMAIN fr = Parts, NEW how, NEW why
  PROVE  /\ Route(End(fr, how, why)) = <<fr.steps, fr.at, fr.joined, fr.trace, fr.joins, how, why>>
         /\ End(fr, how, why).ctx = fr.ctx
  BY DEF End, Parts, Route

LEMMA AdvanceIs ==
  ASSUME NEW f, Shape(f), Walking(f), NEW host, host.sandbox, NEW nf, nf = Advance(f, host)
  PROVE  IF Refused(f) THEN nf = OnFailure(Failing(f), Mode(f.verdict))
         ELSE /\ Says(f).kind = "error" => nf = OnFailure(Failing(f), Says(f).why)
              /\ Says(f).kind = "ok" => Route(nf) = WentOn(f) /\ nf.ctx = Overlay(f.ctx, Says(f).output)
              /\ Says(f).kind = "suspend" => Route(nf) = Paused(f, host) /\ nf.ctx = f.ctx
<1> PICK at : at = Failing(f)
  OBVIOUS
<1> PICK s : s = Took(f)
  OBVIOUS
<1> PICK a : a = Says(f)
  OBVIOUS
<1>t. PICK to : to = [at EXCEPT !.at = s.onSuccess, !.ctx = Overlay(@, a.output)]
  OBVIOUS
<1>2. /\ DOMAIN at = Parts /\ at.steps = f.steps /\ at.joins = f.joins /\ at.end = None
      /\ at.why = f.why /\ at.joined = f.joined /\ at.at = f.at /\ at.ctx = f.ctx
      /\ at.trace = Append(f.trace, f.at)
  BY DEF Shape, Parts, Walking, Failing
<1>3. /\ DOMAIN to = Parts /\ to.steps = f.steps /\ to.joins = f.joins /\ to.end = None
      /\ to.why = f.why /\ to.joined = f.joined /\ to.at = s.onSuccess
      /\ to.ctx = Overlay(f.ctx, a.output) /\ to.trace = Append(f.trace, f.at)
  BY <1>2, <1>t, Zenon DEF Parts
<1>5. CASE Refused(f)
  BY <1>5, Zenon DEF Advance, Took, Refused, Failing, Mode
<1>6. CASE ~Refused(f) /\ a.kind = "error"
  BY <1>6 DEF Advance, Took, Says, Refused, Failing
<1>7. CASE ~Refused(f) /\ a.kind = "ok"
  <2>1. CASE s.onSuccess = None
    <3>1. nf = End(to, "done", None)
      BY <1>7, <1>t, <2>1 DEF Advance, Took, Says, Refused, Failing
    <3>a. PICK how : how = "done"
      OBVIOUS
    <3>b. nf = End(to, how, None)
      BY <3>1, <3>a, Zenon
    <3>2. /\ Route(nf) = <<to.steps, to.at, to.joined, to.trace, to.joins, how, None>>
          /\ nf.ctx = to.ctx
      BY <1>3, <3>b, EndRoute
    <3>3. Route(nf) = <<f.steps, s.onSuccess, f.joined, Append(f.trace, f.at), f.joins, "done", None>>
      BY <1>3, <3>2, <3>a
    <3>4. WentOn(f) = <<f.steps, s.onSuccess, f.joined, Append(f.trace, f.at), f.joins, "done", None>>
      BY <2>1 DEF WentOn
    <3> QED
      BY <1>3, <1>7, <3>2, <3>3, <3>4
  <2>2. CASE s.onSuccess # None
    <3>1. nf = to
      BY <1>7, <1>t, <2>2 DEF Advance, Took, Says, Refused, Failing
    <3>2. Route(to) = <<f.steps, s.onSuccess, f.joined, Append(f.trace, f.at), f.joins, None, f.why>>
      BY <1>3 DEF Route
    <3>3. WentOn(f) = <<f.steps, s.onSuccess, f.joined, Append(f.trace, f.at), f.joins, None, f.why>>
      BY <2>2 DEF WentOn
    <3> QED
      BY <1>3, <1>7, <3>1, <3>2, <3>3
  <2> QED
    BY <2>1, <2>2
<1>8. CASE ~Refused(f) /\ a.kind = "suspend"
  <2>a. PICK how : how = IF host.store THEN "suspended" ELSE "failed"
    OBVIOUS
  <2>b. PICK why : why = IF host.store THEN None ELSE <<f.at, <<"cannot suspend">>>>
    BY Zenon
  <2>1. nf = End(at, how, why)
    <3>1. CASE host.store
      BY <1>8, <2>a, <2>b, <3>1 DEF Advance, Took, Says, Refused, Failing
    <3>2. CASE ~host.store
      BY <1>8, <2>a, <2>b, <3>2, Zenon DEF Advance, Took, Says, Refused, Failing
    <3> QED
      BY <3>1, <3>2
  <2>2. /\ Route(nf) = <<at.steps, at.at, at.joined, at.trace, at.joins, how, why>>
        /\ nf.ctx = at.ctx
    BY <1>2, <2>1, EndRoute
  <2>3. Paused(f, host) = <<f.steps, f.at, f.joined, Append(f.trace, f.at), f.joins, how, why>>
    BY <2>a, <2>b, Zenon DEF Paused
  <2> QED
    BY <1>2, <1>8, <2>2, <2>3
<1> QED
  BY <1>5, <1>6, <1>7, <1>8

LEMMA AdvanceMirrors ==
  ASSUME NEW f, Shape(f), Walking(f), NEW g, Shape(g), Mirrors(f, g), f.verdict = g.verdict,
         NEW host, host.sandbox,
         NEW nf, nf = Advance(f, host), NEW ng, ng = Advance(g, host)
  PROVE  Mirrors(nf, ng) /\ WritesAlike(Took(f), f, g, nf, ng)
<1>1. Walking(g) /\ Took(f) = Took(g) /\ g.at = f.at /\ f.at \in DOMAIN f.steps
  BY DEF Mirrors, Walking, Took, Shape
<1>2. /\ Configured(Took(f).action, Took(f).with) /\ LeavesMarks(Took(f)) /\ ComparesScalars(Took(f))
      /\ DOMAIN f.ctx = Keys /\ DOMAIN g.ctx = Keys /\ AlikeIn(f.ctx, g.ctx)
  BY <1>1 DEF Shape, Flow, Took, Mirrors
<1>3. Says(f) = Says(g)
  BY <1>1, <1>2, ActsAlike DEF Says
<1>4. Says(f).kind \in {"ok", "error", "suspend"}
  BY <1>2, Acts DEF Says
<1>5. Refused(f) <=> Refused(g)
  BY DEF Refused
<1>6. CASE Refused(f)
  <2> PICK why : why = Mode(f.verdict)
    OBVIOUS
  <2>1. nf = OnFailure(Failing(f), why)
    BY <1>6, AdvanceIs
  <2>2. ng = OnFailure(Failing(g), why)
    BY <1>1, <1>5, <1>6, AdvanceIs
  <2> QED
    BY <2>1, <2>2, FailureMirrors
<1>7. CASE ~Refused(f) /\ Says(f).kind = "error"
  <2> PICK why : why = Says(f).why
    OBVIOUS
  <2>1. nf = OnFailure(Failing(f), why)
    BY <1>7, AdvanceIs
  <2>2. ng = OnFailure(Failing(g), why)
    BY <1>1, <1>3, <1>5, <1>7, AdvanceIs
  <2> QED
    BY <2>1, <2>2, FailureMirrors
<1>8. CASE ~Refused(f) /\ Says(f).kind = "ok"
  <2> PICK out : out = Says(f).output
    OBVIOUS
  <2>1. Route(nf) = WentOn(f) /\ nf.ctx = Overlay(f.ctx, out)
    BY <1>8, AdvanceIs
  <2>2. Route(ng) = WentOn(g) /\ ng.ctx = Overlay(g.ctx, out)
    BY <1>1, <1>3, <1>5, <1>8, AdvanceIs
  <2>3. WentOn(f) = WentOn(g)
    BY <1>1 DEF WentOn, Mirrors
  <2>4. DOMAIN nf.ctx = Keys /\ DOMAIN ng.ctx = Keys
    BY <2>1, <2>2 DEF Overlay
  <2>5. ASSUME NEW k \in Keys
        PROVE  \/ nf.ctx[k] = f.ctx[k] /\ ng.ctx[k] = g.ctx[k]
               \/ nf.ctx[k] = ng.ctx[k] /\ Puts(Took(f), k, nf.ctx[k])
    <3>1. CASE k \in DOMAIN out /\ out[k] # None
      <4>1. nf.ctx[k] = out[k] /\ ng.ctx[k] = out[k]
        BY <2>1, <2>2, <3>1 DEF Overlay
      <4>2. Puts(Took(f), k, out[k])
        BY <1>2, <3>1, ActPuts DEF Says
      <4> QED
        BY <4>1, <4>2
    <3>2. CASE ~(k \in DOMAIN out /\ out[k] # None)
      BY <2>1, <2>2, <3>2 DEF Overlay
    <3> QED
      BY <3>1, <3>2
  <2>6. WritesAlike(Took(f), f, g, nf, ng)
    BY <2>5 DEF WritesAlike
  <2>7. AlikeIn(nf.ctx, ng.ctx)
    BY <1>2, <2>4, <2>6, WritesMirror
  <2> QED
    BY <2>1, <2>2, <2>3, <2>6, <2>7, MirrorsIs
<1>9. CASE ~Refused(f) /\ Says(f).kind = "suspend"
  <2>1. Route(nf) = Paused(f, host) /\ nf.ctx = f.ctx
    BY <1>9, AdvanceIs
  <2>2. Route(ng) = Paused(g, host) /\ ng.ctx = g.ctx
    BY <1>1, <1>3, <1>5, <1>9, AdvanceIs
  <2>3. Paused(f, host) = Paused(g, host)
    BY <1>1 DEF Paused, Mirrors
  <2>4. WritesAlike(Took(f), f, g, nf, ng)
    BY <2>1, <2>2 DEF WritesAlike
  <2> QED
    BY <1>2, <2>1, <2>2, <2>3, <2>4, MirrorsIs
<1> QED
  BY <1>4, <1>6, <1>7, <1>8, <1>9

(* The contexts two runs start from, when JSON does not tell them apart.   *)

(* Made of a caller's context raw, maybe through JSON, and of extractions. *)
Near(raw, c) ==
  /\ DOMAIN c = Keys
  /\ \A k \in Keys : /\ Text(c[k]) = Json(c[k]) /\ (Json(c[k]) = None => c[k] = None)
                     /\ k # ModelDerivedKey => Json(c[k]) = c[k] \/ c[k] = raw[k]

LEMMA JsonNone == Json(None) = None
  BY DEF Json

LEMMA NearAlike ==
  ASSUME NEW raw, NEW c, NEW d, Near(raw, c), Near(raw, d), JsonContext(c) = JsonContext(d)
  PROVE  AlikeIn(c, d)
<1>1. \A k \in Keys : Json(c[k]) = Json(d[k])
  <2>1. \A k \in Keys : JsonContext(c)[k] = Json(c[k]) /\ JsonContext(d)[k] = Json(d[k])
    BY DEF JsonContext
  <2> QED
    BY <2>1
<1> QED
  BY <1>1, JsonNone DEF AlikeIn, Alike, Near

(* A step does not set a field to what the caller had there as an int.     *)
Spares(s, raw) ==
  s.action = "std.set" =>
    \A k \in DOMAIN s.with.fields \cap Keys :
      /\ s.with.fields[k] # None /\ Json(s.with.fields[k]) = Json(raw[k])
      => Json(raw[k]) = raw[k]

(* A value is new to both contexts or to neither.                          *)
LEMMA FreshWrite ==
  ASSUME NEW raw, NEW c, NEW d, Near(raw, c), Near(raw, d), NEW k \in Keys,
         Json(c[k]) = Json(d[k]),
         NEW s, Spares(s, raw), LeavesMarks(s), NEW v, Puts(s, k, v), v = c[k]
  PROVE  v = d[k]
<1>1. CASE v = None
  <2>1. Json(d[k]) = None
    BY <1>1, JsonNone
  <2> QED
    BY <1>1, <2>1 DEF Near
<1>2. CASE v # None /\ v[1] \in {"bool", "string"}
  <2>1. Json(v) = v
    BY <1>2 DEF Json
  <2> PICK w : w = d[k]
    OBVIOUS
  <2>2. Json(w) = v
    BY <2>1
  <2>3. w # None
    BY <1>2, <2>2, JsonNone
  <2>4. CASE w[1] = "int"
    <3>1. Json(w)[1] = "float"
      BY <2>3, <2>4 DEF Json
    <3> QED
      BY <1>2, <2>2, <3>1
  <2>5. CASE w[1] = "strings"
    <3>1. Json(w)[1] = "array"
      BY <2>3, <2>5 DEF Json
    <3> QED
      BY <1>2, <2>2, <3>1
  <2>6. CASE w[1] \notin {"int", "strings"}
    <3>1. Json(w) = w
      BY <2>3, <2>6 DEF Json
    <3> QED
      BY <2>2, <3>1
  <2> QED
    BY <2>4, <2>5, <2>6
<1>3. CASE v # None /\ s.action = "std.set" /\ k \in DOMAIN s.with.fields /\ v = s.with.fields[k]
  <2>1. k # ModelDerivedKey
    BY <1>3 DEF LeavesMarks
  <2>2. Json(v) = Json(raw[k]) => Json(raw[k]) = raw[k]
    BY <1>3 DEF Spares
  <2>3. Json(v) = v
    BY <2>1, <2>2 DEF Near
  <2>4. Json(d[k]) = d[k]
    BY <2>1, <2>2 DEF Near
  <2> QED
    BY <2>3, <2>4
<1> QED
  BY <1>1, <1>2, <1>3 DEF Puts

(* What two branches that came the same way have in their contexts: what   *)
(* they began with, or the same, new to both or to neither.                *)
Held(f, g, d, c) ==
  \A k \in Keys : \/ f.ctx[k] = d[k] /\ g.ctx[k] = c[k]
                  \/ /\ f.ctx[k] = g.ctx[k]
                     /\ f.ctx[k] = d[k] <=> g.ctx[k] = c[k]

LEMMA HeldStep ==
  ASSUME NEW raw, NEW c, NEW d, Near(raw, c), Near(raw, d), JsonContext(c) = JsonContext(d),
         NEW s, Spares(s, raw), LeavesMarks(s),
         NEW f, NEW g, NEW nf, NEW ng, Held(f, g, d, c), WritesAlike(s, f, g, nf, ng)
  PROVE  Held(nf, ng, d, c)
<1> SUFFICES ASSUME NEW k \in Keys
             PROVE  \/ nf.ctx[k] = d[k] /\ ng.ctx[k] = c[k]
                    \/ /\ nf.ctx[k] = ng.ctx[k]
                       /\ nf.ctx[k] = d[k] <=> ng.ctx[k] = c[k]
  BY DEF Held
<1>1. CASE nf.ctx[k] = f.ctx[k] /\ ng.ctx[k] = g.ctx[k]
  BY <1>1 DEF Held
<1>2. CASE nf.ctx[k] = ng.ctx[k] /\ Puts(s, k, nf.ctx[k])
  <2>1. Json(c[k]) = Json(d[k])
    <3>1. JsonContext(c)[k] = Json(c[k]) /\ JsonContext(d)[k] = Json(d[k])
      BY DEF JsonContext
    <3> QED
      BY <3>1
  <2> PICK v : v = nf.ctx[k]
    OBVIOUS
  <2>2. v = c[k] => v = d[k]
    BY <1>2, <2>1, FreshWrite
  <2>3. v = d[k] => v = c[k]
    BY <1>2, <2>1, FreshWrite
  <2> QED
    BY <1>2, <2>2, <2>3
<1> QED
  BY <1>1, <1>2 DEF WritesAlike

-----------------------------------------------------------------------------
(* Branches that ended alike are joined alike.                             *)

EndsAlike(f, ef, g, eg) ==
  /\ DOMAIN ef = DOMAIN eg
  /\ \A i \in DOMAIN ef : /\ ef[i].end = eg[i].end /\ ef[i].why = eg[i].why
                          /\ ef[i].trace = eg[i].trace /\ Held(ef[i], eg[i], f.ctx, g.ctx)

LEMMA WroteAlike ==
  ASSUME NEW f, NEW ef, NEW g, NEW eg, EndsAlike(f, ef, g, eg), NEW i \in DOMAIN ef, NEW k \in Keys
  PROVE  /\ Wrote(f, ef, i, k) <=> Wrote(g, eg, i, k)
         /\ Wrote(f, ef, i, k) => ef[i].ctx[k] = eg[i].ctx[k]
  BY DEF EndsAlike, Held, Wrote

LEMMA WritingAlike ==
  ASSUME NEW f, NEW ef, NEW g, NEW eg, EndsAlike(f, ef, g, eg), NEW k \in Keys
  PROVE  Writing(f, ef, k) = Writing(g, eg, k)
<1>1. \A i : i \in DOMAIN ef /\ Wrote(f, ef, i, k) <=> i \in DOMAIN eg /\ Wrote(g, eg, i, k)
  BY WroteAlike DEF EndsAlike
<1> QED
  BY <1>1, Zenon DEF Writing

LEMMA JoinMirrors ==
  ASSUME NEW f, Shape(f), NEW g, Shape(g), Mirrors(f, g),
         NEW ef, NEW eg, EndsAlike(f, ef, g, eg),
         NEW ng \in Joins(g, eg), FailedIn(eg) # {} \/ Clashes(g, eg) = {},
         NEW nf \in Joins(f, ef)
  PROVE  Mirrors(nf, ng)
<1>1. FailedIn(ef) = FailedIn(eg)
  BY DEF FailedIn, EndsAlike
<1>a. DOMAIN ef = DOMAIN eg
  BY DEF EndsAlike
<1>b. \A i \in DOMAIN ef : \A k \in Keys : /\ Wrote(f, ef, i, k) <=> Wrote(g, eg, i, k)
                                           /\ Wrote(f, ef, i, k) => ef[i].ctx[k] = eg[i].ctx[k]
  BY WroteAlike
<1>2. Clashes(f, ef) = Clashes(g, eg)
  <2>1. ASSUME NEW k \in Keys
        PROVE  k \in Clashes(f, ef) <=> k \in Clashes(g, eg)
    BY <1>a, <1>b DEF Clashes
  <2> QED
    BY <2>1 DEF Clashes
<1> PICK jf : jf = Joined(f, ef)
  OBVIOUS
<1> PICK jg : jg = Joined(g, eg)
  OBVIOUS
<1>3. Mirrors(jf, jg) /\ DOMAIN jf = Parts /\ DOMAIN jg = Parts
  <2>a. PICK cf : cf = [k \in Keys |-> IF \E i \in DOMAIN ef : Wrote(f, ef, i, k)
                                        THEN ef[Writing(f, ef, k)].ctx[k] ELSE f.ctx[k]]
    OBVIOUS
  <2>b. PICK cg : cg = [k \in Keys |-> IF \E i \in DOMAIN eg : Wrote(g, eg, i, k)
                                        THEN eg[Writing(g, eg, k)].ctx[k] ELSE g.ctx[k]]
    OBVIOUS
  <2>c. PICK tf : tf = f.joined \o FlattenSeq([i \in DOMAIN ef |-> ef[i].trace])
    OBVIOUS
  <2>d. PICK tg : tg = g.joined \o FlattenSeq([i \in DOMAIN eg |-> eg[i].trace])
    OBVIOUS
  <2>1. jf = [f EXCEPT !.joins = FALSE, !.ctx = cf, !.joined = tf]
    BY <2>a, <2>c DEF Joined
  <2>2. jg = [g EXCEPT !.joins = FALSE, !.ctx = cg, !.joined = tg]
    BY <2>b, <2>d DEF Joined
  <2>3. tf = tg
    <3>1. [i \in DOMAIN ef |-> ef[i].trace] = [i \in DOMAIN eg |-> eg[i].trace]
      BY DEF EndsAlike
    <3> QED
      BY <2>c, <2>d, <3>1 DEF Mirrors
  <2>4. AlikeIn(cf, cg)
    <3>1. ASSUME NEW k \in Keys PROVE Alike(cf[k], cg[k])
      <4>1. CASE \E i \in DOMAIN ef : Wrote(f, ef, i, k)
        <5> PICK i : i = Writing(f, ef, k)
          OBVIOUS
        <5>1. i \in DOMAIN ef /\ Wrote(f, ef, i, k)
          BY <4>1 DEF Writing
        <5>2. i = Writing(g, eg, k) /\ i \in DOMAIN eg /\ Wrote(g, eg, i, k)
          <6>1. i = Writing(g, eg, k)
            BY WritingAlike
          <6> QED
            BY <1>a, <1>b, <5>1, <6>1
        <5>3. cf[k] = ef[i].ctx[k] /\ cg[k] = eg[i].ctx[k]
          BY <2>a, <2>b, <5>1, <5>2
        <5> QED
          BY <5>1, <5>3, WroteAlike DEF Alike
      <4>2. CASE ~ \E i \in DOMAIN ef : Wrote(f, ef, i, k)
        <5>1. ~ \E i \in DOMAIN eg : Wrote(g, eg, i, k)
          BY <4>2, WroteAlike DEF EndsAlike
        <5>2. cf[k] = f.ctx[k] /\ cg[k] = g.ctx[k]
          BY <2>a, <2>b, <4>2, <5>1
        <5> QED
          BY <5>2 DEF Mirrors, AlikeIn
      <4> QED
        BY <4>1, <4>2
    <3> QED
      BY <2>a, <2>b, <3>1 DEF AlikeIn
  <2>5. /\ DOMAIN jf = Parts /\ jf.steps = f.steps /\ jf.at = f.at /\ jf.joined = tf
        /\ jf.trace = f.trace /\ jf.joins = FALSE /\ jf.end = f.end /\ jf.why = f.why /\ jf.ctx = cf
    BY <2>1 DEF Shape, Parts
  <2>6. /\ DOMAIN jg = Parts /\ jg.steps = g.steps /\ jg.at = g.at /\ jg.joined = tg
        /\ jg.trace = g.trace /\ jg.joins = FALSE /\ jg.end = g.end /\ jg.why = g.why /\ jg.ctx = cg
    BY <2>2 DEF Shape, Parts
  <2> QED
    BY <2>3, <2>4, <2>5, <2>6 DEF Mirrors
<1>4. ASSUME NEW how, NEW why PROVE Mirrors(End(jf, how, why), End(jg, how, why))
  BY <1>3 DEF Mirrors, End, Parts
<1>5. CASE FailedIn(eg) # {}
  <2>a. PICK why : why = <<Parallel, <<"branches", FailedIn(eg)>>>>
    OBVIOUS
  <2>b. PICK how : how = "failed"
    OBVIOUS
  <2>1. nf = End(jf, how, why)
    BY <1>1, <1>5, <2>a, <2>b, JoinIs, Zenon
  <2>2. ng = End(jg, how, why)
    BY <1>5, <2>a, <2>b, JoinIs, Zenon
  <2> QED
    BY <1>4, <2>1, <2>2
<1>6. CASE FailedIn(eg) = {} /\ Clashes(g, eg) = {}
  <2>1. nf = jf /\ ng = jg
    BY <1>1, <1>2, <1>6, JoinIs
  <2> QED
    BY <1>3, <2>1
<1> QED
  BY <1>5, <1>6

(* Extractions, on contexts that JSON does not tell apart.                 *)

With(c, r) == IF r.success THEN ContextFrom(c, r) ELSE c

LEMMA FromAlike ==
  ASSUME NEW c, Marked(c), NEW d, Marked(d), JsonContext(c) = JsonContext(d), NEW r
  PROVE  JsonContext(With(c, r)) = JsonContext(With(d, r))
<1>1. Provenance(c) = Provenance(d)
  BY JsonKeepsMarks
<1>2. ASSUME NEW k \in Keys PROVE Json(c[k]) = Json(d[k])
  <2>1. JsonContext(c)[k] = Json(c[k]) /\ JsonContext(d)[k] = Json(d[k])
    BY DEF JsonContext
  <2> QED
    BY <2>1
<1>3. CASE r.success
  <2> PICK derived : derived = Provenance(c) \cup r.derived
    OBVIOUS
  <2> PICK oc : oc = Overlay(c, r.payload)
    OBVIOUS
  <2> PICK od : od = Overlay(d, r.payload)
    OBVIOUS
  <2>1. With(c, r) = IF derived = {} THEN oc ELSE [oc EXCEPT ![ModelDerivedKey] = <<"strings", derived>>]
    BY <1>3 DEF With, ContextFrom
  <2>2. With(d, r) = IF derived = {} THEN od ELSE [od EXCEPT ![ModelDerivedKey] = <<"strings", derived>>]
    BY <1>1, <1>3 DEF With, ContextFrom
  <2>3. DOMAIN oc = Keys /\ DOMAIN od = Keys /\ \A k \in Keys : Json(oc[k]) = Json(od[k])
    BY <1>2 DEF Overlay
  <2>4. \A k \in Keys : Json(With(c, r)[k]) = Json(With(d, r)[k])
    BY <2>1, <2>2, <2>3
  <2> QED
    BY <2>4 DEF JsonContext
<1>4. CASE ~r.success
  BY <1>4 DEF With
<1> QED
  BY <1>3, <1>4

LEMMA NearJson ==
  ASSUME NEW raw, NEW c, Near(raw, c)
  PROVE  Near(raw, JsonContext(c)) /\ JsonContext(JsonContext(c)) = JsonContext(c)
<1>1. \A k \in Keys : JsonContext(c)[k] = Json(c[k])
  BY DEF JsonContext
<1>2. DOMAIN JsonContext(c) = Keys
  BY DEF JsonContext
<1>3. \A k \in Keys : Json(Json(c[k])) = Json(c[k]) /\ Text(Json(c[k])) = Json(c[k])
  BY JsonTwice
<1>4. Near(raw, JsonContext(c))
  BY <1>1, <1>2, <1>3 DEF Near
<1>5. JsonContext(JsonContext(c)) = [k \in Keys |-> Json(Json(c[k]))]
  BY <1>1 DEF JsonContext
<1> QED
  BY <1>3, <1>4, <1>5 DEF JsonContext

LEMMA NearFrom ==
  ASSUME NEW raw, NEW c, Near(raw, c), Marked(c), NEW r,
         r.success => Supplies(r) /\ JsonContext(r.payload) = r.payload
  PROVE  Near(raw, With(c, r))
<1>1. CASE ~r.success
  BY <1>1 DEF With
<1>2. CASE r.success
  <2> PICK derived : derived = Provenance(c) \cup r.derived
    OBVIOUS
  <2> PICK oc : oc = Overlay(c, r.payload)
    OBVIOUS
  <2> PICK p : p = r.payload
    OBVIOUS
  <2>1. With(c, r) = IF derived = {} THEN oc ELSE [oc EXCEPT ![ModelDerivedKey] = <<"strings", derived>>]
    BY <1>2 DEF With, ContextFrom
  <2>2. \A k \in Keys : Json(p[k]) = p[k]
    <3>1. \A k \in Keys : JsonContext(p)[k] = Json(p[k])
      BY DEF JsonContext
    <3> QED
      BY <1>2, <3>1
  <2>3. \A k \in Keys : Text(p[k]) = Json(p[k])
    BY <2>2 DEF Text
  <2>4. Near(raw, oc)
    <3>1. \A k \in Keys : oc[k] = c[k] \/ (oc[k] = p[k] /\ p[k] # None)
      BY DEF Overlay
    <3>2. DOMAIN oc = Keys
      BY DEF Overlay
    <3> QED
      BY <2>2, <2>3, <3>1, <3>2 DEF Near
  <2>5. CASE derived # {}
    <3> PICK mark : mark = <<"strings", derived>>
      OBVIOUS
    <3>1. derived \in SUBSET Fields
      BY <1>2 DEF Marked, Supplies
    <3>2. mark # None /\ mark[1] = "strings" /\ mark[2] = derived
      BY <3>1, MarksAssumption
    <3>3. Json(mark) = <<"array", {<<"string", f>> : f \in derived}>>
      BY <3>2 DEF Json
    <3>4. Json(mark) # None
      BY <3>1, <3>3, MarksAssumption
    <3>5. Text(mark) = Json(mark)
      BY <3>2 DEF Text
    <3>6. With(c, r) = [oc EXCEPT ![ModelDerivedKey] = mark]
      BY <2>1, <2>5
    <3> QED
      BY <2>4, <3>4, <3>5, <3>6 DEF Near
  <2> QED
    BY <2>1, <2>4, <2>5
<1> QED
  BY <1>1, <1>2

(* What was recorded of an extraction makes the same extraction again.     *)
Repeats(ref, x, r) ==
  /\ x.success = r.success
  /\ r.success => /\ ref \in DOMAIN Schemas /\ Extract(ref, x.payload) = r
                  /\ Supplies(r) /\ JsonContext(r.payload) = r.payload

LEMMA ExtractTwice ==
  ASSUME NEW ref, NEW x \in ModelReplies, NEW r, r = Extract(ref, Extractor(x)),
         NEW e, e.success = r.success, e.payload = r.payload
  PROVE  Repeats(ref, e, r)
<1>1. CASE r.success
  <2> PICK reply : reply = Extractor(x)
    OBVIOUS
  <2> PICK p : p = r.payload
    OBVIOUS
  <2>1. ref \in DOMAIN Schemas
    BY <1>1, Zenon DEF Extract
  <2> PICK schema : schema = Schemas[ref]
    OBVIOUS
  <2>2. schema = Schemas[ref] /\ DOMAIN schema \subseteq Keys
    BY <2>1, MarksAssumption DEF Keys
  <2>3. \A f \in DOMAIN schema : f \in DOMAIN reply /\ reply[f] # None /\ reply[f][1] = schema[f]
    BY <1>1, <2>1, Zenon DEF Extract
  <2>4. r = [success |-> TRUE, derived |-> DOMAIN schema, why |-> None,
             payload |-> [k \in Keys |-> IF k \in DOMAIN schema THEN reply[k] ELSE None]]
    BY <1>1, <2>1, Zenon DEF Extract
  <2>5. p = [k \in Keys |-> IF k \in DOMAIN schema THEN reply[k] ELSE None]
    BY <2>4
  <2>6. \A f \in DOMAIN schema : f \in DOMAIN p /\ p[f] # None /\ p[f][1] = schema[f]
    BY <2>2, <2>3, <2>5
  <2>7. p # None /\ JsonContext(p) = p
    BY <2>1, ReplyAssumption
  <2>8. [k \in Keys |-> IF k \in DOMAIN schema THEN p[k] ELSE None] = p
    BY <2>2, <2>5
  <2>9. Extract(ref, p) = [success |-> TRUE, derived |-> DOMAIN schema, why |-> None,
             payload |-> [k \in Keys |-> IF k \in DOMAIN schema THEN p[k] ELSE None]]
    BY <2>1, <2>6, <2>7, ZenonT(60) DEF Extract
  <2>10. Extract(ref, p) = r
    BY <2>4, <2>5, <2>8, <2>9
  <2> QED
    BY <1>1, <2>1, <2>7, <2>10, ExtractSupplies DEF Repeats
<1>2. CASE ~r.success
  BY <1>2 DEF Repeats
<1> QED
  BY <1>1, <1>2

-----------------------------------------------------------------------------
(* A queue of which so many have answered.                                 *)

LeftOf(q, Q, c) ==
  /\ \E T : q \in Seq(T)
  /\ Len(q) = IF c < Len(Q) THEN Len(Q) - c ELSE 1
  /\ \A j \in 1 .. Len(q) : q[j] = Q[Len(Q) - Len(q) + j]

LEMMA LeftAll ==
  ASSUME NEW T, NEW Q \in Seq(T), Q # <<>>
  PROVE  LeftOf(Q, Q, 0)
<1>1. Len(Q) \in Nat /\ Len(Q) > 0
  OBVIOUS
<1> QED
  BY <1>1 DEF LeftOf

LEMMA LeftRest ==
  ASSUME NEW T, NEW Q \in Seq(T), NEW c \in Nat, c < Len(Q), NEW q, LeftOf(q, Q, c)
  PROVE  Head(q) = Q[c + 1] /\ LeftOf(Rest(q), Q, c + 1)
<1>1. PICK S : q \in Seq(S)
  BY DEF LeftOf
<1> PICK n \in Nat : n = Len(Q)
  OBVIOUS
<1>2. Len(q) = n - c /\ n - c \in Nat /\ n - c >= 1 /\ \A j \in 1 .. n - c : q[j] = Q[c + j]
  <2>1. Len(q) = n - c /\ n - c \in Nat /\ n - c >= 1
    BY DEF LeftOf
  <2>2. \A j \in 1 .. n - c : q[j] = Q[n - (n - c) + j]
    BY <2>1 DEF LeftOf
  <2>3. \A j \in 1 .. n - c : n - (n - c) + j = c + j
    BY <2>1
  <2> QED
    BY <2>1, <2>2, <2>3
<1>3. Head(q) = Q[c + 1]
  BY <1>1, <1>2
<1>4. CASE Len(q) > 1
  <2>1. Rest(q) = Tail(q)
    BY <1>4 DEF Rest
  <2>a. q \in Seq(S) /\ q # <<>> /\ Len(q) = n - c
    BY <1>1, <1>2, <1>4
  <2>2. Tail(q) \in Seq(S) /\ Len(Tail(q)) = n - c - 1
    BY ONLY <2>a
  <2>3. \A j \in 1 .. n - c - 1 : Tail(q)[j] = q[j + 1]
    BY <1>1, <1>2, <1>4
  <2>4. \A j \in 1 .. n - c - 1 : Tail(q)[j] = Q[n - (n - c - 1) + j]
    BY <1>2, <2>3
  <2>5. c + 1 < n
    BY <1>2, <1>4
  <2>6. Len(Tail(q)) = IF c + 1 < Len(Q) THEN Len(Q) - (c + 1) ELSE 1
    BY <2>2, <2>5
  <2>7. \A j \in 1 .. Len(Tail(q)) : Tail(q)[j] = Q[Len(Q) - Len(Tail(q)) + j]
    BY <2>2, <2>4
  <2> QED
    BY <1>3, <2>1, <2>2, <2>6, <2>7 DEF LeftOf
<1>5. CASE ~(Len(q) > 1)
  <2>1. Rest(q) = q /\ Len(q) = 1 /\ ~(c + 1 < n) /\ n - c = 1
    BY <1>2, <1>5 DEF Rest
  <2>2. q[1] = Q[n - 1 + 1]
    BY <1>2, <2>1
  <2> QED
    BY <1>1, <1>3, <2>1, <2>2 DEF LeftOf
<1> QED
  BY <1>4, <1>5

(* What a log has for a reference, as the log grows.                       *)

Num(ref, records) == Len(Of(ref, records))

LEMMA OfGrows ==
  ASSUME NEW V, Listed(V), NEW v, NEW r
  PROVE  /\ Num(r, V) \in Nat
         /\ Num(r, Append(V, v)) = IF v.ref = r THEN Num(r, V) + 1 ELSE Num(r, V)
         /\ \A j \in 1 .. Num(r, V) : Of(r, Append(V, v))[j] = Of(r, V)[j]
         /\ v.ref = r => Of(r, Append(V, v))[Num(r, V) + 1] = v
<1> PICK W : W = Append(V, v)
  OBVIOUS
<1>1. PICK S : V \in Seq(S)
  BY DEF Listed
<1>2. PICK T : T = S \cup {v}
  OBVIOUS
<1>3. V \in Seq(T) /\ v \in T
  BY <1>1, <1>2
<1>4. Of(r, V) \in Seq(T)
  BY <1>3, OfType
<1>5. Of(r, W) = IF v.ref = r THEN Append(Of(r, V), v) ELSE Of(r, V)
  BY <1>3, OfMore
<1> PICK q : q = Of(r, V)
  OBVIOUS
<1>6. Len(q) \in Nat /\ Len(Append(q, v)) = Len(q) + 1 /\ Append(q, v)[Len(q) + 1] = v
      /\ \A j \in 1 .. Len(q) : Append(q, v)[j] = q[j]
  BY <1>3, <1>4
<1> QED
  BY <1>5, <1>6 DEF Num

LEMMA OfListed ==
  ASSUME NEW V, Listed(V), NEW r
  PROVE  /\ Listed(Of(r, V)) /\ Num(r, V) \in Nat
         /\ Num(r, V) > 0 => Of(r, V) # <<>>
<1>1. PICK S : V \in Seq(S)
  BY DEF Listed
<1>2. Of(r, V) \in Seq(S)
  BY <1>1, OfType
<1>3. Len(<<>>) = 0
  OBVIOUS
<1> QED
  BY <1>2, <1>3 DEF Listed, Num

(* Whatever has been recorded for a reference, the reference is known.     *)
LEMMA OfKnown ==
  ASSUME NEW V, Listed(V), NEW r, Of(r, V) # <<>>
  PROVE  r \in DOMAIN ByRef(V) /\ ByRef(V)[r] = Of(r, V)
<1>1. PICK T : V \in Seq(T)
  BY DEF Listed
<1> PICK n \in Nat : n = Len(V) /\ DOMAIN V = 1 .. n
  BY <1>1
<1>2. ASSUME \A i \in 1 .. n : V[i].ref # r PROVE FALSE
  <2>1. PICK f : Keeping(f, r, V) /\ Of(r, V) = f[n]
    BY <1>1, OfKeeps
  <2>2. PICK S : S = {i \in 0 .. n : f[i] = <<>>}
    OBVIOUS
  <2>3. 0 \in S
    BY <2>1, <2>2 DEF Keeping
  <2>4. ASSUME NEW i \in 1 .. n, i - 1 \in S PROVE i \in S
    <3>1. i \in 0 .. n /\ i # 0 /\ f[i - 1] = <<>> /\ V[i].ref # r
      BY <1>2, <2>2, <2>4
    <3> QED
      BY <2>1, <2>2, <3>1 DEF Keeping
  <2>5. 0 .. n \subseteq S
    BY <2>3, <2>4, Climb
  <2> QED
    BY <2>1, <2>2, <2>5
<1>3. r \in {V[i].ref : i \in DOMAIN V}
  BY <1>2
<1> QED
  BY <1>3 DEF ByRef

-----------------------------------------------------------------------------
(* The intake of a recording.                                              *)

(* e, e2: what the caller has before and after asking for ref, told by X.  *)
Recalls(e, e2, ref, x) ==
  /\ e2.used = [e.used EXCEPT ![ref] = @ + 1]
  /\ \E c, r : /\ Marked(c) /\ JsonContext(c) = e.ctx /\ Repeats(ref, x, r)
               /\ e2.ctx = JsonContext(With(c, r))
Asks(e, e2, ref, X) ==
  e.used[ref] < Num(ref, X) /\ Recalls(e, e2, ref, Of(ref, X)[e.used[ref] + 1])
Intake(E, n, X, raw) ==
  /\ DOMAIN E = Nat /\ n \in 0 .. Len(Wanted)
  /\ E[0] = [ctx |-> JsonContext(raw), used |-> [ref \in ToSet(Wanted) |-> 0]]
  /\ \A i \in 0 .. n : E[i].used \in [ToSet(Wanted) -> Nat]
  /\ \A i \in 0 .. n : i # n => Asks(E[i], E[i + 1], Wanted[i + 1], X)

LEMMA AsksMore ==
  ASSUME NEW e, NEW e2, NEW ref, NEW X, Listed(X), NEW x, Asks(e, e2, ref, X),
         e.used[ref] \in Nat
  PROVE  Asks(e, e2, ref, Append(X, x))
<1>y. PICK Y : Y = Append(X, x)
  OBVIOUS
<1> PICK u \in Nat : u = e.used[ref]
  OBVIOUS
<1>1. u < Num(ref, X) /\ Num(ref, X) \in Nat
  BY OfListed DEF Asks
<1>2. /\ Num(ref, Y) = IF x.ref = ref THEN Num(ref, X) + 1 ELSE Num(ref, X)
      /\ \A j \in 1 .. Num(ref, X) : Of(ref, Y)[j] = Of(ref, X)[j]
  BY <1>y, OfGrows
<1>3. u < Num(ref, Y)
  BY ONLY <1>1, <1>2, u \in Nat
<1>4. u + 1 \in 1 .. Num(ref, X)
  BY ONLY <1>1, u \in Nat
<1>5. Of(ref, Y)[u + 1] = Of(ref, X)[u + 1]
  BY <1>2, <1>4
<1> QED
  BY <1>y, <1>3, <1>5 DEF Asks

LEMMA NextPlace ==
  ASSUME NEW m \in Nat, NEW n \in 0 .. m, n # m
  PROVE  n \in Nat /\ n + 1 \in 0 .. m
  OBVIOUS

(* A function on the numbers, known up to n, that goes on at n + 1.        *)
LEMMA Extends ==
  ASSUME NEW n \in Nat, NEW E, DOMAIN E = Nat, NEW e, NEW F, F = [E EXCEPT ![n + 1] = e]
  PROVE  DOMAIN F = Nat /\ F[n + 1] = e /\ \A i \in 0 .. n : F[i] = E[i]
<1>1. n + 1 \in Nat /\ \A i \in 0 .. n : i \in Nat /\ i # n + 1
  OBVIOUS
<1> QED
  BY <1>1

(* A function on the numbers, with another value at n + 1.                 *)
NextTurn(c, n, y) == [c EXCEPT ![n + 1] = y]
LEMMA IntakeMore ==
  ASSUME NEW E, NEW n, NEW X, NEW raw, Intake(E, n, X, raw), n # Len(Wanted), Listed(X),
         NEW x, NEW e, e.used \in [ToSet(Wanted) -> Nat],
         Asks(E[n], e, Wanted[n + 1], Append(X, x))
  PROVE  Intake(NextTurn(E, n, e), n + 1, Append(X, x), raw) /\ NextTurn(E, n, e)[n + 1] = e
<1>f. PICK F : F = NextTurn(E, n, e)
  OBVIOUS
<1> PICK Y : Y = Append(X, x)
  OBVIOUS
<1>0. Len(Wanted) \in Nat /\ DOMAIN Wanted = 1 .. Len(Wanted)
  BY WantedAssumption
<1>a. DOMAIN E = Nat /\ n \in 0 .. Len(Wanted)
  BY DEF Intake
<1>1. n \in Nat /\ n + 1 \in 0 .. Len(Wanted) /\ DOMAIN E = Nat
  BY ONLY <1>0, <1>a, n # Len(Wanted), NextPlace, Zenon
<1>2. DOMAIN F = Nat /\ F[n + 1] = e /\ \A i \in 0 .. n : F[i] = E[i]
  <2>1. n \in Nat /\ DOMAIN E = Nat
    BY <1>1
  <2> QED
    BY <1>f, <2>1, Extends DEF NextTurn
<1>3. ASSUME NEW i \in 0 .. n + 1, i # n + 1
      PROVE  Asks(F[i], F[i + 1], Wanted[i + 1], Y)
  <2>1. CASE i = n
    <3>1. F[i] = E[n] /\ F[i + 1] = e /\ Wanted[i + 1] = Wanted[n + 1]
      BY <1>1, <1>2, <2>1
    <3> QED
      BY <3>1
  <2>2. CASE i # n
    <3>1. i \in 0 .. n /\ i + 1 \in 0 .. n
      BY <1>1, <1>3, <2>2
    <3>2. Asks(E[i], E[i + 1], Wanted[i + 1], X)
      BY <2>2, <3>1 DEF Intake
    <3>3. Wanted[i + 1] \in ToSet(Wanted)
      BY <1>0, <1>1, <3>1 DEF ToSet
    <3>4. E[i].used[Wanted[i + 1]] \in Nat
      BY <3>1, <3>3 DEF Intake
    <3>5. Asks(E[i], E[i + 1], Wanted[i + 1], Y)
      BY <3>2, <3>4, AsksMore
    <3> QED
      BY <1>2, <3>1, <3>5
  <2> QED
    BY <2>1, <2>2
<1>4. \A i \in 0 .. n + 1 : F[i].used \in [ToSet(Wanted) -> Nat]
  BY <1>1, <1>2 DEF Intake
<1>5. F[0] = E[0]
  BY <1>1, <1>2
<1> QED
  BY <1>f, <1>1, <1>2, <1>3, <1>4, <1>5 DEF Intake

(* The turns that a frame takes: it hears a verdict, or it moves.          *)

(* Frames that differ at most in their verdict and history.                *)
Same(f, g) == Route(f) = Route(g) /\ f.ctx = g.ctx
Needs(f) == Took(f).probe # None /\ f.verdict = None

(* used: how many verdicts of each reference have been heard.              *)
OneMore(used, r) == [used EXCEPT ![r] = @ + 1]
Answered(x, y, said) ==
  /\ y.used = OneMore(x.used, Took(x.frame).probe)
  /\ y.frame.verdict = said.verdict /\ said.verdict # None /\ Same(y.frame, x.frame)
Hears(x, y, V) ==
  LET r == Took(x.frame).probe
  IN Needs(x.frame) /\ r \in DOMAIN x.used /\ x.used[r] < Num(r, V)
     /\ Answered(x, y, Of(r, V)[x.used[r] + 1])
Moves(x, y, host) ==
  /\ ~Needs(x.frame) /\ y.used = x.used
  /\ \E f : Shape(f) /\ Same(f, x.frame) /\ f.verdict = x.frame.verdict /\ y.frame = Advance(f, host)
Turns(x, y, V, host) ==
  Walking(x.frame) /\ ~x.frame.joins /\ (Hears(x, y, V) \/ Moves(x, y, host))

Turn(x, A, steps) ==
  x.used \in [A -> Nat] /\ x.frame.steps = steps /\ x.frame.joins = FALSE
Course(c, n, A, steps, V, host) ==
  /\ DOMAIN c = Nat /\ n \in Nat
  /\ \A i \in 0 .. n : Turn(c[i], A, steps)
  /\ \A i \in 0 .. n : i # n => Turns(c[i], c[i + 1], V, host)

LEMMA HearsMore ==
  ASSUME NEW x, NEW y, NEW V, Listed(V), NEW v, Hears(x, y, V), NEW A, x.used \in [A -> Nat]
  PROVE  Hears(x, y, Append(V, v))
<1>y. PICK W : W = Append(V, v)
  OBVIOUS
<1> PICK r : r = Took(x.frame).probe
  OBVIOUS
<1>0. r \in DOMAIN x.used /\ x.used[r] < Num(r, V) /\ Needs(x.frame)
      /\ Answered(x, y, Of(r, V)[x.used[r] + 1])
  BY DEF Hears
<1> PICK u : u = x.used[r]
  OBVIOUS
<1>1. u \in Nat /\ u < Num(r, V)
  BY <1>0
<1>2. /\ Num(r, V) \in Nat /\ Num(r, W) = IF v.ref = r THEN Num(r, V) + 1 ELSE Num(r, V)
      /\ \A j \in 1 .. Num(r, V) : Of(r, W)[j] = Of(r, V)[j]
  BY <1>y, OfGrows, SMTT(30)
<1>3. u < Num(r, W)
  BY ONLY <1>1, <1>2
<1>4. u + 1 \in 1 .. Num(r, V)
  BY ONLY <1>1, <1>2
<1>5. Of(r, W)[u + 1] = Of(r, V)[u + 1]
  BY <1>2, <1>4
<1> QED
  BY <1>y, <1>0, <1>3, <1>5 DEF Hears

LEMMA CourseMore ==
  ASSUME NEW c, NEW n, NEW A, NEW steps, NEW V, Listed(V), NEW host,
         Course(c, n, A, steps, V, host), NEW v
  PROVE  Course(c, n, A, steps, Append(V, v), host)
<1> PICK W : W = Append(V, v)
  OBVIOUS
<1>1. ASSUME NEW i \in 0 .. n, i # n PROVE Turns(c[i], c[i + 1], W, host)
  <2>1. Turns(c[i], c[i + 1], V, host) /\ c[i].used \in [A -> Nat]
    BY <1>1 DEF Course, Turn
  <2> PICK x : x = c[i]
    OBVIOUS
  <2> PICK y : y = c[i + 1]
    OBVIOUS
  <2>2. Hears(x, y, V) => Hears(x, y, W)
    BY <2>1, HearsMore
  <2> QED
    BY <2>1, <2>2 DEF Turns
<1> QED
  BY <1>1 DEF Course


LEMMA CourseStep ==
  ASSUME NEW c, NEW n, NEW A, NEW steps, NEW V, NEW host, Course(c, n, A, steps, V, host),
         NEW y, Turn(y, A, steps), Turns(c[n], y, V, host)
  PROVE  /\ Course(NextTurn(c, n, y), n + 1, A, steps, V, host)
         /\ NextTurn(c, n, y)[n + 1] = y /\ NextTurn(c, n, y)[0] = c[0]
<1>d. PICK d : d = NextTurn(c, n, y)
  OBVIOUS
<1> SUFFICES Course(d, n + 1, A, steps, V, host) /\ d[n + 1] = y /\ d[0] = c[0]
  BY <1>d
<1>1. DOMAIN c = Nat /\ n \in Nat /\ 0 \in 0 .. n
  BY DEF Course
<1>2. DOMAIN d = Nat /\ d[n + 1] = y /\ \A i \in 0 .. n : d[i] = c[i]
  BY <1>d, <1>1, Extends DEF NextTurn
<1>3. \A i \in 0 .. n + 1 : i = n + 1 \/ i \in 0 .. n
  BY <1>1
<1>4. \A i \in 0 .. n + 1 : Turn(d[i], A, steps)
  BY <1>2, <1>3 DEF Course
<1>5. ASSUME NEW i \in 0 .. n + 1, i # n + 1 PROVE Turns(d[i], d[i + 1], V, host)
  <2>1. CASE i = n
    <3>1. d[i] = c[n] /\ d[i + 1] = y
      BY <1>1, <1>2, <2>1
    <3> QED
      BY <3>1
  <2>2. CASE i # n
    <3>1. i \in 0 .. n /\ i + 1 \in 0 .. n
      BY <1>1, <1>5, <2>2
    <3>2. Turns(c[i], c[i + 1], V, host)
      BY <2>2, <3>1 DEF Course
    <3> QED
      BY <1>2, <3>1, <3>2
  <2> QED
    BY <2>1, <2>2
<1> QED
  BY <1>1, <1>2, <1>4, <1>5 DEF Course

(* Where a course has not ended, it goes on.                               *)
LEMMA CourseAt ==
  ASSUME NEW c, NEW n, NEW A, NEW steps, NEW V, NEW host, Course(c, n, A, steps, V, host),
         NEW i \in 0 .. n
  PROVE  /\ Turn(c[i], A, steps)
         /\ i # n => /\ i + 1 \in 0 .. n /\ Walking(c[i].frame)
                     /\ Turns(c[i], c[i + 1], V, host) /\ Turn(c[i + 1], A, steps)
<1>1. n \in Nat /\ (i # n => i + 1 \in 0 .. n)
  BY DEF Course
<1> QED
  BY <1>1 DEF Course, Turns

-----------------------------------------------------------------------------
(* A frame that follows the turns of another.                              *)

Follows(g, x) == Mirrors(g, x.frame) /\ g.verdict = x.frame.verdict

LEMMA FollowHears ==
  ASSUME NEW g, DOMAIN g = Parts, NEW x, NEW y, Follows(g, x), NEW said, Answered(x, y, said),
         NEW ng, ng = [g EXCEPT !.verdict = said.verdict]
  PROVE  Follows(ng, y) /\ ng.ctx = g.ctx /\ y.frame.ctx = x.frame.ctx
<1>1. Route(ng) = Route(g) /\ ng.ctx = g.ctx /\ ng.verdict = said.verdict
  BY DEF Parts, Route
<1>2. Route(y.frame) = Route(x.frame) /\ y.frame.ctx = x.frame.ctx /\ y.frame.verdict = said.verdict
  BY DEF Answered, Same
<1>3. Route(g) = Route(x.frame) /\ AlikeIn(g.ctx, x.frame.ctx)
  BY MirrorsIs DEF Follows
<1> QED
  BY <1>1, <1>2, <1>3, MirrorsIs DEF Follows

LEMMA FollowMoves ==
  ASSUME NEW g, Shape(g), Walking(g), NEW x, NEW y, Follows(g, x),
         NEW host, host.sandbox, Moves(x, y, host), NEW ng, ng = Advance(g, host)
  PROVE  Follows(ng, y) /\ WritesAlike(Took(g), g, x.frame, ng, y.frame)
<1>1. PICK f : Shape(f) /\ Same(f, x.frame) /\ f.verdict = x.frame.verdict /\ y.frame = Advance(f, host)
  BY DEF Moves
<1> PICK nf : nf = Advance(f, host)
  OBVIOUS
<1>2. Mirrors(g, f) /\ g.verdict = f.verdict /\ f.ctx = x.frame.ctx
  BY <1>1, MirrorsIs DEF Same, Follows
<1>3. Mirrors(ng, nf) /\ WritesAlike(Took(g), g, f, ng, nf)
  BY <1>1, <1>2, AdvanceMirrors
<1>4. Walking(f)
  BY <1>2 DEF Mirrors, Walking
<1>5. ng.verdict = None /\ nf.verdict = None
  BY <1>1, <1>4, AdvanceAdvances DEF Advanced, Onward
<1>6. WritesAlike(Took(g), g, x.frame, ng, nf)
  BY <1>2, <1>3 DEF WritesAlike
<1> QED
  BY <1>1, <1>3, <1>5, <1>6 DEF Follows

(* Who asks for what: each reference of a branch is of that branch alone.  *)

AskedBy(prog) ==
  ProbesOf(prog) \cup UNION {ProbesOf(prog.branches[i]) : i \in DOMAIN prog.branches}
Owned(prog, r) == \E i \in DOMAIN prog.branches : r \in ProbesOf(prog.branches[i])
Owner(prog, r) == CHOOSE i \in DOMAIN prog.branches : r \in ProbesOf(prog.branches[i])
SpentOn(prog, K, at, r) ==
  IF Owned(prog, r) THEN K[Owner(prog, r)][at[Owner(prog, r)]].used[r] ELSE 0

(* What the branches have heard, each at its place.                        *)
Spent(prog, K, at) == [r \in AskedBy(prog) |-> SpentOn(prog, K, at, r)]

LEMMA OwnerIs ==
  ASSUME NEW prog, ~SharesProbes(prog), NEW i \in DOMAIN prog.branches,
         NEW r \in ProbesOf(prog.branches[i])
  PROVE  Owned(prog, r) /\ Owner(prog, r) = i /\ r \in AskedBy(prog)
<1>1. Owned(prog, r) /\ r \in AskedBy(prog)
  BY DEF Owned, AskedBy
<1>2. \A j \in DOMAIN prog.branches : r \in ProbesOf(prog.branches[j]) => j = i
  BY DEF SharesProbes
<1>3. Owner(prog, r) = i
  BY <1>2 DEF Owner
<1> QED
  BY <1>1, <1>3

LEMMA OwnerIn ==
  ASSUME NEW prog, NEW r, Owned(prog, r)
  PROVE  Owner(prog, r) \in DOMAIN prog.branches /\ r \in ProbesOf(prog.branches[Owner(prog, r)])
  BY DEF Owner, Owned

LEMMA SpentType ==
  ASSUME NEW prog, NEW K, NEW at,
         \A i \in DOMAIN prog.branches : K[i][at[i]].used \in [AskedBy(prog) -> Nat]
  PROVE  Spent(prog, K, at) \in [AskedBy(prog) -> Nat]
<1>1. ASSUME NEW r \in AskedBy(prog) PROVE SpentOn(prog, K, at, r) \in Nat
  BY OwnerIn DEF SpentOn
<1> QED
  BY <1>1 DEF Spent

(* A turn of one branch.                                                   *)
Others(prog, K, at, L, to, t) ==
  \A j \in DOMAIN prog.branches : j # t => L[j][to[j]] = K[j][at[j]]

LEMMA SpentTurn ==
  ASSUME NEW prog, NEW K, NEW at, NEW L, NEW to, NEW t,
         Others(prog, K, at, L, to, t),
         L[t][to[t]].used = K[t][at[t]].used
  PROVE  Spent(prog, L, to) = Spent(prog, K, at)
<1>1. ASSUME NEW r \in AskedBy(prog) PROVE SpentOn(prog, L, to, r) = SpentOn(prog, K, at, r)
  <2> PICK o : o = Owner(prog, r)
    OBVIOUS
  <2>1. Owned(prog, r) => L[o][to[o]].used = K[o][at[o]].used
    BY OwnerIn DEF Others
  <2> QED
    BY <2>1 DEF SpentOn
<1> QED
  BY <1>1 DEF Spent

LEMMA SpentHears ==
  ASSUME NEW prog, ~SharesProbes(prog), NEW K, NEW at, NEW L, NEW to,
         NEW t \in DOMAIN prog.branches, NEW r \in ProbesOf(prog.branches[t]),
         Others(prog, K, at, L, to, t),
         K[t][at[t]].used \in [AskedBy(prog) -> Nat],
         L[t][to[t]].used = OneMore(K[t][at[t]].used, r)
  PROVE  /\ Spent(prog, L, to) = OneMore(Spent(prog, K, at), r)
         /\ r \in AskedBy(prog) /\ Spent(prog, K, at)[r] = K[t][at[t]].used[r]
<1> PICK u : u = K[t][at[t]].used
  OBVIOUS
<1> PICK v : v = L[t][to[t]].used
  OBVIOUS
<1>1. Owned(prog, r) /\ Owner(prog, r) = t /\ r \in AskedBy(prog)
  BY OwnerIs
<1>2. SpentOn(prog, K, at, r) = u[r] /\ SpentOn(prog, L, to, r) = v[r] /\ v[r] = u[r] + 1
  BY <1>1 DEF SpentOn, OneMore
<1>3. ASSUME NEW q \in AskedBy(prog), q # r PROVE SpentOn(prog, L, to, q) = SpentOn(prog, K, at, q)
  <2> PICK o : o = Owner(prog, q)
    OBVIOUS
  <2>1. CASE Owned(prog, q) /\ o = t
    <3>1. v[q] = u[q]
      BY <1>3 DEF OneMore
    <3> QED
      BY <2>1, <3>1 DEF SpentOn
  <2>2. CASE Owned(prog, q) /\ o # t
    <3>1. L[o][to[o]] = K[o][at[o]]
      BY <2>2, OwnerIn DEF Others
    <3> QED
      BY <2>2, <3>1 DEF SpentOn
  <2>3. CASE ~Owned(prog, q)
    BY <2>3 DEF SpentOn
  <2> QED
    BY <2>1, <2>2, <2>3
<1>s. PICK S : S = Spent(prog, K, at)
  OBVIOUS
<1>n. PICK N : N = Spent(prog, L, to)
  OBVIOUS
<1>4. /\ S = [q \in AskedBy(prog) |-> S[q]] /\ N = [q \in AskedBy(prog) |-> N[q]]
      /\ S[r] = u[r] /\ N[r] = u[r] + 1
      /\ \A q \in AskedBy(prog) : q # r => N[q] = S[q]
  BY <1>s, <1>n, <1>1, <1>2, <1>3 DEF Spent
<1>5. N = [S EXCEPT ![r] = @ + 1]
  BY ONLY <1>1, <1>4
<1> QED
  BY <1>s, <1>n, <1>1, <1>4, <1>5 DEF OneMore

-----------------------------------------------------------------------------
(* As many verdicts as have been heard.                                    *)

Balanced(V, u) == \A r \in DOMAIN u : Num(r, V) = u[r]

LEMMA BalanceMore ==
  ASSUME NEW V, Listed(V), NEW u, Balanced(V, u), NEW v, v.ref \in DOMAIN u
  PROVE  Balanced(Append(V, v), OneMore(u, v.ref))
<1> PICK w : w = [u EXCEPT ![v.ref] = @ + 1]
  OBVIOUS
<1>1. ASSUME NEW r \in DOMAIN u PROVE Num(r, Append(V, v)) = w[r]
  <2>1. Num(r, Append(V, v)) = IF v.ref = r THEN Num(r, V) + 1 ELSE Num(r, V)
    BY OfGrows
  <2>2. Num(r, V) = u[r]
    BY DEF Balanced
  <2> QED
    BY <2>1, <2>2
<1>2. DOMAIN w = DOMAIN u
  OBVIOUS
<1> QED
  BY <1>1, <1>2 DEF Balanced, OneMore

(* Queues of which so many have been heard.                                *)
Queued(Q, V, u) ==
  \A r \in DOMAIN u : Of(r, V) # <<>> => r \in DOMAIN Q /\ LeftOf(Q[r], Of(r, V), u[r])

LEMMA QueueHears ==
  ASSUME NEW V, Listed(V), NEW Q, NEW u, Queued(Q, V, u), NEW r \in DOMAIN u,
         u[r] \in Nat, u[r] < Num(r, V)
  PROVE  /\ r \in DOMAIN Q /\ Head(Q[r]) = Of(r, V)[u[r] + 1]
         /\ Queued([Q EXCEPT ![r] = Rest(@)], V, OneMore(u, r))
<1> PICK R : R = [Q EXCEPT ![r] = Rest(@)]
  OBVIOUS
<1> PICK w : w = [u EXCEPT ![r] = @ + 1]
  OBVIOUS
<1> PICK n \in Nat : n = u[r]
  OBVIOUS
<1>1. Listed(Of(r, V)) /\ Num(r, V) \in Nat /\ n < Num(r, V)
  BY OfListed
<1>2. Of(r, V) # <<>>
  <2>1. Num(r, V) > 0
    BY ONLY <1>1, n \in Nat
  <2> QED
    BY <2>1, OfListed
<1>3. r \in DOMAIN Q /\ LeftOf(Q[r], Of(r, V), n)
  BY <1>2 DEF Queued
<1>4. Head(Q[r]) = Of(r, V)[n + 1] /\ LeftOf(Rest(Q[r]), Of(r, V), n + 1)
  <2>1. PICK T : Of(r, V) \in Seq(T)
    BY <1>1 DEF Listed
  <2> QED
    BY <1>1, <1>3, <2>1, LeftRest DEF Num
<1>5. DOMAIN w = DOMAIN u /\ DOMAIN R = DOMAIN Q /\ w[r] = n + 1 /\ R[r] = Rest(Q[r])
      /\ \A q \in DOMAIN u : q # r => w[q] = u[q]
  BY <1>3
<1>6. \A q \in DOMAIN Q : q # r => R[q] = Q[q]
  OBVIOUS
<1>7. Queued(R, V, w)
  BY <1>3, <1>4, <1>5, <1>6 DEF Queued
<1> QED
  BY <1>3, <1>4, <1>7 DEF OneMore

(* A frame of the recorded run, whose verdict, if any, is not yet logged.  *)

Twin(f, x) ==
  /\ Same(f, x.frame) /\ x.frame.verdict = None
  /\ f.verdict # None => Took(f).probe # None
Heed(V, f) ==
  IF Took(f).probe = None THEN V
  ELSE Append(V, [ref |-> Took(f).probe, verdict |-> f.verdict])
HeedUsed(used, f) ==
  IF Took(f).probe = None THEN used ELSE OneMore(used, Took(f).probe)

LEMMA SameIs ==
  ASSUME NEW f, NEW g, Same(f, g)
  PROVE  /\ f.steps = g.steps /\ f.at = g.at /\ f.joins = g.joins /\ f.end = g.end
         /\ f.why = g.why /\ f.trace = g.trace /\ f.joined = g.joined /\ f.ctx = g.ctx
         /\ Took(f) = Took(g) /\ (Walking(f) <=> Walking(g)) /\ Same(g, f)
  BY DEF Same, Route, Took, Walking

Counted(f, V, x) ==
  Took(f).probe # None => Took(f).probe \in DOMAIN x.used
                          /\ Num(Took(f).probe, V) = x.used[Took(f).probe]
Extended(c, n, A, steps, V, host, f) ==
  \E d, m : /\ Course(d, m, A, steps, Heed(V, f), host) /\ d[0] = c[0]
            /\ Twin(Advance(f, host), d[m]) /\ d[m].used = HeedUsed(c[n].used, f)

LEMMA RecordedStep ==
  ASSUME NEW c, NEW n, NEW A, NEW steps, NEW V, Listed(V), NEW host,
         Course(c, n, A, steps, V, host),
         NEW f, Shape(f), Walking(f), f.joins = FALSE, Twin(f, c[n]), ~Needs(f),
         Counted(f, V, c[n])
  PROVE  Extended(c, n, A, steps, V, host, f)
<1>n. PICK nf : nf = Advance(f, host)
  OBVIOUS
<1> PICK x : x = c[n]
  OBVIOUS
<1> PICK r : r = Took(f).probe
  OBVIOUS
<1>0. n \in Nat /\ Turn(x, A, steps) /\ Same(f, x.frame) /\ x.frame.verdict = None
      /\ 0 \in 0 .. n
  <2>1. n \in Nat
    BY DEF Course
  <2> QED
    BY <2>1 DEF Course, Twin
<1>1. /\ nf.steps = steps /\ nf.joins = FALSE /\ nf.verdict = None
      /\ f.steps = steps /\ x.frame.steps = steps
      /\ x.used \in [A -> Nat] /\ Walking(x.frame) /\ ~x.frame.joins /\ Took(x.frame) = Took(f)
  <2>1. nf.steps = f.steps /\ nf.joins = f.joins /\ nf.verdict = None
    BY <1>n, AdvanceAdvances DEF Advanced, Onward
  <2> QED
    BY <1>0, <2>1, SameIs DEF Turn
<1>2. Same(nf, nf)
  BY DEF Same
<1>3. CASE r = None
  <2>a. PICK y : y = [frame |-> nf, used |-> x.used]
    OBVIOUS
  <2>b. PICK d : d = NextTurn(c, n, y)
    OBVIOUS
  <2>1. y.frame = nf /\ y.used = x.used
    BY <2>a
  <2>2. f.verdict = None
    BY <1>3 DEF Twin
  <2>3. Moves(x, y, host)
    <3>1. ~Needs(x.frame)
      BY <1>1, <1>3 DEF Needs
    <3>2. f.verdict = x.frame.verdict /\ y.frame = Advance(f, host)
      BY <1>n, <1>0, <2>1, <2>2
    <3> QED
      BY <1>0, <2>1, <3>1, <3>2 DEF Moves
  <2>4. Turn(y, A, steps) /\ Turns(x, y, V, host)
    BY <1>1, <2>1, <2>3 DEF Turn, Turns
  <2>5. Course(d, n + 1, A, steps, V, host) /\ d[n + 1] = y /\ d[0] = c[0]
    BY <1>0, <2>b, <2>4, CourseStep
  <2>6. Twin(nf, d[n + 1])
    BY <1>1, <1>2, <2>1, <2>5 DEF Twin
  <2>7. d[n + 1].used = HeedUsed(c[n].used, f) /\ Heed(V, f) = V
    BY <1>3, <2>1, <2>5 DEF Heed, HeedUsed
  <2> QED
    BY <1>n, <2>5, <2>6, <2>7 DEF Extended
<1>4. CASE r # None
  <2>v. PICK v : v = [ref |-> r, verdict |-> f.verdict]
    OBVIOUS
  <2>w. PICK W : W = Append(V, v)
    OBVIOUS
  <2>a. PICK y : y = [frame |-> f, used |-> OneMore(x.used, r)]
    OBVIOUS
  <2>b. PICK z : z = [frame |-> nf, used |-> y.used]
    OBVIOUS
  <2>c. PICK d : d = NextTurn(c, n, y)
    OBVIOUS
  <2>d. PICK g : g = NextTurn(d, n + 1, z)
    OBVIOUS
  <2>1. /\ y.frame = f /\ y.used = OneMore(x.used, r) /\ z.frame = nf /\ z.used = y.used
        /\ v.ref = r /\ v.verdict = f.verdict
    BY <2>v, <2>a, <2>b
  <2>2. r \in A /\ Num(r, V) = x.used[r] /\ f.verdict # None
    BY <1>1, <1>4 DEF Needs, Counted
  <2>3. y.used \in [A -> Nat]
    BY <1>1, <2>1, <2>2 DEF OneMore
  <2>4. Turn(y, A, steps) /\ Turn(z, A, steps)
    BY <1>1, <2>1, <2>3 DEF Turn
  <2>5. Hears(x, y, W)
    <3>1. Needs(x.frame)
      BY <1>0, <1>1, <1>4 DEF Needs
    <3>2. Num(r, V) \in Nat /\ Num(r, W) = Num(r, V) + 1 /\ Of(r, W)[Num(r, V) + 1] = v
      BY <2>w, <2>1, OfGrows
    <3>3. x.used[r] < Num(r, W) /\ Of(r, W)[x.used[r] + 1] = v
      BY <2>2, <3>2
    <3>4. r \in DOMAIN x.used /\ r = Took(x.frame).probe
      BY <1>1, <2>2
    <3>5. Answered(x, y, v)
      BY <1>0, <2>1, <2>2, <3>4 DEF Answered
    <3> QED
      BY <3>1, <3>3, <3>4, <3>5 DEF Hears
  <2>6. Moves(y, z, host)
    <3>1. Same(f, y.frame) /\ f.verdict = y.frame.verdict /\ z.frame = Advance(f, host) /\ ~Needs(y.frame)
      BY <1>n, <2>1 DEF Same
    <3> QED
      BY <2>1, <3>1 DEF Moves
  <2>7. Turns(x, y, W, host)
    BY <1>1, <2>5 DEF Turns
  <2>8. Turns(y, z, W, host)
    BY <2>1, <2>6 DEF Turns
  <2>9. Course(c, n, A, steps, W, host)
    BY <2>w, CourseMore
  <2>10. Course(d, n + 1, A, steps, W, host) /\ d[n + 1] = y /\ d[0] = c[0]
    BY <1>0, <2>c, <2>4, <2>7, <2>9, CourseStep
  <2>11. Course(g, n + 1 + 1, A, steps, W, host) /\ g[n + 1 + 1] = z /\ g[0] = d[0]
    <3>1. Turns(d[n + 1], z, W, host)
      BY <2>8, <2>10
    <3> QED
      BY <2>d, <2>4, <2>10, <3>1, CourseStep
  <2>12. Twin(nf, g[n + 1 + 1])
    BY <1>1, <1>2, <2>1, <2>11 DEF Twin
  <2>13. g[n + 1 + 1].used = HeedUsed(c[n].used, f) /\ Heed(V, f) = W
    BY <1>4, <2>v, <2>w, <2>1, <2>11 DEF Heed, HeedUsed
  <2> QED
    BY <1>n, <2>10, <2>11, <2>12, <2>13 DEF Extended
<1> QED
  BY <1>3, <1>4

(* Where a run begins.                                                     *)

Steps(prog, t) == IF t = 0 THEN prog.steps ELSE prog.branches[t].steps
Crew(prog) == DOMAIN prog.branches

LEMMA CrewIs ==
  ASSUME NEW prog \in Programs
  PROVE  /\ 0 .. Len(prog.branches) = {0} \cup Crew(prog) /\ 0 \notin Crew(prog)
         /\ Crew(prog) = 1 .. Len(prog.branches) /\ (Crew(prog) = {} <=> prog.branches = <<>>)
<1>1. PICK T : prog.branches \in Seq(T)
  BY ProgramAssumption
<1> PICK b : b = prog.branches
  OBVIOUS
<1> PICK m \in Nat : m = Len(b) /\ DOMAIN b = 1 .. m /\ (b = <<>> <=> m = 0)
  BY <1>1
<1>2. 0 .. m = {0} \cup 1 .. m /\ 0 \notin 1 .. m /\ (1 .. m = {} <=> m = 0)
  OBVIOUS
<1> QED
  BY <1>2 DEF Crew

LEMMA FrameIs ==
  ASSUME NEW flow, NEW c
  PROVE  LET f == Frame(flow, c) IN
         /\ DOMAIN f = Parts /\ f.ctx = c /\ f.steps = flow.steps /\ f.verdict = None
         /\ f.joins = FALSE /\ f.end = None
         /\ Route(f) = <<flow.steps, flow.entry, <<>>, <<>>, FALSE, None, None>>
  BY DEF Frame, Parts, Route

Fork(flow, c) == [Frame(flow, c) EXCEPT !.joined = <<Parallel>>, !.joins = TRUE]
LEMMA ForkIs ==
  ASSUME NEW flow, NEW c
  PROVE  LET f == Fork(flow, c) IN
         /\ DOMAIN f = Parts /\ f.ctx = c /\ f.steps = flow.steps /\ f.verdict = None
         /\ f.joins = TRUE /\ f.end = None
         /\ Route(f) = <<flow.steps, flow.entry, <<Parallel>>, <<>>, TRUE, None, None>>
  BY DEF Fork, Frame, Parts, Route

(* Apart from the context, what a frame starts with.                       *)
StartRoute(prog, t) ==
  IF t \in Crew(prog)
    THEN <<prog.branches[t].steps, prog.branches[t].entry, <<>>, <<>>, FALSE, None, None>>
  ELSE IF prog.branches = <<>> THEN <<prog.steps, prog.entry, <<>>, <<>>, FALSE, None, None>>
  ELSE <<prog.steps, prog.entry, <<Parallel>>, <<>>, TRUE, None, None>>

Fresh(f, prog, t, c) ==
  /\ DOMAIN f = Parts /\ f.ctx = c /\ f.steps = Steps(prog, t) /\ f.verdict = None
  /\ (t \in Crew(prog) \/ prog.branches = <<>> => f.joins = FALSE)
  /\ (t = 0 /\ prog.branches # <<>> => f.joins = TRUE) /\ f.end = None
  /\ Route(f) = StartRoute(prog, t)

LEMMA StartIs ==
  ASSUME NEW prog \in Programs, NEW c, NEW t \in 0 .. Len(prog.branches)
  PROVE  Fresh(Start(prog, c)[t], prog, t, c)
<1>f. PICK f : f = Start(prog, c)[t]
  OBVIOUS
<1> SUFFICES Fresh(f, prog, t, c)
  BY <1>f
<1>0. /\ t \in Crew(prog) => t # 0 /\ prog.branches # <<>>
      /\ t \notin Crew(prog) => t = 0
  BY CrewIs
<1>1. CASE t \in Crew(prog)
  <2>1. f = Frame(prog.branches[t], c)
    BY <1>f, <1>0, <1>1 DEF Start
  <2>2. Steps(prog, t) = prog.branches[t].steps
    BY <1>0, <1>1 DEF Steps
  <2>3. StartRoute(prog, t) = <<prog.branches[t].steps, prog.branches[t].entry, <<>>, <<>>, FALSE, None, None>>
    BY <1>1 DEF StartRoute
  <2>4. /\ DOMAIN f = Parts /\ f.ctx = c /\ f.steps = prog.branches[t].steps /\ f.verdict = None
        /\ f.joins = FALSE /\ f.end = None
        /\ Route(f) = <<prog.branches[t].steps, prog.branches[t].entry, <<>>, <<>>, FALSE, None, None>>
    BY <2>1, FrameIs, ZenonT(60)
  <2> QED
    BY <1>0, <1>1, <2>2, <2>3, <2>4 DEF Fresh
<1>2. CASE t = 0 /\ prog.branches = <<>>
  <2>1. f = Frame(prog, c)
    BY <1>f, <1>2 DEF Start
  <2>2. Steps(prog, t) = prog.steps
    BY <1>2 DEF Steps
  <2>3. StartRoute(prog, t) = <<prog.steps, prog.entry, <<>>, <<>>, FALSE, None, None>>
    BY <1>0, <1>2 DEF StartRoute
  <2>4. /\ DOMAIN f = Parts /\ f.ctx = c /\ f.steps = prog.steps /\ f.verdict = None
        /\ f.joins = FALSE /\ f.end = None
        /\ Route(f) = <<prog.steps, prog.entry, <<>>, <<>>, FALSE, None, None>>
    BY <2>1, FrameIs
  <2> QED
    BY <1>0, <1>2, <2>2, <2>3, <2>4 DEF Fresh
<1>3. CASE t = 0 /\ prog.branches # <<>>
  <2>1. f = Fork(prog, c)
    BY <1>f, <1>3 DEF Start, Fork
  <2>2. Steps(prog, t) = prog.steps
    BY <1>3 DEF Steps
  <2>3. StartRoute(prog, t) = <<prog.steps, prog.entry, <<Parallel>>, <<>>, TRUE, None, None>>
    BY <1>0, <1>3 DEF StartRoute
  <2>4. /\ DOMAIN f = Parts /\ f.ctx = c /\ f.steps = prog.steps /\ f.verdict = None
        /\ f.joins = TRUE /\ f.end = None
        /\ Route(f) = <<prog.steps, prog.entry, <<Parallel>>, <<>>, TRUE, None, None>>
    BY <2>1, ForkIs, ZenonT(60)
  <2> QED
    BY <1>0, <1>3, <2>2, <2>3, <2>4 DEF Fresh
<1> QED
  BY <1>0, <1>1, <1>2, <1>3

LEMMA StartsFollow ==
  ASSUME NEW prog \in Programs, NEW raw, NEW c, NEW d, Near(raw, c), Near(raw, d),
         JsonContext(c) = JsonContext(d), NEW t \in 0 .. Len(prog.branches),
         NEW f, f = Start(prog, c)[t], NEW g, g = Start(prog, d)[t]
  PROVE  Mirrors(g, f) /\ g.verdict = f.verdict /\ Held(g, f, d, c)
<1>1. f.ctx = c /\ g.ctx = d /\ Route(f) = Route(g) /\ f.verdict = g.verdict
  <2>1. Fresh(f, prog, t, c) /\ Fresh(g, prog, t, d)
    BY StartIs
  <2> QED
    BY <2>1 DEF Fresh
<1>2. AlikeIn(d, c)
  BY NearAlike
<1> QED
  BY <1>1, <1>2, MirrorsIs DEF Held

-----------------------------------------------------------------------------
(* The schemas that are still to be extracted.                             *)

Remains(n) ==
  /\ n \in 0 .. Len(Wanted) /\ wanted \in Seq(ToSet(Wanted)) /\ Len(wanted) = Len(Wanted) - n
  /\ \A j \in 1 .. Len(wanted) : wanted[j] = Wanted[n + j]

LEMMA AllRemains == wanted = Wanted => Remains(0)
<1>1. Len(Wanted) \in Nat
  BY WantedAssumption
<1> QED
  BY <1>1, WantedAssumption DEF Remains

LEMMA NoneRemains ==
  ASSUME NEW n, Remains(n)
  PROVE  wanted = <<>> <=> n = Len(Wanted)
<1>1. Len(Wanted) \in Nat
  BY WantedAssumption
<1>2. wanted = <<>> <=> Len(wanted) = 0
  BY DEF Remains
<1> QED
  BY <1>1, <1>2 DEF Remains

LEMMA TailIs ==
  ASSUME NEW T, NEW w \in Seq(T), w # <<>>
  PROVE  /\ Tail(w) \in Seq(T) /\ Len(Tail(w)) \in Nat /\ Len(w) = Len(Tail(w)) + 1
         /\ \A j \in 1 .. Len(Tail(w)) : Tail(w)[j] = w[j + 1]
  OBVIOUS

LEMMA HeadRemains ==
  ASSUME NEW n, Remains(n), wanted # <<>>
  PROVE  /\ n # Len(Wanted) /\ Head(wanted) = Wanted[n + 1] /\ Head(wanted) \in ToSet(Wanted)
         /\ n \in Nat /\ n + 1 \in 0 .. Len(Wanted)
         /\ wanted' = Tail(wanted) => Remains(n + 1)'
<1> PICK L \in Nat : L = Len(Wanted)
  BY WantedAssumption
<1> PICK T : T = ToSet(Wanted)
  OBVIOUS
<1> PICK w : w = wanted
  OBVIOUS
<1>1. n \in 0 .. L /\ w \in Seq(T) /\ Len(w) = L - n /\ w # <<>>
      /\ \A j \in 1 .. Len(w) : w[j] = Wanted[n + j]
  BY DEF Remains
<1>2. Len(w) \in Nat /\ Len(w) >= 1 /\ n # L /\ n \in Nat /\ n + 1 \in 0 .. L
  BY <1>1
<1>3. Head(w) = Wanted[n + 1] /\ Head(w) \in T
  BY <1>1, <1>2
<1>v. PICK v : v = Tail(w)
  OBVIOUS
<1>c. /\ v \in Seq(T) /\ Len(v) \in Nat /\ Len(w) = Len(v) + 1
      /\ \A j \in 1 .. Len(v) : v[j] = w[j + 1]
  BY <1>v, <1>1, TailIs
<1>d. Len(v) = L - (n + 1)
  <2>1. Len(w) = L - n /\ Len(v) \in Nat /\ Len(w) = Len(v) + 1 /\ n \in Nat
    BY <1>1, <1>2, <1>c
  <2> QED
    BY ONLY <2>1, L \in Nat
<1>a. v \in Seq(T) /\ Len(v) = L - (n + 1) /\ Len(w) = Len(v) + 1 /\ Len(v) \in Nat
      /\ \A j \in 1 .. Len(v) : v[j] = w[j + 1]
  BY <1>c, <1>d
<1>b. ASSUME NEW j \in 1 .. Len(v) PROVE v[j] = Wanted[n + 1 + j]
  <2>1. j + 1 \in 1 .. Len(w) /\ n + (j + 1) = n + 1 + j
    BY <1>2, <1>a
  <2> QED
    BY <1>1, <1>a, <2>1
<1>4. /\ Tail(w) \in Seq(T) /\ Len(Tail(w)) = L - (n + 1)
      /\ \A j \in 1 .. Len(Tail(w)) : Tail(w)[j] = Wanted[n + 1 + j]
  BY <1>v, <1>a, <1>b
<1>5. wanted' = Tail(wanted) => Remains(n + 1)'
  BY <1>2, <1>4 DEF Remains
<1> QED
  BY <1>2, <1>3, <1>5

(* The courses of a recorded run.                                          *)

(* Those of the branches: K, of N turns.                                   *)
Fanned(prog, C, K, N, V) ==
  /\ Shape(Start(prog, C)[0]) /\ DOMAIN K = Crew(prog) /\ DOMAIN N = Crew(prog)
  /\ \A t \in Crew(prog) :
       /\ K[t][0] = [frame |-> Start(prog, C)[t], used |-> [r \in AskedBy(prog) |-> 0]]
       /\ Course(K[t], N[t], AskedBy(prog), Steps(prog, t), V, Equipped(t))

(* The join of the branches, as they ended.                                *)
Gathered(prog, C, K, N, first) ==
  IF prog.branches = <<>> THEN first = Start(prog, C)[0]
  ELSE \E ends : /\ DOMAIN ends = Crew(prog)
                 /\ \A t \in Crew(prog) : Same(ends[t], K[t][N[t]].frame)
                 /\ first \in Joins(Start(prog, C)[0], ends)
                 /\ FailedIn(ends) # {} \/ Clashes(Start(prog, C)[0], ends) = {}

(* And that of the program itself, c, of n turns.                          *)
Rejoined(prog, C, K, N, V, c, n) ==
  /\ Fanned(prog, C, K, N, V) /\ \A t \in Crew(prog) : ~Walking(K[t][N[t]].frame)
  /\ Gathered(prog, C, K, N, c[0].frame) /\ c[0].frame.verdict = None
  /\ c[0].used = Spent(prog, K, N)
  /\ Course(c, n, AskedBy(prog), Steps(prog, 0), V, Equipped(0))

LEMMA CourseHeed ==
  ASSUME NEW c, NEW n, NEW A, NEW steps, NEW V, Listed(V), NEW host,
         Course(c, n, A, steps, V, host), NEW f
  PROVE  Course(c, n, A, steps, Heed(V, f), host)
  BY CourseMore DEF Heed

LEMMA FannedHeed ==
  ASSUME NEW prog, NEW C, NEW K, NEW N, NEW V, Listed(V), Fanned(prog, C, K, N, V), NEW f
  PROVE  Fanned(prog, C, K, N, Heed(V, f))
  BY CourseHeed DEF Fanned

LEMMA FannedUsed ==
  ASSUME NEW prog, NEW C, NEW K, NEW N, NEW V, Fanned(prog, C, K, N, V), NEW t \in Crew(prog),
         NEW i \in 0 .. N[t]
  PROVE  Turn(K[t][i], AskedBy(prog), Steps(prog, t))
  BY CourseAt DEF Fanned

LEMMA LastPlace ==
  ASSUME NEW c, NEW n, NEW A, NEW steps, NEW V, NEW host, Course(c, n, A, steps, V, host)
  PROVE  n \in 0 .. n /\ 0 \in 0 .. n /\ n \in Nat
  BY DEF Course

(* A reference that a step asks for is one of the program.                 *)
LEMMA AsksFor ==
  ASSUME NEW prog \in Programs, NEW t \in 0 .. Len(prog.branches), NEW f, Shape(f), Walking(f),
         f.steps = Steps(prog, t), Took(f).probe # None
  PROVE  /\ Took(f).probe \in AskedBy(prog)
         /\ t \in Crew(prog) => Took(f).probe \in ProbesOf(prog.branches[t])
<1>1. f.at \in DOMAIN Steps(prog, t)
  BY DEF Shape
<1>2. CASE t \in Crew(prog)
  <2>1. Took(f).probe \in ProbesOf(prog.branches[t])
    BY <1>1, <1>2, CrewIs DEF Steps, Took, ProbesOf
  <2> QED
    BY <1>2, <2>1 DEF AskedBy, Crew
<1>3. CASE t \notin Crew(prog)
  <2>1. t = 0
    BY <1>3, CrewIs
  <2>2. f.at \in DOMAIN prog.steps /\ Took(f) = prog.steps[f.at]
    BY <1>1, <2>1 DEF Steps, Took
  <2>3. Took(f).probe \in ProbesOf(prog)
    BY <2>2 DEF ProbesOf
  <2> QED
    BY <1>3, <2>3 DEF AskedBy
<1> QED
  BY <1>2, <1>3

LEMMA SpentIs ==
  ASSUME NEW prog, ~SharesProbes(prog), NEW K, NEW at, NEW t \in Crew(prog),
         NEW r \in ProbesOf(prog.branches[t])
  PROVE  Spent(prog, K, at)[r] = K[t][at[t]].used[r] /\ r \in AskedBy(prog)
<1>1. Owned(prog, r) /\ Owner(prog, r) = t /\ r \in AskedBy(prog)
  BY OwnerIs DEF Crew
<1> QED
  BY <1>1 DEF Spent, SpentOn

LEMMA FannedStep ==
  ASSUME NEW prog \in Programs, ~SharesProbes(prog), NEW C, NEW K, NEW N,
         NEW V, Listed(V), Fanned(prog, C, K, N, V), Balanced(V, Spent(prog, K, N)),
         NEW t \in Crew(prog), NEW f, Shape(f), Walking(f), ~Needs(f), Twin(f, K[t][N[t]])
  PROVE  \E L, M : /\ Fanned(prog, C, L, M, Heed(V, f))
                   /\ Balanced(Heed(V, f), Spent(prog, L, M))
                   /\ Twin(Advance(f, Equipped(t)), L[t][M[t]])
                   /\ \A j \in Crew(prog) : j # t => L[j][M[j]] = K[j][N[j]]
<1> PICK A : A = AskedBy(prog)
  OBVIOUS
<1> PICK r : r = Took(f).probe
  OBVIOUS
<1> PICK x : x = K[t][N[t]]
  OBVIOUS
<1> PICK W : W = Heed(V, f)
  OBVIOUS
<1> PICK nf : nf = Advance(f, Equipped(t))
  OBVIOUS
<1>1. Course(K[t], N[t], A, Steps(prog, t), V, Equipped(t)) /\ t \in 0 .. Len(prog.branches)
  BY CrewIs DEF Fanned
<1>2. Turn(x, A, Steps(prog, t)) /\ Same(f, x.frame)
  BY <1>1, CourseAt, LastPlace DEF Twin
<1>3. f.steps = Steps(prog, t) /\ f.joins = FALSE /\ x.used \in [A -> Nat]
  BY <1>2, SameIs DEF Turn
<1>4. r # None => r \in A /\ r \in ProbesOf(prog.branches[t])
  BY <1>1, <1>3, AsksFor
<1>5. r # None => Spent(prog, K, N)[r] = x.used[r]
  BY <1>4, SpentIs
<1>6. r # None => Num(r, V) = x.used[r]
  <2>1. DOMAIN Spent(prog, K, N) = A
    BY DEF Spent
  <2> QED
    BY <1>4, <1>5, <2>1 DEF Balanced
<1>c. Counted(f, V, x)
  BY <1>3, <1>4, <1>6 DEF Counted
<1>e. Extended(K[t], N[t], A, Steps(prog, t), V, Equipped(t), f)
  BY <1>1, <1>3, <1>c, RecordedStep
<1>7. PICK d, m : /\ Course(d, m, A, Steps(prog, t), W, Equipped(t))
                  /\ d[0] = K[t][0] /\ Twin(nf, d[m]) /\ d[m].used = HeedUsed(x.used, f)
  BY <1>e DEF Extended
<1>k. PICK L : L = [K EXCEPT ![t] = d]
  OBVIOUS
<1>m. PICK M : M = [N EXCEPT ![t] = m]
  OBVIOUS
<1>8. /\ DOMAIN L = Crew(prog) /\ DOMAIN M = Crew(prog) /\ L[t] = d /\ M[t] = m
      /\ \A j \in Crew(prog) : j # t => L[j] = K[j] /\ M[j] = N[j]
  BY <1>k, <1>m DEF Fanned
<1>9. Fanned(prog, C, K, N, W)
  BY FannedHeed
<1>10. Fanned(prog, C, L, M, W)
  <2>1. ASSUME NEW j \in Crew(prog)
        PROVE  /\ L[j][0] = [frame |-> Start(prog, C)[j], used |-> [q \in AskedBy(prog) |-> 0]]
               /\ Course(L[j], M[j], AskedBy(prog), Steps(prog, j), W, Equipped(j))
    <3>1. CASE j = t
      BY <1>7, <1>8, <1>9, <3>1 DEF Fanned
    <3>2. CASE j # t
      BY <1>8, <1>9, <3>2 DEF Fanned
    <3> QED
      BY <3>1, <3>2
  <2> QED
    BY <1>8, <1>9, <2>1 DEF Fanned
<1>11. Balanced(W, Spent(prog, L, M))
  <2>1. L[t][M[t]].used = HeedUsed(x.used, f)
    BY <1>7, <1>8
  <2>a. Others(prog, K, N, L, M, t)
    BY <1>8 DEF Crew, Others
  <2>2. CASE r = None
    <3>1. Spent(prog, L, M) = Spent(prog, K, N)
      BY <2>1, <2>2, <2>a, SpentTurn DEF HeedUsed
    <3> QED
      BY <2>2, <3>1 DEF Heed
  <2>3. CASE r # None
    <3> PICK v : v.ref = r /\ W = Append(V, v)
      BY <2>3 DEF Heed
    <3> PICK S : S = Spent(prog, K, N)
      OBVIOUS
    <3>1. L[t][M[t]].used = OneMore(x.used, r)
      BY <2>1, <2>3 DEF HeedUsed
    <3>2. Spent(prog, L, M) = OneMore(S, r)
      BY <1>3, <1>4, <2>3, <2>a, <3>1, SpentHears DEF Crew
    <3>3. r \in DOMAIN S
      BY <1>4, <2>3 DEF Spent
    <3> QED
      BY <3>2, <3>3, BalanceMore
  <2> QED
    BY <2>2, <2>3
<1> QED
  BY <1>7, <1>8, <1>10, <1>11

LEMMA AloneStep ==
  ASSUME NEW prog \in Programs, NEW C, NEW K, NEW N, NEW c, NEW n,
         NEW V, Listed(V), Rejoined(prog, C, K, N, V, c, n), Balanced(V, c[n].used),
         NEW f, Shape(f), Walking(f), ~Needs(f), Twin(f, c[n])
  PROVE  \E d, m : /\ Rejoined(prog, C, K, N, Heed(V, f), d, m)
                   /\ Balanced(Heed(V, f), d[m].used)
                   /\ Twin(Advance(f, Equipped(0)), d[m])
<1> PICK A : A = AskedBy(prog)
  OBVIOUS
<1> PICK r : r = Took(f).probe
  OBVIOUS
<1> PICK x : x = c[n]
  OBVIOUS
<1> PICK W : W = Heed(V, f)
  OBVIOUS
<1> PICK nf : nf = Advance(f, Equipped(0))
  OBVIOUS
<1>1. Course(c, n, A, Steps(prog, 0), V, Equipped(0)) /\ 0 \in 0 .. Len(prog.branches)
  BY CrewIs DEF Rejoined
<1>2. Turn(x, A, Steps(prog, 0)) /\ Same(f, x.frame)
  BY <1>1, CourseAt, LastPlace DEF Twin
<1>3. f.steps = Steps(prog, 0) /\ f.joins = FALSE /\ x.used \in [A -> Nat]
  BY <1>2, SameIs DEF Turn
<1>4. r # None => r \in A
  BY <1>1, <1>3, AsksFor
<1>6. r # None => Num(r, V) = x.used[r]
  BY <1>3, <1>4 DEF Balanced
<1>c. Counted(f, V, x)
  BY <1>3, <1>4, <1>6 DEF Counted
<1>e. Extended(c, n, A, Steps(prog, 0), V, Equipped(0), f)
  BY <1>1, <1>3, <1>c, RecordedStep
<1>7. PICK d, m : /\ Course(d, m, A, Steps(prog, 0), W, Equipped(0))
                  /\ d[0] = c[0] /\ Twin(nf, d[m]) /\ d[m].used = HeedUsed(x.used, f)
  BY <1>e DEF Extended
<1>8. Rejoined(prog, C, K, N, W, d, m)
  <2>1. Fanned(prog, C, K, N, W)
    BY FannedHeed DEF Rejoined
  <2> QED
    BY <1>7, <2>1 DEF Rejoined
<1>9. Balanced(W, d[m].used)
  <2>2. CASE r = None
    BY <1>7, <2>2 DEF Heed, HeedUsed
  <2>3. CASE r # None
    <3> PICK v : v.ref = r /\ W = Append(V, v)
      BY <2>3 DEF Heed
    <3> PICK u : u = x.used
      OBVIOUS
    <3>1. d[m].used = OneMore(u, r)
      BY <1>7, <2>3 DEF HeedUsed
    <3>3. r \in DOMAIN u
      BY <1>3, <1>4, <2>3
    <3> QED
      BY <3>1, <3>3, BalanceMore
  <2> QED
    BY <2>2, <2>3
<1> QED
  BY <1>7, <1>8, <1>9

(* The recorded run.                                                       *)

Fit(prog, raw) == ~SharesProbes(prog) /\ PrintsAlike(raw) /\ ~Restates(prog, raw)

(* E: the intake, C: the context that the run starts from.                 *)
Briefed(E, C, raw) ==
  /\ Near(raw, raw) /\ Near(raw, C) /\ Intake(E, Len(Wanted), recorder.extractions, raw)
  /\ E[Len(Wanted)].ctx = JsonContext(C)

Heard(E, n) ==
  /\ Remains(n) /\ Intake(E, n, recorder.extractions, base)
  /\ E[n].ctx = JsonContext(ctx) /\ Balanced(recorder.extractions, E[n].used)
HearingInv ==
  phase = "intake" /\ PrintsAlike(base) =>
    /\ recorder.verdicts = <<>> /\ Near(base, base) /\ Near(base, ctx)
    /\ \E E, n : Heard(E, n)

Apart(C, K, N) ==
  /\ threads[0] = Start(program, C)[0] /\ threads[0].joins = TRUE
  /\ Fanned(program, C, K, N, recorder.verdicts)
  /\ Balanced(recorder.verdicts, Spent(program, K, N))
  /\ \A t \in Crew(program) : Twin(threads[t], K[t][N[t]])
Alone(C, K, N, c, n) ==
  /\ \A t \in Crew(program) : ~Walking(threads[t])
  /\ Rejoined(program, C, K, N, recorder.verdicts, c, n)
  /\ Twin(threads[0], c[n]) /\ Balanced(recorder.verdicts, c[n].used)
Torn == threads[0].end = "failed" /\ ConflictNamed(threads[0].why)
Ran(C) == Torn \/ (\E K, N : Apart(C, K, N)) \/ (\E K, N, c, n : Alone(C, K, N, c, n))
RunningInv ==
  phase = "running" /\ Fit(program, base) => \E E, C : Briefed(E, C, base) /\ Ran(C)

LEMMA InitHears == Init => HearingInv
<1> SUFFICES ASSUME Init, PrintsAlike(base) PROVE HearingInv
  BY DEF HearingInv
<1>1. /\ base \in Contexts /\ ctx = base /\ wanted = Wanted
      /\ recorder = [verdicts |-> <<>>, extractions |-> <<>>]
  BY DEF Init
<1>2. Near(base, base)
  <2>1. DOMAIN base = Keys /\ \A k \in Keys : Json(base[k]) = None => base[k] = None
    BY <1>1, ContextAssumption
  <2> QED
    BY <2>1 DEF Near, PrintsAlike
<1> PICK E : E = [i \in Nat |-> [ctx |-> JsonContext(base), used |-> [ref \in ToSet(Wanted) |-> 0]]]
  OBVIOUS
<1> PICK X : X = recorder.extractions
  OBVIOUS
<1>3. E[0].ctx = JsonContext(base) /\ E[0].used = [ref \in ToSet(Wanted) |-> 0] /\ X = <<>>
  BY <1>1
<1>4. Intake(E, 0, X, base)
  <2>1. 0 \in 0 .. Len(Wanted) /\ 0 .. 0 = {0}
    BY WantedAssumption
  <2> QED
    BY <1>3, <2>1 DEF Intake
<1>5. Balanced(X, E[0].used)
  <2>1. \A r : Num(r, <<>>) = 0
    BY OfNone DEF Num
  <2> QED
    BY <1>3, <2>1 DEF Balanced
<1>6. Remains(0)
  BY <1>1, AllRemains
<1>7. Heard(E, 0)
  BY <1>1, <1>3, <1>4, <1>5, <1>6 DEF Heard
<1> QED
  BY <1>1, <1>2, <1>7 DEF HearingInv

LEMMA LiveHears ==
  ASSUME TypeInv, HearingInv, ExtractLive
  PROVE  HearingInv'
<1> SUFFICES ASSUME PrintsAlike(base) PROVE HearingInv'
  BY DEF HearingInv, ExtractLive
<1>0. phase = "intake" /\ wanted # <<>> /\ base' = base /\ wanted' = Tail(wanted) /\ phase' = phase
  BY DEF ExtractLive, AddExtraction
<1>1. PICK E, n : Heard(E, n)
  BY <1>0 DEF HearingInv
<1> PICK ref : ref = Head(wanted)
  OBVIOUS
<1> PICK X : X = recorder.extractions
  OBVIOUS
<1>2. PICK x \in ModelReplies :
        LET r == Extract(ref, Extractor(x))
        IN /\ AddExtraction(r)
           /\ recorder' = [recorder EXCEPT !.extractions =
                             Append(@, [ref |-> ref, success |-> r.success,
                                        payload |-> r.payload, why |-> r.why])]
  BY DEF ExtractLive
<1> PICK r : r = Extract(ref, Extractor(x))
  OBVIOUS
<1>e. PICK e : e = [ref |-> ref, success |-> r.success, payload |-> r.payload, why |-> r.why]
  OBVIOUS
<1>3. /\ recorder'.extractions = Append(X, e) /\ recorder'.verdicts = recorder.verdicts
      /\ ctx' = With(ctx, r)
  BY <1>2, <1>e DEF AddExtraction, With, TypeInv, RecorderInv
<1>4. e.ref = ref /\ e.success = r.success /\ e.payload = r.payload
  BY <1>e
<1>5. /\ ref = Wanted[n + 1] /\ ref \in ToSet(Wanted) /\ n # Len(Wanted) /\ n \in Nat
      /\ Remains(n + 1)' /\ n \in 0 .. n
  BY <1>0, <1>1, HeadRemains DEF Heard
<1> PICK u : u = E[n].used
  OBVIOUS
<1>6. u \in [ToSet(Wanted) -> Nat] /\ Balanced(X, u) /\ Listed(X) /\ Intake(E, n, X, base)
  BY <1>1, <1>5 DEF Heard, Intake, TypeInv, RecorderInv
<1>7. Num(ref, X) = u[ref] /\ u[ref] \in Nat /\ ref \in DOMAIN u
  BY <1>5, <1>6 DEF Balanced
<1>8. Num(ref, Append(X, e)) = u[ref] + 1 /\ Of(ref, Append(X, e))[u[ref] + 1] = e
  BY <1>4, <1>6, <1>7, OfGrows
<1>9. Marked(ctx) /\ Near(base, ctx) /\ E[n].ctx = JsonContext(ctx)
  BY <1>0, <1>1 DEF Heard, HearingInv, TypeInv, IInv, ContextInv
<1>10. Repeats(ref, e, r)
  BY <1>4, ExtractTwice
<1> PICK y : y = [ctx |-> JsonContext(ctx'), used |-> OneMore(u, ref)]
  OBVIOUS
<1>11. y.ctx = JsonContext(With(ctx, r)) /\ y.used = OneMore(u, ref) /\ y.used \in [ToSet(Wanted) -> Nat]
  BY <1>3, <1>6, <1>7 DEF OneMore
<1>12. Recalls(E[n], y, ref, e)
  BY <1>9, <1>10, <1>11 DEF Recalls, OneMore
<1>13. Asks(E[n], y, ref, Append(X, e))
  <2>1. u[ref] < Num(ref, Append(X, e))
    BY <1>7, <1>8
  <2> QED
    BY <1>8, <1>12, <2>1 DEF Asks
<1>f. PICK F : F = NextTurn(E, n, y)
  OBVIOUS
<1>14. Intake(F, n + 1, Append(X, e), base) /\ F[n + 1] = y
  <2>1. Asks(E[n], y, Wanted[n + 1], Append(X, e))
    BY <1>5, <1>13
  <2>2. Listed(X) /\ Intake(E, n, X, base) /\ n # Len(Wanted) /\ y.used \in [ToSet(Wanted) -> Nat]
    BY <1>5, <1>6, <1>11
  <2> QED
    BY ONLY <1>f, <2>1, <2>2, IntakeMore
<1>15. Balanced(Append(X, e), OneMore(u, ref))
  BY <1>4, <1>6, <1>7, BalanceMore
<1>16. Heard(F, n + 1)'
  BY <1>0, <1>3, <1>5, <1>11, <1>14, <1>15 DEF Heard
<1>17. Near(base, With(ctx, r))
  <2>1. r.success => Supplies(r) /\ JsonContext(r.payload) = r.payload
    BY <1>10 DEF Repeats
  <2> QED
    BY <1>9, <2>1, NearFrom
<1> QED
  BY <1>0, <1>3, <1>16, <1>17 DEF HearingInv

LEMMA PersistHears ==
  ASSUME TypeInv, HearingInv, Persist
  PROVE  HearingInv'
<1> SUFFICES ASSUME phase = "intake", PrintsAlike(base) PROVE HearingInv'
  BY DEF HearingInv, Persist
<1>0. /\ ctx' = JsonContext(ctx) /\ base' = base /\ wanted' = wanted
      /\ recorder' = recorder
  BY DEF Persist
<1>1. PICK E, n : Heard(E, n)
  BY DEF HearingInv
<1>2. Near(base, base) /\ Near(base, ctx) /\ recorder.verdicts = <<>>
  BY DEF HearingInv
<1>3. Near(base, JsonContext(ctx)) /\ JsonContext(JsonContext(ctx)) = JsonContext(ctx)
  BY <1>2, NearJson
<1>4. Remains(n)'
  BY <1>0, <1>1 DEF Heard, Remains
<1>5. Heard(E, n)'
  BY <1>0, <1>1, <1>3, <1>4 DEF Heard
<1> QED
  BY <1>0, <1>2, <1>3, <1>5 DEF HearingInv

(* Before anything is heard.                                               *)
Zeros(A) == [r \in A |-> 0]
Idle(prog, C) == [t \in Crew(prog) |-> [i \in Nat |-> [frame |-> Start(prog, C)[t], used |-> Zeros(AskedBy(prog))]]]
Still(prog) == [t \in Crew(prog) |-> 0]
LEMMA IdleSpends ==
  ASSUME NEW prog, NEW C
  PROVE  Spent(prog, Idle(prog, C), Still(prog)) = Zeros(AskedBy(prog))
<1> PICK K : K = Idle(prog, C)
  OBVIOUS
<1> PICK N : N = Still(prog)
  OBVIOUS
<1>1. ASSUME NEW r \in AskedBy(prog) PROVE SpentOn(prog, K, N, r) = 0
  <2>1. CASE Owned(prog, r)
    <3> PICK t : t = Owner(prog, r)
      OBVIOUS
    <3>1. t \in Crew(prog)
      BY <2>1, OwnerIn DEF Crew
    <3>2. K[t][N[t]].used = Zeros(AskedBy(prog))
      BY <3>1 DEF Idle, Still
    <3> QED
      BY <1>1, <2>1, <3>2 DEF SpentOn, Zeros
  <2> QED
    BY <2>1 DEF SpentOn
<1> QED
  BY <1>1 DEF Spent, Zeros
LEMMA ZerosBalance ==
  ASSUME NEW A
  PROVE  Balanced(<<>>, Zeros(A)) /\ Zeros(A) \in [A -> Nat]
<1>1. \A r : Num(r, <<>>) = 0
  BY OfNone DEF Num
<1> QED
  BY <1>1 DEF Balanced, Zeros
LEMMA IdleFans ==
  ASSUME NEW prog \in Programs, NEW C, Shape(Start(prog, C)[0]), NEW V
  PROVE  Fanned(prog, C, Idle(prog, C), Still(prog), V)
<1> PICK K : K = Idle(prog, C)
  OBVIOUS
<1> PICK N : N = Still(prog)
  OBVIOUS
<1> PICK A : A = AskedBy(prog)
  OBVIOUS
<1>1. DOMAIN K = Crew(prog) /\ DOMAIN N = Crew(prog)
  BY DEF Idle, Still
<1>2. ASSUME NEW t \in Crew(prog)
      PROVE  /\ K[t][0] = [frame |-> Start(prog, C)[t], used |-> [r \in A |-> 0]]
             /\ Course(K[t], N[t], A, Steps(prog, t), V, Equipped(t))
  <2>1. DOMAIN K[t] = Nat /\ N[t] = 0
    BY DEF Idle, Still
  <2>2. K[t][0] = [frame |-> Start(prog, C)[t], used |-> Zeros(A)]
    BY DEF Idle
  <2>3. Fresh(Start(prog, C)[t], prog, t, C)
    BY CrewIs, StartIs
  <2>4. Turn(K[t][0], A, Steps(prog, t))
    BY <2>2, <2>3, ZerosBalance DEF Turn, Fresh
  <2>5. 0 .. 0 = {0}
    OBVIOUS
  <2>6. Course(K[t], 0, A, Steps(prog, t), V, Equipped(t))
    BY <2>1, <2>4, <2>5 DEF Course
  <2> QED
    BY <2>1, <2>2, <2>6 DEF Zeros
<1> QED
  BY <1>1, <1>2 DEF Fanned

LEMMA BeginRuns ==
  ASSUME TypeInv, HearingInv, Begin, phase = "intake"
  PROVE  RunningInv'
<1>0. /\ phase' = "running" /\ wanted = <<>> /\ program' = program /\ base' = base
      /\ recorder' = recorder /\ threads' = Start(program, ctx) /\ program \in Programs
  BY DEF Begin, TypeInv, IInv, ContextInv
<1> SUFFICES ASSUME Fit(program, base)
             PROVE  \E E, C : Briefed(E, C, base)' /\ Ran(C)'
  BY <1>0 DEF RunningInv
<1>1. PICK E, n : Heard(E, n)
  BY DEF HearingInv, Fit
<1>2. Near(base, base) /\ Near(base, ctx) /\ recorder.verdicts = <<>>
  BY DEF HearingInv, Fit
<1>3. n = Len(Wanted)
  BY <1>0, <1>1, NoneRemains DEF Heard
<1> PICK C : C = ctx
  OBVIOUS
<1>4. Briefed(E, C, base)'
  BY <1>0, <1>1, <1>2, <1>3 DEF Briefed, Heard
<1> PICK P : P = program
  OBVIOUS
<1> PICK K : K = Idle(P, C)
  OBVIOUS
<1> PICK N : N = Still(P)
  OBVIOUS
<1>5. \A t \in 0 .. Len(P.branches) : Shape(Start(P, C)[t])
  BY StartOK DEF TypeInv, IInv, FrameOK
<1>6. \A t \in 0 .. Len(P.branches) : Fresh(Start(P, C)[t], P, t, C)
  BY <1>0, StartIs
<1>7. 0 \in 0 .. Len(P.branches) /\ \A t \in Crew(P) : t \in 0 .. Len(P.branches)
  BY <1>0, CrewIs
<1>8. Fanned(P, C, K, N, <<>>)
  BY <1>0, <1>5, <1>7, IdleFans
<1>9. Spent(P, K, N) = Zeros(AskedBy(P)) /\ Balanced(<<>>, Spent(P, K, N))
  BY IdleSpends, ZerosBalance
<1>10. \A t \in Crew(P) : K[t][N[t]].frame = Start(P, C)[t]
  BY DEF Idle, Still
<1>11. CASE P.branches # <<>>
  <2>1. \A t \in Crew(P) : Twin(Start(P, C)[t], K[t][N[t]])
    BY <1>6, <1>7, <1>10 DEF Twin, Same, Fresh
  <2>2. Start(P, C)[0].joins = TRUE
    BY <1>6, <1>7, <1>11 DEF Fresh
  <2>3. Apart(C, K, N)'
    BY <1>0, <1>2, <1>8, <1>9, <2>1, <2>2 DEF Apart
  <2> QED
    BY <1>4, <2>3 DEF Ran
<1>12. CASE P.branches = <<>>
  <2> PICK f : f = Start(P, C)[0]
    OBVIOUS
  <2>1. Crew(P) = {} /\ f.joins = FALSE /\ f.verdict = None /\ f.steps = Steps(P, 0)
    BY <1>0, <1>6, <1>7, <1>12, CrewIs DEF Fresh
  <2> PICK c : c = [i \in Nat |-> [frame |-> f, used |-> Zeros(AskedBy(P))]]
    OBVIOUS
  <2>2. c[0].frame = f /\ c[0].used = Zeros(AskedBy(P)) /\ DOMAIN c = Nat
    OBVIOUS
  <2>3. Course(c, 0, AskedBy(P), Steps(P, 0), <<>>, Equipped(0))
    <3>1. Turn(c[0], AskedBy(P), Steps(P, 0))
      BY <2>1, <2>2, ZerosBalance DEF Turn
    <3>2. 0 .. 0 = {0}
      OBVIOUS
    <3> QED
      BY <2>2, <3>1, <3>2 DEF Course
  <2>4. Gathered(P, C, K, N, c[0].frame)
    BY <1>12, <2>2 DEF Gathered
  <2>5. Rejoined(P, C, K, N, <<>>, c, 0)
    BY <1>8, <1>9, <2>1, <2>2, <2>3, <2>4 DEF Rejoined
  <2>6. Twin(f, c[0])
    BY <2>1, <2>2 DEF Twin, Same
  <2>7. Balanced(<<>>, c[0].used)
    BY <1>9, <2>2
  <2>8. Alone(C, K, N, c, 0)'
    BY <1>0, <1>2, <2>1, <2>5, <2>6, <2>7 DEF Alone
  <2> QED
    BY <1>4, <2>8 DEF Ran
<1> QED
  BY <1>11, <1>12

LEMMA ProbeRuns ==
  ASSUME TypeInv, RunningInv, NEW t \in DOMAIN threads, InnerProbe(t)
  PROVE  RunningInv'
<1>0. /\ phase = "running" /\ program' = program /\ base' = base /\ recorder' = recorder
      /\ NeedsProbe(t) /\ program \in Programs /\ DOMAIN threads = 0 .. Len(program.branches)
  BY DEF InnerProbe, TypeInv, IInv, ContextInv, PhaseInv
<1> SUFFICES ASSUME Fit(program, base)
             PROVE  \E E, C : Briefed(E, C, base)' /\ Ran(C)'
  BY <1>0 DEF RunningInv
<1>1. PICK E, C : Briefed(E, C, base) /\ Ran(C)
  BY <1>0 DEF RunningInv
<1>2. Briefed(E, C, base)'
  BY <1>0, <1>1 DEF Briefed
<1>3. t \in Crew(program) \/ t = 0
  BY <1>0, CrewIs
<1>4. \A j \in Crew(program) : j # 0 /\ j \in DOMAIN threads
  BY <1>0, CrewIs
<1> PICK f : f = threads[t]
  OBVIOUS
<1>5. DOMAIN f = Parts /\ Walking(f) /\ ~f.joins /\ Took(f).probe # None
  BY <1>0 DEF TypeInv, IInv, FrameInv, FrameOK, Shape, NeedsProbe, Runs, ProbeRef, Took
<1>6. PICK nf : Same(nf, f) /\ threads' = [threads EXCEPT ![t] = nf]
  <2>1. ASSUME NEW ref, threads' = [threads EXCEPT ![t].verdict = SandboxProbe(ref, None)]
        PROVE  \E nf : Same(nf, f) /\ threads' = [threads EXCEPT ![t] = nf]
    <3>1. PICK nf : nf = [f EXCEPT !.verdict = SandboxProbe(ref, None)]
      OBVIOUS
    <3>2. Same(nf, f)
      BY <1>5, <3>1 DEF Parts, Same, Route
    <3>3. threads' = [threads EXCEPT ![t] = nf]
      BY <2>1, <3>1
    <3> QED
      BY <3>2, <3>3
  <2>2. ASSUME NEW ref, NEW kind, NEW x, threads' = [threads EXCEPT ![t] = Asked(@, ref, kind, x)]
        PROVE  \E nf : Same(nf, f) /\ threads' = [threads EXCEPT ![t] = nf]
    <3>1. Same(Asked(f, ref, kind, x), f)
      BY <1>5 DEF Asked, Parts, Same, Route
    <3>2. threads' = [threads EXCEPT ![t] = Asked(f, ref, kind, x)]
      BY <2>2
    <3> QED
      BY <3>1, <3>2
  <2> QED
    BY <2>1, <2>2 DEF InnerProbe
<1>7. Took(nf).probe # None /\ Walking(nf)
  BY <1>5, <1>6, SameIs
<1>8. threads'[t] = nf /\ DOMAIN threads' = DOMAIN threads /\ \A j \in DOMAIN threads : j # t => threads'[j] = threads[j]
  BY <1>6
<1>9. ASSUME NEW x, Twin(f, x) PROVE Twin(nf, x)
  BY <1>6, <1>7, <1>9 DEF Twin, Same
<1>10. 0 \in DOMAIN threads
  BY <1>0, CrewIs
<1>11. CASE Torn
  <2>1. threads[0].end = "failed" /\ t # 0
    BY <1>5, <1>11, NoneAssumption DEF Torn, Walking
  <2>2. threads'[0] = threads[0]
    BY <1>8, <1>10, <2>1
  <2>3. Torn'
    BY <1>11, <2>2 DEF Torn
  <2> QED
    BY <1>2, <2>3 DEF Ran
<1>12. ASSUME NEW K, NEW N, Apart(C, K, N) PROVE Apart(C, K, N)'
  <2>1. t # 0
    BY <1>5, <1>12 DEF Apart
  <2>2. threads'[0] = threads[0] /\ t \in Crew(program)
    BY <1>3, <1>8, <1>10, <2>1
  <2>3. \A j \in Crew(program) : Twin(threads'[j], K[j][N[j]])
    <3>1. ASSUME NEW j \in Crew(program) PROVE Twin(threads'[j], K[j][N[j]])
      <4>1. Twin(threads[j], K[j][N[j]])
        BY <1>12 DEF Apart
      <4>2. CASE j = t
        BY <1>8, <1>9, <4>1, <4>2
      <4>3. CASE j # t
        BY <1>4, <1>8, <4>1, <4>3
      <4> QED
        BY <4>2, <4>3
    <3> QED
      BY <3>1
  <2> QED
    BY <1>0, <1>12, <2>2, <2>3 DEF Apart
<1>13. ASSUME NEW K, NEW N, NEW c, NEW n, Alone(C, K, N, c, n) PROVE Alone(C, K, N, c, n)'
  <2>1. t = 0
    BY <1>3, <1>5, <1>13 DEF Alone
  <2>2. \A j \in Crew(program) : threads'[j] = threads[j]
    BY <1>4, <1>8, <2>1
  <2>3. Twin(threads'[0], c[n])
    BY <1>8, <1>9, <1>13, <2>1 DEF Alone
  <2> QED
    BY <1>0, <1>13, <2>2, <2>3 DEF Alone
<1> QED
  BY <1>1, <1>2, <1>11, <1>12, <1>13 DEF Ran

LEMMA StepRuns ==
  ASSUME TypeInv, RunningInv, NEW t \in DOMAIN threads, Step(t)
  PROVE  RunningInv'
<1>0. /\ phase = "running" /\ program' = program /\ base' = base
      /\ Runs(t) /\ ~NeedsProbe(t)
      /\ program \in Programs /\ DOMAIN threads = 0 .. Len(program.branches)
  BY DEF Step, TypeInv, IInv, ContextInv, PhaseInv
<1> SUFFICES ASSUME Fit(program, base)
             PROVE  \E E, C : Briefed(E, C, base)' /\ Ran(C)'
  BY <1>0 DEF RunningInv
<1>1. PICK E, C : Briefed(E, C, base) /\ Ran(C)
  BY <1>0 DEF RunningInv
<1> PICK P : P = program
  OBVIOUS
<1>3. t \in Crew(P) \/ t = 0
  BY <1>0, CrewIs
<1>4. (\A j \in Crew(P) : j # 0 /\ j \in DOMAIN threads) /\ 0 \in DOMAIN threads
  BY <1>0, CrewIs
<1> PICK f : f = threads[t]
  OBVIOUS
<1>5. Shape(f) /\ Walking(f) /\ ~f.joins /\ ~Needs(f)
  BY <1>0 DEF TypeInv, IInv, FrameInv, FrameOK, NeedsProbe, Runs, ProbeRef, Took, Needs
<1> PICK V : V = recorder.verdicts
  OBVIOUS
<1>6. Listed(V) /\ DOMAIN recorder = {"verdicts", "extractions"}
  BY DEF TypeInv, RecorderInv
<1>7. recorder'.verdicts = Heed(V, f) /\ recorder'.extractions = recorder.extractions
  BY <1>6 DEF Step, Heed, Took, ProbeRef
<1>2. Briefed(E, C, base)'
  BY <1>0, <1>1, <1>7 DEF Briefed
<1>8. /\ threads'[t] = Advance(f, Equipped(t))
      /\ \A j \in DOMAIN threads : j # t => threads'[j] = threads[j]
  BY DEF Step
<1>9. ~SharesProbes(P)
  BY DEF Fit
<1>11. CASE Torn
  <2>1. threads[0].end = "failed" /\ t # 0
    BY <1>5, <1>11, NoneAssumption DEF Torn, Walking
  <2>2. threads'[0] = threads[0]
    BY <1>4, <1>8, <2>1
  <2>3. Torn'
    BY <1>11, <2>2 DEF Torn
  <2> QED
    BY <1>2, <2>3 DEF Ran
<1>12. ASSUME NEW K, NEW N, Apart(C, K, N) PROVE \E L, M : Apart(C, L, M)'
  <2>1. t # 0
    BY <1>5, <1>12 DEF Apart
  <2>2. threads'[0] = threads[0] /\ t \in Crew(P)
    BY <1>3, <1>4, <1>8, <2>1
  <2>3. /\ Fanned(P, C, K, N, V) /\ Balanced(V, Spent(P, K, N)) /\ Twin(f, K[t][N[t]])
        /\ \A j \in Crew(P) : Twin(threads[j], K[j][N[j]])
    BY <1>12, <2>2 DEF Apart
  <2>4. PICK L, M : /\ Fanned(P, C, L, M, Heed(V, f))
                    /\ Balanced(Heed(V, f), Spent(P, L, M))
                    /\ Twin(Advance(f, Equipped(t)), L[t][M[t]])
                    /\ \A j \in Crew(P) : j # t => L[j][M[j]] = K[j][N[j]]
    BY <1>0, <1>5, <1>6, <1>9, <2>2, <2>3, FannedStep
  <2>5. \A j \in Crew(P) : Twin(threads'[j], L[j][M[j]])
    BY <1>4, <1>8, <2>3, <2>4
  <2>6. Apart(C, L, M)'
    BY <1>0, <1>7, <1>12, <2>2, <2>4, <2>5 DEF Apart
  <2> QED
    BY <2>6
<1>13. ASSUME NEW K, NEW N, NEW c, NEW n, Alone(C, K, N, c, n) PROVE \E d, m : Alone(C, K, N, d, m)'
  <2>1. t = 0
    BY <1>3, <1>5, <1>13 DEF Alone
  <2>2. \A j \in Crew(P) : threads'[j] = threads[j]
    BY <1>4, <1>8, <2>1
  <2>3. Rejoined(P, C, K, N, V, c, n) /\ Balanced(V, c[n].used) /\ Twin(f, c[n])
    BY <1>13, <2>1 DEF Alone
  <2>4. PICK d, m : /\ Rejoined(P, C, K, N, Heed(V, f), d, m)
                    /\ Balanced(Heed(V, f), d[m].used)
                    /\ Twin(Advance(f, Equipped(0)), d[m])
    BY <1>0, <1>5, <1>6, <2>3, AloneStep
  <2>5. Alone(C, K, N, d, m)'
    BY <1>0, <1>7, <1>8, <1>13, <2>1, <2>2, <2>4 DEF Alone
  <2> QED
    BY <2>5
<1> QED
  BY <1>1, <1>2, <1>11, <1>12, <1>13 DEF Ran

Joinable(main, ends) == FailedIn(ends) # {} \/ Clashes(main, ends) = {}
LEMMA JoinParts ==
  ASSUME NEW main, DOMAIN main = Parts, NEW ends, NEW next \in Joins(main, ends)
  PROVE  /\ next.steps = main.steps /\ next.joins = FALSE
         /\ Joinable(main, ends) \/ (next.end = "failed" /\ ConflictNamed(next.why))
<1> PICK J : J = Joined(main, ends)
  OBVIOUS
<1>1. DOMAIN J = Parts /\ J.steps = main.steps /\ J.joins = FALSE
  BY DEF Joined, Parts
<1>2. ASSUME NEW why PROVE /\ End(J, "failed", why).steps = J.steps
                           /\ End(J, "failed", why).joins = J.joins
                           /\ End(J, "failed", why).end = "failed"
                           /\ End(J, "failed", why).why = why
  BY <1>1 DEF End, Parts
<1>3. CASE FailedIn(ends) # {}
  <2>1. next = End(J, "failed", <<Parallel, <<"branches", FailedIn(ends)>>>>)
    BY <1>3, JoinIs
  <2> QED
    BY <1>1, <1>2, <1>3, <2>1 DEF Joinable
<1>4. CASE FailedIn(ends) = {} /\ Clashes(main, ends) # {}
  <2>1. PICK k \in Keys : next = End(J, "failed", <<Parallel, <<"conflict", k>>>>)
    BY <1>4, JoinIs DEF Clashes
  <2>2. ConflictNamed(<<Parallel, <<"conflict", k>>>>)
    <3>1. <<Parallel, <<"conflict", k>>>> # None
      BY ConflictAssumption
    <3> QED
      BY <3>1 DEF ConflictNamed
  <2> QED
    BY <1>1, <1>2, <2>1, <2>2
<1>5. CASE FailedIn(ends) = {} /\ Clashes(main, ends) = {}
  BY <1>1, <1>5, JoinIs DEF Joinable
<1> QED
  BY <1>3, <1>4, <1>5

LEMMA JoinRuns ==
  ASSUME TypeInv, RunningInv, Join
  PROVE  RunningInv'
<1> SUFFICES ASSUME phase = "running", Fit(program, base)
             PROVE  \E E, C : Briefed(E, C, base)' /\ Ran(C)'
  BY DEF RunningInv, Join
<1>0. /\ program' = program /\ base' = base /\ recorder' = recorder /\ threads[0].joins
      /\ program \in Programs /\ DOMAIN threads = 0 .. Len(program.branches)
  BY DEF Join, TypeInv, IInv, ContextInv, PhaseInv
<1>1. PICK E, C : Briefed(E, C, base) /\ Ran(C)
  BY DEF RunningInv
<1>2. Briefed(E, C, base)'
  BY <1>0, <1>1 DEF Briefed
<1> PICK P : P = program
  OBVIOUS
<1>4. /\ \A j \in Crew(P) : j # 0 /\ j \in DOMAIN threads
      /\ 0 \in DOMAIN threads /\ Crew(P) = 1 .. Len(P.branches)
  BY <1>0, CrewIs
<1> PICK f : f = threads[0]
  OBVIOUS
<1> PICK V : V = recorder.verdicts
  OBVIOUS
<1>5. /\ \A j \in DOMAIN threads : FrameOK(threads[j])
      /\ Shape(f) /\ f.joins /\ Walking(f)
  BY <1>0, <1>4 DEF TypeInv, IInv, FrameInv, FrameOK, Shape
<1> PICK ends : ends = [t \in 1 .. Len(P.branches) |-> threads[t]]
  OBVIOUS
<1>6. PICK next \in Joins(f, ends) : threads' = [threads EXCEPT ![0] = next]
  BY DEF Join
<1>7. threads'[0] = next /\ \A j \in Crew(P) : threads'[j] = threads[j] /\ ~Walking(threads[j])
  BY <1>0, <1>4, <1>6 DEF Join
<1>8. DOMAIN ends = Crew(P) /\ \A t \in Crew(P) : ends[t] = threads[t]
  BY <1>4
<1>9. next.verdict = f.verdict
  <2>1. \A i \in DOMAIN ends : ends[i].ctx[ModelDerivedKey] = f.ctx[ModelDerivedKey]
    BY <1>4, <1>5, <1>8 DEF FrameOK
  <2>2. next \in Joins(f, ends)
    BY <1>6
  <2> QED
    BY ONLY <1>5, <2>1, <2>2, JoinKeeps
<1>10. ~Torn
  BY <1>5, NoneAssumption DEF Torn, Walking
<1>11. ASSUME NEW K, NEW N, NEW c, NEW n, Alone(C, K, N, c, n) PROVE FALSE
  <2>1. Course(c, n, AskedBy(P), Steps(P, 0), V, Equipped(0)) /\ Twin(f, c[n])
    BY <1>11 DEF Alone, Rejoined
  <2>2. Turn(c[n], AskedBy(P), Steps(P, 0))
    BY <2>1, LastPlace, CourseAt
  <2>3. f.joins = c[n].frame.joins
    BY <2>1, SameIs DEF Twin
  <2> QED
    BY <1>5, <2>2, <2>3 DEF Turn
<1>12. PICK K, N : Apart(C, K, N)
  BY <1>1, <1>10, <1>11 DEF Ran
<1>13. /\ f = Start(P, C)[0] /\ Fanned(P, C, K, N, V) /\ Balanced(V, Spent(P, K, N))
       /\ \A t \in Crew(P) : Twin(threads[t], K[t][N[t]])
  BY <1>12 DEF Apart
<1>14. f.verdict = None /\ f.steps = Steps(P, 0) /\ P.branches # <<>>
  <2>1. Fresh(f, P, 0, C)
    BY <1>0, <1>4, <1>13, StartIs
  <2> QED
    BY <1>5, <2>1 DEF Fresh
<1>15. /\ next.steps = Steps(P, 0) /\ next.joins = FALSE /\ next.verdict = None
       /\ Joinable(f, ends) \/ (next.end = "failed" /\ ConflictNamed(next.why))
  <2>1. DOMAIN f = Parts
    BY <1>5 DEF Shape
  <2> QED
    BY <1>6, <1>9, <1>14, <2>1, JoinParts
<1>16. CASE next.end = "failed" /\ ConflictNamed(next.why)
  BY <1>2, <1>7, <1>16 DEF Ran, Torn
<1>17. CASE Joinable(f, ends)
  <2> PICK A : A = AskedBy(P)
    OBVIOUS
  <2> PICK u : u = Spent(P, K, N)
    OBVIOUS
  <2>1. u \in [A -> Nat]
    <3>1. ASSUME NEW i \in DOMAIN P.branches PROVE K[i][N[i]].used \in [A -> Nat]
      <4>1. i \in Crew(P) /\ N[i] \in 0 .. N[i]
        BY <1>13, LastPlace DEF Crew, Fanned
      <4> QED
        BY <1>13, <4>1, FannedUsed DEF Turn
    <3> QED
      BY <3>1, SpentType
  <2> PICK c : c = [i \in Nat |-> [frame |-> next, used |-> u]]
    OBVIOUS
  <2>2. c[0].frame = next /\ c[0].used = u /\ DOMAIN c = Nat
    OBVIOUS
  <2>3. Course(c, 0, A, Steps(P, 0), V, Equipped(0))
    <3>1. Turn(c[0], A, Steps(P, 0))
      BY <1>15, <2>1, <2>2 DEF Turn
    <3>2. 0 .. 0 = {0}
      OBVIOUS
    <3> QED
      BY <2>2, <3>1, <3>2 DEF Course
  <2>4. \A t \in Crew(P) : Same(ends[t], K[t][N[t]].frame) /\ ~Walking(K[t][N[t]].frame)
    <3>1. ASSUME NEW t \in Crew(P) PROVE Same(ends[t], K[t][N[t]].frame) /\ ~Walking(K[t][N[t]].frame)
      <4>1. Same(threads[t], K[t][N[t]].frame) /\ ~Walking(threads[t])
        BY <1>7, <1>13 DEF Twin
      <4> QED
        BY <1>8, <4>1, SameIs
    <3> QED
      BY <3>1
  <2>5. Gathered(P, C, K, N, next)
    BY <1>6, <1>8, <1>13, <1>14, <1>17, <2>4 DEF Gathered, Joinable
  <2>6. Rejoined(P, C, K, N, V, c, 0)
    BY <1>13, <1>15, <2>2, <2>3, <2>4, <2>5 DEF Rejoined
  <2>7. Twin(next, c[0])
    BY <1>15, <2>2 DEF Twin, Same
  <2>8. Alone(C, K, N, c, 0)'
    BY <1>0, <1>7, <1>13, <2>2, <2>6, <2>7 DEF Alone
  <2> QED
    BY <1>2, <2>8 DEF Ran
<1> QED
  BY <1>15, <1>16, <1>17

(* The replay.                                                             *)

(* What was recorded: the courses of a run, and how it came out.           *)
Outcome(fr) ==
  /\ ~Walking(fr)
  /\ \E json \in BOOLEAN :
       recording.result = [Result(fr) EXCEPT !.output = IF json THEN JsonContext(@) ELSE @]
Recorded(E, C, K, N, c, n) ==
  /\ recording.program \in Programs /\ Briefed(E, C, recording.input)
  /\ Rejoined(recording.program, C, K, N, recorder.verdicts, c, n) /\ Outcome(c[n].frame)
Rewound == base = recording.input \/ base = JsonContext(recording.input)

(* What the extractions of a replay have used.                             *)
Known(used) == [r \in ToSet(Wanted) \cap DOMAIN Schemas |-> used[r]]
Rereads(E, n) ==
  /\ Remains(n) /\ Near(recording.input, ctx) /\ E[n].ctx = JsonContext(ctx)
  /\ Queued(player.extractions, recorder.extractions, Known(E[n].used))
  /\ Queued(player.verdicts, recorder.verdicts, Zeros(AskedBy(recording.program)))
(* The branches follow their courses, each at its place.                   *)
ApartAgain(C, K, N, d, at) ==
  /\ Near(recording.input, d) /\ JsonContext(d) = JsonContext(C)
  /\ threads[0] = Start(recording.program, d)[0] /\ threads[0].joins = TRUE
  /\ \A t \in Crew(recording.program) :
       /\ at[t] \in 0 .. N[t] /\ Follows(threads[t], K[t][at[t]])
       /\ Held(threads[t], K[t][at[t]].frame, d, C)
  /\ Queued(player.verdicts, recorder.verdicts, Spent(recording.program, K, at))
(* The program follows its own, at place m.                                *)
AloneAgain(c, n, m) ==
  /\ \A t \in Crew(recording.program) : ~Walking(threads[t])
  /\ m \in 0 .. n /\ Follows(threads[0], c[m])
  /\ Queued(player.verdicts, recorder.verdicts, c[m].used)
Replays(E, C, K, N, c, n) ==
  /\ phase = "reintake" => player.unmatched = <<>> /\ \E i : Rereads(E, i)
  /\ phase = "replaying" => /\ player.unmatched = <<>>
                            /\ \/ \E d, at : ApartAgain(C, K, N, d, at)
                               \/ \E m : AloneAgain(c, n, m)
  /\ phase = "compared" => /\ Differences(recording.result, result) = {}
                           /\ player.unmatched = <<>>
Kept == Fit(recording.program, recording.input) /\ ~ConflictNamed(recording.result.error)
AfterInv ==
  phase \notin {"intake", "running"} /\ Kept =>
    /\ Rewound
    /\ \E E, C, K, N, c, n : /\ Recorded(E, C, K, N, c, n)
                             /\ program = recording.program => Replays(E, C, K, N, c, n)

LEMMA ResultSame ==
  ASSUME NEW f, NEW g, Same(f, g)
  PROVE  Result(f) = Result(g)
BY SameIs DEF Result

LEMMA InitAfters == Init => AfterInv
BY DEF Init, AfterInv

LEMMA FinishAfters ==
  ASSUME TypeInv, RunningInv, Finish
  PROVE  AfterInv'
<1> PICK P : P = program
  OBVIOUS
<1>0. /\ phase = "running" /\ phase' = "recorded" /\ ~Walking(threads[0]) /\ P \in Programs
      /\ DOMAIN threads = 0 .. Len(program.branches) /\ recorder' = recorder
  BY DEF Finish, TypeInv, IInv, ContextInv, PhaseInv
<1>1. PICK json \in BOOLEAN :
        /\ recording' =
               [program |-> program, input |-> base, verdicts |-> recorder.verdicts,
                extractions |-> [i \in DOMAIN recorder.extractions |->
                   [recorder.extractions[i] EXCEPT !.payload = IF json THEN JsonContext(@) ELSE @]],
                result |-> [Result(threads[0]) EXCEPT !.output = IF json THEN JsonContext(@) ELSE @]]
        /\ base' = IF json THEN JsonContext(base) ELSE base
  BY DEF Finish
<1>2. /\ recording'.program = P /\ recording'.input = base
      /\ recording'.result = [Result(threads[0]) EXCEPT !.output = IF json THEN JsonContext(@) ELSE @]
  BY <1>1
<1> SUFFICES ASSUME Kept'
             PROVE  Rewound' /\ \E E, C, K, N, c, n : Recorded(E, C, K, N, c, n)'
  BY <1>0 DEF AfterInv, Replays
<1>3. Rewound'
  BY <1>1, <1>2 DEF Rewound
<1>4. recording'.result.error = Result(threads[0]).error
  BY <1>2 DEF Result
<1>5. ~Torn
  BY <1>4 DEF Torn, Kept, Result
<1>6. Fit(program, base)
  BY <1>2 DEF Kept
<1>7. PICK E, C : Briefed(E, C, base) /\ Ran(C)
  BY <1>0, <1>6 DEF RunningInv
<1>8. ASSUME NEW K, NEW N, Apart(C, K, N) PROVE FALSE
  <2>1. 0 \in DOMAIN threads
    BY <1>0, CrewIs
  <2>2. Shape(threads[0])
    BY <2>1 DEF TypeInv, IInv, FrameInv, FrameOK
  <2> QED
    BY <1>0, <1>8, <2>2 DEF Apart, Shape
<1>9. PICK K, N, c, n : Alone(C, K, N, c, n)
  BY <1>5, <1>7, <1>8 DEF Ran
<1>10. Same(threads[0], c[n].frame)
  BY <1>9 DEF Alone, Twin
<1>11. Result(threads[0]) = Result(c[n].frame) /\ ~Walking(c[n].frame)
  BY <1>0, <1>10, ResultSame, SameIs
<1>12. Outcome(c[n].frame)'
  BY <1>2, <1>11 DEF Outcome
<1>13. Recorded(E, C, K, N, c, n)'
  BY <1>0, <1>2, <1>7, <1>9, <1>12 DEF Recorded, Briefed, Alone
<1> QED
  BY <1>3, <1>13

LEMMA QueuedAll ==
  ASSUME NEW V, Listed(V), NEW A
  PROVE  Queued(ByRef(V), V, Zeros(A))
<1>1. ASSUME NEW r \in A, Of(r, V) # <<>>
      PROVE  r \in DOMAIN ByRef(V) /\ LeftOf(ByRef(V)[r], Of(r, V), 0)
  <2>1. r \in DOMAIN ByRef(V) /\ ByRef(V)[r] = Of(r, V)
    BY <1>1, OfKnown
  <2>2. Listed(Of(r, V))
    BY OfListed
  <2>3. LeftOf(Of(r, V), Of(r, V), 0)
    BY <1>1, <2>2, LeftAll DEF Listed
  <2> QED
    BY <2>1, <2>3
<1> QED
  BY <1>1 DEF Queued, Zeros

(* Recorded, and what the replay of it begins with.                        *)
LEMMA RewindAfters ==
  ASSUME TypeInv, AfterInv, NewPlayer
  PROVE  AfterInv'
<1>0. /\ phase = "recorded" /\ phase' = "reintake" /\ recording' = recording /\ base' = base
      /\ recorder' = recorder /\ ctx' = base /\ wanted' = Wanted
      /\ player'.unmatched = <<>>
      /\ player'.verdicts = ByRef(recorder.verdicts)
      /\ player'.extractions = ByRef(recorder.extractions)
  BY DEF NewPlayer, TypeInv, EndInv
<1> SUFFICES ASSUME Kept
             PROVE  /\ Rewound'
                    /\ \E E, C, K, N, c, n : Recorded(E, C, K, N, c, n)' /\ Replays(E, C, K, N, c, n)'
  BY <1>0 DEF AfterInv, Kept
<1>1. Rewound /\ \E E, C, K, N, c, n : Recorded(E, C, K, N, c, n)
  BY <1>0 DEF AfterInv
<1>2. PICK E, C, K, N, c, n : Recorded(E, C, K, N, c, n)
  BY <1>1
<1>3. Recorded(E, C, K, N, c, n)'
  BY <1>0, <1>2 DEF Recorded, Briefed, Outcome
<1> PICK raw : raw = recording.input
  OBVIOUS
<1>4. Near(raw, raw) /\ E[0] = [ctx |-> JsonContext(raw), used |-> Zeros(ToSet(Wanted))]
  BY <1>2 DEF Recorded, Briefed, Intake, Zeros
<1>5. Near(raw, base) /\ JsonContext(base) = JsonContext(raw)
  BY <1>1, <1>4, NearJson DEF Rewound
<1>6. Remains(0)'
  BY <1>0, WantedAssumption DEF Remains
<1>7. Listed(recorder.extractions) /\ Listed(recorder.verdicts)
  BY DEF TypeInv, RecorderInv
<1>8. Known(E[0].used) = Zeros(ToSet(Wanted) \cap DOMAIN Schemas)
  BY <1>4 DEF Known, Zeros
<1>9. Queued(ByRef(recorder.extractions), recorder.extractions, Known(E[0].used))
  BY <1>7, <1>8, QueuedAll
<1>10. Queued(ByRef(recorder.verdicts), recorder.verdicts, Zeros(AskedBy(recording.program)))
  BY <1>7, QueuedAll
<1>11. Rereads(E, 0)'
  BY <1>0, <1>4, <1>5, <1>6, <1>9, <1>10 DEF Rereads
<1>12. Replays(E, C, K, N, c, n)'
  BY <1>0, <1>11 DEF Replays
<1> QED
  BY <1>0, <1>1, <1>3, <1>12 DEF Rewound

(* A step of a replay, seen by the courses.                                *)
LEMMA AfterStep ==
  ASSUME AfterInv, UNCHANGED <<base, recorder, recording, program>>, phase' \notin {"intake", "running"},
         phase \in {"reintake", "replaying"},
         ASSUME NEW E, NEW C, NEW K, NEW N, NEW c, NEW n, Recorded(E, C, K, N, c, n),
                Kept, program = recording.program, Replays(E, C, K, N, c, n)
         PROVE  Replays(E, C, K, N, c, n)'
  PROVE  AfterInv'
<1> SUFFICES ASSUME Kept
             PROVE  /\ Rewound'
                    /\ \E E, C, K, N, c, n : /\ Recorded(E, C, K, N, c, n)'
                                             /\ program = recording.program => Replays(E, C, K, N, c, n)'
  BY DEF AfterInv, Kept
<1>1. Rewound
  BY DEF AfterInv
<1>2. PICK E, C, K, N, c, n : /\ Recorded(E, C, K, N, c, n)
                              /\ program = recording.program => Replays(E, C, K, N, c, n)
  BY DEF AfterInv
<1>3. Recorded(E, C, K, N, c, n)'
  BY <1>2 DEF Recorded, Briefed, Outcome
<1> QED
  BY <1>1, <1>2, <1>3 DEF Rewound

LEMMA PersistAfters ==
  ASSUME TypeInv, AfterInv, Persist
  PROVE  AfterInv'
<1>1. CASE phase = "intake"
  BY <1>1 DEF Persist, AfterInv
<1>2. CASE phase = "reintake"
  <2>0. /\ ctx' = JsonContext(ctx) /\ wanted' = wanted /\ phase' = phase /\ player' = player
        /\ UNCHANGED <<base, recorder, recording, program>>
    BY DEF Persist
  <2>1. ASSUME NEW E, NEW C, NEW K, NEW N, NEW c, NEW n, Recorded(E, C, K, N, c, n),
               Kept, program = recording.program, Replays(E, C, K, N, c, n)
        PROVE  Replays(E, C, K, N, c, n)'
    <3>1. player.unmatched = <<>> /\ \E i : Rereads(E, i)
      BY <1>2, <2>1 DEF Replays
    <3>2. PICK i : Rereads(E, i)
      BY <3>1
    <3>3. Near(recording.input, JsonContext(ctx)) /\ JsonContext(JsonContext(ctx)) = JsonContext(ctx)
      BY <3>2, NearJson DEF Rereads
    <3>4. Remains(i)'
      BY <2>0, <3>2 DEF Rereads, Remains
    <3>5. Rereads(E, i)'
      BY <2>0, <3>2, <3>3, <3>4 DEF Rereads
    <3> QED
      BY <1>2, <2>0, <3>1, <3>5 DEF Replays
  <2> QED
    BY <1>2, <2>0, <2>1, AfterStep, Zenon
<1> QED
  BY <1>1, <1>2 DEF Persist

(* An extraction made from the recording is the one recorded.              *)
LEMMA ExtractorAfters ==
  ASSUME TypeInv, AfterInv, ExtractorFor
  PROVE  AfterInv'
<1>0. /\ phase = "reintake" /\ phase' = phase /\ wanted # <<>> /\ wanted' = Tail(wanted)
      /\ UNCHANGED <<base, recorder, recording, program>>
  BY DEF ExtractorFor, AddExtraction
<1>1. ASSUME NEW E, NEW C, NEW K, NEW N, NEW c, NEW n, Recorded(E, C, K, N, c, n),
             Kept, program = recording.program, Replays(E, C, K, N, c, n)
      PROVE  Replays(E, C, K, N, c, n)'
  <2>1. player.unmatched = <<>> /\ \E i : Rereads(E, i)
    BY <1>0, <1>1 DEF Replays
  <2>2. PICK i : Rereads(E, i)
    BY <2>1
  <2> PICK X : X = recorder.extractions
    OBVIOUS
  <2> PICK raw : raw = recording.input
    OBVIOUS
  <2> PICK Q : Q = player.extractions
    OBVIOUS
  <2> PICK ref : ref = Head(wanted)
    OBVIOUS
  <2> PICK u : u = E[i].used
    OBVIOUS
  <2>3. Remains(i) /\ Near(raw, ctx) /\ E[i].ctx = JsonContext(ctx) /\ Queued(Q, X, Known(u))
    BY <2>2 DEF Rereads
  <2>4. /\ i # Len(Wanted) /\ ref = Wanted[i + 1] /\ ref \in ToSet(Wanted) /\ i \in Nat
        /\ i + 1 \in 0 .. Len(Wanted) /\ Remains(i + 1)'
    BY <1>0, <2>3, HeadRemains
  <2>5. Intake(E, Len(Wanted), X, raw)
    BY <1>1 DEF Recorded, Briefed
  <2>6. i \in 0 .. Len(Wanted)
    BY <2>3 DEF Remains
  <2>7. u \in [ToSet(Wanted) -> Nat] /\ Asks(E[i], E[i + 1], ref, X)
    BY <2>4, <2>5, <2>6 DEF Intake
  <2>x. PICK x : x = Of(ref, X)[u[ref] + 1]
    OBVIOUS
  <2>8. u[ref] < Num(ref, X) /\ Recalls(E[i], E[i + 1], ref, x)
    BY <2>7, <2>x DEF Asks
  <2>9. PICK b, r0 : /\ Marked(b) /\ JsonContext(b) = E[i].ctx /\ Repeats(ref, x, r0)
                     /\ E[i + 1].ctx = JsonContext(With(b, r0))
    BY <2>8 DEF Recalls
  <2>10. E[i + 1].used = OneMore(u, ref)
    BY <2>8 DEF Recalls, OneMore
  <2>11. Listed(X) /\ Marked(ctx) /\ DOMAIN player = {"verdicts", "extractions", "unmatched"}
    BY DEF TypeInv, IInv, ContextInv, RecorderInv, PlayerInv
  <2> PICK none : none = Extract(ref, None)
    OBVIOUS
  <2>12. ~none.success
    BY Zenon DEF Extract
  <2>13. With(ctx, r0) = ctx' /\ player'.unmatched = <<>> /\ player'.verdicts = player.verdicts
         /\ Queued(player'.extractions, X, Known(OneMore(u, ref)))
    <3>1. CASE ref \notin DOMAIN Schemas
      <4>1. player' = player /\ ctx' = ctx
        BY <2>12, <3>1 DEF ExtractorFor, AddExtraction
      <4>2. ~r0.success
        BY <2>9, <3>1 DEF Repeats
      <4>3. Known(OneMore(u, ref)) = Known(u)
        BY <3>1 DEF Known, OneMore
      <4> QED
        BY <2>1, <2>3, <4>1, <4>2, <4>3 DEF With
    <3>2. CASE ref \in DOMAIN Schemas
      <4> PICK w : w = Known(u)
        OBVIOUS
      <4>1. ref \in DOMAIN w /\ w[ref] = u[ref] /\ u[ref] \in Nat /\ w[ref] < Num(ref, X)
        BY <2>4, <2>7, <2>8, <3>2 DEF Known
      <4>2. /\ ref \in DOMAIN Q /\ Head(Q[ref]) = Of(ref, X)[w[ref] + 1]
            /\ Queued([Q EXCEPT ![ref] = Rest(@)], X, OneMore(w, ref))
        BY <2>3, <2>11, <4>1, QueueHears
      <4>3. Head(Q[ref]) = x
        BY <2>x, <4>1, <4>2
      <4>4. OneMore(w, ref) = Known(OneMore(u, ref))
        BY <2>7 DEF Known, OneMore
      <4>5. /\ AddExtraction(IF x.success THEN Extract(ref, x.payload) ELSE none)
            /\ player' = [player EXCEPT !.extractions[ref] = Rest(@)]
        BY <3>2, <4>2, <4>3 DEF ExtractorFor
      <4>6. /\ player'.extractions = [Q EXCEPT ![ref] = Rest(@)]
            /\ player'.unmatched = player.unmatched /\ player'.verdicts = player.verdicts
        BY <2>11, <4>5
      <4>7. ctx' = With(ctx, IF x.success THEN Extract(ref, x.payload) ELSE none)
        BY <4>5 DEF AddExtraction, With
      <4>8. With(ctx, r0) = ctx'
        <5>1. CASE x.success
          BY <2>9, <4>7, <5>1 DEF Repeats
        <5>2. CASE ~x.success
          BY <2>9, <2>12, <4>7, <5>2 DEF Repeats, With
        <5> QED
          BY <5>1, <5>2
      <4> QED
        BY <2>1, <4>2, <4>4, <4>6, <4>8
    <3> QED
      BY <3>1, <3>2
  <2>14. JsonContext(With(b, r0)) = JsonContext(With(ctx, r0))
    BY <2>3, <2>9, <2>11, FromAlike
  <2>15. Near(raw, With(ctx, r0))
    <3>1. r0.success => Supplies(r0) /\ JsonContext(r0.payload) = r0.payload
      BY <2>9 DEF Repeats
    <3> QED
      BY <2>3, <2>11, <3>1, NearFrom
  <2>16. Queued(player.verdicts, recorder.verdicts, Zeros(AskedBy(recording.program)))
    BY <2>2 DEF Rereads
  <2>17. Rereads(E, i + 1)'
    BY <1>0, <2>4, <2>9, <2>10, <2>13, <2>14, <2>15, <2>16 DEF Rereads
  <2> QED
    BY <1>0, <2>13, <2>17 DEF Replays
<1> QED
  BY <1>0, <1>1, AfterStep, Zenon

(* The replay starts where the recorded run did.                           *)
LEMMA StillSpends ==
  ASSUME NEW prog, NEW C, NEW K, NEW N, NEW V, Fanned(prog, C, K, N, V)
  PROVE  Spent(prog, K, Still(prog)) = Zeros(AskedBy(prog))
<1> PICK M : M = Still(prog)
  OBVIOUS
<1>1. ASSUME NEW r \in AskedBy(prog) PROVE SpentOn(prog, K, M, r) = 0
  <2>1. CASE Owned(prog, r)
    <3> PICK t : t = Owner(prog, r)
      OBVIOUS
    <3>1. t \in Crew(prog)
      BY <2>1, OwnerIn DEF Crew
    <3>2. K[t][M[t]].used = Zeros(AskedBy(prog))
      <4>1. M[t] = 0
        BY <3>1 DEF Still
      <4>2. K[t][0] = [frame |-> Start(prog, C)[t], used |-> [r2 \in AskedBy(prog) |-> 0]]
        BY <3>1 DEF Fanned
      <4> QED
        BY <4>1, <4>2 DEF Zeros
    <3> QED
      BY <1>1, <2>1, <3>2 DEF SpentOn, Zeros
  <2> QED
    BY <2>1 DEF SpentOn
<1> QED
  BY <1>1 DEF Spent, Zeros
LEMMA NobodySpends ==
  ASSUME NEW prog, Crew(prog) = {}, NEW K, NEW N
  PROVE  Spent(prog, K, N) = Zeros(AskedBy(prog))
<1>1. ASSUME NEW r \in AskedBy(prog) PROVE SpentOn(prog, K, N, r) = 0
  BY DEF SpentOn, Owned, Crew
<1> QED
  BY <1>1 DEF Spent, Zeros

LEMMA BeginAfters ==
  ASSUME TypeInv, AfterInv, Begin, phase = "reintake"
  PROVE  AfterInv'
<1>0. /\ phase' = "replaying" /\ wanted = <<>> /\ threads' = Start(program, ctx)
      /\ player' = player /\ UNCHANGED <<base, recorder, recording, program>>
      /\ program \in Programs
  BY DEF Begin, TypeInv, IInv, ContextInv
<1>1. ASSUME NEW E, NEW C, NEW K, NEW N, NEW c, NEW n, Recorded(E, C, K, N, c, n),
             Kept, program = recording.program, Replays(E, C, K, N, c, n)
      PROVE  Replays(E, C, K, N, c, n)'
  <2>1. player.unmatched = <<>> /\ \E i : Rereads(E, i)
    BY <1>1 DEF Replays
  <2>2. PICK i : Rereads(E, i)
    BY <2>1
  <2>d. PICK d : d = ctx
    OBVIOUS
  <2> PICK raw : raw = recording.input
    OBVIOUS
  <2> PICK P : P = program
    OBVIOUS
  <2> PICK V : V = recorder.verdicts
    OBVIOUS
  <2>3. i = Len(Wanted)
    BY <1>0, <2>2, NoneRemains DEF Rereads
  <2>4. /\ Near(raw, C) /\ E[Len(Wanted)].ctx = JsonContext(C) /\ P \in Programs
        /\ Rejoined(P, C, K, N, V, c, n)
    <3>1. P = recording.program
      BY <1>1
    <3>2. Near(raw, C) /\ E[Len(Wanted)].ctx = JsonContext(C)
      <4>1. Briefed(E, C, recording.input)
        BY <1>1 DEF Recorded
      <4>2. Near(recording.input, C) /\ E[Len(Wanted)].ctx = JsonContext(C)
        BY <4>1 DEF Briefed
      <4> QED
        BY <4>2
    <3>3. Rejoined(recording.program, C, K, N, V, c, n)
      BY <1>1 DEF Recorded
    <3> QED
      BY <1>0, <3>1, <3>2, <3>3
  <2>5. Near(raw, ctx) /\ JsonContext(C) = JsonContext(ctx)
    BY <2>2, <2>3, <2>4 DEF Rereads
  <2>6. Fanned(P, C, K, N, V)
    BY <2>4 DEF Rejoined
  <2>7. ASSUME NEW t \in 0 .. Len(P.branches)
        PROVE  LET f == Start(P, C)[t]
                   g == Start(P, ctx)[t]
               IN Mirrors(g, f) /\ g.verdict = f.verdict /\ Held(g, f, ctx, C)
    BY <2>4, <2>5, StartsFollow
  <2>8. 0 \in 0 .. Len(P.branches) /\ \A t \in Crew(P) : t \in 0 .. Len(P.branches)
    BY <1>0, CrewIs
  <2>9. Queued(player.verdicts, V, Zeros(AskedBy(P)))
    BY <1>1, <2>2 DEF Rereads
  <2>10. CASE P.branches # <<>>
    <3> PICK at : at = Still(P)
      OBVIOUS
    <3>1. ASSUME NEW t \in Crew(P)
          PROVE  /\ at[t] \in 0 .. N[t] /\ Follows(Start(P, ctx)[t], K[t][at[t]])
                 /\ Held(Start(P, ctx)[t], K[t][at[t]].frame, ctx, C)
      <4>1. at[t] = 0 /\ K[t][0].frame = Start(P, C)[t]
        <5>1. at[t] = 0
          BY DEF Still
        <5>2. K[t][0] = [frame |-> Start(P, C)[t], used |-> [r \in AskedBy(P) |-> 0]]
          BY <2>6 DEF Fanned
        <5> QED
          BY <5>1, <5>2
      <4>2. 0 \in 0 .. N[t]
        BY <2>6, LastPlace DEF Fanned
      <4> QED
        BY <2>7, <2>8, <4>1, <4>2 DEF Follows
    <3>2. Start(P, ctx)[0].joins = TRUE
      <4>1. Fresh(Start(P, ctx)[0], P, 0, ctx)
        BY <1>0, <2>8, StartIs
      <4> QED
        BY <2>10, <4>1 DEF Fresh
    <3>3. Queued(player.verdicts, V, Spent(P, K, at))
      BY <2>6, <2>9, StillSpends
    <3>4. ApartAgain(C, K, N, d, at)'
      BY <1>0, <1>1, <2>d, <2>5, <3>1, <3>2, <3>3 DEF ApartAgain
    <3> QED
      BY <1>0, <2>1, <3>4 DEF Replays
  <2>11. CASE P.branches = <<>>
    <3>1. Crew(P) = {}
      BY <1>0, <2>11, CrewIs
    <3>2. c[0].frame = Start(P, C)[0] /\ c[0].used = Spent(P, K, N)
      <4>1. Gathered(P, C, K, N, c[0].frame) /\ c[0].used = Spent(P, K, N)
        BY <2>4 DEF Rejoined
      <4> QED
        BY <2>11, <4>1 DEF Gathered
    <3>3. 0 \in 0 .. n
      BY <2>4, LastPlace DEF Rejoined
    <3>4. Follows(Start(P, ctx)[0], c[0])
      BY <2>7, <2>8, <3>2 DEF Follows
    <3>5. Queued(player.verdicts, V, c[0].used)
      BY <2>9, <3>1, <3>2, NobodySpends
    <3>6. AloneAgain(c, n, 0)'
      BY <1>0, <1>1, <3>1, <3>3, <3>4, <3>5 DEF AloneAgain
    <3> QED
      BY <1>0, <2>1, <3>6 DEF Replays
  <2> QED
    BY <2>10, <2>11
<1> QED
  BY <1>0, <1>1, AfterStep, Zenon

(* A frame that walks stands somewhere on its course, and the course goes  *)
(* on from there.                                                          *)
Stands(g, x, y, A, steps, V, host) ==
  /\ g.steps = steps /\ x.used \in [A -> Nat] /\ Took(g) = Took(x.frame)
  /\ (Needs(g) <=> Needs(x.frame)) /\ Turns(x, y, V, host)
LEMMA StandsAt ==
  ASSUME NEW c, NEW n, NEW A, NEW steps, NEW V, NEW host, Course(c, n, A, steps, V, host),
         ~Walking(c[n].frame), NEW m, m \in 0 .. n, NEW g, Follows(g, c[m])
  PROVE  /\ g.joins = FALSE
         /\ Walking(g) => Stands(g, c[m], c[m + 1], A, steps, V, host) /\ m + 1 \in 0 .. n
         /\ ~Walking(g) => m = n
<1> PICK x : x = c[m]
  OBVIOUS
<1>1. /\ Turn(x, A, steps)
      /\ m # n => /\ m + 1 \in 0 .. n /\ Walking(x.frame)
                  /\ Turns(c[m], c[m + 1], V, host)
  BY CourseAt
<1>2. /\ g.steps = x.frame.steps /\ g.at = x.frame.at /\ g.joins = x.frame.joins
      /\ g.end = x.frame.end /\ g.verdict = x.frame.verdict
  BY DEF Follows, Mirrors
<1>3. Took(g) = Took(x.frame) /\ (Walking(g) <=> Walking(x.frame))
  BY <1>2 DEF Took, Walking
<1>4. Needs(g) <=> Needs(x.frame)
  BY <1>2, <1>3 DEF Needs
<1> QED
  BY <1>1, <1>2, <1>3, <1>4 DEF Turn, Stands

(* What the branches have heard depends on where each is.                  *)
LEMMA SpentThere ==
  ASSUME NEW prog, NEW K, NEW at, NEW to, \A t \in Crew(prog) : at[t] = to[t]
  PROVE  Spent(prog, K, at) = Spent(prog, K, to)
<1>1. ASSUME NEW r \in AskedBy(prog) PROVE SpentOn(prog, K, at, r) = SpentOn(prog, K, to, r)
  <2>1. CASE Owned(prog, r)
    <3>1. Owner(prog, r) \in Crew(prog)
      BY <2>1, OwnerIn DEF Crew
    <3> QED
      BY <3>1 DEF SpentOn
  <2>2. CASE ~Owned(prog, r)
    BY <2>2 DEF SpentOn
  <2> QED
    BY <2>1, <2>2
<1> QED
  BY <1>1 DEF Spent

(* A frame of the replay goes on by one turn.                              *)
Onto(at, t, P) == [j \in Crew(P) |-> IF j = t THEN at[j] + 1 ELSE at[j]]
LEMMA ApartTurn ==
  ASSUME NEW C, NEW K, NEW N, NEW d, NEW at, ApartAgain(C, K, N, d, at),
         NEW t \in Crew(recording.program), t # 0,
         0 \in DOMAIN threads, Crew(recording.program) \subseteq DOMAIN threads, 0 \notin Crew(recording.program),
         NEW ng, threads' = [threads EXCEPT ![t] = ng], UNCHANGED <<recorder, recording>>,
         at[t] + 1 \in 0 .. N[t], Follows(ng, K[t][at[t] + 1]),
         Held(ng, K[t][at[t] + 1].frame, d, C),
         Queued(player'.verdicts, recorder.verdicts,
                Spent(recording.program, K, Onto(at, t, recording.program)))
  PROVE  ApartAgain(C, K, N, d, Onto(at, t, recording.program))'
<1> PICK P : P = recording.program
  OBVIOUS
<1> PICK to : to = Onto(at, t, P)
  OBVIOUS
<1>1. to[t] = at[t] + 1 /\ \A j \in Crew(P) : j # t => to[j] = at[j]
  BY DEF Onto
<1>2. threads'[0] = threads[0]
  OBVIOUS
<1>3. ASSUME NEW j \in Crew(P)
      PROVE  /\ to[j] \in 0 .. N[j] /\ Follows(threads'[j], K[j][to[j]])
             /\ Held(threads'[j], K[j][to[j]].frame, d, C)
  <2>1. CASE j = t
    <3>1. threads'[j] = ng
      BY <2>1
    <3> QED
      BY <1>1, <2>1, <3>1
  <2>2. CASE j # t
    <3>1. threads'[j] = threads[j] /\ to[j] = at[j]
      BY <1>1, <2>2
    <3> QED
      BY <3>1 DEF ApartAgain
  <2> QED
    BY <2>1, <2>2
<1>4. ApartAgain(C, K, N, d, to)'
  BY <1>2, <1>3 DEF ApartAgain
<1> QED
  BY <1>4

(* The probe of a frame is answered as it was.                             *)
LEMMA PlayerAfters ==
  ASSUME TypeInv, AfterInv, NEW t \in DOMAIN threads, PlayerProbe(t)
  PROVE  AfterInv'
<1>0. /\ phase = "replaying" /\ phase' = phase /\ NeedsProbe(t)
      /\ UNCHANGED <<base, recorder, recording, program>>
      /\ program \in Programs /\ DOMAIN threads = 0 .. Len(program.branches)
      /\ DOMAIN player = {"verdicts", "extractions", "unmatched"}
  BY DEF PlayerProbe, TypeInv, IInv, ContextInv, PhaseInv, PlayerInv
<1> PICK g : g = threads[t]
  OBVIOUS
<1>1. Shape(g) /\ DOMAIN g = Parts /\ Walking(g) /\ ~g.joins /\ Needs(g) /\ ProbeRef(t) = Took(g).probe
  BY <1>0 DEF TypeInv, IInv, FrameInv, FrameOK, Shape, NeedsProbe, Runs, ProbeRef, Took, Needs
<1> PICK Q : Q = player.verdicts
  OBVIOUS
<1> PICK V : V = recorder.verdicts
  OBVIOUS
<1>2. Listed(V)
  BY DEF TypeInv, RecorderInv
<1>3. ASSUME NEW r, r = Took(g).probe, r \in DOMAIN Q, NEW said, said = Head(Q[r]),
             NEW ng, ng = [g EXCEPT !.verdict = said.verdict]
      PROVE  /\ threads' = [threads EXCEPT ![t] = ng]
             /\ player'.verdicts = [Q EXCEPT ![r] = Rest(@)]
             /\ player'.unmatched = player.unmatched
  BY <1>0, <1>1, <1>3 DEF PlayerProbe
<1>4. ASSUME NEW E, NEW C, NEW K, NEW N, NEW c, NEW n, Recorded(E, C, K, N, c, n),
             Kept, program = recording.program, Replays(E, C, K, N, c, n)
      PROVE  Replays(E, C, K, N, c, n)'
  <2> PICK P : P = program
    OBVIOUS
  <2> PICK A : A = AskedBy(P)
    OBVIOUS
  <2> PICK r : r = Took(g).probe
    OBVIOUS
  <2>1. /\ player.unmatched = <<>>
        /\ (\E d, at : ApartAgain(C, K, N, d, at)) \/ (\E m : AloneAgain(c, n, m))
    BY <1>0, <1>4 DEF Replays
  <2>2. P = recording.program /\ Rejoined(P, C, K, N, V, c, n)
    BY <1>4 DEF Recorded
  <2>3. ~SharesProbes(P)
    BY <1>4, <2>2 DEF Kept, Fit
  <2>4. /\ 0 \in DOMAIN threads /\ Crew(P) \subseteq DOMAIN threads /\ 0 \notin Crew(P)
        /\ t = 0 \/ t \in Crew(P)
    BY <1>0, CrewIs
  <2>5. ASSUME NEW d, NEW at, ApartAgain(C, K, N, d, at)
        PROVE  \E to : ApartAgain(C, K, N, d, to)' /\ player'.unmatched = player.unmatched
    <3>1. t \in Crew(P) /\ t # 0
      BY <1>1, <2>4, <2>5 DEF ApartAgain
    <3>2. /\ at[t] \in 0 .. N[t] /\ Follows(g, K[t][at[t]]) /\ Held(g, K[t][at[t]].frame, d, C)
          /\ Queued(Q, V, Spent(P, K, at))
      BY <2>2, <2>5, <3>1 DEF ApartAgain
    <3>3. Fanned(P, C, K, N, V) /\ \A j \in Crew(P) : ~Walking(K[j][N[j]].frame)
      BY <2>2 DEF Rejoined
    <3>4. Course(K[t], N[t], A, Steps(P, t), V, Equipped(t))
      BY <3>1, <3>3 DEF Fanned
    <3> PICK x : x = K[t][at[t]]
      OBVIOUS
    <3> PICK y : y = K[t][at[t] + 1]
      OBVIOUS
    <3>5. /\ g.steps = Steps(P, t) /\ x.used \in [A -> Nat]
          /\ Took(g) = Took(x.frame) /\ (Needs(g) <=> Needs(x.frame))
          /\ at[t] + 1 \in 0 .. N[t] /\ Turns(x, y, V, Equipped(t))
      <4>1. PICK k : k = K[t]
        OBVIOUS
      <4>2. PICK i : i = at[t]
        OBVIOUS
      <4>3. PICK z : z = N[t]
        OBVIOUS
      <4>4. /\ Course(k, z, A, Steps(P, t), V, Equipped(t)) /\ ~Walking(k[z].frame)
            /\ i \in 0 .. z /\ Follows(g, k[i]) /\ Walking(g)
        BY <1>1, <3>1, <3>2, <3>3, <3>4, <4>1, <4>2, <4>3
      <4>5. Stands(g, k[i], k[i + 1], A, Steps(P, t), V, Equipped(t)) /\ i + 1 \in 0 .. z
        BY ONLY <4>4, StandsAt, Zenon
      <4> QED
        BY <4>1, <4>2, <4>3, <4>5 DEF Stands
    <3>6. /\ r \in DOMAIN x.used /\ x.used[r] < Num(r, V)
          /\ Answered(x, y, Of(r, V)[x.used[r] + 1])
      BY <1>1, <3>5, Zenon DEF Turns, Hears, Moves
    <3>7. r \in ProbesOf(P.branches[t]) /\ t \in DOMAIN P.branches
      BY <1>0, <1>1, <3>1, <3>5, CrewIs, AsksFor DEF Needs, Crew
    <3> PICK to : to = Onto(at, t, P)
      OBVIOUS
    <3>8. to[t] = at[t] + 1 /\ Others(P, K, at, K, to, t)
      BY <3>1, Zenon DEF Onto, Others, Crew
    <3>9. y.used = OneMore(x.used, r)
      BY <3>5, <3>6, ZenonT(60) DEF Answered
    <3>10. /\ Spent(P, K, to) = OneMore(Spent(P, K, at), r)
           /\ r \in AskedBy(P) /\ Spent(P, K, at)[r] = x.used[r]
      BY <2>3, <3>5, <3>7, <3>8, <3>9, SpentHears
    <3> PICK u : u = Spent(P, K, at)
      BY ZenonT(60)
    <3>11. r \in DOMAIN u /\ u[r] = x.used[r] /\ u[r] \in Nat
      BY <3>5, <3>10 DEF Spent
    <3>12. /\ r \in DOMAIN Q /\ Head(Q[r]) = Of(r, V)[u[r] + 1]
           /\ Queued([Q EXCEPT ![r] = Rest(@)], V, OneMore(u, r))
      <4>1. /\ Listed(V) /\ Queued(Q, V, u) /\ r \in DOMAIN u /\ u[r] \in Nat /\ u[r] < Num(r, V)
        BY <1>2, <3>2, <3>6, <3>11, Zenon
      <4> QED
        BY ONLY <4>1, QueueHears, Zenon
    <3>s. PICK said : said = Head(Q[r])
      OBVIOUS
    <3>g. PICK ng : ng = [g EXCEPT !.verdict = said.verdict]
      BY Zenon
    <3>13. Answered(x, y, said)
      BY <3>s, <3>6, <3>11, <3>12, Zenon
    <3>14. Follows(ng, y) /\ ng.ctx = g.ctx /\ y.frame.ctx = x.frame.ctx
      <4>1. DOMAIN g = Parts /\ Follows(g, x) /\ Answered(x, y, said)
        BY <1>1, <3>2, <3>13
      <4> QED
        BY ONLY <3>g, <4>1, FollowHears
    <3>15. Held(ng, y.frame, d, C)
      BY <3>2, <3>14 DEF Held
    <3>16. /\ threads' = [threads EXCEPT ![t] = ng]
           /\ player'.verdicts = [Q EXCEPT ![r] = Rest(@)]
           /\ player'.unmatched = player.unmatched
      BY <1>3, <3>s, <3>g, <3>12
    <3>17. Queued(player'.verdicts, V, Spent(P, K, to))
      BY <3>10, <3>12, <3>16, Zenon
    <3>18. ApartAgain(C, K, N, d, to)'
      BY <1>0, <2>2, <2>4, <2>5, <3>1, <3>5, <3>14, <3>15, <3>16, <3>17, ApartTurn, Zenon
    <3> QED
      BY <3>16, <3>18
  <2>6. ASSUME NEW m, AloneAgain(c, n, m)
        PROVE  AloneAgain(c, n, m + 1)' /\ player'.unmatched = player.unmatched
    <3>1. t = 0
      BY <1>1, <2>2, <2>4, <2>6 DEF AloneAgain
    <3>2. m \in 0 .. n /\ Follows(g, c[m]) /\ Queued(Q, V, c[m].used)
      BY <2>6, <3>1 DEF AloneAgain
    <3>3. Course(c, n, A, Steps(P, 0), V, Equipped(0)) /\ ~Walking(c[n].frame)
      BY <1>4, <2>2 DEF Rejoined, Recorded, Outcome
    <3> PICK x : x = c[m]
      OBVIOUS
    <3> PICK y : y = c[m + 1]
      OBVIOUS
    <3>5. /\ x.used \in [A -> Nat]
          /\ Took(g) = Took(x.frame) /\ (Needs(g) <=> Needs(x.frame))
          /\ m + 1 \in 0 .. n /\ Turns(x, y, V, Equipped(0))
      <4>1. /\ Course(c, n, A, Steps(P, 0), V, Equipped(0)) /\ ~Walking(c[n].frame)
            /\ m \in 0 .. n /\ Follows(g, c[m]) /\ Walking(g)
        BY <1>1, <3>2, <3>3
      <4>2. Stands(g, c[m], c[m + 1], A, Steps(P, 0), V, Equipped(0)) /\ m + 1 \in 0 .. n
        BY ONLY <4>1, StandsAt
      <4> QED
        BY <4>2 DEF Stands
    <3>6. /\ r \in DOMAIN x.used /\ x.used[r] < Num(r, V)
          /\ Answered(x, y, Of(r, V)[x.used[r] + 1])
      BY <1>1, <3>5 DEF Turns, Hears, Moves
    <3>7. /\ r \in DOMAIN Q /\ Head(Q[r]) = Of(r, V)[x.used[r] + 1]
          /\ Queued([Q EXCEPT ![r] = Rest(@)], V, OneMore(x.used, r))
      <4> PICK u : u = x.used
        OBVIOUS
      <4>1. /\ Listed(V) /\ Queued(Q, V, u) /\ r \in DOMAIN u /\ u[r] \in Nat /\ u[r] < Num(r, V)
        BY <1>2, <3>2, <3>5, <3>6
      <4>2. /\ r \in DOMAIN Q /\ Head(Q[r]) = Of(r, V)[u[r] + 1]
            /\ Queued([Q EXCEPT ![r] = Rest(@)], V, OneMore(u, r))
        BY ONLY <4>1, QueueHears
      <4> QED
        BY <4>2
    <3>s. PICK said : said = Head(Q[r])
      OBVIOUS
    <3>g. PICK ng : ng = [g EXCEPT !.verdict = said.verdict]
      BY Zenon
    <3>8. Answered(x, y, said) /\ y.used = OneMore(x.used, r)
      BY <3>s, <3>5, <3>6, <3>7, Zenon DEF Answered
    <3>9. Follows(ng, y)
      BY <1>1, <3>g, <3>2, <3>8, FollowHears
    <3>10. /\ threads' = [threads EXCEPT ![t] = ng]
           /\ player'.verdicts = [Q EXCEPT ![r] = Rest(@)]
           /\ player'.unmatched = player.unmatched
      BY <1>3, <3>s, <3>g, <3>7
    <3>11. threads'[0] = ng /\ \A j \in Crew(P) : threads'[j] = threads[j]
      BY <2>4, <3>1, <3>10
    <3>12. AloneAgain(c, n, m + 1)'
      BY <1>0, <2>2, <2>6, <3>5, <3>7, <3>8, <3>9, <3>10, <3>11 DEF AloneAgain
    <3> QED
      BY <3>10, <3>12
  <2> QED
    BY <1>0, <2>1, <2>5, <2>6 DEF Replays
<1> QED
  BY <1>0, <1>4, AfterStep, Zenon

(* A step of a branch does not write the input once more.                  *)
LEMMA SparesSteps ==
  ASSUME NEW prog, NEW raw, ~Restates(prog, raw), NEW t \in Crew(prog),
         NEW id \in DOMAIN prog.branches[t].steps
  PROVE  Spares(prog.branches[t].steps[id], raw)
BY Zenon DEF Restates, Spares, Crew

(* A frame of the replay takes the step that was taken.                    *)
LEMMA StepAfters ==
  ASSUME TypeInv, AfterInv, NEW t \in DOMAIN threads, ReplayStep(t)
  PROVE  AfterInv'
<1>0. /\ phase = "replaying" /\ phase' = phase /\ Runs(t) /\ ~NeedsProbe(t)
      /\ UNCHANGED <<base, recorder, recording, program, player>>
      /\ program \in Programs /\ DOMAIN threads = 0 .. Len(program.branches)
  BY DEF ReplayStep, TypeInv, IInv, ContextInv, PhaseInv
<1> PICK g : g = threads[t]
  OBVIOUS
<1>1. Shape(g) /\ Walking(g) /\ ~g.joins /\ ~Needs(g)
  BY <1>0 DEF TypeInv, IInv, FrameInv, FrameOK, NeedsProbe, Runs, ProbeRef, Took, Needs
<1> PICK Q : Q = player.verdicts
  OBVIOUS
<1> PICK V : V = recorder.verdicts
  OBVIOUS
<1>g. PICK ng : ng = Advance(g, Equipped(t))
  OBVIOUS
<1>2. threads' = [threads EXCEPT ![t] = ng]
  BY <1>g DEF ReplayStep
<1>3. Equipped(t).sandbox
  BY DEF Equipped
<1>4. ASSUME NEW E, NEW C, NEW K, NEW N, NEW c, NEW n, Recorded(E, C, K, N, c, n),
             Kept, program = recording.program, Replays(E, C, K, N, c, n)
      PROVE  Replays(E, C, K, N, c, n)'
  <2> PICK P : P = program
    OBVIOUS
  <2> PICK A : A = AskedBy(P)
    OBVIOUS
  <2> PICK raw : raw = recording.input
    OBVIOUS
  <2>1. /\ player.unmatched = <<>>
        /\ (\E d, at : ApartAgain(C, K, N, d, at)) \/ (\E m : AloneAgain(c, n, m))
    BY <1>0, <1>4 DEF Replays
  <2>2. P = recording.program /\ Rejoined(P, C, K, N, V, c, n) /\ Near(raw, C)
    <3>1. Briefed(E, C, raw)
      BY <1>4 DEF Recorded
    <3> QED
      BY <1>4, <3>1 DEF Recorded, Briefed
  <2>3. ~Restates(P, raw)
    BY <1>4, <2>2 DEF Kept, Fit
  <2>4. /\ 0 \in DOMAIN threads /\ Crew(P) \subseteq DOMAIN threads /\ 0 \notin Crew(P)
        /\ t = 0 \/ t \in Crew(P)
    BY <1>0, CrewIs
  <2>5. ASSUME NEW d, NEW at, ApartAgain(C, K, N, d, at)
        PROVE  \E to : ApartAgain(C, K, N, d, to)'
    <3>1. t \in Crew(P) /\ t # 0
      BY <1>1, <2>4, <2>5 DEF ApartAgain
    <3>2. /\ at[t] \in 0 .. N[t] /\ Follows(g, K[t][at[t]]) /\ Held(g, K[t][at[t]].frame, d, C)
          /\ Queued(Q, V, Spent(P, K, at)) /\ Near(raw, d) /\ JsonContext(d) = JsonContext(C)
      BY <2>2, <2>5, <3>1 DEF ApartAgain
    <3>3. Fanned(P, C, K, N, V) /\ \A j \in Crew(P) : ~Walking(K[j][N[j]].frame)
      BY <2>2 DEF Rejoined
    <3>4. Course(K[t], N[t], A, Steps(P, t), V, Equipped(t))
      BY <3>1, <3>3 DEF Fanned
    <3>x. PICK x : x = K[t][at[t]]
      OBVIOUS
    <3>y. PICK y : y = K[t][at[t] + 1]
      OBVIOUS
    <3>5. /\ Stands(g, x, y, A, Steps(P, t), V, Equipped(t)) /\ at[t] + 1 \in 0 .. N[t]
      <4>1. PICK k : k = K[t]
        OBVIOUS
      <4>2. PICK i : i = at[t]
        OBVIOUS
      <4>3. PICK z : z = N[t]
        OBVIOUS
      <4>4. /\ Course(k, z, A, Steps(P, t), V, Equipped(t)) /\ ~Walking(k[z].frame)
            /\ i \in 0 .. z /\ Follows(g, k[i]) /\ Walking(g)
        BY <1>1, <3>1, <3>2, <3>3, <3>4, <4>1, <4>2, <4>3
      <4>5. Stands(g, k[i], k[i + 1], A, Steps(P, t), V, Equipped(t)) /\ i + 1 \in 0 .. z
        BY ONLY <4>4, StandsAt, Zenon
      <4> QED
        BY <3>x, <3>y, <4>1, <4>2, <4>3, <4>5
    <3>6. Moves(x, y, Equipped(t)) /\ g.steps = Steps(P, t)
      BY <1>1, <3>5 DEF Stands, Turns, Hears
    <3>7. Follows(ng, y) /\ WritesAlike(Took(g), g, x.frame, ng, y.frame)
      <4>1. PICK host : host = Equipped(t)
        OBVIOUS
      <4>2. Shape(g) /\ Walking(g) /\ Follows(g, x) /\ host.sandbox /\ Moves(x, y, host) /\ ng = Advance(g, host)
        BY <1>g, <1>1, <1>3, <3>x, <3>2, <3>6, <4>1
      <4> QED
        BY ONLY <4>2, FollowMoves
    <3>8. Spares(Took(g), raw) /\ LeavesMarks(Took(g))
      <4>1. g.at \in DOMAIN g.steps /\ LeavesMarks(Took(g))
        BY <1>1 DEF Shape, Flow, Took
      <4>2. g.steps = P.branches[t].steps
        BY <3>1, <3>6 DEF Steps
      <4> QED
        BY <2>3, <3>1, <4>1, <4>2, SparesSteps DEF Took
    <3>9. Held(ng, y.frame, d, C)
      <4>s. PICK s : s = Took(g)
        OBVIOUS
      <4>f. PICK f : f = x.frame
        OBVIOUS
      <4>h. PICK nf : nf = y.frame
        OBVIOUS
      <4>1. /\ Near(raw, C) /\ Near(raw, d) /\ JsonContext(C) = JsonContext(d)
            /\ Spares(s, raw) /\ LeavesMarks(s) /\ Held(g, f, d, C)
            /\ WritesAlike(s, g, f, ng, nf)
        BY <2>2, <3>x, <3>2, <3>7, <3>8, <4>s, <4>f, <4>h
      <4>2. Held(ng, nf, d, C)
        BY ONLY <4>1, HeldStep
      <4> QED
        BY <4>2, <4>h
    <3> PICK to : to = Onto(at, t, P)
      OBVIOUS
    <3>10. to[t] = at[t] + 1 /\ Others(P, K, at, K, to, t)
      BY <3>1 DEF Onto, Others, Crew
    <3>11. K[t][to[t]].used = K[t][at[t]].used
      BY <3>x, <3>y, <3>6, <3>10 DEF Moves
    <3>12. Spent(P, K, to) = Spent(P, K, at)
      BY <3>10, <3>11, SpentTurn
    <3>13. ApartAgain(C, K, N, d, to)'
      BY <1>0, <1>2, <2>2, <2>4, <2>5, <3>y, <3>1, <3>2, <3>5, <3>7, <3>9, <3>12, ApartTurn
    <3> QED
      BY <3>13
  <2>6. ASSUME NEW m, AloneAgain(c, n, m)
        PROVE  AloneAgain(c, n, m + 1)'
    <3>1. t = 0
      BY <1>1, <2>2, <2>4, <2>6 DEF AloneAgain
    <3>2. m \in 0 .. n /\ Follows(g, c[m]) /\ Queued(Q, V, c[m].used)
      BY <2>6, <3>1 DEF AloneAgain
    <3>3. Course(c, n, A, Steps(P, 0), V, Equipped(0)) /\ ~Walking(c[n].frame)
      BY <1>4, <2>2 DEF Rejoined, Recorded, Outcome
    <3>x. PICK x : x = c[m]
      OBVIOUS
    <3>y. PICK y : y = c[m + 1]
      OBVIOUS
    <3>5. Stands(g, x, y, A, Steps(P, 0), V, Equipped(0)) /\ m + 1 \in 0 .. n
      <4>1. /\ Course(c, n, A, Steps(P, 0), V, Equipped(0)) /\ ~Walking(c[n].frame)
            /\ m \in 0 .. n /\ Follows(g, c[m]) /\ Walking(g)
        BY <1>1, <3>2, <3>3
      <4>2. Stands(g, c[m], c[m + 1], A, Steps(P, 0), V, Equipped(0)) /\ m + 1 \in 0 .. n
        BY ONLY <4>1, StandsAt
      <4> QED
        BY <3>x, <3>y, <4>2
    <3>6. Moves(x, y, Equipped(0))
      BY <1>1, <3>5 DEF Stands, Turns, Hears
    <3>7. Follows(ng, y)
      <4>1. PICK host : host = Equipped(0)
        OBVIOUS
      <4>2. Shape(g) /\ Walking(g) /\ Follows(g, x) /\ host.sandbox /\ Moves(x, y, host) /\ ng = Advance(g, host)
        BY <1>g, <1>1, <1>3, <3>x, <3>1, <3>2, <3>6, <4>1
      <4> QED
        BY ONLY <4>2, FollowMoves
    <3>8. y.used = x.used
      BY <3>6 DEF Moves
    <3>9. threads'[0] = ng /\ \A j \in Crew(P) : threads'[j] = threads[j]
      BY <1>2, <2>4, <3>1
    <3> QED
      BY <1>0, <2>2, <2>6, <3>x, <3>y, <3>2, <3>5, <3>7, <3>8, <3>9 DEF AloneAgain
  <2> QED
    BY <1>0, <2>1, <2>5, <2>6 DEF Replays
<1> QED
  BY <1>0, <1>4, AfterStep, Zenon

(* The branches of the replay are joined as those of the run were.         *)
LEMMA JoinAfters ==
  ASSUME TypeInv, AfterInv, Join, phase = "replaying"
  PROVE  AfterInv'
<1>0. /\ phase' = phase /\ threads[0].joins
      /\ UNCHANGED <<base, recorder, recording, program, player>>
      /\ program \in Programs /\ DOMAIN threads = 0 .. Len(program.branches)
      /\ \A t \in DOMAIN threads \ {0} : ~Walking(threads[t])
  BY DEF Join, TypeInv, IInv, ContextInv, PhaseInv
<1> PICK P : P = program
  OBVIOUS
<1> PICK V : V = recorder.verdicts
  OBVIOUS
<1>1. /\ 0 \in DOMAIN threads /\ Crew(P) \subseteq DOMAIN threads /\ 0 \notin Crew(P)
      /\ Crew(P) = 1 .. Len(P.branches) /\ 0 \in 0 .. Len(P.branches)
  BY <1>0, CrewIs
<1>g. PICK g : g = threads[0]
  OBVIOUS
<1>e. PICK ends : ends = [t \in 1 .. Len(P.branches) |-> threads[t]]
  OBVIOUS
<1>2. /\ \A j \in DOMAIN threads : FrameOK(threads[j])
      /\ Shape(g) /\ g.joins
  BY <1>g, <1>0, <1>1 DEF TypeInv, IInv, FrameInv, FrameOK
<1>3. PICK next : next \in Joins(g, ends) /\ threads' = [threads EXCEPT ![0] = next]
  BY <1>g, <1>e DEF Join
<1>4. DOMAIN ends = Crew(P) /\ \A t \in Crew(P) : ends[t] = threads[t] /\ ~Walking(threads[t])
  BY <1>0, <1>1, <1>e
<1>5. next.verdict = g.verdict
  <2>1. \A i \in DOMAIN ends : ends[i].ctx[ModelDerivedKey] = g.ctx[ModelDerivedKey]
    BY <1>g, <1>1, <1>2, <1>4 DEF FrameOK
  <2>2. next \in Joins(g, ends)
    BY <1>3
  <2> QED
    BY ONLY <1>2, <2>1, <2>2, JoinKeeps
<1>6. ASSUME NEW E, NEW C, NEW K, NEW N, NEW c, NEW n, Recorded(E, C, K, N, c, n),
             Kept, program = recording.program, Replays(E, C, K, N, c, n)
      PROVE  Replays(E, C, K, N, c, n)'
  <2> PICK raw : raw = recording.input
    OBVIOUS
  <2>1. /\ player.unmatched = <<>>
        /\ (\E d, at : ApartAgain(C, K, N, d, at)) \/ (\E m : AloneAgain(c, n, m))
    BY <1>0, <1>6 DEF Replays
  <2>2. P = recording.program /\ Rejoined(P, C, K, N, V, c, n) /\ Near(raw, C)
    <3>1. Briefed(E, C, raw)
      BY <1>6 DEF Recorded
    <3> QED
      BY <1>6, <3>1 DEF Recorded, Briefed
  <2>3. ASSUME NEW m, AloneAgain(c, n, m) PROVE FALSE
    <3>1. /\ Course(c, n, AskedBy(P), Steps(P, 0), V, Equipped(0)) /\ ~Walking(c[n].frame)
          /\ m \in 0 .. n /\ Follows(g, c[m])
      BY <1>g, <1>6, <2>2, <2>3 DEF Rejoined, Recorded, Outcome, AloneAgain
    <3>2. Turn(c[m], AskedBy(P), Steps(P, 0))
      BY <3>1, CourseAt
    <3> QED
      BY <1>2, <3>1, <3>2 DEF Turn, Follows, Mirrors
  <2>4. PICK d, at : ApartAgain(C, K, N, d, at)
    BY <2>1, <2>3
  <2>5. /\ Near(raw, d) /\ JsonContext(d) = JsonContext(C) /\ g = Start(P, d)[0]
        /\ Queued(player.verdicts, V, Spent(P, K, at))
        /\ \A t \in Crew(P) :
             /\ at[t] \in 0 .. N[t] /\ Follows(threads[t], K[t][at[t]])
             /\ Held(threads[t], K[t][at[t]].frame, d, C)
    BY <1>g, <2>2, <2>4 DEF ApartAgain
  <2>6. Fanned(P, C, K, N, V) /\ \A j \in Crew(P) : ~Walking(K[j][N[j]].frame)
    BY <2>2 DEF Rejoined
  <2>7. ASSUME NEW t \in Crew(P) PROVE at[t] = N[t]
    <3>1. PICK k : k = K[t]
      OBVIOUS
    <3>2. PICK i : i = at[t]
      OBVIOUS
    <3>3. PICK z : z = N[t]
      OBVIOUS
    <3>4. Course(K[t], N[t], AskedBy(P), Steps(P, t), V, Equipped(t))
      BY <2>6 DEF Fanned
    <3>5. PICK f : f = threads[t]
      OBVIOUS
    <3>6. /\ Course(k, z, AskedBy(P), Steps(P, t), V, Equipped(t)) /\ ~Walking(k[z].frame)
          /\ i \in 0 .. z /\ Follows(f, k[i]) /\ ~Walking(f)
      BY <1>4, <2>5, <2>6, <3>1, <3>2, <3>3, <3>4, <3>5
    <3>7. i = z
      BY ONLY <3>6, StandsAt
    <3> QED
      BY <3>2, <3>3, <3>7
  <2>8. Spent(P, K, at) = Spent(P, K, N)
    BY <2>7, SpentThere
  <2> PICK f : f = Start(P, C)[0]
    OBVIOUS
  <2>9. Fresh(g, P, 0, d) /\ Fresh(f, P, 0, C)
    BY <1>0, <1>1, <2>5, StartIs
  <2>10. P.branches # <<>> /\ g.ctx = d /\ f.ctx = C /\ g.verdict = None
    BY <1>2, <2>9 DEF Fresh
  <2>11. Mirrors(g, f)
    <3>1. /\ P \in Programs /\ Near(raw, C) /\ Near(raw, d) /\ JsonContext(C) = JsonContext(d)
          /\ f = Start(P, C)[0] /\ g = Start(P, d)[0] /\ 0 \in 0 .. Len(P.branches)
      BY <1>0, <1>1, <2>2, <2>5
    <3> QED
      BY ONLY <3>1, StartsFollow
  <2>12. Shape(f)
    BY <2>6 DEF Fanned
  <2>13. Gathered(P, C, K, N, c[0].frame) /\ c[0].frame.verdict = None /\ c[0].used = Spent(P, K, N)
    BY <2>2 DEF Rejoined
  <2>14. PICK eg : /\ DOMAIN eg = Crew(P)
                   /\ \A t \in Crew(P) : Same(eg[t], K[t][N[t]].frame)
                   /\ c[0].frame \in Joins(f, eg)
                   /\ FailedIn(eg) # {} \/ Clashes(f, eg) = {}
    BY <2>10, <2>13 DEF Gathered
  <2>15. EndsAlike(g, ends, f, eg)
    <3>1. ASSUME NEW t \in Crew(P)
          PROVE  /\ ends[t].end = eg[t].end /\ ends[t].why = eg[t].why
                 /\ ends[t].trace = eg[t].trace /\ Held(ends[t], eg[t], d, C)
      <4> PICK h : h = K[t][N[t]].frame
        OBVIOUS
      <4>1. Mirrors(ends[t], h) /\ Held(ends[t], h, d, C)
        BY <1>4, <2>5, <2>7 DEF Follows
      <4>2. eg[t].end = h.end /\ eg[t].why = h.why /\ eg[t].trace = h.trace /\ eg[t].ctx = h.ctx
        BY <2>14, SameIs
      <4> QED
        BY <4>1, <4>2 DEF Mirrors, Held
    <3> QED
      BY <1>4, <2>10, <2>14, <3>1, ZenonT(60) DEF EndsAlike
  <2>16. Mirrors(next, c[0].frame)
    <3> PICK first : first = c[0].frame
      OBVIOUS
    <3>1. /\ Shape(g) /\ Shape(f) /\ Mirrors(g, f) /\ EndsAlike(g, ends, f, eg)
          /\ first \in Joins(f, eg) /\ (FailedIn(eg) # {} \/ Clashes(f, eg) = {})
          /\ next \in Joins(g, ends)
      BY <1>2, <1>3, <2>11, <2>12, <2>14, <2>15
    <3>2. Mirrors(next, first)
      BY ONLY <3>1, JoinMirrors
    <3> QED
      BY <3>2
  <2>17. Follows(next, c[0])
    BY <1>5, <2>10, <2>13, <2>16 DEF Follows
  <2>18. 0 \in 0 .. n
    BY <2>2, LastPlace DEF Rejoined
  <2>19. threads'[0] = next /\ \A j \in Crew(P) : threads'[j] = threads[j]
    BY <1>1, <1>3
  <2>20. AloneAgain(c, n, 0)'
    BY <1>0, <1>4, <2>2, <2>5, <2>8, <2>13, <2>17, <2>18, <2>19 DEF AloneAgain
  <2> QED
    BY <1>0, <2>1, <2>20 DEF Replays
<1> QED
  BY <1>0, <1>6, AfterStep, Zenon

(* Compare finds no difference between frames that came the same way.      *)
LEMMA NoDifferences ==
  ASSUME NEW f, NEW g, Mirrors(f, g), NEW json \in BOOLEAN,
         NEW res, res = [Result(g) EXCEPT !.output = IF json THEN JsonContext(@) ELSE @]
  PROVE  Differences(res, Result(f)) = {}
<1>1. /\ f.joined = g.joined /\ f.trace = g.trace /\ f.end = g.end /\ f.why = g.why
      /\ AlikeIn(f.ctx, g.ctx)
  BY DEF Mirrors
<1> PICK rf : rf = Result(f)
  OBVIOUS
<1> PICK rg : rg = Result(g)
  OBVIOUS
<1>2. /\ res.trace = rg.trace /\ res.suspended = rg.suspended /\ res.error = rg.error
      /\ res.output = IF json THEN JsonContext(rg.output) ELSE rg.output
  BY DEF Result
<1>3. rf.trace = rg.trace /\ rf.suspended = rg.suspended /\ rf.error = rg.error
  BY <1>1 DEF Result
<1>4. ASSUME NEW k \in Keys PROVE SameValue(res.output[k], rf.output[k])
  <2>1. Json(rg.output[k]) = Json(rf.output[k])
    <3>1. CASE f.end = "failed"
      <4>1. rf.output = rg.output
        BY <1>1, <3>1 DEF Result
      <4> QED
        BY <4>1
    <3>2. CASE f.end # "failed"
      <4>1. rf.output = f.ctx /\ rg.output = g.ctx
        BY <1>1, <3>2 DEF Result
      <4>2. Alike(f.ctx[k], g.ctx[k])
        BY <1>1 DEF AlikeIn
      <4> QED
        BY <4>1, <4>2, AlikeText
    <3> QED
      BY <3>1, <3>2
  <2>2. json => res.output[k] = Json(rg.output[k])
    BY <1>2 DEF JsonContext
  <2>3. Json(Json(rg.output[k])) = Json(rg.output[k])
    BY JsonTwice
  <2> QED
    BY <1>2, <2>1, <2>2, <2>3 DEF SameValue
<1> QED
  BY <1>2, <1>3, <1>4 DEF Differences

LEMMA ReplayedAfters ==
  ASSUME TypeInv, AfterInv, Replayed
  PROVE  AfterInv'
<1>0. /\ phase = "replaying" /\ phase' = "compared" /\ ~Walking(threads[0])
      /\ UNCHANGED <<base, recorder, recording, program, player>>
      /\ result' = Result(threads[0])
      /\ program \in Programs /\ DOMAIN threads = 0 .. Len(program.branches)
  BY DEF Replayed, TypeInv, IInv, ContextInv, PhaseInv
<1>g. PICK g : g = threads[0]
  OBVIOUS
<1>1. 0 \in DOMAIN threads /\ Shape(g)
  BY <1>g, <1>0, CrewIs DEF TypeInv, IInv, FrameInv, FrameOK
<1>2. ~g.joins /\ ~Walking(g)
  BY <1>g, <1>0, <1>1 DEF Shape
<1>3. ASSUME NEW E, NEW C, NEW K, NEW N, NEW c, NEW n, Recorded(E, C, K, N, c, n),
             Kept, program = recording.program, Replays(E, C, K, N, c, n)
      PROVE  Replays(E, C, K, N, c, n)'
  <2>1. /\ player.unmatched = <<>>
        /\ (\E d, at : ApartAgain(C, K, N, d, at)) \/ (\E m : AloneAgain(c, n, m))
    BY <1>0, <1>3 DEF Replays
  <2>2. PICK m : AloneAgain(c, n, m)
    BY <1>g, <1>2, <2>1 DEF ApartAgain
  <2> PICK P : P = recording.program
    OBVIOUS
  <2> PICK V : V = recorder.verdicts
    OBVIOUS
  <2>3. Rejoined(P, C, K, N, V, c, n) /\ Outcome(c[n].frame)
    BY <1>3 DEF Recorded
  <2>4. /\ Course(c, n, AskedBy(P), Steps(P, 0), V, Equipped(0)) /\ ~Walking(c[n].frame)
        /\ m \in 0 .. n /\ Follows(g, c[m]) /\ ~Walking(g)
    BY <1>g, <1>2, <2>2, <2>3 DEF Rejoined, Outcome, AloneAgain
  <2>5. m = n
    BY ONLY <2>4, StandsAt
  <2>h. PICK h : h = c[n].frame
    OBVIOUS
  <2>6. Mirrors(g, h)
    BY <2>4, <2>5, <2>h DEF Follows
  <2>r. PICK res : res = recording.result
    OBVIOUS
  <2>7. PICK json \in BOOLEAN : res = [Result(h) EXCEPT !.output = IF json THEN JsonContext(@) ELSE @]
    BY <2>3, <2>h, <2>r DEF Outcome
  <2>8. Differences(res, Result(g)) = {}
    BY ONLY json \in BOOLEAN, <2>6, <2>7, NoDifferences
  <2> QED
    BY <1>g, <1>0, <2>1, <2>8, <2>r DEF Replays
<1> QED
  BY <1>0, <1>3, AfterStep, Zenon

RepeatInv == TypeInv /\ HearingInv /\ RunningInv /\ AfterInv

LEMMA StutterRepeats == RepeatInv /\ UNCHANGED vars => HearingInv' /\ RunningInv' /\ AfterInv'
<1> SUFFICES ASSUME RepeatInv, UNCHANGED vars PROVE HearingInv' /\ RunningInv' /\ AfterInv'
  OBVIOUS
<1>0. UNCHANGED <<phase, program, base, ctx, wanted, threads, recorder, recording, player, result>>
  BY DEF vars
<1>1. HearingInv'
  <2>1. HearingInv
    BY DEF RepeatInv
  <2> QED
    BY <1>0, <2>1 DEF HearingInv, Heard, Remains
<1>2. RunningInv'
  <2>1. RunningInv
    BY DEF RepeatInv
  <2> QED
    <3>1. ASSUME NEW E, NEW C, Briefed(E, C, base) PROVE Briefed(E, C, base)'
      BY <1>0, <3>1 DEF Briefed
    <3>2. ASSUME NEW C, NEW K, NEW N, Apart(C, K, N) PROVE Apart(C, K, N)'
      BY <1>0, <3>2 DEF Apart
    <3>3. ASSUME NEW C, NEW K, NEW N, NEW c, NEW n, Alone(C, K, N, c, n) PROVE Alone(C, K, N, c, n)'
      BY <1>0, <3>3 DEF Alone
    <3>4. Torn => Torn'
      BY <1>0 DEF Torn
    <3>5. ASSUME NEW C, Ran(C) PROVE Ran(C)'
      BY <3>2, <3>3, <3>4, <3>5 DEF Ran
    <3>6. phase' = phase /\ (Fit(program, base)' <=> Fit(program, base))
      BY <1>0
    <3> QED
      BY <2>1, <3>1, <3>5, <3>6 DEF RunningInv
<1>3. AfterInv'
  <2>1. AfterInv
    BY DEF RepeatInv
  <2>2. ASSUME NEW E, NEW C, NEW K, NEW N, NEW c, NEW n
        PROVE  /\ Recorded(E, C, K, N, c, n)' <=> Recorded(E, C, K, N, c, n)
               /\ Replays(E, C, K, N, c, n)' <=> Replays(E, C, K, N, c, n)
    <3>1. Recorded(E, C, K, N, c, n)' <=> Recorded(E, C, K, N, c, n)
      <4>1. Briefed(E, C, recording.input)' <=> Briefed(E, C, recording.input)
        BY <1>0 DEF Briefed
      <4>2. Outcome(c[n].frame)' <=> Outcome(c[n].frame)
        BY <1>0 DEF Outcome
      <4> QED
        BY <1>0, <4>1, <4>2 DEF Recorded
    <3>2. \A i : Rereads(E, i)' <=> Rereads(E, i)
      BY <1>0 DEF Rereads, Remains
    <3>3. \A d, at : ApartAgain(C, K, N, d, at)' <=> ApartAgain(C, K, N, d, at)
      BY <1>0 DEF ApartAgain
    <3>4. \A m : AloneAgain(c, n, m)' <=> AloneAgain(c, n, m)
      BY <1>0 DEF AloneAgain
    <3> QED
      BY <1>0, <3>1, <3>2, <3>3, <3>4 DEF Replays
  <2> QED
    BY <1>0, <2>1, <2>2 DEF AfterInv, Kept, Rewound
<1> QED
  BY <1>1, <1>2, <1>3

(* Nothing is said of a phase that the run is not in.                      *)
LEMMA PhaseRepeats ==
  /\ phase' # "intake" => HearingInv'
  /\ phase' # "running" => RunningInv'
  /\ phase' \in {"intake", "running"} => AfterInv'
BY DEF HearingInv, RunningInv, AfterInv

LEMMA NextRepeats == RepeatInv /\ [Next]_vars => RepeatInv'
<1> SUFFICES ASSUME RepeatInv, [Next]_vars PROVE RepeatInv'
  OBVIOUS
<1>0. TypeInv /\ HearingInv /\ RunningInv /\ AfterInv /\ TypeInv'
  BY NextTypeInv DEF RepeatInv
<1> SUFFICES HearingInv' /\ RunningInv' /\ AfterInv'
  BY <1>0 DEF RepeatInv
<1>1. CASE ExtractLive
  <2>1. phase' = "intake"
    BY <1>1 DEF ExtractLive
  <2> QED
    BY <1>0, <1>1, <2>1, LiveHears, PhaseRepeats
<1>2. CASE Persist
  <2>1. phase' \in {"intake", "reintake"}
    BY <1>2 DEF Persist
  <2> QED
    BY <1>0, <1>2, <2>1, PersistHears, PersistAfters, PhaseRepeats
<1>3. CASE Begin
  <2>1. \/ phase = "intake" /\ phase' = "running"
        \/ phase = "reintake" /\ phase' = "replaying"
    BY <1>3 DEF Begin
  <2> QED
    BY <1>0, <1>3, <2>1, BeginRuns, BeginAfters, PhaseRepeats
<1>4. CASE Join
  <2>1. phase' = phase /\ phase \in {"running", "replaying"}
    BY <1>4 DEF Join
  <2> QED
    BY <1>0, <1>4, <2>1, JoinRuns, JoinAfters, PhaseRepeats
<1>5. CASE Finish
  <2>1. phase' = "recorded"
    BY <1>5 DEF Finish
  <2> QED
    BY <1>0, <1>5, <2>1, FinishAfters, PhaseRepeats
<1>6. CASE NewPlayer
  <2>1. phase' = "reintake"
    BY <1>6 DEF NewPlayer
  <2> QED
    BY <1>0, <1>6, <2>1, RewindAfters, PhaseRepeats
<1>7. CASE ExtractorFor
  <2>1. phase' = "reintake"
    BY <1>7 DEF ExtractorFor
  <2> QED
    BY <1>0, <1>7, <2>1, ExtractorAfters, PhaseRepeats
<1>8. CASE Replayed
  <2>1. phase' = "compared"
    BY <1>8 DEF Replayed
  <2> QED
    BY <1>0, <1>8, <2>1, ReplayedAfters, PhaseRepeats
<1>9. ASSUME NEW t \in DOMAIN threads, InnerProbe(t) \/ Step(t)
      PROVE  HearingInv' /\ RunningInv' /\ AfterInv'
  <2>1. phase' = "running"
    BY <1>9 DEF InnerProbe, Step
  <2> QED
    BY <1>0, <1>9, <2>1, ProbeRuns, StepRuns, PhaseRepeats
<1>10. ASSUME NEW t \in DOMAIN threads, PlayerProbe(t) \/ ReplayStep(t)
       PROVE  HearingInv' /\ RunningInv' /\ AfterInv'
  <2>1. phase' = "replaying"
    BY <1>10 DEF PlayerProbe, ReplayStep
  <2> QED
    BY <1>0, <1>10, <2>1, PlayerAfters, StepAfters, PhaseRepeats
<1>11. CASE UNCHANGED vars
  BY <1>11, StutterRepeats
<1> QED
  BY <1>1, <1>2, <1>3, <1>4, <1>5, <1>6, <1>7, <1>8, <1>9, <1>10, <1>11 DEF Next

LEMMA InitRepeats == Init => RepeatInv
<1>1. Init => RunningInv
  BY DEF Init, RunningInv
<1> QED
  BY <1>1, InitTypeInv, InitHears, InitAfters DEF RepeatInv

(* A replay of a recording under the program that made it comes out as the *)
(* recording did, and asks for nothing that was not recorded, whatever     *)
(* models and sandboxes answered and however the branches interleave in    *)
(* the run and in the replay (Recorder, Player, Compare).                  *)
THEOREM ReplaysAgree == Spec => []ReplayReproduces
<1>1. RepeatInv => ReplayReproduces
  BY DEF RepeatInv, AfterInv, Kept, Fit, Replays, ReplayReproduces
<1> QED
  BY InitRepeats, NextRepeats, <1>1, PTL DEF Spec

-----------------------------------------------------------------------------
(* The diff (PolicyDiff).                                                  *)

(* What a version makes of an event, and the comparison of two of them.    *)
Made(prog, i) == CHOOSE r \in Outcomes(prog, Events[i], Bare) : TRUE
Told(prog, i) == ~ConflictNamed(Made(prog, i).error)
Explained(r)  == <<r.trace, [k \in CeeKeys |-> Json(r.output[k])]>>

Decides(prog, other, i) == Decision(Made(prog, i)) # Decision(Made(other, i))
Explains(prog, other, i) ==
  /\ Decision(Made(prog, i)) = Decision(Made(other, i))
  /\ Explained(Made(prog, i)) # Explained(Made(other, i))

(* The end of a join that failed on several fields.                        *)
Clashed(r) == \E k \in Keys : r.error = <<Parallel, <<"conflict", k>>>>

LEMMA ClashedIsNamed ==
  ASSUME NEW r, Clashed(r)
  PROVE  ConflictNamed(r.error) /\ r.error # None
  BY ConflictAssumption DEF Clashed, ConflictNamed

(* One frame comes out of a join, or one for each field in conflict.       *)
LEMMA JoinEnds ==
  ASSUME NEW main, NEW ends, {"end", "why"} \subseteq DOMAIN main
  PROVE  \/ \E one : Joins(main, ends) = {one}
         \/ /\ \E one : one \in Joins(main, ends)
            /\ \A one \in Joins(main, ends) : \E k \in Keys :
                 one.end = "failed" /\ one.why = <<Parallel, <<"conflict", k>>>>
<1> DEFINE failed == FailedIn(ends)
           clash  == Clashes(main, ends)
           after  == Joined(main, ends)
<1>1. DOMAIN after = DOMAIN main /\ clash \subseteq Keys
  BY DEF Joined, Clashes
<1>2. Joins(main, ends) =
        IF failed # {} THEN {End(after, "failed", <<Parallel, <<"branches", failed>>>>)}
        ELSE IF clash # {} THEN {End(after, "failed", <<Parallel, <<"conflict", k>>>>) : k \in clash}
        ELSE {after}
  BY JoinIs
<1> HIDE DEF after, clash, failed
<1>3. \A k : LET one == End(after, "failed", <<Parallel, <<"conflict", k>>>>)
            IN one.end = "failed" /\ one.why = <<Parallel, <<"conflict", k>>>>
  BY <1>1 DEF End
<1>4. CASE clash # {} /\ Joins(main, ends) =
             {End(after, "failed", <<Parallel, <<"conflict", k>>>>) : k \in clash}
  <2>1. \A one \in Joins(main, ends) : \E k \in Keys :
          one.end = "failed" /\ one.why = <<Parallel, <<"conflict", k>>>>
    BY <1>1, <1>3, <1>4
  <2>2. \E one : one \in Joins(main, ends)
    BY <1>4
  <2> QED
    BY <2>1, <2>2
<1> QED
  BY <1>2, <1>4, Zenon

(* A version has one end, or ends that all name a conflict.                *)
LEMMA OneEnd ==
  ASSUME NEW prog, NEW c, NEW host
  PROVE  \/ \E r : Outcomes(prog, c, host) = {r}
         \/ /\ \E r : r \in Outcomes(prog, c, host)
            /\ \A r \in Outcomes(prog, c, host) : Clashed(r)
<1> DEFINE inBranch == [host EXCEPT !.store = FALSE]
           frames == Start(prog, c)
           ends == [t \in DOMAIN prog.branches |-> Drain(frames[t], inBranch)]
           mains == IF prog.branches = <<>> THEN {frames[0]} ELSE Joins(frames[0], ends)
<1>1. Outcomes(prog, c, host) = {Result(Drain(main, host)) : main \in mains}
  BY DEF Outcomes
<1>2. \/ \E main : mains = {main}
      \/ /\ \E main : main \in mains
         /\ \A main \in mains : \E k \in Keys :
              /\ main.end = "failed" /\ main.why = <<Parallel, <<"conflict", k>>>>
  <2>1. CASE prog.branches = <<>>
    BY <2>1
  <2>2. CASE prog.branches # <<>>
    <3> PICK main : main = frames[0]
      OBVIOUS
    <3>1. 0 \in 0 .. Len(prog.branches)
      OBVIOUS
    <3>2. {"end", "why"} \subseteq DOMAIN main
      BY <2>2, <3>1 DEF Start, Frame
    <3> HIDE DEF frames, ends
    <3>3. mains = Joins(main, ends)
      BY <2>2
    <3> QED
      BY <3>2, <3>3, JoinEnds
  <2> QED
    BY <2>1, <2>2
<1> HIDE DEF mains
<1>3. ASSUME NEW main \in mains, NEW k \in Keys,
             main.end = "failed", main.why = <<Parallel, <<"conflict", k>>>>
      PROVE  Clashed(Result(Drain(main, host)))
  <2>1. ~Walking(main)
    BY <1>3, NoneAssumption DEF Walking
  <2>2. Drain(main, host) = main
    BY <2>1 DEF Drain
  <2>3. Result(main).error = main.why
    BY <1>3 DEF Result
  <2> QED
    BY <1>3, <2>2, <2>3 DEF Clashed
<1> QED
  BY <1>1, <1>2, <1>3

-----------------------------------------------------------------------------
(* What differs, and what it is counted as.                                *)
LEMMA Differs ==
  ASSUME NEW b, NEW a
  PROVE  /\ <<"trace">> \in Differences(b, a) <=> b.trace # a.trace
         /\ <<"suspended">> \in Differences(b, a) <=> b.suspended # a.suspended
         /\ <<"failed">> \in Differences(b, a) \/ <<"error">> \in Differences(b, a)
              <=> b.error # a.error
         /\ \A k \in Keys : <<"output", k>> \in Differences(b, a)
              <=> Json(b.output[k]) # Json(a.output[k])
         /\ Differences(b, a) \subseteq {<<"trace">>, <<"suspended">>, <<"failed">>, <<"error">>}
              \cup {<<"output", k>> : k \in Keys}
<1>1. /\ \A x, y \in {"trace", "suspended", "failed", "error"} : <<x>> = <<y>> => x = y
      /\ \A x, k : <<x>> # <<"output", k>>
      /\ \A k, l : <<"output", k>> = <<"output", l>> => k = l
  OBVIOUS
<1>2. "trace" # "suspended" /\ "trace" # "failed" /\ "trace" # "error"
      /\ "suspended" # "failed" /\ "suspended" # "error" /\ "failed" # "error"
  OBVIOUS
<1> QED
  BY <1>1, <1>2 DEF Differences, SameValue

LEMMA SameDecision ==
  ASSUME NEW b, NEW a
  PROVE  Decision(b) = Decision(a)
           <=> /\ b.suspended = a.suspended /\ b.error = a.error
               /\ \A f \in Fields : Json(b.output[f]) = Json(a.output[f])
<1>1. ASSUME Decision(b) = Decision(a)
      PROVE  /\ b.suspended = a.suspended /\ b.error = a.error
             /\ \A f \in Fields : Json(b.output[f]) = Json(a.output[f])
  <2>1. /\ Decision(b).suspended = Decision(a).suspended
        /\ Decision(b).error = Decision(a).error
        /\ \A f \in Fields : Decision(b).output[f] = Decision(a).output[f]
    BY <1>1
  <2> QED
    BY <2>1 DEF Decision
<1> QED
  BY <1>1, Zenon DEF Decision

LEMMA SameExplanation ==
  ASSUME NEW b, NEW a
  PROVE  Explained(b) = Explained(a)
           <=> b.trace = a.trace /\ \A k \in CeeKeys : Json(b.output[k]) = Json(a.output[k])
<1> PICK eb, ea : /\ eb = [k \in CeeKeys |-> Json(b.output[k])]
                  /\ ea = [k \in CeeKeys |-> Json(a.output[k])]
  OBVIOUS
<1>1. eb = ea <=> \A k \in CeeKeys : Json(b.output[k]) = Json(a.output[k])
  OBVIOUS
<1>2. Explained(b) = <<b.trace, eb>> /\ Explained(a) = <<a.trace, ea>>
  BY DEF Explained
<1> QED
  BY <1>1, <1>2

LEMMA Classified ==
  ASSUME NEW b, NEW a, NEW D, D = Differences(b, a)
  PROVE  /\ D # {} /\ Classify(D) = "outcome" <=> Decision(b) # Decision(a)
         /\ D # {} /\ Classify(D) = "explanation"
              <=> Decision(b) = Decision(a) /\ Explained(b) # Explained(a)
<1>1. Keys = Fields \cup CeeKeys /\ Fields \cap CeeKeys = {}
  BY DiffAssumption DEF Keys
<1>2. Classify(D) \in {"outcome", "explanation"} /\ "outcome" # "explanation"
  BY DEF Classify
<1>3. Classify(D) = "outcome" <=> ~(D \subseteq {<<"trace">>} \cup {<<"output", k>> : k \in CeeKeys})
  BY DEF Classify
<1> PICK spared : spared = {<<"trace">>} \cup {<<"output", k>> : k \in CeeKeys}
  OBVIOUS
<1>4. /\ <<"suspended">> \notin spared /\ <<"failed">> \notin spared /\ <<"error">> \notin spared
      /\ <<"trace">> \in spared /\ \A k \in Keys : <<"output", k>> \in spared <=> k \in CeeKeys
  <2>1. \A x, k : <<x>> # <<"output", k>>
    OBVIOUS
  <2>2. \A k, l : <<"output", k>> = <<"output", l>> => k = l
    OBVIOUS
  <2>3. <<"suspended">> # <<"trace">> /\ <<"failed">> # <<"trace">> /\ <<"error">> # <<"trace">>
    OBVIOUS
  <2> QED
    BY <2>1, <2>2, <2>3
<1>5. /\ <<"trace">> \in D <=> b.trace # a.trace
      /\ <<"suspended">> \in D <=> b.suspended # a.suspended
      /\ <<"failed">> \in D \/ <<"error">> \in D <=> b.error # a.error
      /\ \A k \in Keys : <<"output", k>> \in D <=> Json(b.output[k]) # Json(a.output[k])
      /\ D \subseteq {<<"trace">>, <<"suspended">>, <<"failed">>, <<"error">>}
              \cup {<<"output", k>> : k \in Keys}
  BY Differs
<1>6. D \subseteq spared
        <=> /\ b.suspended = a.suspended /\ b.error = a.error
            /\ \A f \in Fields : Json(b.output[f]) = Json(a.output[f])
  <2>1. ASSUME D \subseteq spared
        PROVE  /\ b.suspended = a.suspended /\ b.error = a.error
               /\ \A f \in Fields : Json(b.output[f]) = Json(a.output[f])
    BY <1>1, <1>4, <1>5, <2>1
  <2>2. ASSUME b.suspended = a.suspended, b.error = a.error,
               \A f \in Fields : Json(b.output[f]) = Json(a.output[f]), NEW d \in D
        PROVE  d \in spared
    <3>1. d # <<"suspended">> /\ d # <<"failed">> /\ d # <<"error">>
      BY <1>5, <2>2
    <3>2. CASE d = <<"trace">>
      BY <1>4, <3>2
    <3>3. ASSUME NEW k \in Keys, d = <<"output", k>> PROVE d \in spared
      BY <1>1, <1>4, <1>5, <2>2, <3>3
    <3> QED
      BY <1>5, <3>1, <3>2, <3>3
  <2> QED
    BY <2>1, <2>2
<1>7. D = {} <=> D \subseteq spared /\ b.trace = a.trace
                   /\ \A k \in CeeKeys : Json(b.output[k]) = Json(a.output[k])
  <2>1. ASSUME D \subseteq spared, b.trace = a.trace, NEW d \in D,
               \A k \in CeeKeys : Json(b.output[k]) = Json(a.output[k])
        PROVE  FALSE
    <3>1. d # <<"trace">>
      BY <1>5, <2>1
    <3>2. PICK k \in CeeKeys : d = <<"output", k>>
      BY <2>1, <3>1
    <3> QED
      BY <1>1, <1>5, <2>1, <3>2
  <2>2. ASSUME D = {}
        PROVE  b.trace = a.trace /\ \A k \in CeeKeys : Json(b.output[k]) = Json(a.output[k])
    BY <1>1, <1>5, <2>2
  <2> QED
    BY <2>1, <2>2
<1> QED
  BY <1>2, <1>3, <1>6, <1>7, SameDecision, SameExplanation

-----------------------------------------------------------------------------
(* The report, event by event.                                             *)

Erring(prog, n) == {i \in 1 .. n : Made(prog, i).error # None}

DiffInv ==
  Diffing =>
    /\ DOMAIN diff = {"before", "after", "done", "report"} /\ diff.done \in Nat
    /\ DOMAIN diff.report = {"events", "outcomes", "explanations", "beforeErrors", "afterErrors"}
    /\ diff.report.outcomes \subseteq 1 .. diff.done
    /\ diff.report.explanations \subseteq 1 .. diff.done
    /\ \A i \in 1 .. diff.done : Told(diff.before, i) /\ Told(diff.after, i) =>
         /\ i \in diff.report.outcomes <=> Decides(diff.before, diff.after, i)
         /\ i \in diff.report.explanations <=> Explains(diff.before, diff.after, i)
    /\ diff.report.beforeErrors = Cardinality(Erring(diff.before, diff.done))
    /\ diff.report.afterErrors = Cardinality(Erring(diff.after, diff.done))

LEMMA DiffInvCounts == DiffInv => FlipsAreDecisions
  BY Zenon DEF DiffInv, FlipsAreDecisions, Told, Decides, Explains, Explained, Made, Erring

LEMMA DiffBegins ==
  ASSUME Diff PROVE DiffInv'
<1>1. PICK after : diff' = [before |-> program, after |-> after, done |-> 0, report |-> NoReport]
  BY DEF Diff
<1>2. /\ DOMAIN diff' = {"before", "after", "done", "report"}
      /\ DOMAIN diff'.report = {"events", "outcomes", "explanations", "beforeErrors", "afterErrors"}
      /\ diff'.done = 0 /\ diff'.report.outcomes = {} /\ diff'.report.explanations = {}
      /\ diff'.report.beforeErrors = 0 /\ diff'.report.afterErrors = 0
  BY <1>1 DEF NoReport
<1>3. Erring(diff.before, diff.done)' = {} /\ Erring(diff.after, diff.done)' = {}
  BY <1>2 DEF Erring
<1> QED
  BY <1>2, <1>3, FS_EmptySet DEF DiffInv

(* What was made of an event is what any of its ends tells.                *)
LEMMA MadeIs ==
  ASSUME NEW prog, NEW i, NEW r \in Outcomes(prog, Events[i], Bare)
  PROVE  /\ Told(prog, i) => r = Made(prog, i)
         /\ r.error # None <=> Made(prog, i).error # None
<1>1. CASE \E one : Outcomes(prog, Events[i], Bare) = {one}
  BY <1>1 DEF Made
<1>2. CASE \A one \in Outcomes(prog, Events[i], Bare) : Clashed(one)
  <2>1. Clashed(Made(prog, i)) /\ Clashed(r)
    BY <1>2 DEF Made
  <2> QED
    BY <2>1, ClashedIsNamed DEF Told
<1> QED
  BY <1>1, <1>2, OneEnd

LEMMA SoFarFinite ==
  ASSUME NEW n \in Nat PROVE IsFiniteSet(1 .. n)
<1>1. 1 \in Int /\ n \in Int
  OBVIOUS
<1> QED
  BY <1>1, FS_Interval

(* One event more that errs, or does not.                                  *)
LEMMA ErringGrows ==
  ASSUME NEW prog, NEW n \in Nat, NEW i, i = n + 1, NEW r \in Outcomes(prog, Events[i], Bare)
  PROVE  Cardinality(Erring(prog, i))
           = Cardinality(Erring(prog, n)) + (IF r.error # None THEN 1 ELSE 0)
<1> PICK was, is : was = Erring(prog, n) /\ is = Erring(prog, i)
  OBVIOUS
<1>1. 1 .. i = (1 .. n) \cup {i} /\ i \notin 1 .. n
  OBVIOUS
<1>2. is = IF r.error # None THEN was \cup {i} ELSE was
  <2>1. r.error # None <=> Made(prog, i).error # None
    BY MadeIs
  <2> QED
    BY <1>1, <2>1 DEF Erring
<1>3. IsFiniteSet(was) /\ i \notin was
  <2>1. IsFiniteSet(1 .. n)
    BY SoFarFinite
  <2>2. was \subseteq 1 .. n
    BY DEF Erring
  <2> QED
    BY <1>1, <2>1, <2>2, FS_Subset
<1>4. Cardinality(was \cup {i}) = Cardinality(was) + 1 /\ Cardinality(was) \in Nat
  BY <1>3, FS_AddElement, FS_CardinalityType
<1>5. Cardinality(is) = Cardinality(was) + (IF r.error # None THEN 1 ELSE 0)
  <2>1. CASE r.error # None
    <3>1. is = was \cup {i}
      BY <1>2, <2>1
    <3> QED
      BY <1>4, <2>1, <3>1
  <2>2. CASE ~(r.error # None)
    <3>1. is = was
      BY <1>2, <2>2
    <3> QED
      BY <1>4, <2>2, <3>1
  <2> QED
    BY <2>1, <2>2
<1> QED
  BY <1>5, Zenon

LEMMA EventCounts ==
  ASSUME DiffInv, DiffEvent PROVE DiffInv'
<1>1. diff.done \in Nat /\ Diffing
  BY DEF DiffInv, DiffEvent
<1> PICK i \in Nat : i = diff.done + 1
  BY <1>1
<1>2. PICK before \in Outcomes(diff.before, Events[diff.done + 1], Bare),
           after \in Outcomes(diff.after, Events[diff.done + 1], Bare) :
        LET D == Differences(before, after)
            class == IF D = {} THEN "same" ELSE Classify(D)
        IN diff' = [diff EXCEPT
             !.done = diff.done + 1,
             !.report.outcomes = @ \cup {k \in {diff.done + 1} : class = "outcome"},
             !.report.explanations = @ \cup {k \in {diff.done + 1} : class = "explanation"},
             !.report.beforeErrors = @ + (IF before.error # None THEN 1 ELSE 0),
             !.report.afterErrors = @ + (IF after.error # None THEN 1 ELSE 0)]
  BY Zenon DEF DiffEvent
<1> PICK D : D = Differences(before, after)
  OBVIOUS
<1> PICK class : class = IF D = {} THEN "same" ELSE Classify(D)
  BY Zenon
<1>3. /\ diff'.done = i /\ diff'.before = diff.before /\ diff'.after = diff.after
      /\ DOMAIN diff' = DOMAIN diff /\ DOMAIN diff'.report = DOMAIN diff.report
      /\ diff'.report.outcomes = diff.report.outcomes \cup {k \in {i} : class = "outcome"}
      /\ diff'.report.explanations
           = diff.report.explanations \cup {k \in {i} : class = "explanation"}
      /\ diff'.report.beforeErrors
           = diff.report.beforeErrors + (IF before.error # None THEN 1 ELSE 0)
      /\ diff'.report.afterErrors
           = diff.report.afterErrors + (IF after.error # None THEN 1 ELSE 0)
  BY <1>1, <1>2, ZenonT(60) DEF DiffInv
<1>4. 1 .. i = (1 .. diff.done) \cup {i} /\ i \notin 1 .. diff.done
  BY <1>1
<1>5. class = "outcome" <=> Decision(before) # Decision(after)
  BY Classified
<1>6. class = "explanation"
        <=> Decision(before) = Decision(after) /\ Explained(before) # Explained(after)
  BY Classified
<1>7. /\ Told(diff.before, i) => before = Made(diff.before, i)
      /\ Told(diff.after, i) => after = Made(diff.after, i)
  BY MadeIs
<1>8. ASSUME NEW n \in 1 .. i, Told(diff.before, n), Told(diff.after, n)
      PROVE  /\ n \in diff'.report.outcomes <=> Decides(diff.before, diff.after, n)
             /\ n \in diff'.report.explanations <=> Explains(diff.before, diff.after, n)
  <2>1. CASE n = i
    <3>1. i \notin diff.report.outcomes /\ i \notin diff.report.explanations
      BY <1>1, <1>4 DEF DiffInv
    <3>2. before = Made(diff.before, n) /\ after = Made(diff.after, n)
      BY <1>7, <1>8, <2>1
    <3>3. /\ n \in diff'.report.outcomes <=> class = "outcome"
          /\ n \in diff'.report.explanations <=> class = "explanation"
      BY <1>3, <2>1, <3>1
    <3> QED
      BY <1>5, <1>6, <3>2, <3>3 DEF Decides, Explains
  <2>2. CASE n \in 1 .. diff.done
    <3>1. n # i
      BY <1>4, <2>2
    <3>2. /\ n \in diff'.report.outcomes <=> n \in diff.report.outcomes
          /\ n \in diff'.report.explanations <=> n \in diff.report.explanations
      BY <1>3, <3>1
    <3> QED
      BY <1>1, <1>8, <2>2, <3>2 DEF DiffInv
  <2> QED
    BY <1>4, <2>1, <2>2
<1>9. /\ diff'.report.beforeErrors = Cardinality(Erring(diff.before, diff.done)')
      /\ diff'.report.afterErrors = Cardinality(Erring(diff.after, diff.done)')
  <2>1. /\ Erring(diff.before, diff.done)' = Erring(diff.before, i)
        /\ Erring(diff.after, diff.done)' = Erring(diff.after, i)
    BY <1>3 DEF Erring, Made
  <2>2. /\ Cardinality(Erring(diff.before, i))
             = Cardinality(Erring(diff.before, diff.done)) + (IF before.error # None THEN 1 ELSE 0)
        /\ Cardinality(Erring(diff.after, i))
             = Cardinality(Erring(diff.after, diff.done)) + (IF after.error # None THEN 1 ELSE 0)
    BY <1>1, <1>2, ErringGrows
  <2>3. /\ diff.report.beforeErrors = Cardinality(Erring(diff.before, diff.done))
        /\ diff.report.afterErrors = Cardinality(Erring(diff.after, diff.done))
    BY <1>1 DEF DiffInv
  <2> QED
    BY <1>3, <2>1, <2>2, <2>3
<1>10. /\ diff'.report.outcomes \subseteq 1 .. i
       /\ diff'.report.explanations \subseteq 1 .. i
  BY <1>1, <1>3, <1>4 DEF DiffInv
<1>11. \A n : /\ Told(diff.before, n)' = Told(diff'.before, n)
             /\ Told(diff.after, n)' = Told(diff'.after, n)
             /\ Decides(diff.before, diff.after, n)' = Decides(diff'.before, diff'.after, n)
             /\ Explains(diff.before, diff.after, n)' = Explains(diff'.before, diff'.after, n)
  BY DEF Told, Decides, Explains, Made
<1> QED
  BY <1>1, <1>3, <1>8, <1>9, <1>10, <1>11 DEF DiffInv

(* Whatever a version makes of past events, the report counts as changed   *)
(* the decisions that changed, as explanations those of which only the way *)
(* differs, and as errors the runs that err (policydiff.Compare).          *)
THEOREM ReportIsTrue == DiffSpec => []FlipsAreDecisions
<1>1. DiffInit => DiffInv
  BY DEF DiffInit, DiffInv, Diffing
<1>2. DiffInv /\ [DiffNext]_diffVars => DiffInv'
  <2> SUFFICES ASSUME DiffInv, [DiffNext]_diffVars PROVE DiffInv'
    OBVIOUS
  <2>1. CASE UNCHANGED diff
    BY <2>1 DEF DiffInv, Erring, Diffing, Told, Decides, Explains, Made
  <2>2. CASE Diff
    BY <2>2, DiffBegins
  <2>3. CASE DiffEvent
    BY <2>3, EventCounts
  <2> QED
    BY <2>1, <2>2, <2>3 DEF DiffNext, diffVars
<1> QED
  BY <1>1, <1>2, DiffInvCounts, PTL DEF DiffSpec

(* Nothing a diff does moves a run, so what is proved of Replay holds of a *)
(* run beside a diff.                                                      *)
LEMMA DiffKeepsSpec == DiffSpec => Spec
<1>1. DiffInit => Init
  BY DEF DiffInit
<1>2. [DiffNext]_diffVars => [Next]_vars
  BY Zenon DEF DiffNext, Diff, DiffEvent, diffVars
<1> QED
  BY <1>1, <1>2, PTL DEF DiffSpec, Spec
=============================================================================

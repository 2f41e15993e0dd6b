------------------------------- MODULE Replay -------------------------------
(***************************************************************************)
(* replay: a run of a program is recorded - the extractions before it, the *)
(* verdicts of its probes, its result - and a program, the same or a       *)
(* changed one, is run again with a Player that answers from the           *)
(* recording.  Compare reports what came out differently.                  *)
(*                                                                         *)
(* A program is a workflow of leaf steps                                   *)
(*   [branches, entry, steps : [id -> step]]                               *)
(*   step: [probe, action, with, onSuccess, fallback]                      *)
(* which begins, when branches # <<>>, with a parallel step: each branch,  *)
(* a program without branches, runs in a goroutine of its own, so that     *)
(* their probes are asked, answered and recorded in any order.             *)
(***************************************************************************)
EXTENDS Intake
LOCAL INSTANCE SequencesExt

CONSTANTS
  Programs,     \* versions of one program
  Contexts,     \* what a caller starts from
  Wanted,       \* schemas the caller extracts, in order
  ModelReplies, \* exchanges with the model
  Rehearsals    \* exchanges with the sandboxes: ["http", "docker" -> set]

(* What a model said was JSON: writing it as JSON changes nothing.         *)
ASSUME ReplyAssumption ==
  \A x \in ModelReplies : \A ref \in DOMAIN Schemas :
    LET payload == Extract(ref, Extractor(x)).payload
    IN payload # None /\ JsonContext(payload) = payload

(* What is run is valid: each reference leads to a step.  It leaves the    *)
(* injector's marks alone, as the handbook's 1.1.2 asks, and compares no   *)
(* lists, on which == panics.                                              *)
Leads(steps, id) == id = None \/ id \in DOMAIN steps
LeavesMarks(s) ==
  /\ s.action = "std.set" /\ ModelDerivedKey \in DOMAIN s.with.fields =>
       s.with.fields[ModelDerivedKey] = None
  /\ s.action = "std.rule_check" => s.with.result_field # ModelDerivedKey
Scalar(value) == value = None \/ value[1] \notin {"strings", "array"}
ComparesScalars(s) ==
  s.action \in {"std.require", "std.rule_check"} =>
    /\ s.with.field \in Keys
    /\ s.with.op \in {"eq", "neq"} => Scalar(s.with.value)
    /\ s.with.op = "in" /\ ~Scalar(s.with.value) => \A v \in s.with.value[2] : Scalar(v)
Sound(flow) ==
  /\ flow.entry \in DOMAIN flow.steps
  /\ \A id \in DOMAIN flow.steps :
       /\ Leads(flow.steps, flow.steps[id].onSuccess)
       /\ Leads(flow.steps, flow.steps[id].fallback)
       /\ Configured(flow.steps[id].action, flow.steps[id].with) =>
            LeavesMarks(flow.steps[id]) /\ ComparesScalars(flow.steps[id])

ASSUME ProgramAssumption ==
  \A p \in Programs : /\ p.branches \in Seq(ToSet(p.branches))
                      /\ Sound(p) /\ \A flow \in ToSet(p.branches) : Sound(flow)
ASSUME ContextAssumption ==
  \A c \in Contexts : /\ DOMAIN c = Keys /\ Provenance(c) \subseteq Fields
                      /\ \A k \in Keys : Json(c[k]) = None => c[k] = None
ASSUME WantedAssumption == Wanted \in Seq(ToSet(Wanted))
ASSUME NoneAssumption ==
  None \notin {"done", "failed", "suspended", "status", "undecodable"}

Parallel == "parallel"   \* the step id of the fan-out

(* An error that names a conflict is not the absence of one.               *)
ASSUME ConflictAssumption == \A k \in Keys : <<Parallel, <<"conflict", k>>>> # None

VARIABLES
  phase,      \* "intake", "running", "recorded", "reintake", "replaying", "compared"
  program,    \* what runs
  base,       \* the context the caller started from
  ctx,        \* its context so far
  wanted,     \* schemas still to extract
  threads,    \* frames: 0 the run, then its branches
  recorder,   \* [verdicts, extractions]
  recording,  \* None, or [program, input, verdicts, extractions, result]
  player,     \* [verdicts, extractions : [ref -> queue], unmatched]
  result,     \* of the replay, or None
  guessed     \* history: fields whose value came from the model

vars == <<phase, program, base, ctx, wanted, threads, recorder, recording,
          player, result, guessed>>

-----------------------------------------------------------------------------
(* The loop of runFrom over one program, as far as data goes.              *)

(* joined is what a fan-out traced before the frame's own trace; passed is *)
(* history: the places of that trace whose command a sandbox let pass.     *)
Frame(prog, c) == [steps |-> prog.steps, at |-> prog.entry, ctx |-> c, joined |-> <<>>,
                   trace |-> <<>>, verdict |-> None, passed |-> {}, joins |-> FALSE,
                   end |-> None, why |-> None]
Walking(fr) == fr.end = None
End(fr, how, why) == [fr EXCEPT !.end = how, !.why = why]

OnFailure(fr, why) ==
  LET id == Last(fr.trace)
      to == fr.steps[id].fallback
  IN IF to = None THEN End(fr, "failed", <<id, why>>)
     ELSE [fr EXCEPT !.at = to, !.ctx[FailureReasonKey] = <<"string", why>>,
                     !.ctx[FailedStepKey] = <<"string", id>>]

(* One step, whose probe, if any, has answered; a host has a store and a   *)
(* sandbox, or not, and a branch may not suspend whatever it has.          *)
Advance(fr, host) ==
  LET s  == fr.steps[fr.at]
      at == [fr EXCEPT !.trace = Append(@, fr.at), !.verdict = None]
      a  == Act(s.action, s.with, fr.ctx)
      to == [at EXCEPT !.at = s.onSuccess, !.ctx = Overlay(@, a.output)]
      refused == fr.verdict # None
                   /\ (fr.verdict.err # None \/ ~fr.verdict.healthy)
  IN IF s.probe # None /\ ~host.sandbox
       THEN End(at, "failed", <<fr.at, <<"no sandbox">>>>)
     ELSE IF refused
       THEN OnFailure(at, IF fr.verdict.err # None THEN fr.verdict.err
                                                   ELSE fr.verdict.mode)
     ELSE CASE a.kind = "ok" ->
                 IF s.onSuccess = None THEN End(to, "done", None) ELSE to
            [] a.kind = "error" -> OnFailure(at, a.why)
            [] a.kind = "suspend" ->
                 IF host.store THEN End(at, "suspended", None)
                 ELSE End(at, "failed", <<fr.at, <<"cannot suspend">>>>)

(* What Run returns: nothing but the error when it fails.                  *)
Result(fr) ==
  IF fr.end = "failed"
    THEN [trace |-> <<>>, output |-> NoContext, suspended |-> FALSE, error |-> fr.why]
    ELSE [trace |-> fr.joined \o fr.trace, output |-> fr.ctx, suspended |-> fr.end = "suspended",
          error |-> None]

(* The join of the branches; of several fields they write differently, the *)
(* error names one.                                                        *)
Joins(main, ends) ==
  LET wrote(i, k) == ends[i].ctx[k] # None /\ ends[i].ctx[k] # main.ctx[k]
      failed == {<<i, ends[i].why>> : i \in {i \in DOMAIN ends : ends[i].end # "done"}}
      clash == {k \in Keys : \E i, j \in DOMAIN ends : /\ wrote(i, k) /\ wrote(j, k)
                                                       /\ ends[i].ctx[k] # ends[j].ctx[k]}
      joined == [k \in Keys |-> IF \E i \in DOMAIN ends : wrote(i, k)
                                  THEN ends[CHOOSE i \in DOMAIN ends : wrote(i, k)].ctx[k]
                                  ELSE main.ctx[k]]
      after == [main EXCEPT !.joins = FALSE, !.ctx = joined,
                            !.joined = @ \o FlattenSeq([i \in DOMAIN ends |-> ends[i].trace])]
      Fails(why) == End(after, "failed", <<Parallel, why>>)
  IN IF failed # {} THEN {Fails(<<"branches", failed>>)}
     ELSE IF clash # {} THEN {Fails(<<"conflict", k>>) : k \in clash}
     ELSE {after}

Start(prog, c) ==
  LET main == Frame(prog, c)
  IN [t \in 0 .. Len(prog.branches) |->
        IF t = 0
          THEN IF prog.branches = <<>> THEN main
               ELSE [main EXCEPT !.joined = <<Parallel>>, !.joins = TRUE]
          ELSE Frame(prog.branches[t], c)]

-----------------------------------------------------------------------------
(* Load, with no hooks: every action must be a standard one, configured.   *)
Builds(prog) ==
  LET ok(p) == \A s \in DOMAIN p.steps : Configured(p.steps[s].action, p.steps[s].with)
  IN ok(prog) /\ \A i \in DOMAIN prog.branches : ok(prog.branches[i])

(* Recording.                                                              *)

Init ==
  /\ phase = "intake" /\ program \in {p \in Programs : Builds(p)} /\ base \in Contexts /\ ctx = base
  /\ wanted = Wanted /\ threads = <<>> /\ guessed = {}
  /\ recorder = [verdicts |-> <<>>, extractions |-> <<>>]
  /\ recording = None /\ result = None
  /\ player = [verdicts |-> <<>>, extractions |-> <<>>, unmatched |-> <<>>]

(* The host of the engine: it adds what was read to the context and goes   *)
(* on without what was not.  A host that gives up then makes no run.       *)
AddExtraction(r) ==
  /\ ctx' = IF r.success THEN ContextFrom(ctx, r) ELSE ctx
  /\ guessed' = IF r.success THEN guessed \cup r.derived ELSE guessed
  /\ wanted' = Tail(wanted)

(* Injector.Extract with llmhttp, and the recorder as its observer.        *)
ExtractLive ==
  /\ phase = "intake" /\ wanted # <<>>
  /\ \E x \in ModelReplies :
       LET r == Extract(Head(wanted), Extractor(x))
       IN /\ AddExtraction(r)
          /\ recorder' = [recorder EXCEPT !.extractions =
                            Append(@, [ref |-> Head(wanted), success |-> r.success,
                                       payload |-> r.payload, why |-> r.why])]
  /\ UNCHANGED <<phase, program, base, threads, recording, player, result>>

(* The context is parked as JSON and read back between two extractions.    *)
Persist ==
  /\ phase \in {"intake", "reintake"} /\ Len(wanted) = Len(Wanted) - 1
  /\ ctx' = JsonContext(ctx)
  /\ UNCHANGED <<phase, program, base, wanted, threads, recorder, recording, player,
                 result, guessed>>

(* The host calls Engine.Run.                                              *)
Begin ==
  /\ wanted = <<>>
  /\ \/ phase = "intake" /\ phase' = "running"
     \/ phase = "reintake" /\ phase' = "replaying"
  /\ threads' = Start(program, ctx)
  /\ UNCHANGED <<program, base, ctx, wanted, recorder, recording, player, result, guessed>>

ProbeRef(t)   == threads[t].steps[threads[t].at].probe
Runs(t)       == Walking(threads[t]) /\ ~threads[t].joins
NeedsProbe(t) == Runs(t) /\ ProbeRef(t) # None /\ threads[t].verdict = None
Equipped(t)   == [store |-> t = 0, sandbox |-> TRUE]

(* The sandbox is asked, with the context so far, and answers; the         *)
(* recorder has not yet appended it.                                       *)
ProbeBy(kind, command, x) ==
  IF kind = "http" THEN HttpProbe(command, x) ELSE DockerProbe(command, x)
(* A container ran the command to 0; a service answered 200, with JSON,    *)
(* and gave no other exit code than 0: perhaps it gave none.               *)
LetPass(kind, x) ==
  IF kind = "http" THEN /\ x.fails = None /\ x.status = 200 /\ x.body # None
                        /\ "exit_code" \in DOMAIN x.body => x.body.exit_code = 0
                   ELSE ~x.err /\ x.exit = 0

Asked(fr, ref, kind, x) ==
  LET command == fr.ctx["probe_command"]
  IN [fr EXCEPT !.verdict = SandboxProbe(ref, ProbeBy(kind, command, x)),
                !.passed = @ \cup {n \in {Len(fr.trace) + 1} :
                                    HasCommand(command) /\ LetPass(kind, x)}]

InnerProbe(t) ==
  /\ phase = "running" /\ NeedsProbe(t)
  /\ LET ref == ProbeRef(t)
     IN \/ /\ ref \notin DOMAIN Probes
           /\ threads' = [threads EXCEPT ![t].verdict = SandboxProbe(ref, None)]
        \/ /\ ref \in DOMAIN Probes
           /\ \E x \in Rehearsals[Probes[ref]] :
                threads' = [threads EXCEPT ![t] = Asked(@, ref, Probes[ref], x)]
  /\ UNCHANGED <<phase, program, base, ctx, wanted, recorder, recording, player, result,
                 guessed>>

(* The engine goes on; a verdict it acts on has been appended first.       *)
Step(t) ==
  /\ phase = "running" /\ Runs(t) /\ ~NeedsProbe(t)
  /\ threads' = [threads EXCEPT ![t] = Advance(@, Equipped(t))]
  /\ recorder' = IF ProbeRef(t) = None THEN recorder
                 ELSE [recorder EXCEPT !.verdicts =
                         Append(@, [ref |-> ProbeRef(t), verdict |-> threads[t].verdict])]
  /\ UNCHANGED <<phase, program, base, ctx, wanted, recording, player, result, guessed>>

Join ==
  /\ phase \in {"running", "replaying"} /\ threads[0].joins
  /\ \A t \in DOMAIN threads \ {0} : ~Walking(threads[t])
  /\ \E main \in Joins(threads[0], [t \in 1 .. Len(program.branches) |-> threads[t]]) :
       threads' = [threads EXCEPT ![0] = main]
  /\ UNCHANGED <<phase, program, base, ctx, wanted, recorder, recording, player, result,
                 guessed>>

(* Recorder.Finish; the recording is kept as it is, or written as JSON and *)
(* read back.                                                              *)
Finish ==
  /\ phase = "running" /\ ~Walking(threads[0])
  /\ \E json \in BOOLEAN :
       LET As(c) == IF json THEN JsonContext(c) ELSE c
           got == Result(threads[0])
       IN /\ recording' =
               [program |-> program, input |-> base, verdicts |-> recorder.verdicts,
                extractions |-> [i \in DOMAIN recorder.extractions |->
                   [recorder.extractions[i] EXCEPT !.payload = As(@)]],
                result |-> [got EXCEPT !.output = As(@)]]
          /\ base' = As(base)
  /\ phase' = "recorded" /\ threads' = <<>>
  /\ UNCHANGED <<program, ctx, wanted, recorder, player, result, guessed>>

-----------------------------------------------------------------------------
(* Replaying.                                                              *)

(* What was recorded for each reference, in order.                         *)
Of(ref, records) ==
  LET kept[i \in 0 .. Len(records)] ==
        IF i = 0 THEN <<>>
        ELSE IF records[i].ref = ref THEN Append(kept[i - 1], records[i]) ELSE kept[i - 1]
  IN kept[Len(records)]
ByRef(records) ==
  [ref \in {records[i].ref : i \in DOMAIN records} |-> Of(ref, records)]

NewPlayer ==
  /\ phase = "recorded"
  /\ program' \in {p \in Programs : Builds(p)}
  /\ player' = [verdicts |-> ByRef(recording.verdicts),
                extractions |-> ByRef(recording.extractions), unmatched |-> <<>>]
  /\ ctx' = base /\ wanted' = Wanted /\ guessed' = {} /\ phase' = "reintake"
  /\ UNCHANGED <<base, threads, recorder, recording, result>>

(* Wrong: the first verdict of a reference answers every probe of it.      *)
RestFirst(queue) == queue

(* Wrong: the last verdict is dropped too.                                 *)
RestAll(queue) == Tail(queue)

(* The head answers and is dropped, unless it is the last: that repeats.   *)
Rest(queue) == IF Len(queue) > 1 THEN Tail(queue) ELSE queue

ExtractorFor ==
  /\ phase = "reintake" /\ wanted # <<>>
  /\ LET ref == Head(wanted)
         known == ref \in DOMAIN player.extractions
         head == Head(player.extractions[ref])
         r == IF ref \notin DOMAIN Schemas THEN Extract(ref, None)
              ELSE IF known /\ head.success THEN Extract(ref, head.payload)
                   ELSE Extract(ref, None)
     IN /\ AddExtraction(r)
        /\ player' = IF ref \notin DOMAIN Schemas THEN player
                     ELSE IF known THEN [player EXCEPT !.extractions[ref] = Rest(@)]
                          ELSE [player EXCEPT !.unmatched = Append(@, ref)]
  /\ UNCHANGED <<phase, program, base, threads, recorder, recording, result>>

(* Player.Probe: unhealthy, and counted, when nothing was recorded.        *)
Unrecorded == Verdict(FALSE, <<"no verdict recorded">>, None)

PlayerProbe(t) ==
  /\ phase = "replaying" /\ NeedsProbe(t)
  /\ LET ref == ProbeRef(t)
         known == ref \in DOMAIN player.verdicts
     IN /\ threads' = [threads EXCEPT ![t].verdict =
                         IF known THEN Head(player.verdicts[ref]).verdict ELSE Unrecorded]
        /\ player' = IF known THEN [player EXCEPT !.verdicts[ref] = Rest(@)]
                     ELSE [player EXCEPT !.unmatched = Append(@, ref)]
  /\ UNCHANGED <<phase, program, base, ctx, wanted, recorder, recording, result, guessed>>

ReplayStep(t) ==
  /\ phase = "replaying" /\ Runs(t) /\ ~NeedsProbe(t)
  /\ threads' = [threads EXCEPT ![t] = Advance(@, Equipped(t))]
  /\ UNCHANGED <<phase, program, base, ctx, wanted, recorder, recording, player, result,
                 guessed>>

Replayed ==
  /\ phase = "replaying" /\ ~Walking(threads[0])
  /\ result' = Result(threads[0]) /\ phase' = "compared"
  /\ UNCHANGED <<program, base, ctx, wanted, threads, recorder, recording, player, guessed>>

-----------------------------------------------------------------------------
(* Compare.  Values are compared by their JSON.                            *)

SameValue(a, b) == Json(a) = Json(b)

Differences(before, after) ==
  {f \in {<<"trace">>} : before.trace # after.trace}
  \cup {f \in {<<"suspended">>} : before.suspended # after.suspended}
  \cup {f \in {<<"failed">>} : (before.error # None) # (after.error # None)}
  \cup {f \in {<<"error">>} : /\ before.error # None /\ after.error # None
                              /\ before.error # after.error}
  \cup {<<"output", k>> : k \in {k \in Keys : ~SameValue(before.output[k], after.output[k])}}

-----------------------------------------------------------------------------
Next ==
  \/ ExtractLive \/ Persist \/ Begin \/ Join \/ Finish
  \/ NewPlayer \/ ExtractorFor \/ Replayed
  \/ \E t \in DOMAIN threads : InnerProbe(t) \/ Step(t) \/ PlayerProbe(t) \/ ReplayStep(t)

Spec == Init /\ [][Next]_vars

-----------------------------------------------------------------------------
TypeOK ==
  /\ phase \in {"intake", "running", "recorded", "reintake", "replaying", "compared"}
  /\ guessed \subseteq Fields
  /\ phase \notin {"intake", "running"} => /\ recording.verdicts = recorder.verdicts
                                          /\ recording.extractions = recorder.extractions
  /\ phase = "compared" => result = Result(threads[0])
  /\ \A t \in DOMAIN threads : ~Walking(threads[t]) \/ threads[t].joins
                                \/ threads[t].at \in DOMAIN threads[t].steps
  /\ \A ref \in DOMAIN player.verdicts : player.verdicts[ref] # <<>>
  /\ \A ref \in DOMAIN player.extractions : player.extractions[ref] # <<>>

ProbesOf(prog) == {prog.steps[s].probe : s \in DOMAIN prog.steps} \ {None}

(* Two branches of the recorded program probe one reference: a recording   *)
(* has their verdicts in the order they came.                              *)
SharesProbes(prog) ==
  \E i, j \in DOMAIN prog.branches :
    i # j /\ ProbesOf(prog.branches[i]) \cap ProbesOf(prog.branches[j]) # {}

ConflictNamed(error) ==
  error # None /\ error[1] = Parallel /\ error[2][1] = "conflict"

PrintsAlike(c) == \A k \in Keys : Text(c[k]) = Json(c[k])

(* A branch writes what the input has already, but for what JSON makes of  *)
(* it: whether that is a write depends on where the input has been.        *)
Restates(prog, c) ==
  \E i \in DOMAIN prog.branches : LET steps == prog.branches[i].steps IN
    \E id \in DOMAIN steps :
      /\ steps[id].action = "std.set"
      /\ \E k \in DOMAIN steps[id].with.fields \cap Keys :
           /\ steps[id].with.fields[k] # None
           /\ Json(steps[id].with.fields[k]) = Json(c[k]) /\ Json(c[k]) # c[k]

(* A run replayed from its recording under the program that made it comes  *)
(* out the same and asks for nothing that was not recorded: whatever the   *)
(* world answered, however its branches interleave then and now, and with  *)
(* the recording kept in memory or written as JSON (Recorder, Player and   *)
(* Compare together).  Not when branches share a probe, when the join      *)
(* failed on several fields, when a number of the input prints differently *)
(* once it has been through JSON, or when a branch writes it once more.    *)
ReplayReproduces ==
  /\ phase = "compared" /\ program = recording.program
  /\ ~SharesProbes(program) /\ ~ConflictNamed(recording.result.error)
  /\ PrintsAlike(recording.input) /\ ~Restates(program, recording.input)
  => Differences(recording.result, result) = {} /\ player.unmatched = <<>>

(* Of these steps, the run went on from none but to its fallback, and      *)
(* ended at none but by failing.                                           *)
NeverActsOn(fr, places) ==
  /\ \A i \in places \cap 1 .. Len(fr.trace) - 1 :
       fr.trace[i + 1] = fr.steps[fr.trace[i]].fallback
  /\ Len(fr.trace) \in places => fr.end \notin {"done", "suspended"}

Guarded(fr) ==
  {i \in DOMAIN fr.trace : LET s == fr.steps[fr.trace[i]]
                           IN /\ s.action = "std.require_verified"
                              /\ s.with.fields \cap guessed # {}}

(* A field a model supplied is marked as long as the run lasts, and no     *)
(* step behind std.require_verified runs on it: after such a step the      *)
(* run never goes on as if it had succeeded (injector.ContextFrom and      *)
(* stdlib, over JSON round trips, branches and replays).                   *)
NoDecisionOnAGuess ==
  \A t \in DOMAIN threads : /\ guessed \subseteq Provenance(threads[t].ctx)
                            /\ NeverActsOn(threads[t], Guarded(threads[t]))

Unproven(fr) ==
  {i \in DOMAIN fr.trace : fr.steps[fr.trace[i]].probe # None /\ i \notin fr.passed}

(* A step with a probe acts only when a sandbox was given its command, for *)
(* this very visit of the step, and a container ran it to exit code 0 or a *)
(* service answered 200 in JSON and gave no other code: a service that     *)
(* does not answer, answers with an error, even one in JSON, or is cut     *)
(* short, an exit code, a missing command or prober, all refuse.  That the *)
(* command ran does not follow: a service that says nothing of it passes   *)
(* too (httpsandbox, dockersandbox, sandbox and the engine).               *)
ActsOnlyRehearsed ==
  phase = "running" =>
    \A t \in DOMAIN threads : NeverActsOn(threads[t], Unproven(threads[t]))
=============================================================================

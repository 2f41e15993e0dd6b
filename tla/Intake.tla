------------------------------- MODULE Intake -------------------------------
(***************************************************************************)
(* What goes into a decision and where it came from: extraction by a model *)
(* (llminjector), its provenance, probes (sandbox), and the standard       *)
(* actions that decide on the context (stdlib).                            *)
(*                                                                         *)
(* A value is <<kind, v>>, so that what JSON does to it can be told:       *)
(* "string", "float", "int", "bool", "strings" (a []string, as a set) and  *)
(* "array" (a []any, as a set of values).  A context maps each key to a    *)
(* value, None when absent; the keys the engine and the injector write     *)
(* about themselves are CeeKeys.                                           *)
(***************************************************************************)
EXTENDS Endpoints, FiniteSets

CONSTANTS
  Fields,    \* the fields of a business context
  Schemas,   \* registered schemas: [ref -> [field -> kind]]
  Probes,    \* how the probe of each reference is asked: [ref -> "http" or "docker"]
  Exponent   \* from where %v prints a float64 with an exponent: 10^6 in Go

FailureReasonKey == "cee.failure_reason"
FailedStepKey    == "cee.failed_step"
ModelDerivedKey  == "cee.model_derived"
CeeKeys == {FailureReasonKey, FailedStepKey, ModelDerivedKey}
Keys    == Fields \cup CeeKeys

(* Marks are a value, not the absence of one.                              *)
ASSUME MarksAssumption ==
  /\ \A ref \in DOMAIN Schemas : DOMAIN Schemas[ref] \subseteq Fields
  /\ \A marked \in SUBSET Fields : /\ None # <<"strings", marked>>
                                   /\ None # <<"array", {<<"string", f>> : f \in marked}>>

NoContext == [k \in Keys |-> None]
Overlay(base, added) ==
  [k \in Keys |-> IF k \in DOMAIN added /\ added[k] # None THEN added[k] ELSE base[k]]

(* What encoding/json makes of a value read back into an any.              *)
Json(value) ==
  IF value = None THEN None
  ELSE CASE value[1] = "int"     -> <<"float", value[2]>>
         [] value[1] = "strings" -> <<"array", {<<"string", s>> : s \in value[2]}>>
         [] OTHER                -> value
JsonContext(ctx) == [k \in Keys |-> Json(ctx[k])]

(* A value printed into a message: an int and a float64 read alike until   *)
(* the float takes an exponent.                                            *)
Text(value) ==
  IF value # None /\ value[1] = "int" /\ value[2] >= Exponent
    THEN value ELSE Json(value)

-----------------------------------------------------------------------------
(* llminjector.                                                            *)

(* Wrong: only what the injector itself wrote, before any JSON.            *)
ProvenanceStrings(ctx) ==
  IF ctx[ModelDerivedKey] # None /\ ctx[ModelDerivedKey][1] = "strings"
    THEN ctx[ModelDerivedKey][2] ELSE {}

(* The fields marked as model derived, before or after a JSON round trip.  *)
Provenance(ctx) ==
  LET marked == ctx[ModelDerivedKey]
  IN IF marked = None THEN {}
     ELSE CASE marked[1] = "strings" -> marked[2]
            [] marked[1] = "array"   -> {v[2] : v \in {w \in marked[2] : w[1] = "string"}}
            [] OTHER                 -> {}

(* An extraction: the extractor's reply is a payload [field -> value], or  *)
(* None when it failed.  Fields the schema does not name are dropped.      *)
Extract(schemaRef, reply) ==
  LET failed(why) == [success |-> FALSE, payload |-> NoContext, derived |-> {},
                      why |-> why]
      schema == Schemas[schemaRef]
      fits(f) == f \in DOMAIN reply /\ reply[f] # None /\ reply[f][1] = schema[f]
  IN IF schemaRef \notin DOMAIN Schemas THEN failed("no schema")
     ELSE IF reply = None THEN failed("extractor failed")
     ELSE IF \E f \in DOMAIN schema : ~fits(f) THEN failed("invalid fields")
     ELSE [success |-> TRUE, derived |-> DOMAIN schema, why |-> None,
           payload |-> [k \in Keys |-> IF k \in DOMAIN schema THEN reply[k] ELSE None]]

(* The context to run on: what was marked stays marked.                    *)
ContextFrom(base, result) ==
  LET derived == Provenance(base) \cup result.derived
      ctx == Overlay(base, result.payload)
  IN IF derived = {} THEN ctx
     ELSE [ctx EXCEPT ![ModelDerivedKey] = <<"strings", derived>>]

-----------------------------------------------------------------------------
(* sandbox: an error of the prober's own becomes a failure mode.           *)

SandboxProbe(ref, answer) ==
  CASE ref \notin DOMAIN Probes -> Verdict(FALSE, <<"no probe registered">>, None)
    [] ref \in DOMAIN Probes /\ answer.err # None -> Verdict(FALSE, answer.err, None)
    [] ref \in DOMAIN Probes /\ answer.err = None ->
         Verdict(answer.healthy,
                 IF ~answer.healthy /\ answer.mode = None
                   THEN <<"probe reported unhealthy">> ELSE answer.mode, None)

-----------------------------------------------------------------------------
(* stdlib.  with maps the parameters that are given to their values.       *)

Numeric(value) == value # None /\ value[1] \in {"float", "int"}

(* Numbers by their value, anything else by ==, which panics on lists.     *)
Equals(a, b) == IF Numeric(a) /\ Numeric(b) THEN a[2] = b[2] ELSE a = b

ValidOps == {"eq", "neq", "gt", "gte", "lt", "lte", "in"}

Compare(got, op, want) ==
  CASE op = "eq"  -> IF Equals(got, want) THEN "true" ELSE "false"
    [] op = "neq" -> IF Equals(got, want) THEN "false" ELSE "true"
    [] op = "in"  -> IF want = None \/ want[1] # "array" THEN "error"
                     ELSE IF \E v \in want[2] : Equals(got, v) THEN "true" ELSE "false"
    [] op \in {"gt", "gte", "lt", "lte"} ->
         IF ~Numeric(got) \/ ~Numeric(want) THEN "error"
         ELSE IF \/ op = "gt" /\ got[2] > want[2]
                 \/ op = "gte" /\ got[2] >= want[2]
                 \/ op = "lt" /\ got[2] < want[2]
                 \/ op = "lte" /\ got[2] <= want[2]
                THEN "true" ELSE "false"

Given(with, names) == names \subseteq DOMAIN with

comparisonParams(with) ==
  /\ Given(with, {"field", "op", "value"})
  /\ with.field # None
  /\ with.op \in ValidOps

(* What each factory accepts.                                              *)
Configured(action, with) ==
  CASE action = "std.set"        -> Given(with, {"fields"})
    [] action = "std.require"    -> comparisonParams(with)
    [] action = "std.rule_check" -> /\ comparisonParams(with)
                                    /\ Given(with, {"result_field"})
                                    /\ with.result_field # None
    [] action = "std.suspend"    -> Given(with, {"reason"}) /\ with.reason # None
    [] action = "std.require_verified" -> /\ Given(with, {"fields"})
                                          /\ with.fields # {}
                                          /\ None \notin with.fields
    [] OTHER -> FALSE

Answer(kind, output, why) == [kind |-> kind, output |-> output, why |-> why]
Writes(field, value) == [NoContext EXCEPT ![field] = value]

(* The action applied to a context: how it ended, what it writes, why not. *)
setAction(with, ctx) == Answer("ok", with.fields, None)

requireAction(with, ctx) ==
  LET got  == ctx[with.field]
      held == Compare(got, with.op, with.value)
  IN CASE held = "true"  -> Answer("ok", NoContext, None)
       [] held = "false" -> Answer("error", NoContext,
                                   <<with.field, Text(got), with.op, with.value>>)
       [] held = "error" -> Answer("error", NoContext, <<with.op, Text(got), with.value>>)

ruleCheckAction(with, ctx) ==
  LET got  == ctx[with.field]
      held == Compare(got, with.op, with.value)
  IN IF held = "error"
       THEN Answer("error", NoContext, <<with.op, Text(got), with.value>>)
       ELSE Answer("ok", Writes(with.result_field, <<"bool", held = "true">>), None)

suspendAction(with, ctx) == Answer("suspend", NoContext, <<with.reason>>)

requireVerifiedAction(with, ctx) ==
  LET guessed == with.fields \cap Provenance(ctx)
  IN IF guessed = {} THEN Answer("ok", NoContext, None)
                     ELSE Answer("error", NoContext, <<"model-derived", guessed>>)

Act(action, with, ctx) ==
  CASE action = "std.set"              -> setAction(with, ctx)
    [] action = "std.require"          -> requireAction(with, ctx)
    [] action = "std.rule_check"       -> ruleCheckAction(with, ctx)
    [] action = "std.suspend"          -> suspendAction(with, ctx)
    [] action = "std.require_verified" -> requireVerifiedAction(with, ctx)
=============================================================================

----------------------------- MODULE Endpoints -----------------------------
(***************************************************************************)
(* The services a run depends on: a model that extracts (llmhttp), one     *)
(* that embeds (embedhttp), and a sandbox that rehearses a command, behind *)
(* HTTP or as a container (httpsandbox, dockersandbox).                    *)
(*                                                                         *)
(* An HTTP exchange is [fails, status, body]: fails is None or how it      *)
(* broke ("request" if it could not even be built, "no answer", "reading", *)
(* "too long"); body holds the JSON fields that are there, None if it is   *)
(* no JSON of the expected shape.  A container's run is [err, exit].       *)
(***************************************************************************)
EXTENDS Naturals, Sequences

CONSTANT None

(* Wrong: any status will do whose body can be decoded.                    *)
FailureAnyStatus(x) ==
  CASE x.fails # None                   -> x.fails
    [] x.fails = None /\ x.body = None  -> "undecodable"
    [] x.fails = None /\ x.body # None  -> None

(* Why an exchange has no body to decode, None if it has one.              *)
Failure(x) ==
  CASE x.fails # None                                      -> x.fails
    [] x.fails = None /\ x.status # 200                    -> "status"
    [] x.fails = None /\ x.status = 200 /\ x.body = None   -> "undecodable"
    [] x.fails = None /\ x.status = 200 /\ x.body # None   -> None

(* A field that is absent decodes as the zero of its type.                 *)
Decoded(body, field, zero) == IF field \in DOMAIN body THEN body[field] ELSE zero

-----------------------------------------------------------------------------
(* The models.                                                             *)

(* A model writes [fence, json]: JSON, None if it is none, as it is, in a  *)
(* code fence on lines of its own or on one line, after a language named   *)
(* on that line, or after prose.  stripCodeFence undoes the middle two.    *)
Unfenced(content) ==
  IF content.fence \in {"none", "own lines", "one line"} THEN content.json ELSE None

(* Chat, and what its content decodes to; None for any error on the way.   *)
Extractor(x) ==
  LET choices == Decoded(x.body, "choices", <<>>)
  IN IF Failure(x) # None THEN None
     ELSE IF choices = <<>> THEN None ELSE Unfenced(Head(choices))

Embedding(x) ==
  LET data == Decoded(x.body, "data", <<>>)
  IN IF Failure(x) # None THEN None
     ELSE IF data = <<>> THEN None
     ELSE IF Head(data) = <<>> THEN None ELSE Head(data)

-----------------------------------------------------------------------------
(* The sandboxes.                                                          *)

(* What a probe answers: healthy or not, how it failed, its own error.     *)
Verdict(healthy, mode, err) == [healthy |-> healthy, mode |-> mode, err |-> err]
Refuses(why) == Verdict(FALSE, why, None)

(* The command of the step's context, before or after a JSON round trip.   *)
HasCommand(value) ==
  /\ value # None /\ value[1] \in {"strings", "array"}
  /\ value[2] # {}
  /\ value[1] = "array" => \A v \in value[2] : v[1] = "string"

Exited(code) == IF code = 0 THEN Verdict(TRUE, None, None) ELSE Refuses(<<"exited", code>>)

(* Only a request that cannot be built is an error; whatever else goes     *)
(* wrong is a verdict.                                                     *)
HttpProbe(command, x) ==
  CASE ~HasCommand(command) -> Refuses(<<"no command">>)
    [] HasCommand(command) /\ Failure(x) = "request" -> Verdict(FALSE, None, <<"request">>)
    [] HasCommand(command) /\ Failure(x) \notin {None, "request"} -> Refuses(<<Failure(x)>>)
    [] HasCommand(command) /\ Failure(x) = None -> Exited(Decoded(x.body, "exit_code", 0))

DockerProbe(command, x) ==
  CASE ~HasCommand(command) -> Refuses(<<"no command">>)
    [] HasCommand(command) /\ x.err -> Refuses(<<"docker unavailable">>)
    [] HasCommand(command) /\ ~x.err -> Exited(x.exit)
=============================================================================

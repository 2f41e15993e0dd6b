------------------------------ MODULE Service -------------------------------
(***************************************************************************)
(* A process that serves runs: callers over HTTP (httpapi: POST /v1/run,   *)
(* POST /v1/resume, GET /v1/pending) and callers in the process that route *)
(* a text first (a host that calls Match, then Run), all at once, over one *)
(* engine, one MemoryStore, and the recorders that observe them.  What a   *)
(* text means is IntentRouter's subject: here Match finds an intent or     *)
(* none.                                                                   *)
(*                                                                         *)
(* A flow stands for a registered workflow of leaf steps                   *)
(*   [entry, steps : [id -> [probe, asks, onSuccess, fallback]]]           *)
(* where asks is None for a step that acts, or the audience its            *)
(* suspension is directed to (Anyone when it has none).  What probes,      *)
(* actions and the authorizer answer is chosen at every call.              *)
(***************************************************************************)
EXTENDS Naturals, FiniteSets

CONSTANTS
  Callers,      \* requests, numbered in the order they come
  Pointers,     \* what newPointer draws, numbered in that order
  Flows,        \* registered workflows
  Parked,       \* runs already waiting at the start: [pointer -> State]
  Asked,        \* the workflows HTTP callers name
  Routes,       \* the workflows of the intents Match may find
  MaxSteps,     \* SetLimits
  MaxChanges,   \* bound: changes of the configuration while requests are served
  Anyone,
  Earlier,      \* who parked them: requests answered before the start
  None

ASSUME ServiceAssumption ==
  /\ Callers \subseteq Nat /\ Pointers \subseteq Nat
  /\ MaxSteps \in Nat /\ MaxChanges \in Nat
  /\ DOMAIN Parked \subseteq Pointers
  /\ \A p \in DOMAIN Parked :   \* runs of this process, whose flows stay registered
       /\ Parked[p] # None /\ Parked[p].flow \in DOMAIN Flows
       /\ Parked[p].step \in DOMAIN Flows[Parked[p].flow].steps
  /\ None \notin Callers \cup {Earlier} /\ Earlier \notin Callers
  /\ None \notin {"resume", "unauthenticated", "malformed", "listed", "no intent", "not run",
                  "denied", "suspended", "completed", "failed", "diagnostics", "scorecard"}

VARIABLES
  store,       \* MemoryStore: [pointer -> State or None]
  authorizing, \* an Authorizer is configured
  observer,    \* the recorder attached to the engine, or None
  counts,      \* [recorder or None -> [event -> count]]
  request,     \* [caller -> its request]
  taker,       \* history: [pointer -> who consumed it]
  parker,      \* history: [pointer -> who parked it]
  mishaps,     \* history: probes that refused and actions that failed
  changes      \* configuration changes so far

config == <<authorizing, observer, changes>>
vars == <<store, config, counts, request, taker, parker, mishaps>>

Idle == [kind |-> None, pc |-> "idle", flow |-> None, at |-> None,
         steps |-> 0, ptr |-> None, audience |-> None, status |-> None, made |-> None]

Ended == {"answered", "lost", "panicked"}
Acted == {"suspended", "completed", "failed"}   \* the statuses of a run

-----------------------------------------------------------------------------
(* The recorders.  Each counts some of the events it is told of; the trips *)
(* nobody is told of, with no recorder attached, are history under None.   *)
(* The router's observer is set before requests come, and stays.           *)
Recorders == {"diagnostics", "scorecard"}
Events == {"run", "match", "miss", "probe", "outcome", "refusal", "step", "trip", "suspension"}
Counted(recorder) ==
  CASE recorder = "diagnostics" ->
         {"run", "match", "miss", "outcome", "refusal", "trip", "suspension"}
    [] recorder = "scorecard" -> {"probe", "step", "trip"}
    [] recorder \notin Recorders -> {"trip"}

(* A recorder is told of the events; observe reads which one it is.        *)
Telling(recorder, events) ==
  counts' = [counts EXCEPT ![recorder] =
               [e \in Events |-> @[e] + IF e \in events \cap Counted(recorder) THEN 1 ELSE 0]]
Observing(events) == Telling(observer, events)

Init ==
  /\ store = [p \in Pointers |-> IF p \in DOMAIN Parked THEN Parked[p] ELSE None]
  /\ authorizing \in BOOLEAN /\ observer \in Recorders \cup {None}
  /\ counts = [o \in Recorders \cup {None} |-> [e \in Events |-> 0]]
  /\ request = [c \in Callers |-> Idle]
  /\ taker = [p \in Pointers |-> None]
  /\ parker = [p \in Pointers |-> IF p \in DOMAIN Parked THEN Earlier ELSE None]
  /\ mishaps = 0 /\ changes = 0

-----------------------------------------------------------------------------
(* The configuration, which may change while requests are served.          *)
Change == changes < MaxChanges /\ changes' = changes + 1

SetAuthorizer ==
  /\ Change /\ authorizing' = ~authorizing
  /\ UNCHANGED <<store, observer, counts, request, taker, parker, mishaps>>

SetObserver ==
  /\ Change /\ observer' \in (Recorders \cup {None}) \ {observer}
  /\ UNCHANGED <<store, authorizing, counts, request, taker, parker, mishaps>>

-----------------------------------------------------------------------------
Is(c, pc) == request[c].pc = pc
Becomes(c, fr) == request' = [request EXCEPT ![c] = fr]

(* The run is over; what is left of it is the answer.                      *)
Answering(fr, status) ==
  [Idle EXCEPT !.pc = "answer", !.kind = fr.kind, !.ptr = fr.ptr, !.made = fr.made,
               !.status = status]

(* A run is entered at a step of a flow; runFrom looks the flow up.        *)
Enter(fr, flow, step) ==
  IF flow \notin DOMAIN Flows THEN Answering(fr, "not run")
  ELSE [fr EXCEPT !.pc = "step", !.flow = flow,
                  !.at = IF step = None THEN Flows[flow].entry ELSE step]

(* A request arrives.  The middleware counts it; then httpapi's handler    *)
(* identifies the caller and decodes the body, or the host's handle routes *)
(* the text it was given.  Callers are numbered in the order they come.    *)
Arrive(c) ==
  /\ Is(c, "idle") /\ \A d \in Callers : d < c => ~Is(d, "idle")
  /\ Telling("diagnostics", {"run"})
  /\ UNCHANGED <<store, config, taker, parker, mishaps>>

Handle(c) == Arrive(c) /\ Becomes(c, [Idle EXCEPT !.kind = "handle", !.pc = "match"])

(* 401: Identify fails; 400: the body is malformed or names nothing.       *)
Refuse(c) ==
  /\ Arrive(c)
  /\ \E status \in {"unauthenticated", "malformed"} :
       Becomes(c, Answering([Idle EXCEPT !.kind = "refused"], status))

HttpRun(c) ==
  /\ Arrive(c)
  /\ \E flow \in Asked : Becomes(c, Enter([Idle EXCEPT !.kind = "run"], flow, None))

(* Callers resume the pointers a response has told some caller of.         *)
Known == DOMAIN Parked \cup ({request[c].made : c \in {d \in Callers : Is(d, "answered")}} \ {None})

HttpResume(c) ==
  /\ Arrive(c)
  /\ \E p \in Known : Becomes(c, [Idle EXCEPT !.kind = "resume", !.ptr = p, !.pc = "load"])

HttpPending(c) ==
  /\ Arrive(c)
  /\ Becomes(c, Answering([Idle EXCEPT !.kind = "pending"], "listed"))

-----------------------------------------------------------------------------
(* The host's handle: Match finds an intent or none (IntentRouter).        *)
Routed(c) ==
  /\ Is(c, "match")
  /\ \/ /\ Telling("diagnostics", {"miss"}) /\ Becomes(c, Answering(request[c], "no intent"))
     \/ /\ Telling("diagnostics", {"match"})
        /\ \E flow \in Routes : Becomes(c, Enter(request[c], flow, None))
  /\ UNCHANGED <<store, config, taker, parker, mishaps>>

-----------------------------------------------------------------------------
(* ResumeAs over MemoryStore.                                              *)
(* Wrong: the state is taken out before anybody is asked.                  *)
LoadTaking(c) ==
  /\ Is(c, "load")
  /\ LET p == request[c].ptr
     IN IF store[p] = None
          THEN Becomes(c, Answering(request[c], "not run")) /\ UNCHANGED <<store, taker>>
          ELSE /\ store' = [store EXCEPT ![p] = None] /\ taker' = [taker EXCEPT ![p] = c]
               /\ Becomes(c, [request[c] EXCEPT !.pc = "authorize",
                     !.flow = store[p].flow, !.at = store[p].step,
                     !.audience = store[p].audience])
  /\ UNCHANGED <<config, counts, parker, mishaps>>

Load(c) ==
  /\ Is(c, "load")
  /\ Becomes(c, IF store[request[c].ptr] = None THEN Answering(request[c], "not run")
                ELSE [request[c] EXCEPT !.pc = "authorize",
                        !.flow = store[request[c].ptr].flow, !.at = store[request[c].ptr].step,
                        !.audience = store[request[c].ptr].audience])
  /\ UNCHANGED <<store, config, counts, taker, parker, mishaps>>

(* Wrong: with nobody to ask, the request waits for an Authorizer.         *)
AuthorizeWaits(c) ==
  /\ Is(c, "authorize")
  /\ LET audience == request[c].audience
     IN \/ audience = Anyone /\ Becomes(c, [request[c] EXCEPT !.pc = "consume"])
        \/ audience # Anyone /\ authorizing /\ Becomes(c, [request[c] EXCEPT !.pc = "consume"])
        \/ audience # Anyone /\ authorizing /\ Becomes(c, Answering(request[c], "denied"))
  /\ UNCHANGED <<store, config, counts, taker, parker, mishaps>>

(* Nobody to ask refuses; an error refuses.                                *)
Authorize(c) ==
  /\ Is(c, "authorize")
  /\ LET audience == request[c].audience
     IN \/ audience = Anyone /\ Becomes(c, [request[c] EXCEPT !.pc = "consume"])
        \/ audience # Anyone /\ authorizing /\ Becomes(c, [request[c] EXCEPT !.pc = "consume"])
        \/ audience # Anyone /\ Becomes(c, Answering(request[c], "denied"))
  /\ UNCHANGED <<store, config, counts, taker, parker, mishaps>>

(* Wrong: the state is read, not removed.                                  *)
ConsumeByLoad(c) ==
  /\ Is(c, "consume")
  /\ LET p == request[c].ptr
     IN /\ taker' = [taker EXCEPT ![p] = c]
        /\ Becomes(c, [request[c] EXCEPT !.pc = "begin"])
  /\ UNCHANGED <<store, config, counts, parker, mishaps>>

Consume(c) ==
  /\ Is(c, "consume")
  /\ LET p == request[c].ptr
     IN \/ /\ store[p] = None
           /\ Becomes(c, Answering(request[c], "not run"))
           /\ UNCHANGED <<store, taker>>
        \/ /\ store[p] # None
           /\ store' = [store EXCEPT ![p] = None]
           /\ taker' = [taker EXCEPT ![p] = c]
           /\ Becomes(c, [request[c] EXCEPT !.pc = "begin"])
  /\ UNCHANGED <<config, counts, parker, mishaps>>

(* The run goes on after the step that suspended; Release does nothing.    *)
Begin(c) ==
  /\ Is(c, "begin")
  /\ Becomes(c, Enter(request[c], request[c].flow,
                      Flows[request[c].flow].steps[request[c].at].onSuccess))
  /\ UNCHANGED <<store, config, counts, taker, parker, mishaps>>

-----------------------------------------------------------------------------
(* runFrom, one step of the loop after the other.                          *)
StepOf(c) == Flows[request[c].flow].steps[request[c].at]
Missing(c) == request[c].at \notin DOMAIN Flows[request[c].flow].steps

(* Wrong: the ceiling is noticed one step late.                            *)
WithinLimitLate(c) == request[c].steps <= MaxSteps

WithinLimit(c) == request[c].steps < MaxSteps

(* The head of the loop: the end, the ceiling, a missing step, a step.     *)
Turn(c) ==
  /\ Is(c, "step")
  /\ LET fr == [request[c] EXCEPT !.steps = @ + 1]
     IN Becomes(c, CASE request[c].at = None -> Answering(request[c], "completed")
                     [] request[c].at # None /\ ~WithinLimit(c) -> Answering(request[c], "not run")
                     [] request[c].at # None /\ WithinLimit(c) /\ Missing(c) ->
                          Answering(fr, "not run")
                     [] request[c].at # None /\ WithinLimit(c) /\ ~Missing(c) ->
                          [fr EXCEPT !.pc = IF StepOf(c).probe THEN "probe" ELSE "act"])
  /\ UNCHANGED <<store, config, counts, taker, parker, mishaps>>

(* The observer is told that the sandbox will be asked.                    *)
Probe(c) ==
  /\ Is(c, "probe") /\ Observing({"probe"})
  /\ Becomes(c, [request[c] EXCEPT !.pc = "outcome"])
  /\ UNCHANGED <<store, config, taker, parker, mishaps>>

(* The sandbox has answered, and the observer of now is told.              *)
ProbeOutcome(c) ==
  /\ Is(c, "outcome")
  /\ \E healthy \in BOOLEAN :
       /\ Observing({"outcome"} \cup IF healthy THEN {} ELSE {"refusal"})
       /\ Becomes(c, [request[c] EXCEPT !.pc = IF healthy THEN "act" ELSE "trip"])
       /\ mishaps' = mishaps + IF healthy THEN 0 ELSE 1
  /\ UNCHANGED <<store, config, taker, parker>>

Act(c) ==
  /\ Is(c, "act") /\ Observing({"step"})
  /\ \/ /\ StepOf(c).asks # None
        /\ Becomes(c, [request[c] EXCEPT !.pc = "save"])
        /\ UNCHANGED mishaps
     \/ /\ StepOf(c).asks = None
        /\ Becomes(c, [request[c] EXCEPT !.pc = "step", !.at = StepOf(c).onSuccess])
        /\ UNCHANGED mishaps
     \/ /\ StepOf(c).asks = None
        /\ Becomes(c, [request[c] EXCEPT !.pc = "trip"])
        /\ mishaps' = mishaps + 1
     \/ /\ StepOf(c).asks = None   \* the action panics; net/http drops the connection
        /\ Becomes(c, [Answering(request[c], None) EXCEPT !.pc = "panicked"])
        /\ UNCHANGED mishaps
  /\ UNCHANGED <<store, config, taker, parker>>

(* Wrong: what a fallback absorbs is no trip.                              *)
TripIfAbandoned(c) ==
  /\ Is(c, "trip")
  /\ IF StepOf(c).fallback = None
       THEN Observing({"trip"}) /\ Becomes(c, Answering(request[c], "failed"))
       ELSE /\ Becomes(c, [request[c] EXCEPT !.pc = "step", !.at = StepOf(c).fallback])
            /\ UNCHANGED counts
  /\ UNCHANGED <<store, config, taker, parker, mishaps>>

(* The observer is told, and the fallback is taken if there is one.        *)
Trip(c) ==
  /\ Is(c, "trip") /\ Observing({"trip"})
  /\ Becomes(c, IF StepOf(c).fallback = None THEN Answering(request[c], "failed")
                ELSE [request[c] EXCEPT !.pc = "step", !.at = StepOf(c).fallback])
  /\ UNCHANGED <<store, config, taker, parker, mishaps>>

(* newPointer: one never drawn; they are numbered in the order drawn.      *)
Fresh(p) == parker[p] = None /\ \A q \in Pointers : q < p => parker[q] # None

(* suspend: a fresh pointer, Save, the observer.                           *)
Save(c) ==
  /\ Is(c, "save")
  /\ \E p \in Pointers :
       /\ Fresh(p)
       /\ store' = [store EXCEPT ![p] = [flow |-> request[c].flow, step |-> request[c].at,
                                         audience |-> StepOf(c).asks]]
       /\ parker' = [parker EXCEPT ![p] = c]
       /\ Becomes(c, [request[c] EXCEPT !.pc = "report", !.made = p])
  /\ UNCHANGED <<config, counts, taker, mishaps>>

ReportSuspension(c) ==
  /\ Is(c, "report") /\ Observing({"suspension"})
  /\ Becomes(c, Answering(request[c], "suspended"))
  /\ UNCHANGED <<store, config, taker, parker, mishaps>>

(* The response reaches the caller, or nobody reads it.                    *)
Respond(c) ==
  /\ Is(c, "answer")
  /\ \E pc \in {"answered", "lost"} : Becomes(c, [request[c] EXCEPT !.pc = pc])
  /\ UNCHANGED <<store, config, counts, taker, parker, mishaps>>

-----------------------------------------------------------------------------
Serve(c) ==
  \/ Routed(c) \/ Load(c) \/ Authorize(c) \/ Consume(c) \/ Begin(c)
  \/ Turn(c) \/ Probe(c) \/ ProbeOutcome(c) \/ Act(c) \/ Trip(c) \/ Save(c) \/ ReportSuspension(c)
  \/ Respond(c)

Next ==
  \/ \E c \in Callers : Handle(c) \/ Refuse(c) \/ HttpRun(c) \/ HttpResume(c) \/ HttpPending(c)
  \/ \E c \in Callers : Serve(c)
  \/ SetAuthorizer \/ SetObserver

(* The server's goroutines are scheduled; callers need not come.           *)
Spec == Init /\ [][Next]_vars /\ \A c \in Callers : WF_vars(Serve(c))

-----------------------------------------------------------------------------
TypeOK ==
  /\ \A c \in Callers :
       /\ request[c].steps <= MaxSteps
       /\ request[c].status = None <=> request[c].pc \notin {"answer", "answered", "lost"}
       /\ request[c].pc \in {"probe", "outcome", "act", "trip", "save"} => ~Missing(c)
  /\ \A p \in Pointers : store[p] # None =>
       store[p].flow \in DOMAIN Flows /\ store[p].step \in DOMAIN Flows[store[p].flow].steps

(* What a caller is told is what happened, however many requests race: a   *)
(* refused resumption took nothing; a resumption answered with a run is    *)
(* the only one that took its pointer; and a run that waits in the store   *)
(* has its pointer on the way to the caller who started it                 *)
(* (httpapi.writeRun, ResumeAs, MemoryStore).                              *)
AnswersAreTrue ==
  /\ \A c \in Callers :
       /\ request[c].status = "denied" => \A p \in Pointers : taker[p] # c
       /\ request[c].kind = "resume" /\ request[c].status \in Acted
            => taker[request[c].ptr] = c
       /\ request[c].status = "suspended" => parker[request[c].made] = c
  /\ \A p \in Pointers :
       store[p] # None =>
         /\ taker[p] = None
         /\ parker[p] # Earlier => /\ request[parker[p]].made = p
                                  /\ request[parker[p]].pc # "panicked"

Happened(event) == counts["diagnostics"][event] + counts["scorecard"][event]
                     + counts[None][event]
Doing(pc)       == Cardinality({c \in Callers : Is(c, pc)})

(* Every refusal and every failed action is told as a trip once, absorbed  *)
(* or not, to whichever recorder is attached or to none, no suspension     *)
(* more than once, and the rates are rates: at every moment, with any      *)
(* number of runs in flight, though each call of a recorder reads anew     *)
(* which one is attached (diagnostics.Report, engine.observe).             *)
CountersAgree ==
  /\ Happened("trip") + Doing("trip") = mishaps
  /\ Happened("suspension") + Doing("report")
       <= Cardinality({p \in Pointers : parker[p] \in Callers})
  /\ LET d == counts["diagnostics"]
     IN d["refusal"] <= d["outcome"] /\ d["suspension"] <= d["run"]
                                     /\ d["match"] + d["miss"] <= d["run"]

(* A ticket's stage, from who took it and how far that request is.         *)
TicketStage(p) ==
  CASE parker[p] = None                         -> "unissued"
    [] parker[p] # None /\ taker[p] = None      -> "parked"
    [] taker[p] # None /\ Is(taker[p], "begin") -> "taken"
    [] taker[p] # None /\ Is(taker[p], "panicked") -> "orphan"
    [] taker[p] # None /\ request[taker[p]].status # None -> "finished"
    [] OTHER                                    -> "acted"

Tickets == [p \in Pointers |-> TicketStage(p)]
Ticket  == INSTANCE ResumeTicket WITH Pointer <- Pointers, ticket <- Tickets

(* MemoryStore, too, implements the life of a ticket: taken at most once,  *)
(* acted on at most once, never back in the queue.  The tickets that wait  *)
(* at the start are in the middle of theirs (MemoryStore.Consume, ResumeAs *)
(* against ResumeTicket).                                                  *)
TicketLife == [][Ticket!Next]_Tickets

(* Every request ends: it is answered, or its goroutine panicked; no       *)
(* cycle of fallbacks, no pointer already taken and no missing Authorizer  *)
(* holds it forever (runFrom's ceiling, Consume, authorize).               *)
EveryRequestEnds ==
  \A c \in Callers : ~Is(c, "idle") ~> request[c].pc \in Ended
=============================================================================

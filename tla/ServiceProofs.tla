---------------------------- MODULE ServiceProofs ----------------------------
(***************************************************************************)
(* Proofs about Service, for any requests, pointers, workflows and changes *)
(* of the configuration: MemoryStore hands every ticket to one request,    *)
(* what callers are told is what happened, and what is counted is what     *)
(* there was to count.                                                     *)
(***************************************************************************)
EXTENDS Service, FiniteSetTheorems, TLAPS

USE ServiceAssumption

(* Where a request is in its life.                                         *)
Asking  == {"load", "authorize", "consume"}
Running == {"step", "probe", "outcome", "act", "trip", "save"}
Over    == {"answer", "answered", "lost"}

Took(c)   == request[c].ptr \in Pointers /\ taker[request[c].ptr] = c
Parks(c)  == request[c].made \in Pointers /\ parker[request[c].made] = c
Resumes(c) == request[c].kind = "resume"

Shapes ==
  /\ DOMAIN request = Callers
  /\ DOMAIN store = Pointers /\ DOMAIN taker = Pointers /\ DOMAIN parker = Pointers
  /\ \A c \in Callers :
       /\ DOMAIN request[c] = DOMAIN Idle
       /\ request[c].pc \in {"idle", "match", "begin", "report", "panicked"}
                              \cup Asking \cup Running \cup Over

(* What a request has taken and parked, by where it is.                    *)
RequestInv(c) ==
  /\ request[c].pc \in {"idle", "match"} =>
       ~Resumes(c) /\ request[c].status = None /\ request[c].made = None
  /\ request[c].pc \in Asking =>
       /\ Resumes(c) /\ request[c].ptr \in Pointers
       /\ request[c].status = None /\ request[c].made = None
  /\ request[c].pc = "begin" =>
       Resumes(c) /\ Took(c) /\ request[c].status = None /\ request[c].made = None
  /\ request[c].pc \in Running \cup {"panicked"} =>
       (Resumes(c) => Took(c)) /\ request[c].status = None /\ request[c].made = None
  /\ request[c].pc = "report" =>
       (Resumes(c) => Took(c)) /\ Parks(c) /\ request[c].status = None
  /\ request[c].pc \in Over =>
       /\ request[c].status # None
       /\ request[c].status = "suspended" => Parks(c)
       /\ request[c].status # "suspended" => request[c].made = None
       /\ Resumes(c) /\ request[c].status \in Acted => Took(c)

(* Who holds a ticket, by who took it and who parked it.                   *)
TicketInv(p) ==
  /\ taker[p] # None =>
       /\ taker[p] \in Callers /\ parker[p] # None /\ store[p] = None
       /\ Resumes(taker[p]) /\ request[taker[p]].ptr = p
       /\ request[taker[p]].pc \notin Asking \cup {"idle", "match"}
       /\ request[taker[p]].status # "denied"
  /\ store[p] # None => parker[p] # None
  /\ parker[p] \in Callers =>
       /\ request[parker[p]].made = p
       /\ request[parker[p]].pc \in Over \cup {"report"}
  /\ parker[p] \in Callers \cup {Earlier, None}

IInv == /\ Shapes
        /\ \A c \in Callers : RequestInv(c)
        /\ \A p \in Pointers : TicketInv(p)

(* The runs that wait at the start were parked by earlier requests.        *)
LEMMA IInit == Init => IInv
<1> SUFFICES ASSUME Init PROVE IInv
  OBVIOUS
<1>1. Shapes
  BY DEF Init, Shapes, Idle
<1>2. ASSUME NEW c \in Callers PROVE RequestInv(c)
  BY DEF Init, RequestInv, Idle, Resumes, Asking, Running, Over
<1>3. ASSUME NEW p \in Pointers PROVE TicketInv(p)
  <2>1. taker[p] = None /\ parker[p] \in {Earlier, None}
    BY DEF Init
  <2>2. store[p] # None => parker[p] # None
    BY DEF Init
  <2> QED
    BY <2>1, <2>2 DEF TicketInv
<1> QED
  BY <1>1, <1>2, <1>3 DEF IInv

-----------------------------------------------------------------------------
(* Most steps leave the tickets alone and take one request on.             *)
Onwards(r, s) ==
  /\ s.kind = r.kind /\ s.ptr = r.ptr /\ s.made = r.made
  /\ \/ r.pc \in Asking /\ s.pc \in Asking /\ s.status = None
     \/ r.pc = "match" /\ s.pc \in Running /\ s.status = None
     \/ r.pc = "match" /\ s.pc = "answer" /\ s.status \in {"no intent", "not run"}
     \/ r.pc \in Asking /\ s.pc = "answer" /\ s.status \in {"denied", "not run"}
     \/ r.pc = "begin" /\ s.pc = "answer" /\ s.status = "not run"
     \/ r.pc \in Running \cup {"begin"} /\ s.pc \in Running /\ s.status = None
     \/ r.pc \in Running /\ s.pc = "panicked" /\ s.status = None
     \/ r.pc \in Running /\ s.pc = "answer" /\ s.status \in {"completed", "failed", "not run"}
     \/ r.pc = "report" /\ s.pc = "answer" /\ s.status = "suspended"
     \/ r.pc \in Over /\ s.pc \in Over /\ s.status = r.status

Goes(c, s) ==
  /\ UNCHANGED <<store, taker, parker>>
  /\ request' = [request EXCEPT ![c] = s] /\ DOMAIN s = DOMAIN Idle

(* Such a step keeps the invariant.                                        *)
LEMMA GoingKeeps ==
  ASSUME IInv, NEW c \in Callers, NEW s, Goes(c, s), Onwards(request[c], s)
  PROVE  IInv'
<1> USE DEF Asking, Running, Over, Acted
<1>1. request'[c] = s /\ \A d \in Callers \ {c} : request'[d] = request[d]
  BY DEF Goes, IInv, Shapes
<1>2. Shapes'
  BY <1>1 DEF Goes, Onwards, IInv, Shapes
<1>3. ASSUME NEW d \in Callers PROVE RequestInv(d)'
  <2>1. taker' = taker /\ parker' = parker /\ RequestInv(d) /\ RequestInv(c)
    BY DEF Goes, IInv
  <2>2. CASE d # c
    BY <1>1, <2>1, <2>2 DEF RequestInv, Resumes, Took, Parks
  <2>3. CASE d = c
    BY <1>1, <2>1, <2>3 DEF Onwards, RequestInv, Resumes, Took, Parks
  <2> QED
    BY <2>2, <2>3
<1>4. ASSUME NEW p \in Pointers PROVE TicketInv(p)'
  <2>1. taker' = taker /\ parker' = parker /\ store' = store /\ TicketInv(p) /\ RequestInv(c)
    BY DEF Goes, IInv
  <2>2. taker[p] = c => /\ Resumes(c)' /\ request'[c].ptr = p
                        /\ request'[c].pc \notin Asking \cup {"idle", "match"}
                        /\ request'[c].status # "denied"
    BY <1>1, <2>1 DEF Onwards, TicketInv, Resumes
  <2>3. parker[p] = c => request'[c].made = p /\ request'[c].pc \in Over \cup {"report"}
    BY <1>1, <2>1 DEF Onwards, TicketInv
  <2> QED
    BY <1>1, <2>1, <2>2, <2>3 DEF TicketInv, Resumes
<1> QED
  BY <1>2, <1>3, <1>4 DEF IInv

(* A run that is entered walks on, or could not be run.                    *)
Entered(r, s) ==
  /\ DOMAIN s = DOMAIN Idle
  /\ s.kind = r.kind /\ s.ptr = r.ptr /\ s.made = r.made
  /\ \/ s.pc = "step" /\ s.status = r.status
     \/ s.pc = "answer" /\ s.status = "not run"

LEMMA EntersKeep ==
  ASSUME NEW r, DOMAIN r = DOMAIN Idle, NEW flow, NEW step
  PROVE  Entered(r, Enter(r, flow, step))
<1> USE DEF Entered
<1>1. CASE flow \notin DOMAIN Flows
  BY <1>1 DEF Enter, Answering, Idle
<1>2. CASE flow \in DOMAIN Flows
  <2> DEFINE s == [r EXCEPT !.pc = "step", !.flow = flow,
                            !.at = IF step = None THEN Flows[flow].entry ELSE step]
  <2>1. Enter(r, flow, step) = s
    BY <1>2 DEF Enter
  <2>2. DOMAIN s = DOMAIN Idle
    OBVIOUS
  <2>3. s.kind = r.kind /\ s.ptr = r.ptr /\ s.made = r.made /\ s.status = r.status /\ s.pc = "step"
    BY DEF Idle
  <2> QED
    BY <2>1, <2>2, <2>3
<1> QED
  BY <1>1, <1>2

(* Each of these steps takes its request on and leaves the tickets alone.  *)
Plain(c) ==
  \/ Routed(c) \/ Load(c) \/ Authorize(c) \/ Begin(c) \/ Turn(c) \/ Probe(c)
  \/ ProbeOutcome(c) \/ Act(c) \/ Trip(c) \/ ReportSuspension(c) \/ Respond(c)
  \/ Consume(c) /\ store[request[c].ptr] = None

LEMMA PlainGoes ==
  ASSUME IInv, NEW c \in Callers, Plain(c)
  PROVE  \E s : Goes(c, s) /\ Onwards(request[c], s)
<1> USE DEF Asking, Running, Over, Is, Becomes
<1> DEFINE r == request[c]
<1>1. DOMAIN r = DOMAIN Idle /\ RequestInv(c)
  BY DEF IInv, Shapes
<1>2. ASSUME NEW s, Becomes(c, s), DOMAIN s = DOMAIN Idle, Onwards(r, s),
             UNCHANGED <<store, taker, parker>>
      PROVE  \E t : Goes(c, t) /\ Onwards(r, t)
  BY <1>2 DEF Goes
<1>3. CASE Routed(c)
  <2>1. CASE Becomes(c, Answering(r, "no intent"))
    BY <1>1, <1>2, <1>3, <2>1 DEF Routed, Onwards, RequestInv, Answering, Idle
  <2>2. ASSUME NEW flow \in Routes, Becomes(c, Enter(r, flow, None))
        PROVE  \E t : Goes(c, t) /\ Onwards(r, t)
    <3> DEFINE s == Enter(r, flow, None)
    <3>1. Entered(r, s)
      BY <1>1, EntersKeep
    <3>2. Onwards(r, s)
      BY <1>1, <1>3, <3>1 DEF Routed, Entered, Onwards, RequestInv
    <3>3. Becomes(c, s) /\ UNCHANGED <<store, taker, parker>>
      BY <1>3, <2>2 DEF Routed
    <3> HIDE DEF s
    <3> QED
      BY <1>2, <3>1, <3>2, <3>3 DEF Entered
  <2> QED
    BY <1>3, <2>1, <2>2 DEF Routed
<1>4. CASE Load(c)
  BY <1>1, <1>2, <1>4 DEF Load, Onwards, RequestInv, Answering, Idle
<1>5. CASE Authorize(c)
  BY <1>1, <1>2, <1>5 DEF Authorize, Onwards, RequestInv, Answering, Idle
<1>6. CASE Begin(c)
  <2> DEFINE s == Enter(r, r.flow, Flows[r.flow].steps[r.at].onSuccess)
  <2>1. Entered(r, s)
    BY <1>1, EntersKeep
  <2>2. Onwards(r, s)
    BY <1>1, <1>6, <2>1 DEF Begin, Entered, Onwards, RequestInv
  <2>3. Becomes(c, s) /\ UNCHANGED <<store, taker, parker>>
    BY <1>6 DEF Begin, Becomes
  <2> HIDE DEF s
  <2> QED
    BY <1>2, <2>1, <2>2, <2>3 DEF Entered
<1>7. CASE Turn(c)
  BY <1>1, <1>2, <1>7 DEF Turn, Onwards, RequestInv, Answering, Idle
<1>8. CASE Probe(c) \/ ProbeOutcome(c)
  BY <1>1, <1>2, <1>8 DEF Probe, ProbeOutcome, Onwards, RequestInv, Idle
<1>9. CASE Act(c)
  BY <1>1, <1>2, <1>9 DEF Act, Onwards, RequestInv, Answering, Idle
<1>10. CASE Trip(c)
  BY <1>1, <1>2, <1>10 DEF Trip, Onwards, RequestInv, Answering, Idle
<1>11. CASE ReportSuspension(c)
  BY <1>1, <1>2, <1>11 DEF ReportSuspension, Onwards, RequestInv, Answering, Idle
<1>12. CASE Respond(c)
  BY <1>1, <1>2, <1>12 DEF Respond, Onwards, RequestInv, Idle
<1>13. CASE Consume(c) /\ store[r.ptr] = None
  BY <1>1, <1>2, <1>13 DEF Consume, Onwards, RequestInv, Answering, Idle
<1> QED
  BY <1>3, <1>4, <1>5, <1>6, <1>7, <1>8, <1>9, <1>10, <1>11, <1>12, <1>13 DEF Plain

-----------------------------------------------------------------------------
(* The steps that are not plain: a request arrives, a ticket is taken, a   *)
(* run is parked.                                                          *)

(* A request that has just arrived has taken and parked nothing.           *)
LEMMA ArrivalKeeps ==
  ASSUME IInv, NEW c \in Callers, Is(c, "idle"), UNCHANGED <<store, taker, parker>>,
         NEW s, Becomes(c, s), DOMAIN s = DOMAIN Idle, s.made = None,
         \/ s.kind # "resume" /\ s.pc \in {"match", "step"} /\ s.status = None
         \/ s.kind # "resume" /\ s.pc = "answer" /\ s.status \notin {None, "suspended"}
         \/ s.kind = "resume" /\ s.pc = "load" /\ s.status = None /\ s.ptr \in Pointers
  PROVE  IInv'
<1> USE DEF Asking, Running, Over, Acted, Is, Becomes
<1>1. request'[c] = s /\ \A d \in Callers \ {c} : request'[d] = request[d]
  BY DEF IInv, Shapes
<1>2. Shapes'
  BY <1>1 DEF IInv, Shapes
<1>3. ASSUME NEW p \in Pointers PROVE TicketInv(p)' /\ taker[p] # c /\ parker[p] # c
  <2>1. TicketInv(p) /\ taker' = taker /\ parker' = parker /\ store' = store
    BY DEF IInv
  <2>2. taker[p] # c /\ parker[p] # c
    BY <2>1 DEF TicketInv
  <2>3. /\ taker[p] \in Callers => request'[taker[p]] = request[taker[p]]
        /\ parker[p] \in Callers => request'[parker[p]] = request[parker[p]]
    BY <1>1, <2>2
  <2> QED
    BY <2>1, <2>2, <2>3 DEF TicketInv, Resumes
<1>4. ASSUME NEW d \in Callers PROVE RequestInv(d)'
  <2>1. CASE d # c
    <3>1. RequestInv(d) /\ taker' = taker /\ parker' = parker
      BY DEF IInv
    <3> QED
      BY <1>1, <2>1, <3>1 DEF RequestInv, Resumes, Took, Parks
  <2>2. CASE d = c
    BY <1>1, <2>2 DEF RequestInv, Resumes
  <2> QED
    BY <2>1, <2>2
<1> QED
  BY <1>2, <1>3, <1>4 DEF IInv

(* Consume: the ticket was nobody's and is this request's from now on.     *)
LEMMA ConsumeKeeps ==
  ASSUME IInv, NEW c \in Callers, Consume(c), store[request[c].ptr] # None
  PROVE  IInv'
<1> USE DEF Asking, Running, Over, Acted, Is, Becomes
<1> DEFINE p == request[c].ptr
<1>1. /\ p \in Pointers /\ Resumes(c) /\ request[c].pc = "consume"
      /\ request[c].made = None /\ request[c].status = None
  BY DEF Consume, IInv, RequestInv
<1>2. taker[p] = None /\ parker[p] # None
  BY <1>1 DEF IInv, TicketInv
<1>3. /\ store' = [store EXCEPT ![p] = None] /\ taker' = [taker EXCEPT ![p] = c]
      /\ parker' = parker /\ request' = [request EXCEPT ![c].pc = "begin"]
  BY DEF Consume
<1>4. /\ request'[c].pc = "begin" /\ request'[c].kind = request[c].kind
      /\ request'[c].ptr = p /\ request'[c].made = None /\ request'[c].status = None
      /\ \A d \in Callers \ {c} : request'[d] = request[d]
  BY <1>1, <1>3 DEF IInv, Shapes, Idle
<1>5. Shapes'
  BY <1>3, <1>4 DEF IInv, Shapes
<1>6. ASSUME NEW d \in Callers PROVE RequestInv(d)'
  <2>1. CASE d # c
    <3>1. RequestInv(d) /\ request'[d] = request[d] /\ parker' = parker
      BY <1>3, <1>4, <2>1 DEF IInv
    <3>2. Took(d) => taker'[request[d].ptr] = d
      BY <1>2, <1>3 DEF IInv, Shapes, Took
    <3> QED
      BY <3>1, <3>2 DEF RequestInv, Resumes, Took, Parks
  <2>2. CASE d = c
    BY <1>1, <1>3, <1>4, <2>2 DEF IInv, Shapes, RequestInv, Resumes, Took
  <2> QED
    BY <2>1, <2>2
<1>7. ASSUME NEW q \in Pointers PROVE TicketInv(q)'
  <2>1. CASE q = p
    BY <1>1, <1>2, <1>3, <1>4, <2>1 DEF IInv, Shapes, TicketInv, Resumes
  <2>2. CASE q # p
    <3>1. store'[q] = store[q] /\ taker'[q] = taker[q] /\ TicketInv(q)
      BY <1>3, <2>2 DEF IInv, Shapes
    <3>2. taker[q] # c /\ parker[q] # c
      BY <1>1, <3>1 DEF TicketInv
    <3>3. /\ taker[q] \in Callers => request'[taker[q]] = request[taker[q]]
          /\ parker[q] \in Callers => request'[parker[q]] = request[parker[q]]
      BY <1>4, <3>2
    <3> QED
      BY <1>3, <3>1, <3>3 DEF TicketInv, Resumes
  <2> QED
    BY <2>1, <2>2
<1> QED
  BY <1>5, <1>6, <1>7 DEF IInv

(* Save: the pointer was never drawn, so nobody can have taken it.         *)
LEMMA SaveKeeps ==
  ASSUME IInv, NEW c \in Callers, Save(c)
  PROVE  IInv'
<1> USE DEF Asking, Running, Over, Acted, Is, Becomes
<1> PICK p \in Pointers :
      /\ Fresh(p) /\ parker' = [parker EXCEPT ![p] = c]
      /\ store' = [store EXCEPT ![p] = [flow |-> request[c].flow, step |-> request[c].at,
                                        audience |-> StepOf(c).asks]]
      /\ request' = [request EXCEPT ![c] = [request[c] EXCEPT !.pc = "report", !.made = p]]
  BY DEF Save
<1>1. request[c].pc = "save" /\ RequestInv(c) /\ taker' = taker
  BY DEF Save, IInv
<1>2. parker[p] = None /\ taker[p] = None
  BY DEF Fresh, IInv, TicketInv
<1>3. /\ request'[c].pc = "report" /\ request'[c].kind = request[c].kind
      /\ request'[c].ptr = request[c].ptr /\ request'[c].made = p
      /\ request'[c].status = None
      /\ \A d \in Callers \ {c} : request'[d] = request[d]
  BY <1>1 DEF IInv, Shapes, Idle, RequestInv
<1>4. Shapes'
  BY <1>1, <1>3 DEF IInv, Shapes
<1>5. ASSUME NEW d \in Callers PROVE RequestInv(d)'
  <2>1. CASE d # c
    <3>1. RequestInv(d) /\ request'[d] = request[d] /\ taker' = taker
      BY <1>1, <1>3, <2>1 DEF IInv
    <3>2. Parks(d) => parker'[request[d].made] = d
      BY <1>2 DEF IInv, Shapes, Parks
    <3> QED
      BY <3>1, <3>2 DEF RequestInv, Resumes, Took, Parks
  <2>2. CASE d = c
    <3>1. (Resumes(c) => Took(c))'
      BY <1>1, <1>3 DEF RequestInv, Resumes, Took, Running
    <3>2. Parks(c)'
      <4>1. parker'[p] = c
        BY DEF IInv, Shapes
      <4> QED
        BY <1>3, <4>1 DEF Parks
    <3> QED
      BY <1>3, <2>2, <3>1, <3>2 DEF RequestInv, Asking, Running, Over, Acted
  <2> QED
    BY <2>1, <2>2
<1>6. ASSUME NEW q \in Pointers PROVE TicketInv(q)'
  <2>1. CASE q = p
    BY <1>1, <1>2, <1>3, <2>1 DEF IInv, Shapes, TicketInv
  <2>2. CASE q # p
    <3>1. store'[q] = store[q] /\ parker'[q] = parker[q] /\ TicketInv(q)
      BY <2>2 DEF IInv, Shapes
    <3>2. parker[q] # c
      BY <1>1, <3>1 DEF TicketInv
    <3>3. taker[q] = c => /\ Resumes(c)' /\ request'[c].ptr = q
                          /\ request'[c].pc = "report" /\ request'[c].status = None
      BY <1>3, <3>1 DEF TicketInv, Resumes
    <3> QED
      <4>1. /\ taker[q] \in Callers \ {c} => request'[taker[q]] = request[taker[q]]
            /\ parker[q] \in Callers => request'[parker[q]] = request[parker[q]]
        BY <1>3, <3>2
      <4>2. ASSUME taker[q] = c PROVE TicketInv(q)'
        BY <1>1, <3>1, <3>3, <4>1, <4>2 DEF TicketInv, Asking
      <4>3. ASSUME taker[q] # c PROVE TicketInv(q)'
        BY <1>1, <3>1, <4>1, <4>3 DEF TicketInv, Resumes
      <4> QED
        BY <4>2, <4>3
  <2> QED
    BY <2>1, <2>2
<1> QED
  BY <1>4, <1>5, <1>6 DEF IInv

-----------------------------------------------------------------------------
(* What can happen to the tickets in one step.                             *)
Arrives(c) ==
  /\ Is(c, "idle") /\ UNCHANGED <<store, taker, parker>>
  /\ \E s : /\ Becomes(c, s) /\ DOMAIN s = DOMAIN Idle /\ s.made = None
            /\ \/ s.kind # "resume" /\ s.pc \in {"match", "step"} /\ s.status = None
               \/ s.kind # "resume" /\ s.pc = "answer" /\ s.status \notin {None, "suspended"}
               \/ s.kind = "resume" /\ s.pc = "load" /\ s.status = None /\ s.ptr \in Pointers

Kinds(c) ==
  \/ Arrives(c)
  \/ \E s : Goes(c, s) /\ Onwards(request[c], s)
  \/ Consume(c) /\ store[request[c].ptr] # None
  \/ Save(c)

(* Whatever a caller is told of was drawn as a pointer.                    *)
LEMMA KnownArePointers == IInv => Known \subseteq Pointers
<1> SUFFICES ASSUME IInv, NEW p \in Known PROVE p \in Pointers
  OBVIOUS
<1>1. CASE p \in DOMAIN Parked
  BY <1>1
<1>2. ASSUME NEW c \in Callers, Is(c, "answered"), p = request[c].made, p # None
      PROVE  p \in Pointers
  BY <1>2 DEF IInv, RequestInv, Over, Parks, Is
<1> QED
  BY <1>1, <1>2 DEF Known

(* Every step of a request is of one of these kinds.                       *)
LEMMA StepsAreOfAKind ==
  ASSUME IInv, NEW c \in Callers,
         \/ Handle(c) \/ Refuse(c) \/ HttpRun(c) \/ HttpResume(c) \/ HttpPending(c)
         \/ Serve(c)
  PROVE  Kinds(c)
<1> USE DEF Arrive, Arrives, Kinds
<1>1. CASE Handle(c)
  <2> DEFINE s == [Idle EXCEPT !.kind = "handle", !.pc = "match"]
  <2>1. /\ DOMAIN s = DOMAIN Idle /\ s.made = None /\ s.status = None
        /\ s.kind = "handle" /\ s.pc = "match"
    BY DEF Idle
  <2>2. Becomes(c, s)
    BY <1>1 DEF Handle
  <2> HIDE DEF s
  <2> QED
    BY <1>1, <2>1, <2>2 DEF Handle
<1>2. CASE Refuse(c)
  <2> PICK status \in {"unauthenticated", "malformed"} :
        Becomes(c, Answering([Idle EXCEPT !.kind = "refused"], status))
    BY <1>2 DEF Refuse
  <2> DEFINE s == Answering([Idle EXCEPT !.kind = "refused"], status)
  <2>1. /\ DOMAIN s = DOMAIN Idle /\ s.made = None /\ s.kind = "refused"
        /\ s.pc = "answer" /\ s.status = status
    BY DEF Answering, Idle
  <2>2. Becomes(c, s)
    OBVIOUS
  <2>3. status \notin {None, "suspended"}
    OBVIOUS
  <2> HIDE DEF s
  <2> QED
    BY <1>2, <2>1, <2>2, <2>3 DEF Refuse
<1>3. CASE HttpRun(c)
  <2> PICK flow \in Asked : Becomes(c, Enter([Idle EXCEPT !.kind = "run"], flow, None))
    BY <1>3 DEF HttpRun
  <2> DEFINE r == [Idle EXCEPT !.kind = "run"]
             s == Enter(r, flow, None)
  <2>1. DOMAIN r = DOMAIN Idle /\ r.kind = "run" /\ r.status = None /\ r.made = None
    BY DEF Idle
  <2>2. Entered(r, s)
    BY <2>1, EntersKeep
  <2>3. Becomes(c, s)
    OBVIOUS
  <2> HIDE DEF s, r
  <2> QED
    BY <1>3, <2>1, <2>2, <2>3 DEF HttpRun, Entered
<1>4. CASE HttpResume(c)
  <2> PICK p \in Known :
        Becomes(c, [Idle EXCEPT !.kind = "resume", !.ptr = p, !.pc = "load"])
    BY <1>4 DEF HttpResume
  <2> DEFINE s == [Idle EXCEPT !.kind = "resume", !.ptr = p, !.pc = "load"]
  <2>1. /\ DOMAIN s = DOMAIN Idle /\ s.made = None /\ s.status = None
        /\ s.kind = "resume" /\ s.pc = "load" /\ s.ptr = p
    BY DEF Idle
  <2>2. Becomes(c, s) /\ p \in Pointers
    BY KnownArePointers
  <2> HIDE DEF s
  <2> QED
    BY <1>4, <2>1, <2>2 DEF HttpResume
<1>5. CASE HttpPending(c)
  <2> DEFINE s == Answering([Idle EXCEPT !.kind = "pending"], "listed")
  <2>1. /\ DOMAIN s = DOMAIN Idle /\ s.made = None /\ s.kind = "pending"
        /\ s.pc = "answer" /\ s.status = "listed"
    BY DEF Answering, Idle
  <2>2. Becomes(c, s)
    BY <1>5 DEF HttpPending
  <2> HIDE DEF s
  <2> QED
    BY <1>5, <2>1, <2>2 DEF HttpPending
<1>6. CASE Serve(c)
  <2>1. CASE Plain(c)
    BY <2>1, PlainGoes
  <2>2. CASE ~Plain(c)
    BY <1>6, <2>2 DEF Serve, Plain
  <2> QED
    BY <2>1, <2>2
<1> QED
  BY <1>1, <1>2, <1>3, <1>4, <1>5, <1>6

(* The configuration is nothing to the tickets.                            *)
LEMMA Settings ==
  ASSUME SetAuthorizer \/ SetObserver \/ UNCHANGED vars
  PROVE  UNCHANGED <<store, request, taker, parker>>
  BY DEF SetAuthorizer, SetObserver, vars

(* Every step keeps the invariant.                                         *)
LEMMA INext == IInv /\ [Next]_vars => IInv'
<1> SUFFICES ASSUME IInv, [Next]_vars PROVE IInv'
  OBVIOUS
<1>1. ASSUME NEW c \in Callers, Kinds(c) PROVE IInv'
  <2>1. CASE Arrives(c)
    BY <2>1, ArrivalKeeps DEF Arrives
  <2>2. CASE \E s : Goes(c, s) /\ Onwards(request[c], s)
    BY <2>2, GoingKeeps
  <2> QED
    BY <1>1, <2>1, <2>2, ConsumeKeeps, SaveKeeps DEF Kinds
<1>2. ASSUME UNCHANGED <<store, request, taker, parker>> PROVE IInv'
  <2>1. Shapes'
    BY <1>2 DEF IInv, Shapes
  <2>2. ASSUME NEW c \in Callers PROVE RequestInv(c)'
    <3>1. RequestInv(c)
      BY DEF IInv
    <3> QED
      BY <1>2, <3>1 DEF RequestInv, Resumes, Took, Parks
  <2>3. ASSUME NEW p \in Pointers PROVE TicketInv(p)'
    <3>1. TicketInv(p)
      BY DEF IInv
    <3> QED
      BY <1>2, <3>1 DEF TicketInv, Resumes
  <2> QED
    BY <2>1, <2>2, <2>3 DEF IInv
<1> QED
  BY <1>1, <1>2, StepsAreOfAKind, Settings DEF Next

(* The invariant holds in every reachable state.                           *)
LEMMA Inductive == Spec => []IInv
  BY IInit, INext, PTL DEF Spec

(* Whatever requests race, every answer is true of the store: a refused    *)
(* resumption took nothing, an answered one took its pointer, and who      *)
(* parked a run that waits is told its pointer (ResumeAs, MemoryStore,     *)
(* httpapi.writeRun).                                                      *)
THEOREM AnswersHold == Spec => []AnswersAreTrue
<1>1. IInv => AnswersAreTrue
  <2> SUFFICES ASSUME IInv PROVE AnswersAreTrue
    OBVIOUS
  <2>1. ASSUME NEW c \in Callers
        PROVE  /\ request[c].status = "denied" => \A p \in Pointers : taker[p] # c
               /\ request[c].kind = "resume" /\ request[c].status \in Acted
                    => taker[request[c].ptr] = c
               /\ request[c].status = "suspended" => parker[request[c].made] = c
    <3>1. RequestInv(c) /\ (request[c].status # None => request[c].pc \in Over)
      BY DEF IInv, Shapes, RequestInv, Asking, Running, Over
    <3>2. ASSUME NEW p \in Pointers, request[c].status = "denied" PROVE taker[p] # c
      <4>1. TicketInv(p)
        BY DEF IInv
      <4> QED
        BY <3>2, <4>1 DEF TicketInv
    <3> QED
      BY <3>1, <3>2 DEF RequestInv, Resumes, Took, Parks, Acted
  <2>2. ASSUME NEW p \in Pointers, store[p] # None
        PROVE  /\ taker[p] = None
               /\ parker[p] # Earlier => /\ request[parker[p]].made = p
                                         /\ request[parker[p]].pc # "panicked"
    BY <2>2 DEF IInv, TicketInv, Over
  <2> QED
    BY <2>1, <2>2 DEF AnswersAreTrue
<1> QED
  BY Inductive, <1>1, PTL

-----------------------------------------------------------------------------
(* What one step does to one ticket.                                       *)
Advances(p) ==
  \/ TicketStage(p)' = TicketStage(p)
  \/ <<TicketStage(p), TicketStage(p)'>> \in Ticket!Move

LEMMA GoingAdvances ==
  ASSUME IInv, NEW c \in Callers, NEW s, Goes(c, s), Onwards(request[c], s),
         NEW p \in Pointers
  PROVE  Advances(p)
<1> USE DEF Asking, Running, Over, Is
<1>1. /\ request'[c] = s /\ taker' = taker /\ parker' = parker
      /\ \A d \in Callers \ {c} : request'[d] = request[d]
  BY DEF Goes, IInv, Shapes
<1>2. TicketInv(p) /\ (taker[p] # None => RequestInv(taker[p]))
  BY DEF IInv, TicketInv
<1>3. CASE taker[p] # c
  <2>1. taker[p] # None => request'[taker[p]] = request[taker[p]]
    BY <1>1, <1>2, <1>3 DEF TicketInv
  <2> QED
    BY <1>1, <2>1 DEF Advances, TicketStage
<1>4. CASE taker[p] = c
  <2>1. parker[p] # None /\ taker[p] # None
    BY <1>2, <1>4 DEF TicketInv
  <2> QED
    BY <1>1, <1>2, <1>4, <2>1 DEF Onwards, TicketInv, RequestInv, Advances, TicketStage,
                                  Ticket!Move
<1> QED
  BY <1>3, <1>4

(* An arrival takes and parks nothing.                                     *)
LEMMA ArrivalAdvances ==
  ASSUME IInv, NEW c \in Callers, Arrives(c), NEW p \in Pointers
  PROVE  Advances(p)
<1>1. TicketInv(p) /\ DOMAIN request = Callers
  BY DEF IInv, Shapes
<1>2. taker' = taker /\ parker' = parker /\ taker[p] # c
  BY <1>1 DEF Arrives, TicketInv, Is
<1>3. taker[p] # None => request'[taker[p]] = request[taker[p]]
  BY <1>1, <1>2 DEF Arrives, Becomes, TicketInv
<1> QED
  BY <1>2, <1>3 DEF Advances, TicketStage, Is

(* Consume takes the ticket it was given and no other.                     *)
LEMMA ConsumeAdvances ==
  ASSUME IInv, NEW c \in Callers, Consume(c), store[request[c].ptr] # None,
         NEW p \in Pointers
  PROVE  Advances(p)
<1> USE DEF Asking, Is, Becomes
<1> DEFINE q == request[c].ptr
<1>1. /\ q \in Pointers /\ request[c].pc = "consume" /\ request[c].status = None
      /\ TicketInv(p) /\ TicketInv(q)
  BY DEF Consume, IInv, RequestInv
<1>2. /\ taker' = [taker EXCEPT ![q] = c] /\ parker' = parker
      /\ request' = [request EXCEPT ![c].pc = "begin"]
      /\ DOMAIN taker = Pointers /\ DOMAIN request = Callers
      /\ DOMAIN request[c] = DOMAIN Idle
  BY DEF Consume, IInv, Shapes
<1>3. CASE p = q
  <2>1. taker[p] = None /\ parker[p] # None
    BY <1>1, <1>3 DEF TicketInv
  <2>2. taker'[p] = c /\ request'[c].pc = "begin" /\ request'[c].status = None
    BY <1>1, <1>2, <1>3 DEF Idle
  <2>3. TicketStage(p) = "parked"
    BY <2>1 DEF TicketStage
  <2>4. TicketStage(p)' = "taken"
    BY <1>2, <2>1, <2>2 DEF TicketStage
  <2> QED
    BY <2>3, <2>4 DEF Advances, Ticket!Move
<1>4. CASE p # q
  <2>1. taker'[p] = taker[p] /\ taker[p] # c
    BY <1>1, <1>2, <1>4 DEF TicketInv
  <2>2. taker[p] # None => request'[taker[p]] = request[taker[p]]
    BY <1>1, <1>2, <2>1 DEF TicketInv
  <2> QED
    BY <1>2, <2>1, <2>2 DEF Advances, TicketStage
<1> QED
  BY <1>3, <1>4

(* Save issues a ticket, and the one the run was resumed by is still       *)
(* being acted on.                                                         *)
LEMMA SaveAdvances ==
  ASSUME IInv, NEW c \in Callers, Save(c), NEW p \in Pointers
  PROVE  Advances(p)
<1> USE DEF Running, Is, Becomes
<1> PICK q \in Pointers :
      /\ Fresh(q) /\ parker' = [parker EXCEPT ![q] = c]
      /\ request' = [request EXCEPT ![c] = [request[c] EXCEPT !.pc = "report", !.made = q]]
  BY DEF Save
<1>1. /\ request[c].pc = "save" /\ request[c].status = None /\ taker' = taker
      /\ TicketInv(p) /\ TicketInv(q)
  BY DEF Save, IInv, RequestInv
<1>2. /\ DOMAIN parker = Pointers /\ DOMAIN request = Callers
      /\ DOMAIN request[c] = DOMAIN Idle
  BY DEF IInv, Shapes
<1>3. CASE p = q
  <2>1. parker[p] = None /\ taker[p] = None /\ parker'[p] = c
    BY <1>1, <1>2, <1>3 DEF Fresh, TicketInv
  <2> QED
    BY <1>1, <2>1 DEF Advances, TicketStage, Ticket!Move
<1>4. CASE p # q
  <2>1. parker'[p] = parker[p]
    BY <1>2, <1>4
  <2>2. request'[c].pc = "report" /\ request'[c].status = None
    BY <1>1, <1>2 DEF Idle
  <2>3. \A d \in Callers \ {c} : request'[d] = request[d]
    BY <1>2
  <2>4. taker[p] # None => taker[p] \in Callers
    BY <1>1 DEF TicketInv
  <2> QED
    BY <1>1, <2>1, <2>2, <2>3, <2>4 DEF Advances, TicketStage
<1> QED
  BY <1>3, <1>4

(* MemoryStore implements the life of a ticket: whatever requests race,    *)
(* panic or lose their answers, a run that waits is taken once, acted on   *)
(* once and never queued again (MemoryStore.Consume, ResumeAs, suspend).   *)
THEOREM MemoryStoreImplementsTicket == Spec => TicketLife
<1>1. IInv /\ [Next]_vars => [Ticket!Next]_Tickets
  <2> SUFFICES ASSUME IInv, [Next]_vars PROVE Ticket!Next
    OBVIOUS
  <2>1. ASSUME NEW c \in Callers, Kinds(c), NEW p \in Pointers PROVE Advances(p)
    BY <2>1, ArrivalAdvances, GoingAdvances, ConsumeAdvances, SaveAdvances DEF Kinds
  <2>2. ASSUME UNCHANGED <<store, request, taker, parker>>, NEW p \in Pointers
        PROVE  Advances(p)
    BY <2>2 DEF Advances, TicketStage, Is
  <2>3. \A p \in Pointers : Advances(p)
    BY <2>1, <2>2, StepsAreOfAKind, Settings DEF Next
  <2>4. Tickets' \in [Pointers -> Ticket!Stage]
    <3>1. \A p \in Pointers : TicketStage(p)' \in Ticket!Stage
      BY DEF TicketStage, Ticket!Stage
    <3> QED
      BY <3>1 DEF Tickets
  <2>5. ASSUME NEW p \in Pointers
        PROVE  Tickets'[p] = Tickets[p] \/ <<Tickets[p], Tickets'[p]>> \in Ticket!Move
    BY <2>3 DEF Advances, Tickets
  <2> QED
    BY <2>4, <2>5 DEF Ticket!Next
<1> QED
  BY Inductive, <1>1, PTL DEF Spec, TicketLife

-----------------------------------------------------------------------------
(* What is known of the constants, part by part.                           *)
LEMMA Sizes == MaxSteps \in Nat
  OBVIOUS
LEMMA ParkedRuns ==
  /\ \A p \in DOMAIN Parked :
       /\ Parked[p] # None /\ Parked[p].flow \in DOMAIN Flows
       /\ Parked[p].step \in DOMAIN Flows[Parked[p].flow].steps
  /\ None \notin Callers /\ Earlier \notin Callers
  OBVIOUS
LEMMA NoStatus ==
  None \notin {"resume", "unauthenticated", "malformed", "listed", "no intent", "not run",
               "denied", "suspended", "completed", "failed"}
  OBVIOUS
HIDE ServiceAssumption

(* Where a request works on a step, the flow and its step are there.       *)
AtFlow(c) == request[c].flow \in DOMAIN Flows
OnStep    == {"authorize", "consume", "begin", "probe", "outcome", "act", "trip", "save"}

FlowInv ==
  /\ \A c \in Callers :
       /\ request[c].steps \in 0 .. MaxSteps
       /\ request[c].pc \in Running \cup OnStep => AtFlow(c)
       /\ request[c].pc \in OnStep => ~Missing(c)
  /\ \A p \in Pointers : store[p] # None =>
       store[p].flow \in DOMAIN Flows /\ store[p].step \in DOMAIN Flows[store[p].flow].steps

(* What a request may become, in this respect.                             *)
Founded(s) ==
  /\ s.steps \in 0 .. MaxSteps
  /\ s.pc \in Running \cup OnStep => s.flow \in DOMAIN Flows
  /\ s.pc \in OnStep => s.at \in DOMAIN Flows[s.flow].steps

LEMMA FoundedAnswers ==
  ASSUME NEW r, NEW status
  PROVE  Founded(Answering(r, status))
<1> DEFINE s == Answering(r, status)
<1>1. s.pc = "answer" /\ s.steps = 0
  BY DEF Answering, Idle
<1>2. 0 \in 0 .. MaxSteps
  BY Sizes
<1> HIDE DEF s
<1>3. s.pc \notin Running \cup OnStep
  BY <1>1 DEF Running, OnStep
<1> QED
  BY <1>1, <1>2, <1>3 DEF Founded, s

LEMMA FoundedEntries ==
  ASSUME NEW r, DOMAIN r = DOMAIN Idle, r.steps \in 0 .. MaxSteps, NEW flow, NEW step
  PROVE  Founded(Enter(r, flow, step))
<1>1. CASE flow \notin DOMAIN Flows
  BY <1>1, FoundedAnswers DEF Enter
<1>2. CASE flow \in DOMAIN Flows
  <2> DEFINE s == [r EXCEPT !.pc = "step", !.flow = flow,
                            !.at = IF step = None THEN Flows[flow].entry ELSE step]
  <2>1. Enter(r, flow, step) = s
    BY <1>2 DEF Enter
  <2>2. s.pc = "step" /\ s.flow = flow /\ s.steps = r.steps
    BY DEF Idle
  <2> QED
    BY <1>2, <2>1, <2>2 DEF Founded, OnStep
<1> QED
  BY <1>1, <1>2

LEMMA StepsFound ==
  ASSUME IInv, FlowInv, NEW c \in Callers,
         \/ Handle(c) \/ Refuse(c) \/ HttpRun(c) \/ HttpResume(c) \/ HttpPending(c)
         \/ Serve(c)
  PROVE  \E s : Becomes(c, s) /\ Founded(s)
<1> DEFINE r == request[c]
<1>0. DOMAIN r = DOMAIN Idle /\ Founded(r)
  BY DEF IInv, Shapes, FlowInv, Founded, AtFlow, Missing
<1>0a. DOMAIN Idle = {"kind", "pc", "flow", "at", "steps", "ptr", "audience", "status", "made"}
  BY DEF Idle
<1>1. CASE Handle(c)
  <2>1. Founded([Idle EXCEPT !.kind = "handle", !.pc = "match"])
    BY Sizes DEF Founded, Idle, Running, OnStep
  <2> QED
    BY <1>1, <2>1 DEF Handle
<1>2. CASE Refuse(c)
  BY <1>2, FoundedAnswers DEF Refuse
<1>3. CASE HttpRun(c)
  <2> DEFINE e == [Idle EXCEPT !.kind = "run"]
  <2>1. DOMAIN e = DOMAIN Idle /\ e.steps \in 0 .. MaxSteps
    BY Sizes DEF Idle
  <2> HIDE DEF e
  <2>2. \A flow : Founded(Enter(e, flow, None))
    BY <2>1, FoundedEntries
  <2> QED
    BY <1>3, <2>2 DEF HttpRun, e
<1>4. CASE HttpResume(c)
  <2>1. \A p : Founded([Idle EXCEPT !.kind = "resume", !.ptr = p, !.pc = "load"])
    BY Sizes DEF Founded, Idle, Running, OnStep
  <2> QED
    BY <1>4, <2>1 DEF HttpResume
<1>5. CASE HttpPending(c)
  BY <1>5, FoundedAnswers DEF HttpPending
<1>6. CASE Routed(c)
  <2>1. \A flow : Founded(Enter(r, flow, None))
    BY <1>0, FoundedEntries DEF Founded
  <2> QED
    BY <1>6, <2>1, FoundedAnswers DEF Routed
<1>7. CASE Load(c)
  <2>1. CASE store[r.ptr] = None
    BY <1>7, <2>1, FoundedAnswers DEF Load
  <2>2. CASE store[r.ptr] # None
    <3>1. r.ptr \in Pointers
      BY <1>7 DEF Load, IInv, RequestInv, Asking, Is
    <3> DEFINE s == [r EXCEPT !.pc = "authorize", !.flow = store[r.ptr].flow,
                              !.at = store[r.ptr].step, !.audience = store[r.ptr].audience]
    <3>2. s.pc = "authorize" /\ s.flow = store[r.ptr].flow /\ s.at = store[r.ptr].step
          /\ s.steps = r.steps
      BY <1>0, <1>0a
    <3>3. Becomes(c, s)
      BY <1>7, <2>2 DEF Load
    <3>4. Founded(s)
      BY <1>0, <2>2, <3>1, <3>2 DEF FlowInv, Founded
    <3> QED
      BY <3>3, <3>4
  <2> QED
    BY <2>1, <2>2
<1>8. CASE Authorize(c)
  <2>1. Founded([r EXCEPT !.pc = "consume"])
    BY <1>0, <1>0a, <1>8 DEF Authorize, Founded, OnStep, Is
  <2> QED
    BY <1>8, <2>1, FoundedAnswers DEF Authorize
<1>9. CASE Consume(c)
  <2>1. Founded([r EXCEPT !.pc = "begin"])
    BY <1>0, <1>0a, <1>9 DEF Consume, Founded, OnStep, Is
  <2> QED
    BY <1>9, <2>1, FoundedAnswers DEF Consume
<1>10. CASE Begin(c)
  <2>1. \A flow, step : Founded(Enter(r, flow, step))
    BY <1>0, FoundedEntries DEF Founded
  <2> QED
    BY <1>10, <2>1 DEF Begin
<1>11. CASE Turn(c)
  <2> DEFINE fr == [r EXCEPT !.steps = @ + 1]
             pc == IF StepOf(c).probe THEN "probe" ELSE "act"
             s == [fr EXCEPT !.pc = pc]
  <2>1. CASE r.at # None /\ WithinLimit(c) /\ ~Missing(c)
    <3>1. s.pc \in {"probe", "act"} /\ s.flow = r.flow /\ s.at = r.at /\ s.steps = r.steps + 1
      BY <1>0, <1>0a
    <3>2. Founded(s)
      BY <1>0, <1>11, <2>1, <3>1, Sizes DEF Turn, Is, Founded, WithinLimit, Missing, Running, OnStep
    <3>3. Becomes(c, s)
      BY <1>11, <2>1 DEF Turn
    <3> QED
      BY <3>2, <3>3
  <2>2. CASE ~(r.at # None /\ WithinLimit(c) /\ ~Missing(c))
    BY <1>11, <2>2, FoundedAnswers DEF Turn
  <2> QED
    BY <2>1, <2>2
<1>12. CASE Probe(c) \/ ProbeOutcome(c)
  <2>1. \A pc \in {"outcome", "act", "trip"} : Founded([r EXCEPT !.pc = pc])
    BY <1>0, <1>0a, <1>12 DEF Probe, ProbeOutcome, Founded, OnStep, Is
  <2> QED
    BY <1>12, <2>1 DEF Probe, ProbeOutcome
<1>13. CASE Act(c)
  <2>1. Founded([Answering(r, None) EXCEPT !.pc = "panicked"])
    BY Sizes DEF Founded, Answering, Idle, Running, OnStep
  <2>2. \A pc \in {"save", "trip"} : Founded([r EXCEPT !.pc = pc])
    BY <1>0, <1>0a, <1>13 DEF Act, Founded, OnStep, Is
  <2>3. \A at : Founded([r EXCEPT !.pc = "step", !.at = at])
    BY <1>0, <1>0a, <1>13 DEF Act, Founded, OnStep, Is
  <2> QED
    BY <1>13, <2>1, <2>2, <2>3 DEF Act
<1>14. CASE Trip(c)
  <2>1. \A at : Founded([r EXCEPT !.pc = "step", !.at = at])
    BY <1>0, <1>0a, <1>14 DEF Trip, Founded, OnStep, Is
  <2> QED
    BY <1>14, <2>1, FoundedAnswers DEF Trip
<1>15. CASE Save(c)
  <2>1. \A p : Founded([r EXCEPT !.pc = "report", !.made = p])
    BY <1>0, <1>0a DEF Founded, OnStep, Running
  <2> QED
    BY <1>15, <2>1 DEF Save
<1>16. CASE ReportSuspension(c)
  BY <1>16, FoundedAnswers DEF ReportSuspension
<1>17. CASE Respond(c)
  <2>1. \A pc \in {"answered", "lost"} : Founded([r EXCEPT !.pc = pc])
    BY <1>0, <1>0a DEF Founded, OnStep, Running
  <2> QED
    BY <1>17, <2>1 DEF Respond
<1> QED
  BY <1>1, <1>2, <1>3, <1>4, <1>5, <1>6, <1>7, <1>8, <1>9, <1>10, <1>11, <1>12,
     <1>13, <1>14, <1>15, <1>16, <1>17 DEF Serve

(* What waits in the store was there, or has just been saved from a step.  *)
LEMMA FlowNext == IInv /\ FlowInv /\ [Next]_vars => FlowInv'
<1> SUFFICES ASSUME IInv, FlowInv, [Next]_vars PROVE FlowInv'
  OBVIOUS
<1>1. ASSUME NEW c \in Callers,
             \/ Handle(c) \/ Refuse(c) \/ HttpRun(c) \/ HttpResume(c) \/ HttpPending(c)
             \/ Serve(c)
      PROVE  FlowInv'
  <2>1. PICK s : Becomes(c, s) /\ Founded(s)
    BY <1>1, StepsFound
  <2>2. request'[c] = s /\ \A d \in Callers \ {c} : request'[d] = request[d]
    BY <2>1 DEF Becomes, IInv, Shapes
  <2>3. ASSUME NEW d \in Callers
        PROVE  /\ request'[d].steps \in 0 .. MaxSteps
               /\ request'[d].pc \in Running \cup OnStep => AtFlow(d)'
               /\ request'[d].pc \in OnStep => ~Missing(d)'
    BY <2>1, <2>2 DEF FlowInv, Founded, AtFlow, Missing
  <2>4. ASSUME NEW p \in Pointers, store'[p] # None
        PROVE  /\ store'[p].flow \in DOMAIN Flows
               /\ store'[p].step \in DOMAIN Flows[store'[p].flow].steps
    <3>1. CASE store'[p] = store[p]
      BY <2>4, <3>1 DEF FlowInv
    <3>2. CASE Save(c) /\ store'[p] # store[p]
      <4>1. store'[p] = [flow |-> request[c].flow, step |-> request[c].at,
                         audience |-> StepOf(c).asks]
        BY <3>2 DEF Save, IInv, Shapes
      <4>2. AtFlow(c) /\ ~Missing(c)
        BY <3>2 DEF Save, Is, FlowInv, OnStep
      <4> QED
        BY <4>1, <4>2 DEF AtFlow, Missing
    <3>3. ~Save(c) => store'[p] \in {store[p], None}
      BY <1>1 DEF Handle, Refuse, HttpRun, HttpResume, HttpPending, Arrive, Serve, Routed,
         Load, Authorize, Consume, Begin, Turn, Probe, ProbeOutcome, Act, Trip,
         ReportSuspension, Respond, IInv, Shapes
    <3> QED
      BY <2>4, <3>1, <3>2, <3>3
  <2> QED
    BY <2>3, <2>4 DEF FlowInv
<1>2. ASSUME UNCHANGED <<store, request, taker, parker>> PROVE FlowInv'
  BY <1>2 DEF FlowInv, AtFlow, Missing
<1> QED
  BY <1>1, <1>2, Settings DEF Next

LEMMA FlowInit == Init => FlowInv
  BY Sizes, ParkedRuns DEF Init, FlowInv, Idle, Running, OnStep

(* A run walks only steps its workflow has and never past the ceiling, an  *)
(* answer has a status, and a run that waits can be gone on with           *)
(* (runFrom, suspend, ResumeAs).                                           *)
THEOREM ServiceTypes == Spec => []TypeOK
<1>1. IInv /\ FlowInv => TypeOK
  <2> SUFFICES ASSUME IInv, FlowInv PROVE TypeOK
    OBVIOUS
  <2>1. ASSUME NEW c \in Callers
        PROVE  request[c].status = None <=> request[c].pc \notin {"answer", "answered", "lost"}
    <3>1. /\ RequestInv(c)
          /\ request[c].pc \in {"idle", "match", "begin", "report", "panicked"}
                                 \cup Asking \cup Running \cup Over
      BY DEF IInv, Shapes
    <3> QED
      BY <3>1 DEF RequestInv, Asking, Running, Over
  <2> QED
    BY <2>1 DEF TypeOK, FlowInv, OnStep
<1> QED
  BY IInit, INext, FlowInit, FlowNext, <1>1, PTL DEF Spec

-----------------------------------------------------------------------------
(* Who is where, and what was parked.                                      *)
At(pc)    == {c \in Callers : Is(c, pc)}
Busy      == {c \in Callers : ~Is(c, "idle")}
Stopped   == {c \in Callers : request[c].status = "suspended"}
Parkings  == {p \in Pointers : parker[p] \in Callers}

(* The recorders, and the row of what nobody is told.                      *)
Rows == Recorders \cup {None}

(* What the recorders have counted, against where the requests are.        *)
CountInv ==
  /\ IsFiniteSet(Busy) /\ IsFiniteSet(Parkings)
  /\ observer \in Rows /\ mishaps \in Nat
  /\ counts \in [Rows -> [Events -> Nat]]
  /\ Happened("trip") + Cardinality(At("trip")) = mishaps
  /\ Happened("suspension") + Cardinality(At("report")) <= Cardinality(Parkings)
  /\ LET d == counts["diagnostics"]
     IN /\ d["run"] = Cardinality(Busy)
        /\ d["suspension"] <= Cardinality(Stopped)
        /\ d["match"] + d["miss"] + Cardinality(At("match")) <= Cardinality(Busy)
        /\ d["refusal"] <= d["outcome"]

LEMMA CountInit == Init => CountInv
<1> SUFFICES ASSUME Init PROVE CountInv
  OBVIOUS
<1>1. Busy = {} /\ Stopped = {} /\ \A pc \in {"trip", "report", "match"} : At(pc) = {}
  BY NoStatus DEF Init, Busy, Stopped, At, Is, Idle
<1>2. Parkings = {}
  BY ParkedRuns DEF Init, Parkings
<1>3. \A o \in Rows : \A e \in Events : counts[o][e] = 0
  BY DEF Init, Rows
<1>4. counts \in [Rows -> [Events -> Nat]] /\ observer \in Rows /\ mishaps = 0
  BY DEF Init, Rows
<1>5. Happened("trip") = 0 /\ Happened("suspension") = 0
  BY <1>3 DEF Happened, Rows, Recorders, Events
<1>6. Cardinality({}) = 0 /\ IsFiniteSet({})
  BY FS_EmptySet
<1>7. /\ Cardinality(Busy) = 0 /\ Cardinality(Stopped) = 0 /\ Cardinality(Parkings) = 0
      /\ \A pc \in {"trip", "report", "match"} : Cardinality(At(pc)) = 0
  BY <1>1, <1>2, <1>6
<1>8. \A e \in {"run", "suspension", "match", "miss", "refusal", "outcome"} :
        counts["diagnostics"][e] = 0
  BY <1>3 DEF Rows, Recorders, Events
<1>9. /\ Happened("trip") + Cardinality(At("trip")) = mishaps
      /\ Happened("suspension") + Cardinality(At("report")) <= Cardinality(Parkings)
  BY <1>4, <1>5, <1>7
<1>10. LET d == counts["diagnostics"]
       IN /\ d["run"] = Cardinality(Busy)
          /\ d["suspension"] <= Cardinality(Stopped)
          /\ d["match"] + d["miss"] + Cardinality(At("match")) <= Cardinality(Busy)
          /\ d["refusal"] <= d["outcome"]
  BY <1>7, <1>8
<1>11. IsFiniteSet(Busy) /\ IsFiniteSet(Parkings) /\ mishaps \in Nat
  BY <1>1, <1>2, <1>4, <1>6
<1> QED
  BY <1>4, <1>9, <1>10, <1>11 DEF CountInv

(* 1 if a condition holds, to add up what a step changes.                  *)
One(condition) == IF condition THEN 1 ELSE 0

(* A set that an element joins or leaves.                                  *)
LEMMA Joining ==
  ASSUME NEW S, IsFiniteSet(S), NEW T, NEW c, \A d : d # c => (d \in S <=> d \in T)
  PROVE  /\ IsFiniteSet(T) /\ Cardinality(S) \in Nat /\ Cardinality(T) \in Nat
         /\ Cardinality(T) + One(c \in S) = Cardinality(S) + One(c \in T)
<1>1. Cardinality(S) \in Nat
  BY FS_CardinalityType
<1>2. CASE c \in T
  <2>1. T = S \cup {c}
    BY <1>2
  <2>2. /\ IsFiniteSet(T)
        /\ Cardinality(T) = IF c \in S THEN Cardinality(S) ELSE Cardinality(S) + 1
    BY <2>1, FS_AddElement
  <2> QED
    BY <1>1, <1>2, <2>2 DEF One
<1>3. CASE c \notin T
  <2>1. T = S \ {c}
    BY <1>3
  <2>2. /\ IsFiniteSet(T)
        /\ Cardinality(T) = IF c \in S THEN Cardinality(S) - 1 ELSE Cardinality(S)
    BY <2>1, FS_RemoveElement
  <2>3. Cardinality(T) \in Nat
    BY <2>2, FS_CardinalityType
  <2> QED
    BY <1>1, <1>3, <2>2, <2>3 DEF One
<1> QED
  BY <1>2, <1>3

(* A recorder, told of some events, counts those it counts.                *)
LEMMA Told ==
  ASSUME counts \in [Rows -> [Events -> Nat]], NEW o \in Rows, NEW events, Telling(o, events)
  PROVE  /\ counts' \in [Rows -> [Events -> Nat]]
         /\ \A row \in Rows : \A e \in Events :
              counts'[row][e] = counts[row][e] + One(o = row /\ e \in events \cap Counted(row))
<1> DEFINE told == [e \in Events |-> counts[o][e]
                                      + IF e \in events \cap Counted(o) THEN 1 ELSE 0]
<1>1. counts' = [counts EXCEPT ![o] = told]
  BY DEF Telling
<1>2. told \in [Events -> Nat]
  OBVIOUS
<1>3. \A e \in Events : told[e] = counts[o][e] + One(e \in events \cap Counted(o))
  BY DEF One
<1> HIDE DEF told
<1>4. /\ counts' \in [Rows -> [Events -> Nat]]
      /\ \A row \in Rows : counts'[row] = IF row = o THEN told ELSE counts[row]
  BY <1>1, <1>2
<1> QED
  BY <1>3, <1>4 DEF One

-----------------------------------------------------------------------------
(* A step of a request.                                                    *)
StepsOn(c) ==
  \/ Handle(c) \/ Refuse(c) \/ HttpRun(c) \/ HttpResume(c) \/ HttpPending(c)
  \/ Serve(c)

Quiet(c) ==
  \/ Load(c) \/ Authorize(c) \/ Consume(c) \/ Begin(c) \/ Turn(c) \/ Respond(c)

(* What a step of a request does to its own place.                         *)
LEMMA StepMoves ==
  ASSUME IInv, NEW c \in Callers, StepsOn(c)
  PROVE  /\ Becomes(c, request'[c]) /\ request'[c].pc # "idle"
         /\ request'[c].status = "suspended"
              <=> Is(c, "report") \/ request[c].status = "suspended"
         /\ ~(Is(c, "report") /\ request[c].status = "suspended")
<1> USE DEF Asking, Running, Over, Is, Becomes
<1> DEFINE r == request[c]
<1>1. DOMAIN request = Callers /\ RequestInv(c) /\ DOMAIN r = DOMAIN Idle
  BY DEF IInv, Shapes
<1>2. ~(r.pc = "report" /\ r.status = "suspended")
      /\ (r.pc \notin Over => r.status # "suspended")
  <2>1. r.pc \in {"idle", "match", "begin", "report", "panicked"} \cup Asking \cup Running \cup Over
    BY DEF IInv, Shapes
  <2> QED
    BY <1>1, <2>1, NoStatus DEF RequestInv
<1>3. CASE Arrives(c)
  BY <1>1, <1>2, <1>3, NoStatus DEF Arrives
<1>4. CASE \E s : Goes(c, s) /\ Onwards(r, s)
  BY <1>1, <1>2, <1>4, NoStatus DEF Goes, Onwards
<1>5. CASE Consume(c) /\ store[r.ptr] # None
  <2>1. request' = [request EXCEPT ![c] = [r EXCEPT !.pc = "begin"]] /\ r.pc = "consume"
    BY <1>5 DEF Consume
  <2>2. request'[c].pc = "begin" /\ request'[c].status = r.status
    BY <1>1, <2>1 DEF Idle
  <2> QED
    BY <1>1, <1>2, <2>1, <2>2
<1>6. CASE Save(c)
  <2>1. PICK p : request' = [request EXCEPT ![c] = [r EXCEPT !.pc = "report", !.made = p]]
    BY <1>6 DEF Save
  <2>2. request'[c].pc = "report" /\ request'[c].status = r.status /\ r.pc = "save"
    BY <1>1, <1>6, <2>1 DEF Idle, Save
  <2> QED
    BY <1>1, <1>2, <2>1, <2>2
<1>7. Kinds(c)
  BY StepsAreOfAKind DEF StepsOn
<1> QED
  BY <1>3, <1>4, <1>5, <1>6, <1>7 DEF Kinds

(* Where it goes, as far as the counts ask.                                *)
LEMMA QuietMoves ==
  ASSUME IInv, NEW c \in Callers, Quiet(c)
  PROVE  /\ request[c].pc \notin {"idle", "match", "trip", "report", "save"}
         /\ request'[c].pc \notin {"match", "trip", "report"}
         /\ UNCHANGED <<counts, mishaps, parker>>
<1> USE DEF Is, Becomes
<1> DEFINE r == request[c]
<1>1. DOMAIN request = Callers /\ DOMAIN r = DOMAIN Idle
  BY DEF IInv, Shapes
<1>2. \A status : Answering(r, status).pc = "answer"
  BY DEF Answering, Idle
<1>3. \A flow, step : Enter(r, flow, step).pc \in {"answer", "step"}
  <2>1. ASSUME NEW flow, NEW step PROVE Enter(r, flow, step).pc \in {"answer", "step"}
    <3>1. CASE flow \notin DOMAIN Flows
      BY <1>2, <3>1 DEF Enter
    <3>2. CASE flow \in DOMAIN Flows
      BY <1>1, <3>2 DEF Enter, Idle
    <3> QED
      BY <3>1, <3>2
  <2> QED
    BY <2>1
<1>4. CASE Load(c)
  BY <1>1, <1>2, <1>4 DEF Load, Idle
<1>5. CASE Authorize(c)
  BY <1>1, <1>2, <1>5 DEF Authorize, Idle
<1>6. CASE Consume(c)
  BY <1>1, <1>2, <1>6 DEF Consume, Idle
<1>7. CASE Begin(c)
  BY <1>1, <1>3, <1>7 DEF Begin
<1>8. CASE Turn(c)
  <2> DEFINE fr == [r EXCEPT !.steps = @ + 1]
             s == [fr EXCEPT !.pc = IF StepOf(c).probe THEN "probe" ELSE "act"]
  <2>1. s.pc \in {"probe", "act"}
    BY <1>1 DEF Idle
  <2>2. \A status : Answering(fr, status).pc = "answer"
    BY DEF Answering, Idle
  <2>3. /\ r.pc = "step" /\ UNCHANGED <<counts, mishaps, parker>>
        /\ \/ \E status : Becomes(c, Answering(r, status))
           \/ \E status : Becomes(c, Answering(fr, status))
           \/ Becomes(c, s)
    BY <1>8 DEF Turn
  <2> HIDE DEF s, fr
  <2> QED
    BY <1>1, <1>2, <2>1, <2>2, <2>3
<1>9. CASE Respond(c)
  BY <1>1, <1>9 DEF Respond, Idle
<1> QED
  BY <1>4, <1>5, <1>6, <1>7, <1>8, <1>9 DEF Quiet

LEMMA ArrivalMoves ==
  ASSUME IInv, NEW c \in Callers,
         Handle(c) \/ Refuse(c) \/ HttpRun(c) \/ HttpResume(c) \/ HttpPending(c)
  PROVE  /\ Arrive(c) /\ request[c].status # "suspended"
         /\ request'[c].pc \notin {"trip", "report"}
<1> USE DEF Is
<1>1. Arrive(c)
  BY DEF Handle, Refuse, HttpRun, HttpResume, HttpPending
<1>2. request[c].pc = "idle" /\ request[c].status = None
  BY <1>1 DEF Arrive, IInv, RequestInv
<1>3. Kinds(c) /\ DOMAIN request = Callers
  BY StepsAreOfAKind DEF IInv, Shapes
<1>4. CASE Arrives(c)
  <2>1. PICK s : Becomes(c, s) /\ s.pc \in {"match", "step", "answer", "load"}
    BY <1>4 DEF Arrives
  <2>2. request'[c].pc \notin {"trip", "report"}
    BY <1>3, <2>1 DEF Becomes
  <2> QED
    BY <1>1, <1>2, <2>2, NoStatus
<1>5. ~Consume(c) /\ ~Save(c) /\ \A s : ~Onwards(request[c], s)
  BY <1>2 DEF Consume, Save, Onwards, Asking, Running, Over
<1> QED
  BY <1>1, <1>2, <1>3, <1>4, <1>5, NoStatus DEF Kinds

-----------------------------------------------------------------------------
(* What a step adds to the counts, against where it takes its request.     *)
Tally(c) ==
  LET d == counts["diagnostics"]
      s == request'[c]
  IN /\ counts' \in [Rows -> [Events -> Nat]] /\ mishaps' \in Nat /\ observer' = observer
     /\ Happened("trip")' + One(s.pc = "trip") + mishaps
          = Happened("trip") + One(Is(c, "trip")) + mishaps'
     /\ Happened("suspension")' + One(s.pc = "report")
          <= Happened("suspension") + One(Is(c, "report")) + One(Is(c, "save"))
     /\ d["run"]' = d["run"] + One(Is(c, "idle"))
     /\ d["suspension"]' <= d["suspension"] + One(Is(c, "report"))
     /\ d["match"]' + d["miss"]' + One(s.pc = "match")
          <= d["match"] + d["miss"] + One(Is(c, "match")) + One(Is(c, "idle"))
     /\ d["refusal"]' + d["outcome"] <= d["refusal"] + d["outcome"]'
     /\ parker' # parker => Is(c, "save")

LEMMA Typed ==
  ASSUME CountInv
  PROVE  /\ counts \in [Rows -> [Events -> Nat]] /\ mishaps \in Nat
         /\ observer \in Rows /\ Rows = {"diagnostics", "scorecard", None}
         /\ \A row \in Rows : \A e \in Events : counts[row][e] \in Nat
  BY DEF CountInv, Rows, Recorders

LEMMA Tallies ==
  ASSUME IInv, CountInv, NEW c \in Callers, StepsOn(c)
  PROVE  Tally(c)
<1> USE DEF Is
<1> DEFINE r == request[c]
           d == counts["diagnostics"]
<1>1. /\ DOMAIN request = Callers /\ DOMAIN r = DOMAIN Idle
      /\ Becomes(c, request'[c]) /\ observer' = observer
  BY StepMoves DEF IInv, Shapes, StepsOn, Handle, Refuse, HttpRun, HttpResume, HttpPending,
     Arrive, Serve, Routed, Load, Authorize, Consume, Begin, Turn, Probe, ProbeOutcome, Act,
     Trip, Save, ReportSuspension, Respond, config
<1>2. /\ d \in [Events -> Nat] /\ mishaps \in Nat /\ observer \in Rows
      /\ counts["scorecard"] \in [Events -> Nat] /\ counts[None] \in [Events -> Nat]
      /\ counts \in [Rows -> [Events -> Nat]] /\ Rows = {"diagnostics", "scorecard", None}
  BY Typed
<1>3. ASSUME NEW o \in Rows, NEW events \in SUBSET Events, Telling(o, events)
      PROVE  /\ counts' \in [Rows -> [Events -> Nat]]
             /\ Happened("trip")' = Happened("trip") + One("trip" \in events)
             /\ Happened("suspension")' <= Happened("suspension") + One("suspension" \in events)
             /\ Happened("trip") \in Nat /\ Happened("suspension") \in Nat
             /\ Happened("suspension")' \in Nat
             /\ d["run"]' = d["run"] + One(o = "diagnostics" /\ "run" \in events)
             /\ d["suspension"]' <= d["suspension"] + One("suspension" \in events)
             /\ d["match"]' <= d["match"] + One("match" \in events)
             /\ d["miss"]' <= d["miss"] + One("miss" \in events)
             /\ "refusal" \notin events => d["refusal"]' = d["refusal"]
             /\ "outcome" \in events => d["refusal"]' + d["outcome"] <= d["refusal"] + d["outcome"]'
             /\ d["outcome"]' >= d["outcome"]
  <2>1. /\ counts' \in [Rows -> [Events -> Nat]]
        /\ \A row \in Rows : \A e \in Events :
             counts'[row][e] = counts[row][e] + One(o = row /\ e \in events \cap Counted(row))
    BY <1>2, <1>3, Told
  <2>2. /\ Counted("diagnostics") =
             {"run", "match", "miss", "outcome", "refusal", "trip", "suspension"}
        /\ Counted("scorecard") = {"probe", "step", "trip"}
    BY DEF Counted, Recorders
  <2>5. Counted(None) = {"trip"}
    BY ServiceAssumption DEF Counted, Recorders
  <2>3. \A e \in Events :
          /\ counts'["diagnostics"][e] = d[e] + One(o = "diagnostics" /\ e \in events \cap Counted("diagnostics"))
          /\ counts'["scorecard"][e]
               = counts["scorecard"][e] + One(o = "scorecard" /\ e \in events \cap Counted("scorecard"))
          /\ counts'[None][e] = counts[None][e] + One(o = None /\ e \in events \cap Counted(None))
    BY <1>2, <2>1
  <2>4. o = "diagnostics" \/ o = "scorecard" \/ o = None
    BY <1>2
  <2> QED
    BY <1>2, <2>1, <2>2, <2>3, <2>4, <2>5 DEF Happened, One, Events
<1>4. CASE Quiet(c)
  <2>1. /\ r.pc \notin {"idle", "match", "trip", "report", "save"}
        /\ request'[c].pc \notin {"match", "trip", "report"}
        /\ UNCHANGED <<counts, mishaps, parker>>
    BY <1>4, QuietMoves
  <2>2. Happened("trip")' = Happened("trip") /\ Happened("suspension")' = Happened("suspension")
    BY <2>1 DEF Happened
  <2>3. Happened("trip") \in Nat /\ Happened("suspension") \in Nat
    BY <1>2 DEF Happened, Events
  <2> QED
    BY <1>1, <1>2, <2>1, <2>2, <2>3 DEF Tally, One, Events
<1>5. CASE Handle(c) \/ Refuse(c) \/ HttpRun(c) \/ HttpResume(c) \/ HttpPending(c)
  <2>1. Arrive(c) /\ r.pc = "idle" /\ request'[c].pc \notin {"trip", "report"}
    BY <1>5, ArrivalMoves DEF Arrive
  <2>2. Telling("diagnostics", {"run"}) /\ UNCHANGED <<parker, mishaps>>
    BY <2>1 DEF Arrive, config
  <2>3. {"run"} \in SUBSET Events /\ "diagnostics" \in Rows
    BY <1>2 DEF Events
  <2>4. /\ counts' \in [Rows -> [Events -> Nat]]
        /\ Happened("trip")' = Happened("trip") /\ Happened("trip") \in Nat
        /\ Happened("suspension")' <= Happened("suspension")
        /\ Happened("suspension") \in Nat /\ Happened("suspension")' \in Nat
        /\ d["run"]' = d["run"] + 1 /\ d["suspension"]' <= d["suspension"]
        /\ d["match"]' <= d["match"] /\ d["miss"]' <= d["miss"]
        /\ d["refusal"]' = d["refusal"] /\ d["outcome"]' >= d["outcome"]
    BY <1>2, <1>3, <2>2, <2>3 DEF One, Events
  <2>5. \A e \in Events : d[e] \in Nat /\ d'[e] \in Nat
    BY <1>2, <2>4 DEF Events
  <2> QED
    BY <1>1, <1>2, <2>1, <2>2, <2>4, <2>5 DEF Tally, One, Events
<1>6. CASE Routed(c)
  <2>1. PICK events \in {{"miss"}, {"match"}} : Telling("diagnostics", events)
    BY <1>6 DEF Routed
  <2>2. r.pc = "match" /\ UNCHANGED <<parker, mishaps>>
    BY <1>6 DEF Routed
  <2>3. request'[c].pc \notin {"match", "trip", "report"}
    <3>1. Answering(r, "no intent").pc = "answer"
      BY DEF Answering, Idle
    <3>2. \A flow : Entered(r, Enter(r, flow, None))
      BY <1>1, EntersKeep
    <3> QED
      BY <1>1, <1>6, <3>1, <3>2 DEF Routed, Becomes, Entered
  <2>4. events \in SUBSET Events /\ {"trip", "suspension", "run", "refusal"} \cap events = {}
        /\ ~("match" \in events /\ "miss" \in events) /\ "diagnostics" \in Rows
    BY <1>2 DEF Events
  <2> QED
    BY <1>1, <1>2, <1>3, <2>1, <2>2, <2>3, <2>4 DEF Tally, One, Events
<1>7. CASE Probe(c)
  <2>1. Telling(observer, {"probe"}) /\ r.pc = "probe" /\ UNCHANGED <<parker, mishaps>>
    BY <1>7 DEF Probe, Observing
  <2>2. request'[c].pc = "outcome"
    BY <1>1, <1>7 DEF Probe, Becomes, Idle
  <2>3. {"probe"} \in SUBSET Events
    BY DEF Events
  <2>4. /\ counts' \in [Rows -> [Events -> Nat]]
        /\ Happened("trip")' = Happened("trip") /\ Happened("trip") \in Nat
        /\ Happened("suspension")' <= Happened("suspension")
        /\ Happened("suspension") \in Nat /\ Happened("suspension")' \in Nat
        /\ d["run"]' = d["run"] /\ d["suspension"]' <= d["suspension"]
        /\ d["match"]' <= d["match"] /\ d["miss"]' <= d["miss"]
        /\ d["refusal"]' = d["refusal"] /\ d["outcome"]' >= d["outcome"]
    BY <1>2, <1>3, <2>1, <2>3 DEF One, Events
  <2>5. \A e \in Events : d[e] \in Nat /\ d'[e] \in Nat
    BY <1>2, <2>4 DEF Events
  <2> QED
    BY <1>1, <1>2, <2>1, <2>2, <2>4, <2>5 DEF Tally, One, Events
<1>8. CASE ProbeOutcome(c)
  <2>1. PICK healthy \in BOOLEAN :
          /\ Observing({"outcome"} \cup IF healthy THEN {} ELSE {"refusal"})
          /\ Becomes(c, [r EXCEPT !.pc = IF healthy THEN "act" ELSE "trip"])
          /\ mishaps' = mishaps + IF healthy THEN 0 ELSE 1
    BY <1>8 DEF ProbeOutcome
  <2> DEFINE events == {"outcome"} \cup IF healthy THEN {} ELSE {"refusal"}
  <2>2. r.pc = "outcome" /\ parker' = parker
    BY <1>8 DEF ProbeOutcome
  <2>3. request'[c].pc = IF healthy THEN "act" ELSE "trip"
    BY <1>1, <2>1 DEF Becomes, Idle
  <2>4. events \in SUBSET Events /\ {"trip", "suspension", "run", "match", "miss"} \cap events = {}
        /\ "outcome" \in events
    BY DEF Events
  <2>5. Telling(observer, events)
    BY <2>1 DEF Observing
  <2> HIDE DEF events
  <2> QED
    BY <1>1, <1>2, <1>3, <2>1, <2>2, <2>3, <2>4, <2>5 DEF Tally, One, Events
<1>9. CASE Act(c)
  <2>1. Telling(observer, {"step"}) /\ r.pc = "act" /\ parker' = parker
    BY <1>9 DEF Act, Observing
  <2>2. \/ request'[c].pc \in {"save", "step", "panicked"} /\ mishaps' = mishaps
        \/ request'[c].pc = "trip" /\ mishaps' = mishaps + 1
    <3>1. \A pc : [r EXCEPT !.pc = pc].pc = pc
      BY <1>1 DEF Idle
    <3>2. \A at : [r EXCEPT !.pc = "step", !.at = at].pc = "step"
      BY <1>1 DEF Idle
    <3>3. [Answering(r, None) EXCEPT !.pc = "panicked"].pc = "panicked"
      BY DEF Answering, Idle
    <3>4. ASSUME NEW s, Becomes(c, s) PROVE request'[c].pc = s.pc
      BY <1>1, <3>4 DEF Becomes
    <3>5. CASE Becomes(c, [r EXCEPT !.pc = "save"]) /\ mishaps' = mishaps
      BY <3>1, <3>4, <3>5
    <3>6. CASE /\ Becomes(c, [r EXCEPT !.pc = "step", !.at = StepOf(c).onSuccess])
               /\ mishaps' = mishaps
      BY <3>2, <3>4, <3>6
    <3>7. CASE Becomes(c, [r EXCEPT !.pc = "trip"]) /\ mishaps' = mishaps + 1
      BY <3>1, <3>4, <3>7
    <3>8. CASE /\ Becomes(c, [Answering(r, None) EXCEPT !.pc = "panicked"])
               /\ mishaps' = mishaps
      BY <3>3, <3>4, <3>8
    <3> QED
      BY <1>9, <3>5, <3>6, <3>7, <3>8 DEF Act
  <2>3. {"step"} \in SUBSET Events
    BY DEF Events
  <2>4. /\ counts' \in [Rows -> [Events -> Nat]]
        /\ Happened("trip")' = Happened("trip") /\ Happened("trip") \in Nat
        /\ Happened("suspension")' <= Happened("suspension")
        /\ Happened("suspension") \in Nat /\ Happened("suspension")' \in Nat
        /\ d["run"]' = d["run"] /\ d["suspension"]' <= d["suspension"]
        /\ d["match"]' <= d["match"] /\ d["miss"]' <= d["miss"]
        /\ d["refusal"]' = d["refusal"] /\ d["outcome"]' >= d["outcome"]
    BY <1>2, <1>3, <2>1, <2>3 DEF One, Events
  <2>5. \A e \in Events : d[e] \in Nat /\ d'[e] \in Nat
    BY <1>2, <2>4 DEF Events
  <2> QED
    BY <1>1, <1>2, <2>1, <2>2, <2>4, <2>5 DEF Tally, One, Events
<1>10. CASE Trip(c)
  <2>1. Telling(observer, {"trip"}) /\ r.pc = "trip" /\ UNCHANGED <<parker, mishaps>>
    BY <1>10 DEF Trip, Observing
  <2>2. request'[c].pc \in {"answer", "step"}
    <3>1. Answering(r, "failed").pc = "answer"
      BY DEF Answering, Idle
    <3> QED
      BY <1>1, <1>10, <3>1 DEF Trip, Becomes, Idle
  <2>3. {"trip"} \in SUBSET Events
    BY DEF Events
  <2> QED
    BY <1>1, <1>2, <1>3, <2>1, <2>2, <2>3 DEF Tally, One, Events
<1>11. CASE Save(c)
  <2>1. r.pc = "save" /\ UNCHANGED <<counts, mishaps>>
    BY <1>11 DEF Save, config
  <2>2. request'[c].pc = "report"
    BY <1>1, <1>11 DEF Save, Becomes, Idle
  <2>3. Happened("trip")' = Happened("trip") /\ Happened("suspension")' = Happened("suspension")
        /\ Happened("trip") \in Nat /\ Happened("suspension") \in Nat
    BY <1>2, <2>1 DEF Happened, Events
  <2> QED
    BY <1>1, <1>2, <2>1, <2>2, <2>3 DEF Tally, One, Events
<1>12. CASE ReportSuspension(c)
  <2>1. Telling(observer, {"suspension"}) /\ r.pc = "report" /\ UNCHANGED <<parker, mishaps>>
    BY <1>12 DEF ReportSuspension, Observing
  <2>2. request'[c].pc = "answer"
    BY <1>1, <1>12 DEF ReportSuspension, Becomes, Answering, Idle
  <2>3. {"suspension"} \in SUBSET Events
    BY DEF Events
  <2> QED
    BY <1>1, <1>2, <1>3, <2>1, <2>2, <2>3 DEF Tally, One, Events
<1> QED
  BY <1>4, <1>5, <1>6, <1>7, <1>8, <1>9, <1>10, <1>11, <1>12 DEF StepsOn, Serve, Quiet

(* A request answered with a suspension is no longer idle.                 *)
LEMMA StoppedAreBusy == IInv => Stopped \in SUBSET Busy
<1> SUFFICES ASSUME IInv, NEW c \in Stopped PROVE c \in Busy
  OBVIOUS
<1>1. c \in Callers /\ request[c].status = "suspended" /\ RequestInv(c)
  BY DEF Stopped, IInv
<1> QED
  BY <1>1, NoStatus DEF Busy, Is, RequestInv

(* The counts agree after a step of a request.                             *)
LEMMA TalliesKeep ==
  ASSUME IInv, CountInv, NEW c \in Callers, StepsOn(c)
  PROVE  CountInv'
<1> USE DEF Is
<1> DEFINE d == counts["diagnostics"]
<1>1. /\ Tally(c) /\ Becomes(c, request'[c]) /\ request'[c].pc # "idle"
      /\ request'[c].status = "suspended"
              <=> Is(c, "report") \/ request[c].status = "suspended"
      /\ ~(Is(c, "report") /\ request[c].status = "suspended")
  BY Tallies, StepMoves
<1>2. \A k \in Callers \ {c} : request'[k] = request[k]
  BY <1>1 DEF Becomes, IInv, Shapes
<1>3. /\ Cardinality(Busy) \in Nat /\ IsFiniteSet(Busy)' /\ Cardinality(Busy)' \in Nat
      /\ Cardinality(Busy)' = Cardinality(Busy) + One(Is(c, "idle"))
  <2>1. \A k : k # c => (k \in Busy <=> k \in Busy')
    BY <1>2 DEF Busy
  <2>2. (c \in Busy <=> ~Is(c, "idle")) /\ c \in Busy'
    BY <1>1 DEF Busy
  <2>3. /\ IsFiniteSet(Busy') /\ Cardinality(Busy) \in Nat /\ Cardinality(Busy') \in Nat
        /\ Cardinality(Busy') + One(c \in Busy) = Cardinality(Busy) + One(c \in Busy')
    BY <2>1, Joining DEF CountInv
  <2> QED
    BY <2>2, <2>3 DEF One
<1>4. ASSUME NEW pc \in {"trip", "report", "match"}
      PROVE  /\ Cardinality(At(pc)) \in Nat /\ Cardinality(At(pc))' \in Nat
             /\ Cardinality(At(pc))' + One(Is(c, pc))
                  = Cardinality(At(pc)) + One(request'[c].pc = pc)
  <2>1. \A k : k # c => (k \in At(pc) <=> k \in At(pc)')
    BY <1>2 DEF At
  <2>2. (c \in At(pc) <=> Is(c, pc)) /\ (c \in At(pc)' <=> request'[c].pc = pc)
    BY DEF At
  <2>3. IsFiniteSet(At(pc))
    <3>1. At(pc) \in SUBSET Busy
      BY DEF At, Busy
    <3> QED
      BY <3>1, FS_Subset DEF CountInv
  <2>4. /\ Cardinality(At(pc)) \in Nat /\ Cardinality(At(pc)') \in Nat
        /\ Cardinality(At(pc)') + One(c \in At(pc)) = Cardinality(At(pc)) + One(c \in At(pc)')
    BY <2>1, <2>3, Joining
  <2> QED
    BY <2>2, <2>4 DEF One
<1>5. /\ Cardinality(Stopped) \in Nat /\ Cardinality(Stopped)' \in Nat
      /\ Cardinality(Stopped)' = Cardinality(Stopped) + One(Is(c, "report"))
  <2>1. \A k : k # c => (k \in Stopped <=> k \in Stopped')
    BY <1>2 DEF Stopped
  <2>2. /\ c \in Stopped <=> request[c].status = "suspended"
        /\ c \in Stopped' <=> request'[c].status = "suspended"
    BY DEF Stopped
  <2>3. IsFiniteSet(Stopped)
    BY StoppedAreBusy, FS_Subset DEF CountInv
  <2>4. /\ Cardinality(Stopped) \in Nat /\ Cardinality(Stopped') \in Nat
        /\ Cardinality(Stopped') + One(c \in Stopped) = Cardinality(Stopped) + One(c \in Stopped')
    BY <2>1, <2>3, Joining
  <2> QED
    BY <1>1, <2>2, <2>4 DEF One
<1>6. /\ IsFiniteSet(Parkings)' /\ Cardinality(Parkings) \in Nat
      /\ Cardinality(Parkings)' \in Nat
      /\ Cardinality(Parkings)' = Cardinality(Parkings) + One(Is(c, "save"))
  <2>1. CASE Is(c, "save")
    <3>1. Save(c)
      BY <2>1 DEF StepsOn, Handle, Refuse, HttpRun, HttpResume, HttpPending, Arrive, Serve,
         Routed, Load, Authorize, Consume, Begin, Turn, Probe, ProbeOutcome, Act, Trip,
         ReportSuspension, Respond
    <3>2. PICK p \in Pointers : Fresh(p) /\ parker' = [parker EXCEPT ![p] = c]
      BY <3>1 DEF Save
    <3>3. p \notin Parkings /\ p \in Parkings' /\ \A q : q # p => (q \in Parkings <=> q \in Parkings')
      BY <3>2, ParkedRuns DEF Fresh, Parkings, IInv, Shapes
    <3>4. /\ IsFiniteSet(Parkings') /\ Cardinality(Parkings) \in Nat
          /\ Cardinality(Parkings') \in Nat
          /\ Cardinality(Parkings') + One(p \in Parkings)
               = Cardinality(Parkings) + One(p \in Parkings')
      BY <3>3, Joining DEF CountInv
    <3> QED
      BY <2>1, <3>3, <3>4 DEF One
  <2>2. CASE ~Is(c, "save")
    <3>1. Parkings' = Parkings
      BY <1>1, <2>2 DEF Tally, Parkings
    <3>2. Cardinality(Parkings) \in Nat /\ IsFiniteSet(Parkings)
      BY FS_CardinalityType DEF CountInv
    <3> QED
      BY <2>2, <3>1, <3>2 DEF One
  <2> QED
    BY <2>1, <2>2
<1>7. /\ \A row \in Rows : \A e \in Events : counts[row][e] \in Nat /\ counts'[row][e] \in Nat
      /\ mishaps \in Nat /\ observer \in Rows
      /\ "diagnostics" \in Rows /\ "scorecard" \in Rows /\ None \in Rows
  BY <1>1 DEF CountInv, Tally, Rows, Recorders
<1>8. /\ Happened("trip") \in Nat /\ Happened("trip")' \in Nat
      /\ Happened("suspension") \in Nat /\ Happened("suspension")' \in Nat
  BY <1>7 DEF Happened, Events
<1>9. Happened("trip")' + Cardinality(At("trip"))' = mishaps'
  <2>1. /\ Happened("trip")' + One(request'[c].pc = "trip") + mishaps
             = Happened("trip") + One(Is(c, "trip")) + mishaps'
        /\ mishaps' \in Nat
    BY <1>1 DEF Tally
  <2>2. Happened("trip") + Cardinality(At("trip")) = mishaps
    BY DEF CountInv
  <2> QED
    BY <1>4, <1>7, <1>8, <2>1, <2>2 DEF One
<1>10. Happened("suspension")' + Cardinality(At("report"))' <= Cardinality(Parkings)'
  BY <1>1, <1>4, <1>6, <1>8 DEF CountInv, Tally, One
<1>11. d["run"]' = Cardinality(Busy)'
  BY <1>1, <1>3 DEF CountInv, Tally
<1>12. d["suspension"]' <= Cardinality(Stopped)'
  BY <1>1, <1>5, <1>7 DEF CountInv, Tally, Events, One
<1>13. d["match"]' + d["miss"]' + Cardinality(At("match"))' <= Cardinality(Busy)'
  BY <1>1, <1>3, <1>4, <1>7 DEF CountInv, Tally, Events, One
<1>14. d["refusal"]' <= d["outcome"]'
  BY <1>1, <1>7 DEF CountInv, Tally, Events
<1> QED
  BY <1>1, <1>3, <1>6, <1>7, <1>9, <1>10, <1>11, <1>12, <1>13, <1>14 DEF CountInv, Tally

LEMMA CountNext == IInv /\ CountInv /\ [Next]_vars => CountInv'
<1> SUFFICES ASSUME IInv, CountInv, [Next]_vars PROVE CountInv'
  OBVIOUS
<1>1. CASE SetAuthorizer \/ SetObserver \/ UNCHANGED vars
  <2>1. UNCHANGED <<counts, mishaps, request, parker>> /\ observer' \in Rows
    BY <1>1 DEF SetAuthorizer, SetObserver, vars, config, CountInv, Rows
  <2>2. /\ Busy' = Busy /\ Stopped' = Stopped /\ Parkings' = Parkings
        /\ \A pc : At(pc)' = At(pc)
    BY <2>1 DEF Busy, Stopped, Parkings, At, Is
  <2>3. \A e : Happened(e)' = Happened(e)
    BY <2>1 DEF Happened
  <2> QED
    BY <2>1, <2>2, <2>3 DEF CountInv
<1> QED
  BY <1>1, TalliesKeep DEF Next, StepsOn

(* Every refusal and every failed action is told as one trip, to whatever  *)
(* recorder is attached or to none, no suspension twice, and the rates are *)
(* rates, with any number of runs in flight (diagnostics.Report,           *)
(* engine.observe).                                                        *)
THEOREM CountsHold == Spec => []CountersAgree
<1>1. IInv /\ CountInv => CountersAgree
  <2> SUFFICES ASSUME IInv, CountInv PROVE CountersAgree
    OBVIOUS
  <2> DEFINE d == counts["diagnostics"]
  <2>1. \A pc : Doing(pc) = Cardinality(At(pc))
    BY DEF Doing, At
  <2>2. Cardinality(Stopped) <= Cardinality(Busy) /\ Cardinality(Stopped) \in Nat
        /\ Cardinality(Busy) \in Nat /\ Cardinality(At("match")) \in Nat
    <3>1. At("match") \in SUBSET Busy
      BY DEF At, Busy, Is
    <3> QED
      BY <3>1, StoppedAreBusy, FS_Subset, FS_CardinalityType DEF CountInv
  <2>3. \A e \in Events : d[e] \in Nat
    BY Typed
  <2>4. d["suspension"] <= d["run"] /\ d["match"] + d["miss"] <= d["run"]
    BY <2>2, <2>3 DEF CountInv, Events
  <2> QED
    BY <2>1, <2>4 DEF CountersAgree, CountInv, Parkings
<1> QED
  BY IInit, INext, CountInit, CountNext, <1>1, PTL DEF Spec
=============================================================================

----------------------------- MODULE EngineProofs -----------------------------
(***************************************************************************)
(* Proofs about Engine, for any workflows, policies, environments and      *)
(* ceilings: runs stay under their ceilings, no structural error is        *)
(* absorbed on its way up, and an abandoned activation undoes exactly what *)
(* it did, in reverse.                                                     *)
(***************************************************************************)
EXTENDS Engine, LeastNumber, TLAPS
LOCAL INSTANCE SequencesExt

USE LimitAssumption

FrameFields == {"wf", "at", "ctx", "steps", "trace", "done", "left", "undone",
                "failures", "effects", "phase", "kind"}

FrameOK(fr) ==
  /\ DOMAIN fr = FrameFields
  /\ fr.steps \in Nat /\ fr.steps <= MaxSteps
  /\ fr.phase \in {"walk", "wait", "unwind", "end"}
  /\ fr.phase # "end" => fr.wf \in DOMAIN Workflows

Live(fr) == FrameOK(fr) /\ fr.wf \in DOMAIN Workflows

(* The kind of an error is what the frame ended with.                      *)
LEMMA EndOK ==
  ASSUME NEW fr, FrameOK(fr), NEW kind
  PROVE  /\ FrameOK(End(fr, kind))
         /\ End(fr, kind).phase = "end" /\ End(fr, kind).kind = kind
  BY DEF End, FrameOK, FrameFields

LEMMA EnterOK ==
  ASSUME NEW wf, NEW start, NEW ctx, NEW depth \in Nat
  PROVE  /\ FrameOK(Enter(wf, start, ctx, depth))
         /\ Enter(wf, start, ctx, depth).phase # "end" => depth <= MaxDepth
  BY DEF Enter, End, FrameOK, FrameFields

LEMMA OnFailureOK ==
  ASSUME NEW fr, Live(fr), NEW why
  PROVE  FrameOK(OnFailure(fr, why))
  BY DEF Live, OnFailure, Abandon, End, FrameOK, FrameFields

LEMMA SucceedOK ==
  ASSUME NEW fr, Live(fr), NEW ctx, NEW trace
  PROVE  FrameOK(Succeed(fr, ctx, trace))
  BY DEF Live, Succeed, FrameOK, FrameFields

LEMMA CompleteOK ==
  ASSUME NEW fr, Live(fr)
  PROVE  FrameOK(Complete(fr))
  BY DEF Live, Complete, Succeed, FrameOK, FrameFields

LEMMA SuspendOK ==
  ASSUME NEW fr, Live(fr), NEW depth
  PROVE  FrameOK(Suspend(fr, depth))
  BY DEF Live, Suspend, End, FrameOK, FrameFields

LEMMA JoinOK ==
  ASSUME NEW fr, Live(fr), NEW ends
  PROVE  FrameOK(Join(fr, ends))
  BY EndOK, OnFailureOK, SucceedOK DEF Live, Join

LEMMA ReturnOK ==
  ASSUME NEW fr, Live(fr), NEW sub
  PROVE  FrameOK(Return(fr, sub))
  BY EndOK, OnFailureOK, SucceedOK DEF Live, Return

(* A join reports a structural error if a branch ended with one.           *)
LEMMA JoinEscalates ==
  ASSUME NEW fr, FrameOK(fr), NEW ends, DOMAIN ends \subseteq Nat,
         NEW i \in DOMAIN ends, ends[i].kind \in Bypassing
  PROVE  Join(fr, ends).phase = "end" /\ Join(fr, ends).kind \in Bypassing
<1> DEFINE bypassing == {j \in DOMAIN ends : ends[j].kind \in Bypassing}
           First(j) == \A k \in bypassing : j <= k
<1>1. \E j \in bypassing : First(j)
  BY Least
<1>2. (CHOOSE j \in bypassing : First(j)) \in bypassing
  BY <1>1
<1>3. Join(fr, ends) = End(fr, ends[CHOOSE j \in bypassing : First(j)].kind)
  BY DEF Join
<1> QED
  BY <1>2, <1>3, EndOK

(* A composite step passes a structural error on.                          *)
LEMMA ReturnEscalates ==
  ASSUME NEW fr, FrameOK(fr), NEW sub, sub.kind \in Bypassing
  PROVE  Return(fr, sub).phase = "end" /\ Return(fr, sub).kind \in Bypassing
  BY EndOK DEF Return

-----------------------------------------------------------------------------
(* Appending to a sequence.                                                *)
LEMMA AppendedElements ==
  ASSUME NEW S, NEW s \in Seq(S), NEW e \in S
  PROVE  /\ Len(s) \in Nat /\ Append(s, e) \in Seq(S)
         /\ Len(Append(s, e)) = Len(s) + 1
         /\ Append(s, e) \in [1 .. Len(s) + 1 -> S]
         /\ Append(s, e)[Len(s) + 1] = e
         /\ \A i \in 1 .. Len(s) : Append(s, e)[i] = s[i]
<1>1. Len(s) \in Nat /\ Append(s, e) \in Seq(S) /\ Len(Append(s, e)) = Len(s) + 1
  OBVIOUS
<1>2. Append(s, e) \in [1 .. Len(s) + 1 -> S]
  <2>1. \A t \in Seq(S) : t \in [1 .. Len(t) -> S]
    OBVIOUS
  <2> QED
    BY <1>1, <2>1, Zenon
<1>3. Append(s, e)[Len(s) + 1] = e /\ \A i \in 1 .. Len(s) : Append(s, e)[i] = s[i]
  OBVIOUS
<1> QED
  BY <1>1, <1>2, <1>3

(* A sequence is its front and its last element.                           *)
LEMMA FrontAndLast ==
  ASSUME NEW f \in Seq(Nat), NEW s \in Seq(Nat), NEW e \in Nat,
         Len(f) = Len(s) + 1, f[Len(f)] = e,
         \A i \in 1 .. Len(s) : f[i] = s[i]
  PROVE  f = Append(s, e)
<1>1. f \in [1 .. Len(s) + 1 -> Nat] /\ Len(s) \in Nat
  OBVIOUS
<1> DEFINE g == Append(s, e)
<1>2. g \in [1 .. Len(s) + 1 -> Nat] /\ g[Len(s) + 1] = e
      /\ \A i \in 1 .. Len(s) : g[i] = s[i]
  BY AppendedElements
<1> HIDE DEF g
<1>3. ASSUME NEW i \in 1 .. Len(s) + 1 PROVE f[i] = g[i]
  <2>1. CASE i = Len(s) + 1
    BY <1>2, <2>1
  <2>2. CASE i # Len(s) + 1
    <3>1. i \in 1 .. Len(s)
      BY <1>1, <2>2
    <3> QED
      BY <1>2, <3>1
  <2> QED
    BY <2>1, <2>2
<1>4. f = g
  <2> DEFINE D == 1 .. Len(s) + 1
  <2>1. f = [i \in D |-> f[i]] /\ g = [i \in D |-> g[i]]
    BY <1>1, <1>2, Zenon
  <2>2. [i \in D |-> f[i]] = [i \in D |-> g[i]]
    BY <1>3, Zenon
  <2> QED
    BY <2>1, <2>2, Zenon
<1> QED
  BY <1>4 DEF g

(* Frames by path: a path is as long as its frame is deep, and leads       *)
(* through frames that wait.                                               *)
LEMMA PathProperties ==
  ASSUME NEW f \in Seq(Nat)
  PROVE  /\ Len(f) \in Nat
         /\ f # <<>> => /\ Front(f) \in Seq(Nat) /\ Len(Front(f)) + 1 = Len(f)
                        /\ Last(f) \in Nat /\ f = Append(Front(f), Last(f))
<1>1. Len(f) \in Nat /\ DOMAIN f = 1 .. Len(f) /\ f \in [1 .. Len(f) -> Nat]
  OBVIOUS
<1>2. ASSUME f # <<>>
      PROVE  /\ Front(f) \in Seq(Nat) /\ Len(Front(f)) + 1 = Len(f)
             /\ Last(f) \in Nat /\ f = Append(Front(f), Last(f))
  <2>1. Len(f) >= 1
    BY <1>1, <1>2
  <2>2. Last(f) \in Nat
    BY <1>1, <2>1 DEF Last
  <2>3. PICK s \in Seq(Nat) : s = Front(f) /\ Len(s) + 1 = Len(f)
                            /\ \A i \in 1 .. Len(s) : s[i] = f[i]
    <3>1. Front(f) \in Seq(Nat) /\ Len(Front(f)) = Len(f) - 1
      BY <1>1, <2>1 DEF Front
    <3>2. \A i \in 1 .. Len(f) - 1 : Front(f)[i] = f[i]
      BY <1>1, <2>1 DEF Front
    <3>3. Len(f) - 1 + 1 = Len(f)
      BY <1>1
    <3> QED
      BY <3>1, <3>2, <3>3, Zenon
  <2>4. PICK e \in Nat : e = Last(f) /\ f[Len(f)] = e
    BY <2>2 DEF Last
  <2>5. f = Append(s, e)
    BY <2>3, <2>4, FrontAndLast
  <2> QED
    BY <2>2, <2>3, <2>4, <2>5
<1> QED
  BY <1>1, <1>2

LEMMA AppendedPath ==
  ASSUME NEW f \in Seq(Nat), NEW i \in Nat
  PROVE  /\ Append(f, i) \in Seq(Nat) /\ Append(f, i) # <<>>
         /\ Len(Append(f, i)) = Len(f) + 1
         /\ Front(Append(f, i)) = f /\ Last(Append(f, i)) = i
<1>1. Append(f, i) \in Seq(Nat) /\ Len(Append(f, i)) = Len(f) + 1 /\ Append(f, i) # <<>>
  <2>1. Append(f, i) \in Seq(Nat) /\ Len(Append(f, i)) = Len(f) + 1
    OBVIOUS
  <2>2. Len(Append(f, i)) # Len(<<>>)
    BY <2>1
  <2> QED
    BY <2>1, <2>2, Zenon
<1>2. Last(Append(f, i)) = i
  BY <1>1 DEF Last
<1>3. Front(Append(f, i)) = f
  BY <1>1 DEF Front
<1> QED
  BY <1>1, <1>2, <1>3

Placed(f) ==
  /\ f \in Seq(Nat) /\ Len(f) <= MaxDepth + 1
  /\ frames[f].phase # "end" => Len(f) <= MaxDepth
  /\ f # <<>> => /\ Front(f) \in DOMAIN frames
                 /\ frames[Front(f)].phase = "wait"
                 /\ Last(f) \in 1 .. Width(frames[Front(f)])

EInv ==
  /\ resumes \in 0 .. MaxResumes
  /\ \A f \in DOMAIN frames : FrameOK(frames[f]) /\ Placed(f)

(* What a step does to the frames: it takes one on that has no children,   *)
(* starts children, brings them back, or ends some.                        *)
Takes(f) ==
  /\ f \in DOMAIN frames /\ frames[f].phase \in {"walk", "unwind"}
  /\ \E fr : FrameOK(fr) /\ frames' = [frames EXCEPT ![f] = fr]
  /\ resumes' = resumes

Starts(f) ==
  /\ f \in DOMAIN frames /\ frames[f].phase = "walk"
  /\ frames[f].steps < MaxSteps
  /\ \E workflows : /\ DOMAIN workflows = 1 .. Width(frames[f])
                    /\ Start(f, workflows)
  /\ resumes' = resumes

(* A step visited is counted.                                              *)
LEMMA VisitedOK ==
  ASSUME NEW f, Live(frames[f]), frames[f].steps < MaxSteps
  PROVE  Live(Visited(f))
  BY DEF Visited, Live, FrameOK, FrameFields

LEMMA TakesOrStarts ==
  ASSUME EInv, NEW f \in DOMAIN frames,
         \/ Finish(f) \/ LimitHit(f) \/ StepMissing(f) \/ ProbeRefuses(f)
         \/ Act(f) \/ Call(f) \/ Fork(f) \/ Unwind(f)
  PROVE  Takes(f) \/ Starts(f)
<1> DEFINE fr == frames[f]
<1>1. FrameOK(fr)
  BY DEF EInv
<1>2. CASE Finish(f)
  BY <1>1, <1>2, EndOK DEF Finish, Walking, Put, Takes
<1>3. CASE LimitHit(f)
  BY <1>1, <1>3, EndOK DEF LimitHit, Walking, Put, Takes
<1>4. CASE StepMissing(f)
  BY <1>1, <1>4, EndOK DEF StepMissing, Walking, Put, Takes
<1>5. ASSUME NEW type, Visits(f, type)
      PROVE  fr.phase = "walk" /\ fr.steps < MaxSteps /\ StepAt(fr).type = type
             /\ fr.at \in DOMAIN StepsOf(fr) /\ fr.wf \in DOMAIN Workflows
             /\ Live(Visited(f)) /\ FrameOK(Visited(f))
  BY <1>1, <1>5, VisitedOK DEF Visits, Walking, WithinLimit, FrameOK, Live
<1>6. CASE ProbeRefuses(f)
  BY <1>5, <1>6, EndOK, OnFailureOK DEF ProbeRefuses, Put, Takes
<1>7. CASE Act(f)
  BY <1>5, <1>7, CompleteOK, OnFailureOK, SuspendOK DEF Act, Put, Takes
<1>8. CASE Call(f)
  <2>1. Start(f, <<StepAt(fr).sub>>) /\ resumes' = resumes
    BY <1>8 DEF Call
  <2>2. DOMAIN <<StepAt(fr).sub>> = 1 .. Width(fr)
    BY <1>5, <1>8 DEF Call, Width
  <2> QED
    BY <1>5, <1>8, <2>1, <2>2 DEF Call, Starts
<1>9. CASE Fork(f)
  <2>1. CASE StepAt(fr).branches = <<>>
    BY <1>5, <1>9, <2>1, EndOK DEF Fork, Put, Takes
  <2>2. CASE StepAt(fr).branches # <<>>
    <3>1. Start(f, StepAt(fr).branches) /\ resumes' = resumes
      BY <1>9, <2>2 DEF Fork
    <3>2. DOMAIN StepAt(fr).branches = 1 .. Width(fr)
      BY <1>5, <1>9, WorkflowAssumption DEF Fork, Width, StepAt, StepsOf
    <3> QED
      BY <1>5, <1>9, <3>1, <3>2 DEF Fork, Starts
  <2> QED
    BY <2>1, <2>2
<1>10. CASE Unwind(f)
  <2>1. \E t : FrameOK(t) /\ Put(f, t)
    <3> DEFINE tried == [fr EXCEPT !.left = @ - 1,
                                   !.effects = Append(@, <<"undo", NextToUndo(fr).step>>)]
               undone == [tried EXCEPT
                            !.ctx = Output(@, StepsOf(fr)[NextToUndo(fr).by]),
                            !.undone = Append(@, NextToUndo(fr).step)]
               failed == [tried EXCEPT !.failures = Append(@, NextToUndo(fr).step)]
    <3>1. FrameOK(undone) /\ FrameOK(failed)
      BY <1>1 DEF FrameOK, FrameFields
    <3>2. \E t \in {undone, failed} : Put(f, IF t.left = 0 THEN End(t, "tripped") ELSE t)
      BY <1>10 DEF Unwind
    <3> HIDE DEF undone, failed
    <3> QED
      BY <3>1, <3>2, EndOK
  <2> QED
    BY <1>10, <2>1 DEF Unwind, Put, Takes
<1> QED
  BY <1>2, <1>3, <1>4, <1>6, <1>7, <1>8, <1>9, <1>10

-----------------------------------------------------------------------------
(* The invariant holds initially and is kept by every step.                *)

LEMMA EInit == Init => EInv
<1> SUFFICES ASSUME Init PROVE EInv
  OBVIOUS
<1> DEFINE fr == Enter(script.root, None, NoContext, 0)
<1>1. DOMAIN frames = {<<>>} /\ frames[<<>>] = fr
  BY DEF Init
<1>2. FrameOK(fr)
  BY EnterOK
<1>3. Placed(<<>>)
  BY DEF Placed
<1>4. resumes \in 0 .. MaxResumes
  BY DEF Init
<1> QED
  BY <1>1, <1>2, <1>3, <1>4 DEF EInv

LEMMA TakesKeeps ==
  ASSUME EInv, NEW f, Takes(f)
  PROVE  EInv'
<1>1. PICK fr : FrameOK(fr) /\ frames' = [frames EXCEPT ![f] = fr]
  BY DEF Takes
<1>2. frames[f].phase \in {"walk", "unwind"} /\ resumes' = resumes
  BY DEF Takes
<1>3. ASSUME NEW g \in DOMAIN frames' PROVE FrameOK(frames'[g]) /\ Placed(g)'
  <2>1. g \in DOMAIN frames /\ FrameOK(frames[g]) /\ Placed(g)
    BY <1>1 DEF EInv
  <2>2. FrameOK(frames'[g])
    BY <1>1, <2>1
  <2>3. g # <<>> => Front(g) # f /\ frames'[Front(g)] = frames[Front(g)]
    BY <1>1, <1>2, <2>1 DEF Placed
  <2>4. g # f => frames'[g] = frames[g]
    BY <1>1, <2>1
  <2>5. Len(g) <= MaxDepth + 1 /\ (frames'[g].phase # "end" => Len(g) <= MaxDepth)
    BY <1>2, <2>1, <2>4 DEF Placed
  <2>6. DOMAIN frames' = DOMAIN frames
    BY <1>1
  <2> QED
    BY <2>1, <2>2, <2>3, <2>5, <2>6 DEF Placed
<1> QED
  BY <1>2, <1>3 DEF EInv

LEMMA StartsKeeps ==
  ASSUME EInv, NEW f, Starts(f)
  PROVE  EInv'
<1> DEFINE waiting == [Visited(f) EXCEPT !.phase = "wait"]
<1>1. PICK workflows : DOMAIN workflows = 1 .. Width(frames[f]) /\ Start(f, workflows)
  BY DEF Starts
<1> DEFINE new == {Append(f, i) : i \in DOMAIN workflows}
<1>2. /\ f \in DOMAIN frames /\ frames[f].phase = "walk" /\ frames[f].steps < MaxSteps
      /\ resumes' = resumes /\ FrameOK(frames[f]) /\ Placed(f)
  BY DEF Starts, EInv
<1>3. /\ DOMAIN frames' = DOMAIN frames \cup new
      /\ frames'[f] = waiting
      /\ \A g \in DOMAIN frames : g # f => frames'[g] = frames[g]
      /\ \A g \in new : g \notin DOMAIN frames =>
           frames'[g] = Enter(workflows[Last(g)], None, frames[f].ctx, Len(g))
  BY <1>1, <1>2 DEF Start
<1>4. FrameOK(waiting) /\ waiting.phase = "wait" /\ Width(waiting) = Width(frames[f])
  BY <1>2 DEF Visited, FrameOK, FrameFields, Width, StepAt, StepsOf
<1> HIDE DEF waiting, new
<1>5. ASSUME NEW g \in DOMAIN frames PROVE FrameOK(frames'[g]) /\ Placed(g)'
  <2>1. FrameOK(frames[g]) /\ Placed(g)
    BY DEF EInv
  <2>2. g # <<>> => Front(g) # f /\ frames'[Front(g)] = frames[Front(g)]
                    /\ Front(g) \in DOMAIN frames'
    BY <1>2, <1>3, <2>1 DEF Placed
  <2>3. FrameOK(frames'[g])
    BY <1>3, <1>4, <2>1
  <2>4. frames'[g].phase # "end" => Len(g) <= MaxDepth
    BY <1>2, <1>3, <2>1 DEF Placed
  <2> QED
    BY <2>1, <2>2, <2>3, <2>4 DEF Placed
<1>6. ASSUME NEW g \in new, g \notin DOMAIN frames
      PROVE  FrameOK(frames'[g]) /\ Placed(g)'
  <2>1. PICK i \in 1 .. Width(frames[f]) : g = Append(f, i)
    BY <1>1, <1>6 DEF new
  <2>2. f \in Seq(Nat) /\ Len(f) <= MaxDepth /\ Len(f) \in Nat
    BY <1>2, PathProperties DEF Placed
  <2>3. /\ g \in Seq(Nat) /\ g # <<>> /\ Len(g) = Len(f) + 1
        /\ Front(g) = f /\ Last(g) = i
    BY <2>1, <2>2, AppendedPath
  <2>4. FrameOK(frames'[g]) /\ (frames'[g].phase # "end" => Len(g) <= MaxDepth)
    BY <1>3, <1>6, <2>2, <2>3, EnterOK
  <2>5. Front(g) \in DOMAIN frames' /\ frames'[Front(g)] = waiting
    BY <1>2, <1>3, <2>3
  <2> QED
    BY <1>4, <2>1, <2>2, <2>3, <2>4, <2>5 DEF Placed
<1> QED
  BY <1>2, <1>3, <1>5, <1>6 DEF EInv

(* Bringing the sub-workflows of f back: a child ends, so only f waits on  *)
(* it, and whoever else waits stays.                                       *)
LEMMA AwaitKeeps ==
  ASSUME EInv, NEW f, Await(f)
  PROVE  EInv'
<1>1. /\ f \in DOMAIN frames /\ frames[f].phase = "wait" /\ resumes' = resumes
      /\ FrameOK(frames[f]) /\ Placed(f) /\ Live(frames[f])
  BY DEF Await, EInv, FrameOK, Live
<1> DEFINE ends == [i \in 1 .. Width(frames[f]) |-> frames[Append(f, i)]]
           fr == IF StepAt(frames[f]).type = "parallel"
                   THEN Join(frames[f], ends)
                   ELSE Return(frames[f], ends[1])
<1>2. /\ FrameOK(fr)
      /\ frames' = [g \in DOMAIN frames \ Children(f) |->
                      IF g # f THEN frames[g] ELSE fr]
  <2>1. FrameOK(fr)
    BY <1>1, JoinOK, ReturnOK
  <2> QED
    BY <2>1 DEF Await
<1> HIDE DEF fr
<1>3. \A g \in Children(f) : g \in DOMAIN frames /\ frames[g].phase = "end"
  BY DEF Await, ChildrenEnded, Children
<1>4. ASSUME NEW g \in DOMAIN frames, g \notin Children(f)
      PROVE  FrameOK(frames'[g]) /\ Placed(g)'
  <2>1. FrameOK(frames[g]) /\ Placed(g)
    BY DEF EInv
  <2>2. FrameOK(frames'[g]) /\ (g # f => frames'[g] = frames[g])
    BY <1>2, <1>4, <2>1
  <2>3. frames'[g].phase # "end" => Len(g) <= MaxDepth
    BY <1>1, <2>1, <2>2 DEF Placed
  <2>4. ASSUME g # <<>>
        PROVE  Front(g) \in DOMAIN frames' /\ frames'[Front(g)] = frames[Front(g)]
    <3>1. Front(g) \in DOMAIN frames /\ frames[Front(g)].phase = "wait"
      BY <2>1, <2>4 DEF Placed
    <3>2. Front(g) \notin Children(f)
      BY <1>3, <3>1
    <3>3. Front(g) # f
      <4>1. Len(Front(g)) + 1 = Len(g)
        BY <2>1, <2>4, PathProperties DEF Placed
      <4> QED
        BY <1>4, <4>1 DEF Children
    <3> QED
      BY <1>2, <3>1, <3>2, <3>3
  <2> QED
    BY <2>1, <2>2, <2>3, <2>4 DEF Placed
<1> QED
  BY <1>1, <1>2, <1>4 DEF EInv

(* What is below a path stays below it when it grows, and nothing is below *)
(* a longer path.                                                          *)
LEMMA PrefixOfLonger ==
  ASSUME NEW b \in Seq(Nat), NEW g \in Seq(Nat), g # <<>>
  PROVE  /\ IsPrefix(b, Front(g)) => IsPrefix(b, g)
         /\ ~IsPrefix(g, Front(g))
         /\ IsPrefix(b, b)
<1>1. PICK s \in Seq(Nat), e \in Nat : s = Front(g) /\ g = Append(s, e)
  BY PathProperties
<1>2. /\ Len(s) \in Nat /\ Len(b) \in Nat /\ Len(g) = Len(s) + 1
      /\ \A i \in 1 .. Len(s) : g[i] = s[i]
  BY <1>1, AppendedElements, AppendedPath, PathProperties
<1>3. IsPrefix(b, s) => IsPrefix(b, g)
  <2> SUFFICES ASSUME Len(b) <= Len(s), SubSeq(b, 1, Len(b)) = SubSeq(s, 1, Len(b))
               PROVE  Len(b) <= Len(g) /\ SubSeq(b, 1, Len(b)) = SubSeq(g, 1, Len(b))
    BY DEF IsPrefix
  <2>1. SubSeq(g, 1, Len(b)) = SubSeq(s, 1, Len(b))
    BY <1>2
  <2> QED
    BY <1>2, <2>1
<1>4. ~IsPrefix(g, s)
  BY <1>2 DEF IsPrefix
<1>5. IsPrefix(b, b)
  BY <1>2 DEF IsPrefix
<1> QED
  BY <1>1, <1>3, <1>4, <1>5

(* Among the branches a panic unwinds through there is an innermost one.   *)
LEMMA InnermostBranch ==
  ASSUME NEW f \in Seq(Nat), \A g \in DOMAIN frames : g \in Seq(Nat),
         BranchesAbove(f) # {}
  PROVE  \E g \in BranchesAbove(f) : \A h \in BranchesAbove(f) : Len(h) <= Len(g)
<1> DEFINE B == BranchesAbove(f)
           gaps == {Len(f) - Len(g) : g \in B}
<1>1. ASSUME NEW g \in B PROVE Len(g) \in Nat /\ Len(f) \in Nat /\ Len(g) <= Len(f)
  BY PathProperties DEF BranchesAbove, IsPrefix
<1>2. gaps \subseteq Nat /\ gaps # {}
  BY <1>1
<1>3. PICK n \in gaps : \A m \in gaps : n <= m
  BY <1>2, Least
<1>4. PICK g \in B : n = Len(f) - Len(g)
  BY <1>3
<1>5. ASSUME NEW h \in B PROVE Len(h) <= Len(g)
  <2>1. Len(f) - Len(g) <= Len(f) - Len(h)
    BY <1>3, <1>4
  <2>2. Len(f) \in Nat /\ Len(g) \in Nat /\ Len(h) \in Nat
    BY <1>1
  <2> QED
    BY <2>1, <2>2
<1> QED
  BY <1>4, <1>5

(* A panic leaves no frame, or ends a branch and clears what is below it.  *)
LEMMA PanicEnds ==
  ASSUME EInv, NEW f \in DOMAIN frames, Panic(f)
  PROVE  \/ frames' = <<>>
         \/ \E b \in DOMAIN frames :
              /\ b # <<>>
              /\ frames' = [g \in {g \in DOMAIN frames : g = b \/ ~IsPrefix(b, g)} |->
                              IF g = b THEN End(frames[b], "panicked") ELSE frames[g]]
<1>1. \A g \in DOMAIN frames : g \in Seq(Nat)
  BY DEF EInv, Placed
<1>2. CASE BranchesAbove(f) = {}
  BY <1>2 DEF Panic
<1>3. CASE BranchesAbove(f) # {}
  <2> DEFINE Innermost(g) == \A h \in BranchesAbove(f) : Len(h) <= Len(g)
             b == CHOOSE g \in BranchesAbove(f) : Innermost(g)
  <2>1. \E g \in BranchesAbove(f) : Innermost(g)
    BY <1>1, <1>3, InnermostBranch
  <2>2. b \in BranchesAbove(f)
    BY <2>1
  <2>3. b \in DOMAIN frames /\ b # <<>>
    BY <2>2 DEF BranchesAbove
  <2>4. frames' = [g \in {g \in DOMAIN frames : g = b \/ ~IsPrefix(b, g)} |->
                     IF g = b THEN End(frames[b], "panicked") ELSE frames[g]]
    BY <1>3 DEF Panic
  <2> QED
    BY <2>3, <2>4
<1> QED
  BY <1>2, <1>3

LEMMA PanicKeeps ==
  ASSUME EInv, NEW f \in DOMAIN frames, Panic(f)
  PROVE  EInv'
<1>1. resumes' = resumes
  BY DEF Panic
<1>2. CASE frames' = <<>>
  BY <1>1, <1>2 DEF EInv
<1>3. ASSUME NEW b \in DOMAIN frames, b # <<>>,
             frames' = [g \in {g \in DOMAIN frames : g = b \/ ~IsPrefix(b, g)} |->
                          IF g = b THEN End(frames[b], "panicked") ELSE frames[g]]
      PROVE  EInv'
  <2>1. ASSUME NEW g \in DOMAIN frames' PROVE FrameOK(frames'[g]) /\ Placed(g)'
    <3>1. g \in DOMAIN frames /\ FrameOK(frames[g]) /\ Placed(g) /\ Placed(b)
      BY <1>3 DEF EInv
    <3>2. FrameOK(frames'[g]) /\ (frames'[g].phase # "end" => frames'[g] = frames[g])
      BY <1>3, <2>1, <3>1, EndOK
    <3>3. ASSUME g # <<>>
          PROVE  Front(g) \in DOMAIN frames' /\ frames'[Front(g)] = frames[Front(g)]
      <4>1. Front(g) \in DOMAIN frames
        BY <3>1, <3>3 DEF Placed
      <4>2. ~IsPrefix(b, Front(g))
        BY <1>3, <2>1, <3>1, <3>3, PrefixOfLonger DEF Placed
      <4>3. Front(g) # b
        BY <3>1, <3>3, <4>2, PrefixOfLonger DEF Placed
      <4> QED
        BY <1>3, <4>1, <4>2, <4>3
    <3> QED
      BY <3>1, <3>2, <3>3 DEF Placed
  <2> QED
    BY <1>1, <2>1 DEF EInv
<1> QED
  BY <1>2, <1>3, PanicEnds

LEMMA EKeeps == EInv /\ [Next]_vars => EInv'
<1> SUFFICES ASSUME EInv, [Next]_vars PROVE EInv'
  OBVIOUS
<1>1. ASSUME NEW f \in DOMAIN frames, Move(f) PROVE EInv'
  <2>1. CASE Await(f)
    BY <2>1, AwaitKeeps
  <2>2. CASE Panic(f)
    BY <2>2, PanicKeeps
  <2>3. CASE ~Await(f) /\ ~Panic(f)
    BY <1>1, <2>3, TakesOrStarts, TakesKeeps, StartsKeeps DEF Move
  <2> QED
    BY <2>1, <2>2, <2>3
<1>2. CASE Reply
  BY <1>2 DEF Reply, EInv
<1>3. CASE Resume
  <2> DEFINE after == Workflows[saved.wf].steps[saved.at].onSuccess
             fr == Enter(saved.wf, after, Merge(saved.ctx, script.resolution), 0)
  <2>1. DOMAIN frames' = {<<>>} /\ frames'[<<>>] = fr
    BY <1>3 DEF Resume
  <2>2. FrameOK(fr)
    BY EnterOK
  <2>3. Placed(<<>>)'
    BY DEF Placed
  <2>4. resumes' \in 0 .. MaxResumes
    BY <1>3 DEF Resume, EInv
  <2> HIDE DEF fr
  <2> QED
    BY <2>1, <2>2, <2>3, <2>4 DEF EInv
<1>4. CASE UNCHANGED vars
  BY <1>4 DEF vars, EInv, Placed
<1> QED
  BY <1>1, <1>2, <1>3, <1>4 DEF Next

LEMMA EInvHolds == Spec => []EInv
  BY EInit, EKeeps, PTL DEF Spec

(* Runs stay under the step and depth ceilings whatever their workflows,   *)
(* and an activation of runFrom outlives the ones it started (runFrom,     *)
(* runParallel).                                                           *)
THEOREM TypeCorrect == Spec => []TypeOK
<1>1. EInv => TypeOK
  BY DEF EInv, TypeOK, FrameOK, Placed
<1> QED
  BY <1>1, EInvHolds, PTL

(* A structural error reaches the frame that started the activation as a   *)
(* structural error (bypassesBreaker, runComposite, runParallel).          *)
THEOREM StructuralErrorsEscalate == Spec => StructuralIsNotAbsorbed
<1>1. ASSUME EInv, [Next]_vars, NEW f \in DOMAIN frames,
             f # <<>>, Ended(f), frames[f].kind \in Structural
      PROVE  Escalates(f)
  <2> USE DEF Escalates
  <2> DEFINE p == Front(f)
  <2>1. p \in DOMAIN frames /\ frames[p].phase = "wait" /\ FrameOK(frames[p])
        /\ f \in Seq(Nat) /\ Last(f) \in 1 .. Width(frames[p])
    BY <1>1 DEF EInv, Placed
  <2>2. ASSUME NEW g, Takes(g) \/ Starts(g) PROVE frames'[p] = frames[p]
    BY <2>1, <2>2 DEF Takes, Starts, Start
  <2>3. ASSUME NEW g \in DOMAIN frames, Await(g) PROVE Escalates(f)
    <3>1. CASE g # p
      <4>1. p \notin Children(g)
        BY <2>1, <2>3 DEF Await, ChildrenEnded
      <4> QED
        BY <2>1, <2>3, <3>1, <4>1 DEF Await
    <3>2. CASE g = p
      <4> DEFINE ends == [i \in 1 .. Width(frames[p]) |-> frames[Append(p, i)]]
                 fr == IF StepAt(frames[p]).type = "parallel"
                         THEN Join(frames[p], ends)
                         ELSE Return(frames[p], ends[1])
      <4>1. ends[Last(f)].kind \in Bypassing /\ Last(f) \in DOMAIN ends
        BY <1>1, <2>1, PathProperties DEF Structural, Bypassing
      <4>2. DOMAIN ends \subseteq Nat
        OBVIOUS
      <4>3. p \notin Children(p)
        BY <2>1 DEF Children, Await, ChildrenEnded
      <4>4. frames'[p] = fr
        BY <2>1, <2>3, <3>2, <4>3 DEF Await
      <4>5. CASE StepAt(frames[p]).type = "parallel"
        <5>1. Join(frames[p], ends).phase = "end" /\ Join(frames[p], ends).kind \in Bypassing
          BY <2>1, <4>1, <4>2, JoinEscalates
        <5> QED
          BY <4>4, <4>5, <5>1 DEF Structural, Bypassing
      <4>6. CASE StepAt(frames[p]).type # "parallel"
        <5>1. Last(f) = 1
          BY <2>1, <4>6 DEF Width
        <5>2. /\ Return(frames[p], ends[1]).phase = "end"
              /\ Return(frames[p], ends[1]).kind \in Bypassing
          BY <2>1, <4>1, <5>1, ReturnEscalates
        <5> QED
          BY <4>4, <4>6, <5>2 DEF Structural, Bypassing
      <4> QED
        BY <4>5, <4>6
    <3> QED
      BY <3>1, <3>2
  <2>4. ASSUME NEW g \in DOMAIN frames, Panic(g) PROVE Escalates(f)
    <3>1. CASE frames' = <<>>
      BY <3>1
    <3>2. ASSUME NEW b \in DOMAIN frames, b # <<>>,
                 frames' = [h \in {h \in DOMAIN frames : h = b \/ ~IsPrefix(b, h)} |->
                              IF h = b THEN End(frames[b], "panicked") ELSE frames[h]]
          PROVE  Escalates(f)
      <4>1. CASE p = b
        <5>1. frames'[p] = End(frames[p], "panicked")
          BY <3>2, <4>1
        <5> QED
          BY <2>1, <5>1, EndOK DEF Structural
      <4>2. CASE p # b
        BY <3>2, <4>2
      <4> QED
        BY <4>1, <4>2
    <3> QED
      BY <1>1, <2>4, <3>1, <3>2, PanicEnds
  <2>5. CASE \E g \in DOMAIN frames : Move(g)
    BY <1>1, <2>2, <2>3, <2>4, <2>5, TakesOrStarts DEF Move
  <2>6. CASE Reply \/ Resume
    BY <1>1, <2>6 DEF Reply, Resume
  <2>7. CASE UNCHANGED vars
    BY <2>7 DEF vars
  <2> QED
    BY <1>1, <2>5, <2>6, <2>7 DEF Next
<1>2. EInv /\ [Next]_vars => EveryErrorEscalates
  BY <1>1 DEF EveryErrorEscalates
<1> QED
  BY <1>2, EInvHolds, PTL DEF Spec, StructuralIsNotAbsorbed

-----------------------------------------------------------------------------
(* An abandoned activation undoes exactly what it did, in reverse, and no  *)
(* other undoes anything.                                                  *)
StepIds == UNION {DOMAIN Workflows[wf].steps : wf \in DOMAIN Workflows}

Undoable ==
  {[step |-> id, by |-> Workflows[wf].steps[id].compensate] :
     wf \in DOMAIN Workflows, id \in StepIds}

Effects == {"did", "undo"} \X StepIds

(* The log of what an activation completed and of the undoing of the last  *)
(* k of it.                                                                *)
Log(done, fx, k) ==
  /\ done \in Seq(Undoable) /\ fx \in Seq(Effects)
  /\ k \in 0 .. Len(done)
  /\ Len(fx) = Len(done) + k
  /\ \A i \in 1 .. Len(done) : fx[i] = <<"did", done[i].step>>
  /\ \A i \in 1 .. k : fx[Len(done) + i] = <<"undo", done[Len(done) + 1 - i].step>>

Undid(fr, k) == Log(fr.done, fr.effects, k)

Balanced(fr) ==
  /\ fr.phase \in {"walk", "wait"} => Undid(fr, 0)
  /\ fr.phase = "unwind" => /\ fr.left \in 1 .. Len(fr.done)
                            /\ Undid(fr, Len(fr.done) - fr.left)
  /\ fr.phase = "end" /\ fr.kind # "panicked" =>
       Undid(fr, IF fr.kind = "tripped" THEN Len(fr.done) ELSE 0)

Going(fr) == Live(fr) /\ Undid(fr, 0)

LEMMA EnterBalanced ==
  ASSUME NEW wf, NEW start, NEW ctx, NEW depth
  PROVE  Balanced(Enter(wf, start, ctx, depth))
<1>1. /\ <<>> \in Seq(Undoable) /\ <<>> \in Seq(Effects) /\ Len(<<>>) = 0
  OBVIOUS
<1> DEFINE fr == Enter(wf, start, ctx, depth)
<1>2. fr.done = <<>> /\ fr.effects = <<>>
  BY DEF Enter, End
<1>3. Undid(fr, 0)
  BY <1>1, <1>2 DEF Undid, Log
<1>4. fr.phase = "walk" \/ (fr.phase = "end" /\ fr.kind # "tripped")
  BY DEF Enter, End
<1> QED
  BY <1>3, <1>4 DEF Balanced

LEMMA EndBalanced ==
  ASSUME NEW fr, FrameOK(fr), Undid(fr, 0), NEW kind, kind # "tripped"
  PROVE  Balanced(End(fr, kind))
  BY DEF End, FrameOK, FrameFields, Undid, Log, Balanced

LEMMA OnFailureBalanced ==
  ASSUME NEW fr, Going(fr), NEW why
  PROVE  Balanced(OnFailure(fr, why))
<1>1. FrameOK(fr) /\ Undid(fr, 0)
  BY DEF Going, Live
<1>2. Balanced(Abandon(fr))
  <2>1. CASE fr.done = <<>>
    BY <1>1, <2>1 DEF Abandon, End, FrameOK, FrameFields, Undid, Log, Balanced
  <2>2. CASE fr.done # <<>>
    <3>1. Len(fr.done) \in Nat /\ Len(fr.done) # 0
      BY <1>1, <2>2 DEF Undid, Log
    <3> QED
      BY <1>1, <2>2, <3>1 DEF Abandon, FrameOK, FrameFields, Undid, Log, Balanced
  <2> QED
    BY <2>1, <2>2
<1>3. Balanced([fr EXCEPT !.phase = "walk", !.at = Policies[StepAt(fr).policy],
                          !.ctx[FailureReasonKey] = why, !.ctx[FailedStepKey] = fr.at])
  BY <1>1 DEF FrameOK, FrameFields, Undid, Log, Balanced
<1> QED
  BY <1>2, <1>3 DEF OnFailure

LEMMA SucceedBalanced ==
  ASSUME NEW fr, Going(fr), NEW ctx, NEW trace
  PROVE  Balanced(Succeed(fr, ctx, trace))
  BY DEF Going, Live, Succeed, FrameOK, FrameFields, Undid, Log, Balanced

LEMMA CompleteBalanced ==
  ASSUME NEW fr, Going(fr), fr.at \in DOMAIN StepsOf(fr)
  PROVE  Balanced(Complete(fr))
<1> DEFINE s == StepAt(fr)
           after == Succeed(fr, Output(fr.ctx, s), <<>>)
           entry == [step |-> fr.at, by |-> s.compensate]
           effect == <<"did", fr.at>>
<1>1. CASE s.compensate = None
  BY <1>1, SucceedBalanced DEF Complete
<1>2. CASE s.compensate # None
  <2>1. fr.at \in StepIds /\ entry \in Undoable
    BY DEF Going, Live, StepIds, Undoable, StepAt, StepsOf
  <2>2. effect \in Effects
    BY <2>1 DEF Effects
  <2> DEFINE t == Complete(fr)
  <2>3. /\ t.phase = "walk"
        /\ t.done = Append(fr.done, entry) /\ t.effects = Append(fr.effects, effect)
    BY <1>2 DEF Complete, Succeed, Going, Live, FrameOK, FrameFields
  <2>4. /\ fr.done \in Seq(Undoable) /\ fr.effects \in Seq(Effects)
        /\ Len(fr.effects) = Len(fr.done) /\ Len(fr.done) \in Nat
        /\ \A i \in 1 .. Len(fr.done) : fr.effects[i] = <<"did", fr.done[i].step>>
    BY DEF Going, Undid, Log
  <2> HIDE DEF t, entry, effect
  <2>5. /\ t.done \in Seq(Undoable) /\ t.effects \in Seq(Effects)
        /\ Len(t.done) = Len(fr.done) + 1 /\ Len(t.effects) = Len(fr.done) + 1
    BY <2>1, <2>2, <2>3, <2>4
  <2>6. ASSUME NEW i \in 1 .. Len(t.done) PROVE t.effects[i] = <<"did", t.done[i].step>>
    <3>1. CASE i = Len(fr.done) + 1
      <4>1. t.effects[i] = effect /\ t.done[i] = entry
        BY <2>1, <2>2, <2>3, <2>4, <3>1
      <4> QED
        BY <4>1 DEF effect, entry
    <3>2. CASE i # Len(fr.done) + 1
      <4>1. i \in 1 .. Len(fr.done)
        BY <2>4, <2>5, <3>2
      <4>2. t.effects[i] = fr.effects[i] /\ t.done[i] = fr.done[i]
        BY <2>1, <2>2, <2>3, <2>4, <4>1
      <4> QED
        BY <2>4, <4>1, <4>2
    <3> QED
      BY <3>1, <3>2
  <2>7. Undid(t, 0)
    BY <2>4, <2>5, <2>6 DEF Undid, Log
  <2> QED
    BY <2>3, <2>7 DEF Balanced, t
<1> QED
  BY <1>1, <1>2

LEMMA SuspendBalanced ==
  ASSUME NEW fr, Going(fr), NEW depth
  PROVE  Balanced(Suspend(fr, depth))
<1>1. FrameOK(fr) /\ Undid(fr, 0)
  BY DEF Going, Live
<1>2. \E kind \in {"nested", "noStore", "suspended"} : Suspend(fr, depth) = End(fr, kind)
  BY DEF Suspend
<1> QED
  BY <1>1, <1>2, EndBalanced

LEMMA JoinBalanced ==
  ASSUME NEW fr, Going(fr), NEW ends, DOMAIN ends \subseteq Nat
  PROVE  Balanced(Join(fr, ends))
<1>1. FrameOK(fr) /\ Undid(fr, 0)
  BY DEF Going, Live
<1>2. CASE \E i \in DOMAIN ends : ends[i].kind \in Bypassing
  <2> DEFINE bypassing == {j \in DOMAIN ends : ends[j].kind \in Bypassing}
             First(j) == \A k \in bypassing : j <= k
             first == CHOOSE j \in bypassing : First(j)
  <2>1. \E j \in bypassing : First(j)
    BY <1>2, Least
  <2>2. first \in bypassing
    BY <2>1
  <2>3. Join(fr, ends) = End(fr, ends[first].kind)
    BY <1>2 DEF Join
  <2>4. ends[first].kind # "tripped"
    BY <2>2 DEF Bypassing
  <2> QED
    BY <1>1, <2>3, <2>4, EndBalanced
<1>3. CASE ~ \E i \in DOMAIN ends : ends[i].kind \in Bypassing
  <2>1. \/ \E why : Join(fr, ends) = OnFailure(fr, why)
        \/ Join(fr, ends) = End(fr, "conflict")
        \/ Join(fr, ends) = Succeed(fr, Joined(fr.ctx, ends), Traces(ends))
    BY <1>3 DEF Join
  <2>2. Balanced(End(fr, "conflict"))
    BY <1>1, EndBalanced
  <2> QED
    BY <2>1, <2>2, OnFailureBalanced, SucceedBalanced
<1> QED
  BY <1>2, <1>3

LEMMA ReturnBalanced ==
  ASSUME NEW fr, Going(fr), NEW sub
  PROVE  Balanced(Return(fr, sub))
<1>1. FrameOK(fr) /\ Undid(fr, 0)
  BY DEF Going, Live
<1>2. sub.kind \in Bypassing => Balanced(End(fr, sub.kind))
  BY <1>1, EndBalanced DEF Bypassing
<1> QED
  BY <1>2, OnFailureBalanced, SucceedBalanced DEF Return

LEMMA VisitedGoing ==
  ASSUME NEW f, Live(frames[f]), frames[f].steps < MaxSteps, Undid(frames[f], 0)
  PROVE  /\ Going(Visited(f)) /\ FrameOK(Visited(f)) /\ Undid(Visited(f), 0)
         /\ Visited(f).at = frames[f].at /\ Visited(f).wf = frames[f].wf
<1>1. Live(Visited(f))
  BY VisitedOK
<1>2. /\ Visited(f).at = frames[f].at /\ Visited(f).wf = frames[f].wf
      /\ Undid(Visited(f), 0)
  BY DEF Visited, Live, FrameOK, FrameFields, Undid, Log
<1> QED
  BY <1>1, <1>2 DEF Going, Live

(* Appending to the log.                                                   *)
LEMMA AppendedEffects ==
  \A fx \in Seq(Effects), e \in Effects :
    /\ Append(fx, e) \in Seq(Effects) /\ Len(Append(fx, e)) = Len(fx) + 1
    /\ Append(fx, e)[Len(fx) + 1] = e
    /\ \A i \in 1 .. Len(fx) : Append(fx, e)[i] = fx[i]
  BY AppendedElements

(* One more effect at the end of a log that has undone the last k.         *)
LEMMA OneMore ==
  ASSUME NEW done, NEW fx, NEW k \in Nat, Log(done, fx, k), k < Len(done)
  PROVE  Log(done, Append(fx, <<"undo", done[Len(done) - k].step>>), k + 1)
<1> DEFINE after == Append(fx, <<"undo", done[Len(done) - k].step>>)
<1>0. /\ done \in Seq(Undoable) /\ fx \in Seq(Effects) /\ Len(fx) = Len(done) + k
      /\ \A i \in 1 .. Len(done) : fx[i] = <<"did", done[i].step>>
      /\ \A i \in 1 .. k : fx[Len(done) + i] = <<"undo", done[Len(done) + 1 - i].step>>
  BY DEF Log
<1>1. PICK n \in Nat : n = Len(done)
  BY <1>0
<1>2. PICK e \in Effects : e = <<"undo", done[n - k].step>>
  <2>1. done[n - k] \in Undoable
    BY <1>0, <1>1
  <2>2. done[n - k].step \in StepIds
    <3>1. \A d \in Undoable : d.step \in StepIds
      BY DEF Undoable
    <3> QED
      BY <2>1, <3>1, Zenon
  <2> QED
    BY <2>2 DEF Effects
<1>3. /\ after \in Seq(Effects) /\ Len(after) = n + k + 1 /\ after[n + k + 1] = e
      /\ \A i \in 1 .. n + k : after[i] = fx[i]
  <2>1. after = Append(fx, e) /\ Len(fx) = n + k
    BY <1>0, <1>1, <1>2
  <2>2. /\ after \in Seq(Effects) /\ Len(after) = Len(fx) + 1 /\ after[Len(fx) + 1] = e
        /\ \A i \in 1 .. Len(fx) : after[i] = fx[i]
    <3>1. /\ Append(fx, e) \in Seq(Effects) /\ Len(Append(fx, e)) = Len(fx) + 1
          /\ Append(fx, e)[Len(fx) + 1] = e
          /\ \A i \in 1 .. Len(fx) : Append(fx, e)[i] = fx[i]
      BY <1>0, <1>2, AppendedEffects, Zenon
    <3> QED
      BY <2>1, <3>1, Zenon
  <2> QED
    BY <2>1, <2>2
<1>4. \A i \in 1 .. n : after[i] = <<"did", done[i].step>>
  BY <1>0, <1>1, <1>3
<1>5. ASSUME NEW i \in 1 .. k + 1
      PROVE  after[n + i] = <<"undo", done[n + 1 - i].step>>
  <2>1. CASE i = k + 1
    <3>1. n + i = n + k + 1 /\ n + 1 - i = n - k
      BY <2>1
    <3> QED
      BY <1>2, <1>3, <3>1
  <2>2. CASE i # k + 1
    <3>1. i \in 1 .. k /\ n + i \in 1 .. n + k
      BY <2>2
    <3> QED
      BY <1>0, <1>1, <1>3, <3>1
  <2> QED
    BY <2>1, <2>2
<1>6. Len(after) = n + (k + 1) /\ k + 1 \in 0 .. n
  BY <1>1, <1>3
<1> HIDE DEF after
<1>7. Log(done, after, k + 1)
  BY <1>0, <1>1, <1>3, <1>4, <1>5, <1>6, Zenon DEF Log
<1> QED
  BY <1>7 DEF after

(* The frame after one turn of unwind's loop.                              *)
LEMMA UnwindBalanced ==
  ASSUME NEW f, FrameOK(frames[f]), Balanced(frames[f]), Unwind(f)
  PROVE  \E t : Balanced(t) /\ Put(f, t)
<1> DEFINE fr == frames[f]
           entry == NextToUndo(fr)
           effect == <<"undo", entry.step>>
           tried == [fr EXCEPT !.left = @ - 1, !.effects = Append(@, effect)]
           undone == [tried EXCEPT !.ctx = Output(@, StepsOf(fr)[entry.by]),
                                   !.undone = Append(@, entry.step)]
           failed == [tried EXCEPT !.failures = Append(@, entry.step)]
<1>1. /\ fr.phase = "unwind" /\ fr.left \in 1 .. Len(fr.done)
      /\ Undid(fr, Len(fr.done) - fr.left)
  BY DEF Unwind, Balanced
<1>2. PICK k \in Nat, left \in Nat :
        /\ left = fr.left /\ left = Len(fr.done) - k /\ left >= 1
        /\ k < Len(fr.done) /\ Undid(fr, k)
  <2>1. Len(fr.done) \in Nat
    BY <1>1 DEF Undid, Log
  <2>2. Len(fr.done) - fr.left \in Nat /\ fr.left \in Nat /\ fr.left >= 1
        /\ Len(fr.done) - fr.left < Len(fr.done)
        /\ fr.left = Len(fr.done) - (Len(fr.done) - fr.left)
    BY <1>1, <2>1
  <2> QED
    BY <1>1, <2>2
<1>3. ASSUME NEW t, t.done = fr.done, t.effects = Append(fr.effects, effect),
             t.left = left - 1
      PROVE  /\ Undid(t, k + 1) /\ t.left \in 0 .. Len(t.done)
             /\ k + 1 = Len(t.done) - t.left
  <2>1. t.effects = Append(fr.effects, <<"undo", fr.done[Len(fr.done) - k].step>>)
    BY <1>2, <1>3 DEF NextToUndo
  <2>2. Log(fr.done, fr.effects, k) /\ k < Len(fr.done)
    BY <1>2 DEF Undid
  <2>3. Undid(t, k + 1)
    BY <1>3, <2>1, <2>2, OneMore, Zenon DEF Undid
  <2>4. Len(fr.done) \in Nat
    BY <2>2 DEF Log
  <2>5. t.left \in 0 .. Len(fr.done) /\ k + 1 = Len(fr.done) - t.left
    BY <1>2, <1>3, <2>4
  <2> QED
    BY <1>3, <2>3, <2>5
<1>4. ASSUME NEW t \in {undone, failed}
      PROVE  /\ FrameOK(t) /\ t.phase = "unwind" /\ t.left \in 0 .. Len(t.done)
             /\ Undid(t, k + 1) /\ k + 1 = Len(t.done) - t.left
  <2>1. /\ FrameOK(t) /\ t.phase = "unwind" /\ t.done = fr.done
        /\ t.effects = Append(fr.effects, effect) /\ t.left = left - 1
    BY ZenonT(40), <1>1, <1>2 DEF FrameOK, FrameFields
  <2> QED
    BY <1>3, <2>1
<1>5. PICK t \in {undone, failed} : Put(f, IF t.left = 0 THEN End(t, "tripped") ELSE t)
  BY DEF Unwind
<1> HIDE DEF undone, failed
<1>6. Len(t.done) \in Nat
  BY <1>4 DEF Undid, Log
<1>7. CASE t.left = 0
  <2>1. Undid(t, Len(t.done)) /\ FrameOK(t)
    BY <1>4, <1>6, <1>7
  <2>2. Balanced(End(t, "tripped"))
    BY <2>1 DEF End, FrameOK, FrameFields, Undid, Log, Balanced
  <2> QED
    BY <1>5, <1>7, <2>2
<1>8. CASE t.left # 0
  <2>1. t.left \in 1 .. Len(t.done) /\ Undid(t, Len(t.done) - t.left)
    BY <1>4, <1>6, <1>8
  <2>2. Balanced(t)
    BY <1>4, <2>1 DEF Balanced
  <2> QED
    BY <1>5, <1>8, <2>2
<1> QED
  BY <1>7, <1>8
-----------------------------------------------------------------------------
(* Every frame stays balanced.                                             *)

CInv == \A f \in DOMAIN frames : Balanced(frames[f])

(* A step of a leaf, composite or parallel starts from a frame that goes   *)
(* on once the step is visited.                                            *)
LEMMA VisitsGoing ==
  ASSUME EInv, CInv, NEW f \in DOMAIN frames, NEW type, Visits(f, type)
  PROVE  /\ Going(Visited(f)) /\ FrameOK(Visited(f)) /\ Undid(Visited(f), 0)
         /\ Visited(f).at \in DOMAIN StepsOf(Visited(f))
<1>1. FrameOK(frames[f]) /\ Balanced(frames[f])
  BY DEF EInv, CInv
<1>2. /\ frames[f].phase = "walk" /\ frames[f].steps < MaxSteps
      /\ frames[f].at \in DOMAIN StepsOf(frames[f])
  BY DEF Visits, Walking, WithinLimit
<1>3. Live(frames[f]) /\ Undid(frames[f], 0)
  BY <1>1, <1>2 DEF Live, FrameOK, Balanced
<1> QED
  BY <1>2, <1>3, VisitedGoing DEF StepsOf

LEMMA PutKeeps ==
  ASSUME CInv, NEW f \in DOMAIN frames, NEW fr, Balanced(fr), Put(f, fr)
  PROVE  CInv'
  BY DEF CInv, Put

LEMMA MovesKeep ==
  ASSUME EInv, CInv, NEW f \in DOMAIN frames,
         \/ Finish(f) \/ LimitHit(f) \/ StepMissing(f) \/ ProbeRefuses(f)
         \/ Act(f) \/ Unwind(f)
  PROVE  CInv'
<1> DEFINE fr == frames[f]
<1>1. FrameOK(fr) /\ Balanced(fr)
  BY DEF EInv, CInv
<1>2. ASSUME Walking(f), NEW kind, kind # "tripped", Put(f, End(fr, kind)) PROVE CInv'
  <2>1. Undid(fr, 0)
    BY <1>1, <1>2 DEF Walking, Balanced
  <2> QED
    BY <1>1, <1>2, <2>1, EndBalanced, PutKeeps
<1>3. CASE Finish(f)
  BY <1>2, <1>3 DEF Finish
<1>4. CASE LimitHit(f)
  BY <1>2, <1>4 DEF LimitHit
<1>5. CASE StepMissing(f)
  BY <1>2, <1>5 DEF StepMissing
<1>6. CASE ProbeRefuses(f)
  <2>1. Going(Visited(f)) /\ FrameOK(Visited(f)) /\ Undid(Visited(f), 0)
    BY <1>6, VisitsGoing DEF ProbeRefuses
  <2>2. /\ \A why : Balanced(OnFailure(Visited(f), why))
        /\ Balanced(End(Visited(f), "plain"))
    BY <2>1, OnFailureBalanced, EndBalanced
  <2> QED
    BY <1>6, <2>2, PutKeeps DEF ProbeRefuses
<1>7. CASE Act(f)
  <2>1. Going(Visited(f)) /\ Visited(f).at \in DOMAIN StepsOf(Visited(f))
    BY <1>7, VisitsGoing DEF Act
  <2>2. /\ Balanced(Complete(Visited(f))) /\ \A why : Balanced(OnFailure(Visited(f), why))
        /\ Balanced(Suspend(Visited(f), Len(f)))
    BY <2>1, CompleteBalanced, OnFailureBalanced, SuspendBalanced
  <2>3. \/ Put(f, Complete(Visited(f))) \/ \E why : Put(f, OnFailure(Visited(f), why))
        \/ Put(f, Suspend(Visited(f), Len(f)))
    BY <1>7 DEF Act
  <2> QED
    BY <2>2, <2>3, PutKeeps
<1>8. CASE Unwind(f)
  BY <1>1, <1>8, UnwindBalanced, PutKeeps
<1> QED
  BY <1>3, <1>4, <1>5, <1>6, <1>7, <1>8

LEMMA StartKeeps ==
  ASSUME EInv, CInv, NEW f \in DOMAIN frames, NEW type, Visits(f, type),
         NEW workflows, Start(f, workflows)
  PROVE  CInv'
<1>1. FrameOK(Visited(f)) /\ Undid(Visited(f), 0)
  BY VisitsGoing
<1>2. Balanced([Visited(f) EXCEPT !.phase = "wait"])
  BY <1>1 DEF FrameOK, FrameFields, Undid, Log, Balanced
<1>3. ASSUME NEW g \in DOMAIN frames' PROVE Balanced(frames'[g])
  <2>1. CASE g = f
    BY <1>2, <2>1 DEF Start
  <2>2. CASE g # f /\ g \in DOMAIN frames
    BY <2>2 DEF Start, CInv
  <2>3. CASE g \notin DOMAIN frames
    <3>1. frames'[g] = Enter(workflows[Last(g)], None, frames[f].ctx, Len(g))
      BY <1>3, <2>3 DEF Start
    <3> QED
      BY <3>1, EnterBalanced
  <2> QED
    BY <2>1, <2>2, <2>3
<1> QED
  BY <1>3 DEF CInv

LEMMA StartsKeep ==
  ASSUME EInv, CInv, NEW f \in DOMAIN frames, Call(f) \/ Fork(f)
  PROVE  CInv'
<1>1. CASE Call(f)
  BY <1>1, StartKeeps DEF Call
<1>2. CASE Fork(f)
  <2>1. CASE Put(f, End(Visited(f), "noBranches"))
    BY <1>2, <2>1, VisitsGoing, EndBalanced, PutKeeps DEF Fork
  <2>2. CASE ~Put(f, End(Visited(f), "noBranches"))
    BY <1>2, <2>2, StartKeeps DEF Fork
  <2> QED
    BY <2>1, <2>2
<1> QED
  BY <1>1, <1>2

LEMMA AwaitBalanced ==
  ASSUME EInv, CInv, NEW f \in DOMAIN frames, Await(f)
  PROVE  CInv'
<1> DEFINE ends == [i \in 1 .. Width(frames[f]) |-> frames[Append(f, i)]]
           fr == IF StepAt(frames[f]).type = "parallel"
                   THEN Join(frames[f], ends)
                   ELSE Return(frames[f], ends[1])
<1>1. Going(frames[f])
  BY DEF Await, EInv, CInv, FrameOK, Live, Balanced, Going
<1>2. Balanced(fr)
  <2>1. DOMAIN ends \subseteq Nat
    OBVIOUS
  <2>2. Balanced(Join(frames[f], ends)) /\ Balanced(Return(frames[f], ends[1]))
    BY <1>1, <2>1, JoinBalanced, ReturnBalanced
  <2> QED
    BY <2>2
<1>3. frames' = [g \in DOMAIN frames \ Children(f) |->
                   IF g # f THEN frames[g] ELSE fr]
  BY DEF Await
<1> HIDE DEF fr
<1> QED
  BY <1>2, <1>3 DEF CInv

LEMMA PanicBalanced ==
  ASSUME EInv, CInv, NEW f \in DOMAIN frames, Panic(f)
  PROVE  CInv'
<1>1. CASE frames' = <<>>
  BY <1>1 DEF CInv
<1>2. ASSUME NEW b \in DOMAIN frames,
             frames' = [g \in {g \in DOMAIN frames : g = b \/ ~IsPrefix(b, g)} |->
                          IF g = b THEN End(frames[b], "panicked") ELSE frames[g]]
      PROVE  CInv'
  <2>1. Balanced(End(frames[b], "panicked"))
    BY EndOK DEF EInv, Balanced
  <2> QED
    BY <1>2, <2>1 DEF CInv
<1> QED
  BY <1>1, <1>2, PanicEnds

LEMMA CKeeps == EInv /\ CInv /\ [Next]_vars => CInv'
<1> SUFFICES ASSUME EInv, CInv, [Next]_vars PROVE CInv'
  OBVIOUS
<1>1. CASE \E f \in DOMAIN frames : Move(f)
  BY <1>1, MovesKeep, StartsKeep, AwaitBalanced, PanicBalanced DEF Move
<1>2. CASE Reply
  BY <1>2 DEF Reply, CInv
<1>3. CASE Resume
  BY <1>3, EnterBalanced DEF Resume, CInv
<1>4. CASE UNCHANGED vars
  BY <1>4 DEF vars, CInv
<1> QED
  BY <1>1, <1>2, <1>3, <1>4 DEF Next

(* An abandoned activation tried to undo each completed step that declared *)
(* a compensation once, last first, after all it did; one that ended any   *)
(* other way undid nothing (abandon, unwind, onFailure).                   *)
THEOREM CompensationIsExact == Spec => []CompensationExact
<1>1. Init => CInv
  BY EnterBalanced DEF Init, CInv
<1>2. CInv => CompensationExact
  <2> SUFFICES ASSUME CInv, NEW f \in DOMAIN frames, Ended(f), frames[f].kind # "panicked"
               PROVE  LET fx == frames[f].effects
                      IN \E n \in 0 .. Len(fx) :
                           /\ \A i \in 1 .. n : fx[i][1] = "did"
                           /\ IF frames[f].kind # "tripped"
                                THEN Len(fx) = n
                                ELSE /\ Len(fx) = 2 * n
                                     /\ \A i \in 1 .. n :
                                          fx[n + i] = <<"undo", fx[n + 1 - i][2]>>
    BY DEF CompensationExact
  <2> DEFINE done == frames[f].done
             fx == frames[f].effects
             k == IF frames[f].kind = "tripped" THEN Len(done) ELSE 0
  <2>1. Log(done, fx, k)
    BY DEF CInv, Balanced, Undid, Ended
  <2>2. PICK n \in Nat : n = Len(done)
    BY <2>1 DEF Log
  <2>3. /\ Len(fx) = n + k
        /\ \A i \in 1 .. n : fx[i] = <<"did", done[i].step>>
        /\ \A i \in 1 .. k : fx[n + i] = <<"undo", done[n + 1 - i].step>>
    BY <2>1, <2>2 DEF Log
  <2>4. \A i \in 1 .. n : fx[i][1] = "did" /\ fx[i][2] = done[i].step
    BY <2>3
  <2>5. CASE frames[f].kind # "tripped"
    BY <2>2, <2>3, <2>4, <2>5
  <2>6. CASE frames[f].kind = "tripped"
    <3>1. Len(fx) = 2 * n /\ n \in 0 .. Len(fx)
      BY <2>2, <2>3, <2>6
    <3>2. ASSUME NEW i \in 1 .. n PROVE fx[n + i] = <<"undo", fx[n + 1 - i][2]>>
      <4>1. n + 1 - i \in 1 .. n
        OBVIOUS
      <4> QED
        BY <2>2, <2>3, <2>4, <2>6, <4>1
    <3> QED
      BY <2>4, <2>6, <3>1, <3>2
  <2> QED
    BY <2>5, <2>6
<1> QED
  BY <1>1, <1>2, CKeeps, EInvHolds, PTL DEF Spec
=============================================================================

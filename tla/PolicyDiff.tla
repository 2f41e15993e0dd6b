----------------------------- MODULE PolicyDiff -----------------------------
(***************************************************************************)
(* policydiff (cee diff): past events run through two versions of a        *)
(* policy, and the decisions that come out differently counted.  The       *)
(* engines it builds have no store, no sandbox and no hooks.               *)
(***************************************************************************)
EXTENDS Replay
LOCAL INSTANCE FiniteSetsExt

CONSTANT Events   \* the contexts of past events, in order

(* Business fields are not the engine's own.                               *)
ASSUME DiffAssumption == Fields \cap CeeKeys = {}

(* No step of a version comes back, so a run ends far below the engine's   *)
(* ceilings; these are modelled in Engine.                                 *)
OneWay(steps) ==
  \E turn \in [DOMAIN steps -> 1 .. Cardinality(DOMAIN steps)] :
    \A s \in DOMAIN steps : \A next \in {steps[s].onSuccess, steps[s].fallback} :
      next \in DOMAIN steps => turn[s] < turn[next]

ASSUME OneWayAssumption ==
  \A prog \in Programs :
    OneWay(prog.steps) /\ \A t \in DOMAIN prog.branches : OneWay(prog.branches[t].steps)

VARIABLE diff     \* None, or the comparison: [before, after, done, report]

diffVars == <<vars, diff>>

Diffing == diff # None

-----------------------------------------------------------------------------
(* The loop of Engine.Run to its end, one turn for each step at most.      *)
Drain(fr, host) ==
  LET Turn(i, f) == IF Walking(f) THEN Advance(f, host) ELSE f
  IN IF Walking(fr) THEN FoldSet(Turn, fr, DOMAIN fr.steps) ELSE fr

(* Several ends only where a failed join may name one of several fields.   *)
Outcomes(prog, c, host) ==
  LET inBranch == [host EXCEPT !.store = FALSE]
      frames == Start(prog, c)
      ends == [t \in DOMAIN prog.branches |-> Drain(frames[t], inBranch)]
  IN {Result(Drain(main, host)) :
        main \in IF prog.branches = <<>> THEN {frames[0]} ELSE Joins(frames[0], ends)}

Bare == [store |-> FALSE, sandbox |-> FALSE]

(* Wrong: a field the engine writes about itself counts as a decision.     *)
ClassifyAll(differences) == IF differences \subseteq {<<"trace">>} THEN "explanation" ELSE "outcome"

(* classify: the trace and the cee.* keys explain, anything else decides.  *)
Classify(differences) ==
  IF differences \subseteq {<<"trace">>} \cup {<<"output", k>> : k \in CeeKeys} THEN "explanation" ELSE "outcome"

NoReport == [events |-> Len(Events), outcomes |-> {}, explanations |-> {},
             beforeErrors |-> 0, afterErrors |-> 0]

-----------------------------------------------------------------------------
DiffInit == Init /\ diff = None

Diff ==
  /\ ~Diffing /\ phase = "intake" /\ wanted = Wanted
  /\ \E after \in Programs :
       /\ Builds(after)
       /\ diff' = [before |-> program, after |-> after, done |-> 0, report |-> NoReport]
  /\ UNCHANGED vars

(* One event of the loop of Compare.                                       *)
DiffEvent ==
  /\ Diffing /\ diff.done < Len(Events)
  /\ LET i == diff.done + 1
     IN \E before \in Outcomes(diff.before, Events[i], Bare),
           after \in Outcomes(diff.after, Events[i], Bare) :
          LET differences == Differences(before, after)
              class == IF differences = {} THEN "same" ELSE Classify(differences)
              Count(error) == IF error # None THEN 1 ELSE 0
          IN diff' = [diff EXCEPT
               !.done = i,
               !.report.outcomes = @ \cup {k \in {i} : class = "outcome"},
               !.report.explanations = @ \cup {k \in {i} : class = "explanation"},
               !.report.beforeErrors = @ + Count(before.error),
               !.report.afterErrors = @ + Count(after.error)]
  /\ UNCHANGED vars

DiffNext == (~Diffing /\ Next /\ UNCHANGED diff) \/ Diff \/ DiffEvent

DiffSpec == DiffInit /\ [][DiffNext]_diffVars

-----------------------------------------------------------------------------
(* What a result decides: how it ended and every field that is not cee.*.  *)
Decision(r) == [suspended |-> r.suspended, error |-> r.error,
                output |-> [f \in Fields |-> Json(r.output[f])]]

(* The headline counts decisions: an event is reported as changed exactly  *)
(* when the two versions decide it differently, as an explanation exactly  *)
(* when only the way there differs, and the errors are those of the runs   *)
(* (Compare and classify against the decisions themselves).                *)
FlipsAreDecisions ==
  Diffing =>
    LET R(prog, i) == CHOOSE r \in Outcomes(prog, Events[i], Bare) : TRUE
        B(i) == R(diff.before, i)
        A(i) == R(diff.after, i)
        seen == {i \in 1 .. diff.done : /\ ~ConflictNamed(B(i).error)
                                        /\ ~ConflictNamed(A(i).error)}
        Explains(r) == <<r.trace, [k \in CeeKeys |-> Json(r.output[k])]>>
    IN /\ diff.report.outcomes \cap seen = {i \in seen : Decision(B(i)) # Decision(A(i))}
       /\ diff.report.explanations \cap seen =
            {i \in seen : Decision(B(i)) = Decision(A(i)) /\ Explains(B(i)) # Explains(A(i))}
       /\ diff.report.beforeErrors = Cardinality({i \in 1 .. diff.done : B(i).error # None})
       /\ diff.report.afterErrors = Cardinality({i \in 1 .. diff.done : A(i).error # None})
=============================================================================

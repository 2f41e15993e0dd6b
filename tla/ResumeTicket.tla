---------------------------- MODULE ResumeTicket ----------------------------
(***************************************************************************)
(* What a resume pointer promises, whatever store keeps it and however     *)
(* many processes race for it.  A ticket is issued when a run parks, is    *)
(* taken by at most one resumer, is acted on at most once, and ends either *)
(* finished or left behind for an operator to judge.  It never goes back:  *)
(* nothing re-queues a ticket that has been taken.                         *)
(***************************************************************************)
CONSTANT Pointer

VARIABLE ticket

(* Stages of a ticket.  "taken": claimed, the resumed run has not started; *)
(* "acted": the resumed run has started; "orphan": claimed and abandoned.  *)
Stage == {"unissued", "parked", "taken", "acted", "finished", "orphan"}

Move == { <<"unissued", "parked">>,
          <<"parked", "taken">>,
          <<"taken", "acted">>,
          <<"taken", "finished">>,   \* the resumed run could not start
          <<"acted", "finished">>,
          <<"taken", "orphan">>,
          <<"acted", "orphan">> }

Init == ticket = [p \in Pointer |-> "unissued"]

(* A crash ends many calls at once, so one step may move several tickets.  *)
Next ==
  /\ ticket' \in [Pointer -> Stage]
  /\ \A p \in Pointer : \/ ticket'[p] = ticket[p]
                        \/ <<ticket[p], ticket'[p]>> \in Move

Spec == Init /\ [][Next]_ticket
=============================================================================

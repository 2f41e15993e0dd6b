------------------------------ MODULE ClaimScan -------------------------------
(***************************************************************************)
(* What an operator sees of a directory of suspended runs: filestore's     *)
(* Pending and Orphaned walk the directory file by file while runs of      *)
(* other processes park, claim and release, processes die and states are   *)
(* deleted.  A Store's mutex keeps the calls of its own process out, and   *)
(* nobody else's.                                                          *)
(*                                                                         *)
(* How Save, Consume and Release come about is ResumeProtocol's subject:   *)
(* here they are what they do to the names in the directory and to the     *)
(* times of files.                                                         *)
(***************************************************************************)
EXTENDS Naturals

CONSTANTS
  Process,   \* processes with a Store over the directory
  Watcher,   \* those that call Pending and Orphaned
  Pointer,
  Ages,      \* what Orphaned is asked for as minAge
  MaxTime,   \* bound on the clock
  None

ASSUME ScanAssumption ==
  Watcher \subseteq Process /\ Ages \subseteq Nat /\ MaxTime \in Nat /\ None \notin Pointer

VARIABLES
  now,
  file,      \* what the directory holds for a pointer
  mtime,     \* the modification time of that file
  claimed,   \* history: when a pointer was claimed
  call,      \* what each process's Store is doing
  sight      \* what Pending and Orphaned last told each process

vars == <<now, file, mtime, claimed, call, sight>>

Files == {"none", "parked", "claimed", "gone"}

Parked  == {q \in Pointer : file[q] = "parked"}
Claimed == {q \in Pointer : file[q] = "claimed"}

(* A call that lists: what it owes an answer about (the names there when   *)
(* it began), those it still has to look at, what it found and what it     *)
(* could not read; Orphaned also holds the claim it is about to read.      *)
Idle == [op |-> "none"]

(* What a Pending, and an Orphaned called after it, have told.             *)
Blind == [pending |-> None, orphaned |-> None]

Init ==
  /\ now = 0
  /\ file = [q \in Pointer |-> "none"]
  /\ mtime = [q \in Pointer |-> 0] /\ claimed = [q \in Pointer |-> 0]
  /\ call = [p \in Process |-> Idle]
  /\ sight = [p \in Process |-> Blind]

-----------------------------------------------------------------------------
(* What runs do.  Each holds its Store's mutex.                            *)

Free(p) == call[p].op = "none"

Save(p, q) ==
  /\ Free(p) /\ file[q] = "none"
  /\ file' = [file EXCEPT ![q] = "parked"]
  /\ mtime' = [mtime EXCEPT ![q] = now]
  /\ UNCHANGED <<now, claimed, call, sight>>

(* A rename, which leaves the file's time alone.                           *)
Consume(p, q) ==
  /\ Free(p) /\ file[q] = "parked"
  /\ file' = [file EXCEPT ![q] = "claimed"]
  /\ claimed' = [claimed EXCEPT ![q] = now]
  /\ UNCHANGED <<now, mtime, call, sight>>

(* The store does not ask who claimed.  A claim whose process died, whose  *)
(* removal failed or that could not be read back is one nobody releases.   *)
Release(p, q) ==
  /\ Free(p) /\ file[q] = "claimed"
  /\ file' = [file EXCEPT ![q] = "gone"]
  /\ UNCHANGED <<now, mtime, claimed, call, sight>>

(* Somebody voids a suspended run.                                         *)
Delete(p, q) ==
  /\ Free(p) /\ file[q] = "parked"
  /\ file' = [file EXCEPT ![q] = "gone"]
  /\ UNCHANGED <<now, mtime, claimed, call, sight>>

(* A process dies and is started again.                                    *)
Crash(p) ==
  /\ call' = [call EXCEPT ![p] = Idle]
  /\ sight' = [sight EXCEPT ![p] = Blind]
  /\ UNCHANGED <<now, file, mtime, claimed>>

Tick ==
  /\ now < MaxTime /\ now' = now + 1
  /\ UNCHANGED <<file, mtime, claimed, call, sight>>

-----------------------------------------------------------------------------
(* Pending.                                                                *)

Goto(p, c) == call' = [call EXCEPT ![p] = c]

(* While a directory is read, names come and go; one that was there all    *)
(* along is listed.                                                        *)
Listings(before, after) ==
  {names \in SUBSET (before \cup after) : before \cap after \subseteq names}

PendingBegin(p) ==
  /\ Free(p)
  /\ Goto(p, [op |-> "pendingDir", due |-> Parked])
  /\ sight' = [sight EXCEPT ![p] = Blind]
  /\ UNCHANGED <<now, file, mtime, claimed>>

(* The directory cannot be read, and the caller is told.                   *)
PendingFails(p) ==
  /\ call[p].op = "pendingDir"
  /\ Goto(p, Idle)
  /\ UNCHANGED <<now, file, mtime, claimed, sight>>

(* Names with a dot, claims and temporary files, are no pointers.          *)
PendingList(p) ==
  /\ call[p].op = "pendingDir"
  /\ \E names \in Listings(call[p].due, Parked) :
       Goto(p, [op |-> "pending", due |-> call[p].due, todo |-> names,
                found |-> {}, unread |-> {}])
  /\ UNCHANGED <<now, file, mtime, claimed, sight>>

(* Wrong: the first file that is not there any more ends the listing.      *)
GiveUp(c, q, unread) == [c EXCEPT !.todo = {}, !.unread = @ \cup unread]

(* A file that cannot be read, or is gone, is passed over.                 *)
PassOver(c, q, unread) == [c EXCEPT !.todo = @ \ {q}, !.unread = @ \cup unread]

PendingRead(p, q) ==
  /\ call[p].op = "pending" /\ q \in call[p].todo
  /\ \/ /\ file[q] = "parked"
        /\ \/ Goto(p, [call[p] EXCEPT !.todo = @ \ {q}, !.found = @ \cup {q}])
           \/ Goto(p, PassOver(call[p], q, {q}))
     \/ /\ file[q] # "parked"
        /\ Goto(p, PassOver(call[p], q, {}))
  /\ UNCHANGED <<now, file, mtime, claimed, sight>>

PendingReturn(p) ==
  /\ call[p].op = "pending" /\ call[p].todo = {}
  /\ Goto(p, Idle)
  /\ sight' = [sight EXCEPT ![p].pending =
                 [due |-> call[p].due, found |-> call[p].found,
                  unread |-> call[p].unread]]
  /\ UNCHANGED <<now, file, mtime, claimed>>

-----------------------------------------------------------------------------
(* Orphaned.                                                               *)

OrphanedBegin(p, age) ==
  /\ Free(p)
  /\ Goto(p, [op |-> "orphanedDir", age |-> age, due |-> Claimed])
  /\ UNCHANGED <<now, file, mtime, claimed, sight>>

(* Glob ignores what goes wrong while it reads the directory: names are    *)
(* lost and nobody is told.  The clock is read once, after the listing.    *)
OrphanedList(p) ==
  /\ call[p].op = "orphanedDir"
  /\ \E names \in Listings(call[p].due, Claimed) : \E lost \in SUBSET names :
       Goto(p, [op |-> "orphaned", age |-> call[p].age, at |-> now,
                due |-> call[p].due, todo |-> names \ lost, held |-> None,
                found |-> {}, unread |-> lost])
  /\ UNCHANGED <<now, file, mtime, claimed, sight>>

(* Wrong: a file as old as the cutoff counts as young.                     *)
OldStrictly(c, modified) == modified + c.age < c.at

(* Not modified after now - minAge.                                        *)
Old(c, modified) == modified + c.age <= c.at

(* A claim that is gone, that stat fails on or that is young is passed     *)
(* over; another will be read.                                             *)
OrphanedStat(p, q) ==
  /\ call[p].op = "orphaned" /\ call[p].held = None /\ q \in call[p].todo
  /\ \/ /\ file[q] = "claimed"
        /\ \/ /\ Old(call[p], mtime[q])
              /\ Goto(p, [call[p] EXCEPT !.todo = @ \ {q}, !.held = q])
           \/ /\ ~Old(call[p], mtime[q])
              /\ Goto(p, PassOver(call[p], q, {}))
           \/ Goto(p, PassOver(call[p], q, {q}))
     \/ /\ file[q] # "claimed"
        /\ Goto(p, PassOver(call[p], q, {}))
  /\ UNCHANGED <<now, file, mtime, claimed, sight>>

(* An orphan: whose it is, when it was claimed as far as the file's time   *)
(* tells, and whether its state could be read; released since or           *)
(* unreadable, it is reported with an empty one.                           *)
OrphanedRead(p) ==
  /\ call[p].op = "orphaned" /\ call[p].held # None
  /\ LET q == call[p].held
     IN \E whole \in BOOLEAN :
          /\ whole => file[q] = "claimed"
          /\ Goto(p, [call[p] EXCEPT !.held = None, !.found = @ \cup
                        {[pointer |-> q, claimedAt |-> mtime[q], whole |-> whole]}])
  /\ UNCHANGED <<now, file, mtime, claimed, sight>>

OrphanedReturn(p) ==
  /\ call[p].op = "orphaned" /\ call[p].held = None /\ call[p].todo = {}
  /\ Goto(p, Idle)
  /\ sight' = [sight EXCEPT ![p].orphaned =
                 [age |-> call[p].age, at |-> call[p].at, due |-> call[p].due,
                  found |-> call[p].found, unread |-> call[p].unread]]
  /\ UNCHANGED <<now, file, mtime, claimed>>

Next ==
  \/ Tick
  \/ \E p \in Process : Crash(p)
  \/ \E p \in Process, q \in Pointer :
       Save(p, q) \/ Consume(p, q) \/ Release(p, q) \/ Delete(p, q)
  \/ \E p \in Watcher :
       \/ PendingBegin(p) \/ PendingFails(p) \/ PendingList(p) \/ PendingReturn(p)
       \/ OrphanedList(p) \/ OrphanedRead(p) \/ OrphanedReturn(p)
       \/ \E age \in Ages : OrphanedBegin(p, age)
       \/ \E q \in Pointer : PendingRead(p, q) \/ OrphanedStat(p, q)

Spec == Init /\ [][Next]_vars
-----------------------------------------------------------------------------
Told(s) == {r.pointer : r \in s.found}

(* Orphaned misses no abandoned claim: whatever was claimed minAge ago or  *)
(* earlier, and is not released to this day, is in the report, unless the  *)
(* directory or the file could not be read.  The age of a file is that of  *)
(* its state, not of its claim.                                            *)
NoneMissed ==
  \A p \in Process :
    LET s == sight[p].orphaned
    IN s # None =>
         \A q \in s.due \ s.unread :
           file[q] = "claimed" /\ claimed[q] + s.age <= s.at => q \in Told(s)

(* "A crash should not make an approval vanish": a run that was suspended  *)
(* when Pending was called, and is neither over nor voided, is in its      *)
(* answer or in that of an Orphaned(0) called after it, whatever claims    *)
(* and crashes come in between, unless its file could not be read.         *)
NothingOutOfSight ==
  \A p \in Process :
    LET s == sight[p]
    IN s.pending # None /\ s.orphaned # None /\ s.orphaned.age = 0 =>
           \A q \in s.pending.due :
             file[q] \in {"parked", "claimed"} =>
               \/ q \in s.pending.found \cup s.pending.unread
               \/ q \in Told(s.orphaned) \cup s.orphaned.unread
=============================================================================

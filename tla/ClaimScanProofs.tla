--------------------------- MODULE ClaimScanProofs ----------------------------
(***************************************************************************)
(* Proofs about ClaimScan, for any processes, pointers, ages and times:    *)
(* Orphaned misses no abandoned claim, and no approval is out of sight.    *)
(***************************************************************************)
EXTENDS ClaimScan, TLAPS

USE ScanAssumption

(* What is claimed was modified before it was claimed.                     *)
Dated ==
  /\ now \in Nat
  /\ DOMAIN file = Pointer /\ DOMAIN mtime = Pointer /\ DOMAIN claimed = Pointer
  /\ \A q \in Pointer :
       /\ file[q] \in Files /\ mtime[q] \in Nat /\ claimed[q] \in Nat
       /\ mtime[q] <= now
       /\ file[q] = "claimed" => mtime[q] <= claimed[q]

(* Claims not in the answer of a Pending are due in a later Orphaned.      *)
Asked(s, due) ==
  s.pending # None =>
    \A q \in s.pending.due :
      file[q] = "claimed" => q \in s.pending.found \cup s.pending.unread \cup due

(* What an Orphaned has to report, it saw.                                 *)
Accounted(r, seen) ==
  /\ r.due \subseteq Pointer /\ r.age \in Nat /\ r.at \in Nat
  /\ \A q \in r.due :
       /\ file[q] \in {"claimed", "gone"} /\ mtime[q] <= r.at
       /\ file[q] = "claimed" /\ mtime[q] + r.age <= r.at => q \in seen

CallInv(c, s) ==
  /\ c.op \in {"none", "pendingDir", "pending", "orphanedDir", "orphaned"}
  /\ c.op \in {"pendingDir", "pending"} =>
       /\ s = Blind /\ c.due \subseteq Pointer
       /\ \A q \in c.due : file[q] # "none"
  /\ c.op = "pending" =>
       /\ DOMAIN c = {"op", "due", "todo", "found", "unread"}
       /\ \A q \in c.due : file[q] = "parked" => q \in c.todo \cup c.found \cup c.unread
  /\ c.op = "orphanedDir" =>
       /\ c.due \subseteq Pointer /\ c.age \in Nat
       /\ \A q \in c.due : file[q] \in {"claimed", "gone"}
       /\ Asked(s, c.due)
  /\ c.op = "orphaned" =>
       /\ DOMAIN c = {"op", "age", "at", "due", "todo", "held", "found", "unread"}
       /\ Accounted(c, c.todo \cup {c.held} \cup Told(c) \cup c.unread)
       /\ Asked(s, c.due)

SightInv(s) ==
  /\ DOMAIN s = {"pending", "orphaned"}
  /\ s.pending # None =>
       /\ s.pending.due \subseteq Pointer
       /\ \A q \in s.pending.due :
            /\ file[q] # "none"
            /\ file[q] = "parked" => q \in s.pending.found \cup s.pending.unread
  /\ s.orphaned # None =>
       /\ Accounted(s.orphaned, Told(s.orphaned) \cup s.orphaned.unread)
       /\ Asked(s, s.orphaned.due)

IInv ==
  /\ Dated
  /\ DOMAIN call = Process /\ sight = [p \in Process |-> sight[p]]
  /\ \A p \in Process : CallInv(call[p], sight[p]) /\ SightInv(sight[p])

LEMMA InvInit == Init => IInv
  BY DEF Init, IInv, Dated, CallInv, SightInv, Blind, Idle, Files

-----------------------------------------------------------------------------
(* A file only moves on, and keeps its time.                               *)
Forward ==
  /\ \A q \in Pointer :
       /\ file[q] # "none" => mtime'[q] = mtime[q] /\ file'[q] # "none"
       /\ file[q] \in {"claimed", "gone"} => file'[q] \in {"claimed", "gone"}
       /\ file'[q] = "parked" => file[q] \in {"none", "parked"}
       /\ file'[q] = "claimed" => file[q] \in {"parked", "claimed"}

LEMMA AccountedKeeps ==
  ASSUME Dated, Forward, NEW r, NEW seen, Accounted(r, seen)
  PROVE  Accounted(r, seen)'
  BY DEF Dated, Forward, Accounted

LEMMA SightKeeps ==
  ASSUME Dated, Forward, NEW s, SightInv(s)
  PROVE  /\ SightInv(s)'
         /\ \A due : Asked(s, due) => Asked(s, due)'
<1>1. \A due : Asked(s, due) => Asked(s, due)'
  BY DEF Dated, Forward, SightInv, Asked
<1>2. s.orphaned # None =>
        Accounted(s.orphaned, Told(s.orphaned) \cup s.orphaned.unread)'
  BY AccountedKeeps DEF SightInv
<1>3. s.pending # None =>
        \A q \in s.pending.due :
          /\ file'[q] # "none"
          /\ file'[q] = "parked" => q \in s.pending.found \cup s.pending.unread
  BY DEF Dated, Forward, SightInv
<1> QED
  BY <1>1, <1>2, <1>3 DEF SightInv

LEMMA CallKeeps ==
  ASSUME Dated, Forward, NEW s, SightInv(s), NEW c, CallInv(c, s)
  PROVE  CallInv(c, s)'
<1>1. CASE c.op \in {"none", "pendingDir", "pending"}
  BY <1>1 DEF Dated, Forward, CallInv
<1>2. CASE c.op = "orphanedDir"
  <2>1. Asked(s, c.due)'
    BY <1>2, SightKeeps DEF CallInv
  <2> QED
    BY <1>2, <2>1 DEF Dated, Forward, CallInv
<1>3. CASE c.op = "orphaned"
  <2>1. Asked(s, c.due)'
    BY <1>3, SightKeeps DEF CallInv
  <2>2. Accounted(c, c.todo \cup {c.held} \cup Told(c) \cup c.unread)'
    BY <1>3, AccountedKeeps DEF CallInv
  <2> QED
    BY <1>3, <2>1, <2>2 DEF CallInv
<1> QED
  BY <1>1, <1>2, <1>3 DEF CallInv

(* What runs do to the directory.                                          *)
LEMMA RunsKeep ==
  ASSUME IInv, UNCHANGED <<call, sight>>,
         \/ Tick
         \/ \E p \in Process, q \in Pointer :
              Save(p, q) \/ Consume(p, q) \/ Release(p, q) \/ Delete(p, q)
  PROVE  IInv'
<1>1. Dated' /\ Forward
  <2>1. CASE Tick
    BY <2>1 DEF IInv, Dated, Tick, Forward, Files
  <2>2. ASSUME NEW p \in Process, NEW q \in Pointer,
               Save(p, q) \/ Consume(p, q) \/ Release(p, q) \/ Delete(p, q)
        PROVE  Dated' /\ Forward
    BY <2>2 DEF IInv, Dated, Save, Consume, Release, Delete, Forward, Files
  <2> QED
    BY <2>1, <2>2
<1>2. \A p \in Process : CallInv(call[p], sight[p])' /\ SightInv(sight[p])'
  BY <1>1, SightKeeps, CallKeeps DEF IInv
<1> QED
  BY <1>1, <1>2 DEF IInv

-----------------------------------------------------------------------------
(* A step of one process's Store leaves the others and the directory.      *)
LEMMA Alone ==
  ASSUME IInv, NEW p \in Process, NEW c, NEW s,
         call' = [call EXCEPT ![p] = c], sight' = [sight EXCEPT ![p] = s],
         UNCHANGED <<now, file, mtime, claimed>>,
         CallInv(c, s), SightInv(s)
  PROVE  IInv'
<1>1. Dated'
  BY DEF IInv, Dated
<1>2. ASSUME NEW x \in Process
      PROVE  CallInv(call[x], sight[x])' /\ SightInv(sight[x])'
  <2>1. CallInv(call'[x], sight'[x]) /\ SightInv(sight'[x])
    BY DEF IInv
  <2> QED
    BY <2>1 DEF CallInv, SightInv, Accounted, Asked
<1> QED
  BY <1>1, <1>2 DEF IInv

LEMMA BlindKnows == SightInv(Blind) /\ Idle.op = "none"
  BY DEF SightInv, Blind, Idle

LEMMA CrashKeeps ==
  ASSUME IInv, NEW p \in Process, Crash(p)
  PROVE  IInv'
<1>1. CallInv(Idle, Blind) /\ SightInv(Blind)
  BY BlindKnows DEF CallInv
<1> QED
  BY <1>1, Alone DEF Crash

LEMMA PendingKeeps ==
  ASSUME IInv, NEW p \in Process,
         \/ PendingBegin(p) \/ PendingFails(p) \/ PendingList(p) \/ PendingReturn(p)
         \/ \E q \in Pointer : PendingRead(p, q)
  PROVE  IInv'
<1> DEFINE c == call[p]
           s == sight[p]
<1>1. CallInv(c, s) /\ SightInv(s) /\ Dated /\ DOMAIN sight = Process
  BY DEF IInv
<1>2. sight = [sight EXCEPT ![p] = s]
  BY DEF IInv
<1>3. CASE PendingBegin(p)
  <2>1. CallInv([op |-> "pendingDir", due |-> Parked], Blind)
    BY DEF CallInv, Parked
  <2> QED
    BY <1>3, <2>1, BlindKnows, Alone DEF PendingBegin, Goto
<1>4. CASE PendingList(p)
  <2>1. PICK names \in Listings(c.due, Parked) :
          Goto(p, [op |-> "pending", due |-> c.due, todo |-> names,
                   found |-> {}, unread |-> {}])
    BY <1>4 DEF PendingList
  <2>2. CallInv([op |-> "pending", due |-> c.due, todo |-> names,
                 found |-> {}, unread |-> {}], s)
    BY <1>1, <1>4 DEF PendingList, CallInv, Listings, Parked
  <2> QED
    BY <1>1, <1>2, <1>4, <2>1, <2>2, Alone DEF PendingList, Goto
<1>5. CASE PendingReturn(p)
  <2> DEFINE t == [s EXCEPT !.pending = [due |-> c.due, found |-> c.found,
                                         unread |-> c.unread]]
  <2>1. SightInv(t)
    BY <1>1, <1>5 DEF PendingReturn, CallInv, SightInv, Blind
  <2>2. CallInv(Idle, t)
    BY BlindKnows DEF CallInv
  <2>3. sight' = [sight EXCEPT ![p] = t]
    BY <1>1, <1>5 DEF PendingReturn
  <2> QED
    BY <1>5, <2>1, <2>2, <2>3, Alone DEF PendingReturn, Goto
<1>6. ASSUME NEW q \in Pointer, PendingRead(p, q) PROVE IInv'
  <2> DEFINE took == [c EXCEPT !.todo = @ \ {q}, !.found = @ \cup {q}]
  <2>1. c.op = "pending" /\ q \in c.todo
    BY <1>6 DEF PendingRead
  <2>2. CallInv(took, s) /\ CallInv(PassOver(c, q, {q}), s)
    BY <1>1, <2>1 DEF CallInv, PassOver
  <2>3. file[q] # "parked" => CallInv(PassOver(c, q, {}), s)
    BY <1>1, <2>1 DEF CallInv, PassOver
  <2>4. PICK d : CallInv(d, s) /\ Goto(p, d)
    BY <1>6, <2>2, <2>3 DEF PendingRead
  <2> QED
    BY <1>1, <1>2, <1>6, <2>4, Alone DEF PendingRead, Goto
<1>7. CASE PendingFails(p)
  <2>1. CallInv(Idle, s)
    BY BlindKnows DEF CallInv
  <2> QED
    BY <1>1, <1>2, <1>7, <2>1, Alone DEF PendingFails, Goto
<1> QED
  BY <1>3, <1>4, <1>5, <1>6, <1>7

LEMMA OrphanedKeeps ==
  ASSUME IInv, NEW p \in Process,
         \/ \E age \in Ages : OrphanedBegin(p, age)
         \/ OrphanedList(p) \/ OrphanedRead(p) \/ OrphanedReturn(p)
         \/ \E q \in Pointer : OrphanedStat(p, q)
  PROVE  IInv'
<1> DEFINE c == call[p]
           s == sight[p]
           Seen(r) == r.todo \cup {r.held} \cup Told(r) \cup r.unread
<1>1. CallInv(c, s) /\ SightInv(s) /\ Dated /\ DOMAIN sight = Process
  BY DEF IInv
<1>2. sight = [sight EXCEPT ![p] = s]
  BY DEF IInv
<1>3. ASSUME NEW age \in Ages, OrphanedBegin(p, age) PROVE IInv'
  <2> DEFINE d == [op |-> "orphanedDir", age |-> age, due |-> Claimed]
  <2>1. Asked(s, Claimed)
    BY <1>1 DEF Asked, SightInv, Claimed
  <2>2. CallInv(d, s)
    BY <2>1 DEF CallInv, Claimed
  <2> QED
    BY <1>1, <1>2, <1>3, <2>2, Alone DEF OrphanedBegin, Goto
<1>4. CASE OrphanedList(p)
  <2>0. PICK names \in Listings(c.due, Claimed) : \E lost \in SUBSET names :
          Goto(p, [op |-> "orphaned", age |-> c.age, at |-> now,
                   due |-> c.due, todo |-> names \ lost, held |-> None,
                   found |-> {}, unread |-> lost])
    BY <1>4 DEF OrphanedList
  <2>1. PICK lost \in SUBSET names :
          Goto(p, [op |-> "orphaned", age |-> c.age, at |-> now,
                   due |-> c.due, todo |-> names \ lost, held |-> None,
                   found |-> {}, unread |-> lost])
    BY <2>0
  <2> DEFINE d == [op |-> "orphaned", age |-> c.age, at |-> now,
                   due |-> c.due, todo |-> names \ lost, held |-> None,
                   found |-> {}, unread |-> lost]
  <2>2. Accounted(d, Seen(d))
    BY <1>1, <1>4 DEF OrphanedList, CallInv, Accounted, Listings, Claimed, Dated, Told
  <2>3. CallInv(d, s)
    BY <1>1, <1>4, <2>2 DEF OrphanedList, CallInv
  <2> QED
    BY <1>1, <1>2, <1>4, <2>1, <2>3, Alone DEF OrphanedList, Goto
<1>5. ASSUME c.op = "orphaned", NEW d, CallInv(d, s), Goto(p, d), sight' = sight,
             UNCHANGED <<now, file, mtime, claimed>>
      PROVE  IInv'
  BY <1>1, <1>2, <1>5, Alone DEF Goto
<1>6. ASSUME NEW q \in Pointer, OrphanedStat(p, q) PROVE IInv'
  <2> DEFINE held == [c EXCEPT !.todo = @ \ {q}, !.held = q]
  <2>1. c.op = "orphaned" /\ q \in c.todo /\ c.held = None
        /\ Accounted(c, Seen(c)) /\ Asked(s, c.due)
        /\ DOMAIN c = {"op", "age", "at", "due", "todo", "held", "found", "unread"}
    BY <1>1, <1>6 DEF OrphanedStat, CallInv
  <2>2. CallInv(held, s)
    <3>1. Accounted(held, Seen(held))
      BY <2>1 DEF Accounted, Told
    <3> QED
      BY <2>1, <3>1 DEF CallInv
  <2>3. ASSUME NEW unread, unread = {q} \/ ~(file[q] = "claimed" /\ Old(c, mtime[q]))
        PROVE  CallInv(PassOver(c, q, unread), s)
    <3> DEFINE d == [c EXCEPT !.todo = @ \ {q}, !.unread = @ \cup unread]
    <3>1. Accounted(d, Seen(d))
      BY <2>1, <2>3 DEF Accounted, Told, Old
    <3> QED
      BY <2>1, <3>1 DEF CallInv, PassOver
  <2>4. PICK d : CallInv(d, s) /\ Goto(p, d)
    BY <1>6, <2>2, <2>3 DEF OrphanedStat
  <2> QED
    BY <1>5, <1>6, <2>1, <2>4 DEF OrphanedStat
<1>7. CASE OrphanedRead(p)
  <2>1. PICK whole \in BOOLEAN :
          Goto(p, [c EXCEPT !.held = None, !.found = @ \cup
                     {[pointer |-> c.held, claimedAt |-> mtime[c.held],
                       whole |-> whole]}])
    BY <1>7 DEF OrphanedRead
  <2> DEFINE r == [pointer |-> c.held, claimedAt |-> mtime[c.held], whole |-> whole]
             d == [c EXCEPT !.held = None, !.found = @ \cup {r}]
  <2>2. c.op = "orphaned" /\ Accounted(c, Seen(c)) /\ Asked(s, c.due)
        /\ DOMAIN c = {"op", "age", "at", "due", "todo", "held", "found", "unread"}
    BY <1>1, <1>7 DEF OrphanedRead, CallInv
  <2>3. Told(d) = Told(c) \cup {c.held}
    <3>1. d.found = c.found \cup {r} /\ r.pointer = c.held
      BY <2>2
    <3> HIDE DEF d, r
    <3> QED
      BY <3>1 DEF Told
  <2>4. Accounted(d, Seen(d))
    BY <2>2, <2>3 DEF Accounted
  <2>5. CallInv(d, s)
    BY <2>2, <2>4 DEF CallInv
  <2> QED
    BY <1>5, <1>7, <2>1, <2>2, <2>5 DEF OrphanedRead
<1>8. CASE OrphanedReturn(p)
  <2> DEFINE r == [age |-> c.age, at |-> c.at, due |-> c.due,
                   found |-> c.found, unread |-> c.unread]
             t == [s EXCEPT !.orphaned = r]
  <2>1. Accounted(c, Seen(c)) /\ c.todo = {} /\ c.held = None /\ Asked(s, c.due)
    BY <1>1, <1>8 DEF OrphanedReturn, CallInv
  <2>2. Told(r) = Told(c)
    BY DEF Told
  <2>3. Accounted(r, Told(r) \cup r.unread)
    BY <2>1, <2>2 DEF Accounted
  <2>4. SightInv(t)
    BY <1>1, <2>1, <2>3 DEF SightInv, Asked
  <2>5. CallInv(Idle, t)
    BY BlindKnows DEF CallInv
  <2>6. sight' = [sight EXCEPT ![p] = t]
    BY <1>1, <1>8 DEF OrphanedReturn
  <2> QED
    BY <1>8, <2>4, <2>5, <2>6, Alone DEF OrphanedReturn, Goto
<1> QED
  BY <1>3, <1>4, <1>6, <1>7, <1>8

LEMMA InvNext == IInv /\ [Next]_vars => IInv'
<1> SUFFICES ASSUME IInv, [Next]_vars PROVE IInv'
  OBVIOUS
<1>1. CASE \/ Tick
           \/ \E p \in Process, q \in Pointer :
                Save(p, q) \/ Consume(p, q) \/ Release(p, q) \/ Delete(p, q)
  <2>1. UNCHANGED <<call, sight>>
    BY <1>1 DEF Tick, Save, Consume, Release, Delete
  <2> QED
    BY <1>1, <2>1, RunsKeep
<1>2. ASSUME NEW p \in Process, Crash(p) PROVE IInv'
  BY <1>2, CrashKeeps
<1>3. ASSUME NEW p \in Watcher,
             \/ PendingBegin(p) \/ PendingFails(p) \/ PendingList(p) \/ PendingReturn(p)
             \/ \E q \in Pointer : PendingRead(p, q)
      PROVE  IInv'
  BY <1>3, PendingKeeps
<1>4. ASSUME NEW p \in Watcher,
             \/ \E age \in Ages : OrphanedBegin(p, age)
             \/ OrphanedList(p) \/ OrphanedRead(p) \/ OrphanedReturn(p)
             \/ \E q \in Pointer : OrphanedStat(p, q)
      PROVE  IInv'
  BY <1>4, OrphanedKeeps
<1>5. CASE UNCHANGED vars
  BY <1>5 DEF vars, IInv, Dated, CallInv, SightInv, Accounted, Asked
<1> QED
  BY <1>1, <1>2, <1>3, <1>4, <1>5 DEF Next

LEMMA Inductive == Spec => []IInv
  BY InvInit, InvNext, PTL DEF Spec

(* Whatever claims and releases race with it, Orphaned reports each claim  *)
(* that is minAge old and stays (Orphaned, Consume).                       *)
THEOREM OrphanedMissesNone == Spec => []NoneMissed
<1>1. IInv => NoneMissed
  <2> SUFFICES ASSUME IInv, NEW p \in Process, NEW r, r = sight[p].orphaned, r # None,
                      NEW q \in r.due \ r.unread, file[q] = "claimed",
                      claimed[q] + r.age <= r.at
               PROVE  q \in Told(r)
    BY DEF NoneMissed
  <2>1. Accounted(r, Told(r) \cup r.unread)
    BY DEF IInv, SightInv
  <2>2. /\ q \in Pointer /\ mtime[q] \in Nat /\ claimed[q] \in Nat
        /\ mtime[q] <= claimed[q] /\ r.age \in Nat /\ r.at \in Nat
    BY <2>1 DEF Accounted, IInv, Dated
  <2>3. mtime[q] + r.age <= r.at
    BY <2>2
  <2> QED
    BY <2>1, <2>3 DEF Accounted
<1> QED
  BY <1>1, Inductive, PTL

(* A suspended run cannot slip between Pending and an Orphaned(0) called   *)
(* after it (Pending, Orphaned, Consume).                                  *)
THEOREM ApprovalsStayInSight == Spec => []NothingOutOfSight
<1>1. IInv => NothingOutOfSight
  <2> SUFFICES ASSUME IInv, NEW p \in Process, NEW s, s = sight[p],
                      s.pending # None, s.orphaned # None, s.orphaned.age = 0,
                      NEW q \in s.pending.due, file[q] \in {"parked", "claimed"},
                      q \notin s.pending.found \cup s.pending.unread
               PROVE  q \in Told(s.orphaned) \cup s.orphaned.unread
    BY DEF NothingOutOfSight
  <2>1. SightInv(s) /\ q \in Pointer /\ mtime[q] \in Nat
    BY DEF IInv, SightInv, Dated
  <2>2. file[q] = "claimed" /\ q \in s.orphaned.due
    BY <2>1 DEF SightInv, Asked
  <2>3. Accounted(s.orphaned, Told(s.orphaned) \cup s.orphaned.unread)
    BY <2>1 DEF SightInv
  <2>4. mtime[q] + s.orphaned.age <= s.orphaned.at
    BY <2>1, <2>2, <2>3 DEF Accounted
  <2> QED
    BY <2>2, <2>3, <2>4 DEF Accounted
<1> QED
  BY <1>1, Inductive, PTL
=============================================================================

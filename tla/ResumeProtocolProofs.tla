------------------------ MODULE ResumeProtocolProofs ------------------------
EXTENDS ResumeProtocol, TLAPS

USE ProcOfAssumption, DefinitionAssumption, SyncDirAssumption,
    MaxFaultsAssumption, NoneAssumption

(***************************************************************************)
(* Proofs about ResumeProtocol, for any processes, workers and pointers.   *)
(***************************************************************************)

(* Where a worker has a ticket to resume and where it has one to save.     *)
TicketsHeld ==
  \A w \in Worker :
    /\ pc[w] = "idle" => ticket[w] = None
    /\ pc[w] \in {"loaded", "located", "cleared", "renamed", "claimed",
                  "returning"} => ticket[w] # None
    /\ pc[w] \in {"writing", "syncing"} => minting[w] # None

TInv == TypeOK /\ TicketsHeld

(* An engine nobody has called yet, over an empty directory, is well       *)
(* typed.                                                                  *)
LEMMA TypeInit == Init => TInv
  BY DEF Init, TInv, TypeOK, TicketsHeld, Empty

(* Every step of a call, a deployment, a crash or the disk keeps the       *)
(* types, and with them which calls hold a pointer to resume or to save.   *)
LEMMA TypeNext == TInv /\ [Next]_vars => TInv'
<1> SUFFICES ASSUME TInv, [Next]_vars PROVE TInv'
  OBVIOUS
<1>1. ASSUME NEW x \in Process, Crash(x) PROVE TInv'
  BY <1>1 DEF TInv, TypeOK, TicketsHeld, Crash, Fault, EndCalls, WorkersOf,
              files, history
<1>2. ASSUME NEW x \in Process, NEW d \in Definition, RegisterWorkflow(x, d)
      PROVE TInv'
  BY <1>2 DEF TInv, TypeOK, TicketsHeld, RegisterWorkflow, locals, files,
              history
<1>3. ASSUME NEW x \in Process, NEW b \in BOOLEAN, SetAuthorizer(x, b)
      PROVE TInv'
  BY <1>3 DEF TInv, TypeOK, TicketsHeld, SetAuthorizer, locals, files, history
<1>4. ASSUME NEW w \in Worker, Run(w) PROVE TInv'
  BY <1>4 DEF TInv, TypeOK, TicketsHeld, Run, Goto, locals, config, files,
              history
<1>5. ASSUME NEW w \in Worker, Locate(w) PROVE TInv'
  BY <1>5 DEF TInv, TypeOK, TicketsHeld, Locate, Locatable, Goto, config,
              files, history, Definitions
<1>6. ASSUME NEW w \in Worker, Authorize(w) PROVE TInv'
  BY <1>6 DEF TInv, TypeOK, TicketsHeld, Authorize, Open, Goto, locals,
              config, files
<1>7. ASSUME NEW w \in Worker, Refuse(w) PROVE TInv'
  BY <1>7 DEF TInv, TypeOK, TicketsHeld, Refuse, EndCalls, config, files,
              history
<1>8. ASSUME NEW w \in Worker, ConsumeRename(w) PROVE TInv'
  BY <1>8 DEF TInv, TypeOK, TicketsHeld, ConsumeRename, Claimed, Persist,
              Lock, Goto, locals, config
<1>9. ASSUME NEW w \in Worker, ConsumeMiss(w) PROVE TInv'
  BY <1>9 DEF TInv, TypeOK, TicketsHeld, ConsumeMiss, EndCalls, config, files,
              history
<1>10. ASSUME NEW w \in Worker, ConsumeFails(w) PROVE TInv'
  BY <1>10 DEF TInv, TypeOK, TicketsHeld, ConsumeFails, Fault, EndCalls,
               config, files, history
<1>11. ASSUME NEW w \in Worker, ConsumeRead(w) PROVE TInv'
  BY <1>11 DEF TInv, TypeOK, TicketsHeld, ConsumeRead, Unlock, Goto, locals,
               config, files, history
<1>12. ASSUME NEW w \in Worker, ConsumeReadFails(w) PROVE TInv'
  BY <1>12 DEF TInv, TypeOK, TicketsHeld, ConsumeReadFails, Fault, Unlock,
               EndCalls, config, files,
               history
<1>13. ASSUME NEW w \in Worker, EnterRun(w) PROVE TInv'
  BY <1>13 DEF TInv, TypeOK, TicketsHeld, EnterRun, Goto, locals, config, files
<1>14. ASSUME NEW w \in Worker, FinishRun(w) PROVE TInv'
  BY <1>14 DEF TInv, TypeOK, TicketsHeld, FinishRun, LeaveRun, Goto, EndCalls,
               config, files, history
<1>15. ASSUME NEW w \in Worker, Panic(w) PROVE TInv'
  BY <1>15 DEF TInv, TypeOK, TicketsHeld, Panic, Fault, EndCalls, config,
               files, history
<1>16. ASSUME NEW w \in Worker, Release(w) PROVE TInv'
  BY <1>16 DEF TInv, TypeOK, TicketsHeld, Release, Persist, EndCalls, config
<1>17. ASSUME NEW w \in Worker, ReleaseFails(w) PROVE TInv'
  BY <1>17 DEF TInv, TypeOK, TicketsHeld, ReleaseFails, Fault, EndCalls,
               config, files, history
<1>18. ASSUME NEW w \in Worker, NEW p \in Pointer, Load(w, p) PROVE TInv'
  BY <1>18 DEF TInv, TypeOK, TicketsHeld, Load, Goto, config, files
<1>19. ASSUME NEW w \in Worker, NEW q \in Pointer, SaveWrite(w, q) PROVE TInv'
  BY <1>19 DEF TInv, TypeOK, TicketsHeld, SaveWrite, Lock, Goto, config,
               files, history
<1>20. ASSUME NEW w \in Worker, SaveSync(w) PROVE TInv'
  BY <1>20 DEF TInv, TypeOK, TicketsHeld, SaveSync, Goto, locals, config,
               history
<1>21. ASSUME NEW w \in Worker, SaveCommit(w) PROVE TInv'
  BY <1>21 DEF TInv, TypeOK, TicketsHeld, SaveCommit, Persist, Unlock,
               LeaveRun, Goto, EndCalls,
               config
<1>22. ASSUME NEW w \in Worker, SaveFails(w) PROVE TInv'
  BY <1>22 DEF TInv, TypeOK, TicketsHeld, SaveFails, Fault, Unlock, LeaveRun,
               Goto, EndCalls,
               config, files, history
<1>23. ASSUME PowerLoss PROVE TInv'
  BY <1>23 DEF TInv, TypeOK, TicketsHeld, PowerLoss, Fault, EndCalls, Names,
               history
<1>24. ASSUME UNCHANGED vars PROVE TInv'
  BY <1>24 DEF TInv, TypeOK, TicketsHeld, vars, locals, config, files, history
<1> QED
  BY <1>1, <1>2, <1>3, <1>4, <1>5, <1>6, <1>7, <1>8, <1>9, <1>11, <1>12, <1>13,
     <1>14, <1>15, <1>16, <1>17, <1>18, <1>19, <1>20, <1>21, <1>22, <1>23,
     <1>24, <1>10 DEF Next, Continue
-----------------------------------------------------------------------------
(* A directory update is durable when its call returns, so that losing     *)
(* power loses none of them.                                               *)
Durable == disk = dir

(* What a ticket goes through comes in order: Save, Consume, Release.      *)
Order == taken \subseteq issued /\ finished \subseteq taken

(* A pointer was taken and not released exactly when some worker's claim   *)
(* file on it is there.                                                    *)
ClaimsAreTaken ==
  \A p \in Pointer :
    p \in taken \ finished <=> \E w \in Worker : <<p, w>> \in dir.claims

(* A call past Consume holds a claim that no Release has cleared.          *)
HoldersTook ==
  \A w \in Worker, p \in Pointer : Holding(w, p) => p \in taken \ finished

(* Two calls never hold the same ticket: the rename has one winner.        *)
OneHolder ==
  \A v, w \in Worker, p \in Pointer : Holding(v, p) /\ Holding(w, p) => v = w

(* The workers inside Store.Save.                                          *)
Saving == {w \in Worker : pc[w] \in {"writing", "syncing"}}

(* A Save in progress works under a pointer nobody else saves under, and   *)
(* that no earlier Save committed: newPointer draws no pointer twice.      *)
SavesAreFresh ==
  /\ \A w \in Saving : minting[w] \notin issued
  /\ \A v, w \in Saving : minting[v] = minting[w] => v = w

(* runFrom acted at most once on a pointer, and not yet on one that is     *)
(* still parked or whose claim was just read.                              *)
RunsOnce ==
  /\ \A p \in Pointer : runs[p] <= 1 /\ (p \notin taken => runs[p] = 0)
  /\ \A w \in Worker : pc[w] \in {"renamed", "claimed"} => runs[ticket[w]] = 0

(* The inductive invariant.                                                *)
IInv == /\ Durable /\ Order /\ QueueExact /\ ClaimsAreTaken
        /\ HoldersTook /\ OneHolder /\ SavesAreFresh /\ RunsOnce

(* What most steps do to the invariant: nothing on disk moves and no call  *)
(* comes closer to a ticket than it was.                                   *)
Quiet ==
  /\ UNCHANGED <<dir, disk, issued, taken, finished, runs>>
  /\ \A w \in Worker :
       /\ \A p \in Pointer : Holding(w, p)' => Holding(w, p)
       /\ (w \in Saving)' => w \in Saving /\ minting'[w] = minting[w]
       /\ pc'[w] \in {"renamed", "claimed"} =>
            pc[w] \in {"renamed", "claimed"} /\ ticket'[w] = ticket[w]

(* The invariant holds before the first call.                              *)
LEMMA IInit == Init => IInv
  BY DEF Init, IInv, Durable, Order, QueueExact, ClaimsAreTaken, HoldersTook,
         OneHolder, Holding, SavesAreFresh, Saving, RunsOnce, Empty

(* A quiet step keeps the invariant.                                       *)
LEMMA QuietKeeps == IInv /\ Quiet => IInv'
<1> SUFFICES ASSUME IInv, Quiet PROVE IInv'
  OBVIOUS
<1>1. (Durable /\ Order /\ QueueExact)'
  BY DEF IInv, Quiet, Durable, Order, QueueExact
<1>2. ClaimsAreTaken'
  BY DEF IInv, Quiet, ClaimsAreTaken
<1>3. (HoldersTook /\ OneHolder)'
  BY DEF IInv, Quiet, HoldersTook, OneHolder
<1>4. SavesAreFresh'
  BY DEF IInv, Quiet, SavesAreFresh, Saving
<1>5. RunsOnce'
  BY DEF IInv, Quiet, RunsOnce
<1> QED
  BY <1>1, <1>2, <1>3, <1>4, <1>5 DEF IInv

(* All but five kinds of step are quiet. Losing power is, because the      *)
(* directory on disk is the one every process saw.                         *)
LEMMA QuietSteps ==
  ASSUME TInv, IInv,
         \/ \E x \in Process : \/ Crash(x)
                               \/ \E d \in Definition : RegisterWorkflow(x, d)
                               \/ \E b \in BOOLEAN : SetAuthorizer(x, b)
         \/ \E w \in Worker : \/ Run(w) \/ Locate(w) \/ Authorize(w)
                              \/ Refuse(w)
                              \/ ConsumeMiss(w) \/ ConsumeFails(w)
                              \/ ConsumeRead(w)
                              \/ ConsumeReadFails(w) \/ FinishRun(w) \/ Panic(w)
                              \/ ReleaseFails(w) \/ SaveSync(w) \/ SaveFails(w)
                              \/ \E p \in Pointer : Load(w, p)
         \/ PowerLoss \/ UNCHANGED vars
  PROVE  Quiet
<1> USE DEF TInv, TypeOK, TicketsHeld, Quiet, Holding, Saving
<1>1. ASSUME NEW x \in Process, Crash(x) PROVE Quiet
  BY <1>1 DEF Crash, EndCalls, files, history
<1>2. ASSUME NEW x \in Process, NEW d \in Definition, RegisterWorkflow(x, d)
      PROVE Quiet
  BY <1>2 DEF RegisterWorkflow, locals, files, history
<1>3. ASSUME NEW x \in Process, NEW b \in BOOLEAN, SetAuthorizer(x, b)
      PROVE Quiet
  BY <1>3 DEF SetAuthorizer, locals, files, history
<1>4. ASSUME NEW w \in Worker, Run(w) PROVE Quiet
  BY <1>4 DEF Run, Goto, locals, files, history
<1>5. ASSUME NEW w \in Worker, Locate(w) PROVE Quiet
  BY <1>5 DEF Locate, Goto, files, history
<1>6. ASSUME NEW w \in Worker, Authorize(w) PROVE Quiet
  BY <1>6 DEF Authorize, Goto, locals, files
<1>7. ASSUME NEW w \in Worker, Refuse(w) PROVE Quiet
  BY <1>7 DEF Refuse, EndCalls, files, history
<1>8. ASSUME NEW w \in Worker, ConsumeMiss(w) PROVE Quiet
  BY <1>8 DEF ConsumeMiss, EndCalls, files, history
<1>9. ASSUME NEW w \in Worker, ConsumeFails(w) PROVE Quiet
  BY <1>9 DEF ConsumeFails, EndCalls, files, history
<1>10. ASSUME NEW w \in Worker, ConsumeRead(w) PROVE Quiet
  BY <1>10 DEF ConsumeRead, Goto, locals, files, history
<1>11. ASSUME NEW w \in Worker, ConsumeReadFails(w) PROVE Quiet
  BY <1>11 DEF ConsumeReadFails, EndCalls, files, history
<1>12. ASSUME NEW w \in Worker, FinishRun(w) PROVE Quiet
  BY <1>12 DEF FinishRun, LeaveRun, Goto, EndCalls, files, history
<1>13. ASSUME NEW w \in Worker, Panic(w) PROVE Quiet
  BY <1>13 DEF Panic, EndCalls, files, history
<1>14. ASSUME NEW w \in Worker, ReleaseFails(w) PROVE Quiet
  BY <1>14 DEF ReleaseFails, EndCalls, files, history
<1>15. ASSUME NEW w \in Worker, NEW p \in Pointer, Load(w, p) PROVE Quiet
  BY <1>15 DEF Load, Goto, files
<1>16. ASSUME NEW w \in Worker, SaveSync(w) PROVE Quiet
  BY <1>16 DEF SaveSync, Goto, locals, history
<1>17. ASSUME NEW w \in Worker, SaveFails(w) PROVE Quiet
  BY <1>17 DEF SaveFails, LeaveRun, Goto, EndCalls, files, history
<1>18. ASSUME PowerLoss PROVE Quiet
  BY <1>18 DEF PowerLoss, EndCalls, history, IInv, Durable
<1>19. ASSUME UNCHANGED vars PROVE Quiet
  BY <1>19 DEF vars, locals, files, history
<1> QED
  BY <1>1, <1>2, <1>3, <1>4, <1>5, <1>6, <1>7, <1>8, <1>10, <1>11, <1>12,
     <1>13, <1>14, <1>15, <1>16, <1>17, <1>18, <1>19, <1>9

(* Consume's rename moves one pointer from the queue to one claim.         *)
LEMMA ConsumeRenameKeeps ==
  ASSUME SyncDir, TInv, IInv, NEW w \in Worker, ConsumeRename(w)
  PROVE  IInv'
<1> USE DEF TInv, TypeOK, TicketsHeld, ConsumeRename, Claimed, Persist, Goto,
locals
<1>1. Durable'
  BY DEF IInv, Durable
<1>2. Order' /\ QueueExact'
  BY DEF IInv, Order, QueueExact, HoldersTook, Holding, SavesAreFresh, Saving
<1>3. ClaimsAreTaken'
  <2>1. ticket[w] \notin finished /\ ticket[w] \in taken'
    BY DEF IInv, Order, QueueExact
  <2>2. dir'.claims = dir.claims \cup {<<ticket[w], w>>}
    OBVIOUS
  <2>3. ASSUME NEW p \in Pointer, p # ticket[w], NEW v \in Worker
        PROVE  <<p, v>> \in dir'.claims <=> <<p, v>> \in dir.claims
    BY <2>2, <2>3
  <2>4. ASSUME NEW p \in Pointer, p # ticket[w]
        PROVE  p \in taken' \ finished' <=> p \in taken \ finished
    BY <2>4
  <2> HIDE DEF ConsumeRename
  <2> QED
    BY <2>1, <2>2, <2>3, <2>4 DEF IInv, ClaimsAreTaken, ConsumeRename
<1>4. HoldersTook'
  BY DEF IInv, Order, QueueExact, HoldersTook, OneHolder, Holding
<1>5. OneHolder'
  BY DEF IInv, QueueExact, HoldersTook, OneHolder, Holding
<1>6. SavesAreFresh'
  BY DEF IInv, SavesAreFresh, Saving
<1>7. RunsOnce'
  BY DEF IInv, QueueExact, HoldersTook, OneHolder, Holding, RunsOnce
<1> QED
  BY <1>1, <1>2, <1>3, <1>4, <1>5, <1>6, <1>7 DEF IInv

(* The worker that enters runFrom is the only one that will act on its     *)
(* ticket.                                                                 *)
LEMMA EnterRunKeeps ==
  ASSUME SyncDir, TInv, IInv, NEW w \in Worker, EnterRun(w)
  PROVE  IInv'
<1> USE DEF TInv, TypeOK, TicketsHeld, EnterRun, Goto, locals, files
<1>1. Durable'
  BY DEF IInv, Durable
<1>2. Order' /\ QueueExact'
  BY DEF IInv, Order, QueueExact, HoldersTook, Holding, SavesAreFresh, Saving
<1>3. ClaimsAreTaken'
  BY DEF IInv, Order, QueueExact, ClaimsAreTaken, HoldersTook, Holding
<1>4. HoldersTook'
  BY DEF IInv, Order, QueueExact, HoldersTook, OneHolder, Holding
<1>5. OneHolder'
  BY DEF IInv, QueueExact, HoldersTook, OneHolder, Holding
<1>6. SavesAreFresh'
  BY DEF IInv, SavesAreFresh, Saving
<1>7. RunsOnce'
  BY DEF IInv, QueueExact, HoldersTook, OneHolder, Holding, RunsOnce
<1> QED
  BY <1>1, <1>2, <1>3, <1>4, <1>5, <1>6, <1>7 DEF IInv

(* Release removes the claims on one ticket, whose only holder lets go of  *)
(* it.                                                                     *)
LEMMA ReleaseKeeps ==
  ASSUME SyncDir, TInv, IInv, NEW w \in Worker, Release(w)
  PROVE  IInv'
<1> USE DEF TInv, TypeOK, TicketsHeld, Release, Persist, EndCalls
<1>1. Durable'
  BY DEF IInv, Durable
<1>2. Order' /\ QueueExact'
  BY DEF IInv, Order, QueueExact, HoldersTook, Holding, SavesAreFresh, Saving
<1>3. ClaimsAreTaken'
  BY DEF IInv, Order, QueueExact, ClaimsAreTaken, HoldersTook, Holding
<1>4. HoldersTook'
  BY DEF IInv, Order, QueueExact, HoldersTook, OneHolder, Holding
<1>5. OneHolder'
  BY DEF IInv, QueueExact, HoldersTook, OneHolder, Holding
<1>6. SavesAreFresh'
  BY DEF IInv, SavesAreFresh, Saving
<1>7. RunsOnce'
  BY DEF IInv, QueueExact, HoldersTook, OneHolder, Holding, RunsOnce
<1> QED
  BY <1>1, <1>2, <1>3, <1>4, <1>5, <1>6, <1>7 DEF IInv

(* A new Save starts under a fresh pointer.                                *)
LEMMA SaveWriteKeeps ==
  ASSUME SyncDir, TInv, IInv, NEW w \in Worker, NEW q \in Pointer,
  SaveWrite(w, q)
  PROVE  IInv'
<1> USE DEF TInv, TypeOK, TicketsHeld, SaveWrite, Goto, files, history
<1>1. Durable'
  BY DEF IInv, Durable
<1>2. Order' /\ QueueExact'
  BY DEF IInv, Order, QueueExact, HoldersTook, Holding, SavesAreFresh, Saving
<1>3. ClaimsAreTaken'
  BY DEF IInv, Order, QueueExact, ClaimsAreTaken, HoldersTook, Holding
<1>4. HoldersTook'
  BY DEF IInv, Order, QueueExact, HoldersTook, OneHolder, Holding
<1>5. OneHolder'
  BY DEF IInv, QueueExact, HoldersTook, OneHolder, Holding
<1>6. SavesAreFresh'
  BY DEF IInv, SavesAreFresh, Saving
<1>7. RunsOnce'
  BY DEF IInv, QueueExact, HoldersTook, OneHolder, Holding, RunsOnce
<1> QED
  BY <1>1, <1>2, <1>3, <1>4, <1>5, <1>6, <1>7 DEF IInv

(* Save's rename puts a pointer in the queue that was never there.         *)
LEMMA SaveCommitKeeps ==
  ASSUME SyncDir, TInv, IInv, NEW w \in Worker, SaveCommit(w)
  PROVE  IInv'
<1> USE DEF TInv, TypeOK, TicketsHeld, SaveCommit, Persist, LeaveRun, Goto,
EndCalls
<1>1. Durable'
  BY DEF IInv, Durable
<1>2. Order' /\ QueueExact'
  BY DEF IInv, Order, QueueExact, HoldersTook, Holding, SavesAreFresh, Saving
<1>3. ClaimsAreTaken'
  BY DEF IInv, Order, QueueExact, ClaimsAreTaken, HoldersTook, Holding
<1>4. HoldersTook'
  BY DEF IInv, Order, QueueExact, HoldersTook, OneHolder, Holding
<1>5. OneHolder'
  BY DEF IInv, QueueExact, HoldersTook, OneHolder, Holding
<1>6. SavesAreFresh'
  BY DEF IInv, SavesAreFresh, Saving
<1>7. RunsOnce'
  BY DEF IInv, QueueExact, HoldersTook, OneHolder, Holding, RunsOnce
<1> QED
  BY <1>1, <1>2, <1>3, <1>4, <1>5, <1>6, <1>7 DEF IInv

(* Every step keeps the invariant.                                         *)
LEMMA INext == SyncDir /\ TInv /\ IInv /\ [Next]_vars => IInv'
  BY QuietSteps, QuietKeeps, ConsumeRenameKeeps, EnterRunKeeps, ReleaseKeeps,
     SaveWriteKeeps, SaveCommitKeeps DEF Next, Continue
-----------------------------------------------------------------------------
(* A pointer has a file, parked or claimed, exactly from its Save to its   *)
(* Release; in particular a claim is a precise signal.                     *)
LEMMA NamesAreOpen ==
  ASSUME TInv, IInv
  PROVE  /\ \A p \in Pointer : p \in Names(dir) <=> p \in issued \ finished
         /\ ClaimSignal
<1>1. ASSUME NEW p
      PROVE  p \in {c[1] : c \in dir.claims} <=>
               \E w \in Worker : <<p, w>> \in dir.claims
  <2>1. ASSUME NEW c \in dir.claims, p = c[1]
        PROVE  \E w \in Worker : <<p, w>> \in dir.claims
    <3>1. PICK m \in minted, w \in Worker : c = <<m, w>>
      BY DEF TInv, TypeOK
    <3> QED
      BY <2>1, <3>1
  <2>2. ASSUME NEW w \in Worker, <<p, w>> \in dir.claims
        PROVE  p \in {c[1] : c \in dir.claims}
    BY <2>2
  <2> QED
    BY <2>1, <2>2
<1>2. \A p \in Pointer :
        p \in {c[1] : c \in dir.claims} <=> p \in taken \ finished
  BY <1>1 DEF IInv, ClaimsAreTaken
<1>3. \A p : p \in {c[1] : c \in dir.claims} => p \in Pointer
  BY DEF TInv, TypeOK
<1>4. taken \subseteq Pointer
  BY DEF TInv, TypeOK
<1>5. ClaimSignal
  BY <1>2, <1>3, <1>4 DEF ClaimSignal
<1> QED
  BY <1>2, <1>5 DEF IInv, Names, QueueExact, Order

(* The stage of a ticket, in terms of the history alone.                   *)
StageByHistory(p) ==
  IF p \notin issued THEN "unissued"
  ELSE IF p \notin taken THEN "parked"
  ELSE IF p \in finished THEN "finished"
  ELSE IF \A w \in Worker : ~Holding(w, p) THEN "orphan"
  ELSE IF runs[p] = 0 THEN "taken" ELSE "acted"

(* The stage read off the directory is the one the history gives.          *)
LEMMA StageIsHistory ==
  ASSUME TInv, IInv, NEW p \in Pointer
  PROVE  StageOf(p) = StageByHistory(p)
<1>1. p \in Names(dir) <=> p \in issued \ finished
  BY NamesAreOpen
<1> QED
  BY <1>1 DEF StageOf, StageByHistory, IInv, Order, QueueExact

(* The stages agree for every pointer.                                     *)
Mapped == \A p \in Pointer : StageOf(p) = StageByHistory(p)

(* What one step may do to one ticket.                                     *)
Advances(p) ==
  \/ StageByHistory(p)' = StageByHistory(p)
  \/ <<StageByHistory(p), StageByHistory(p)'>> \in Abstract!Move

(* A quiet step leaves a ticket where it is, or orphans it.                *)
LEMMA QuietAdvances ==
  ASSUME Quiet, NEW p \in Pointer PROVE Advances(p)
<1>1. UNCHANGED <<issued, taken, finished, runs>>
  BY DEF Quiet
<1>2. (\A w \in Worker : ~Holding(w, p)) => (\A w \in Worker : ~Holding(w, p)')
  BY DEF Quiet
<1> QED
  BY <1>1, <1>2 DEF Advances, StageByHistory, Abstract!Move

(* The five steps that move tickets move them as ResumeTicket allows.      *)
LEMMA LoudAdvances ==
  ASSUME TInv, IInv, NEW p \in Pointer, NEW w \in Worker,
         \/ ConsumeRename(w) \/ EnterRun(w) \/ Release(w)
         \/ \E q \in Pointer : SaveWrite(w, q)
         \/ SaveCommit(w)
  PROVE  Advances(p)
<1> USE DEF TInv, TypeOK, TicketsHeld, Advances, StageByHistory, Abstract!Move,
            Holding
<1>1. CASE ConsumeRename(w)
  BY <1>1 DEF ConsumeRename, Goto, locals, IInv, Order, QueueExact, RunsOnce
<1>2. CASE EnterRun(w)
  BY <1>2 DEF EnterRun, Goto, locals, IInv, Order, HoldersTook, OneHolder,
              RunsOnce
<1>3. CASE Release(w)
  BY <1>3 DEF Release, EndCalls, IInv, Order, HoldersTook
<1>4. ASSUME NEW q \in Pointer, SaveWrite(w, q) PROVE Advances(p)
  BY <1>4 DEF SaveWrite, Goto, history
<1>5. CASE SaveCommit(w)
  BY <1>5 DEF SaveCommit, LeaveRun, Goto, EndCalls, IInv, Order, SavesAreFresh,
              Saving
<1> QED
  BY <1>1, <1>2, <1>3, <1>4, <1>5

-----------------------------------------------------------------------------
(* Every reachable state is well typed: no call is left without the        *)
(* pointer it needs and no directory entry lies outside the drawn pointers.*)
THEOREM TypeCorrect == Spec => []TypeOK
<1>1. TInv => TypeOK
  BY DEF TInv
<1> QED
  BY TypeInit, TypeNext, <1>1, PTL DEF Spec

(* Types and the inductive invariant hold in every reachable state.        *)
LEMMA Inductive == ASSUME SyncDir PROVE Spec => [](TInv /\ IInv)
  BY TypeInit, TypeNext, IInit, INext, PTL DEF Spec

(* With a directory that is durable when its calls return, at most one run *)
(* ever acts on a pointer, for any number of workers, processes, faults.   *)
THEOREM PointersAreSingleUse == ASSUME SyncDir PROVE Spec => []SingleUse
<1>1. IInv => SingleUse
  BY DEF IInv, RunsOnce, SingleUse
<1> QED
  BY Inductive, <1>1, PTL

(* The pending queue is exact: every run parked and not yet taken is in    *)
(* it, and no other (Pending).                                             *)
THEOREM NoApprovalVanishes == ASSUME SyncDir PROVE Spec => []QueueExact
<1>1. IInv => QueueExact
  BY DEF IInv
<1> QED
  BY Inductive, <1>1, PTL

(* A claim that still sits there says that a process took the pointer and  *)
(* has not released it, and nothing else says so (Consume, Release).       *)
THEOREM ClaimsAreSignals == ASSUME SyncDir PROVE Spec => []ClaimSignal
<1>1. TInv /\ IInv => ClaimSignal
  BY NamesAreOpen DEF IInv
<1> QED
  BY Inductive, <1>1, PTL

(* ResumeAs over filestore implements ResumeTicket.                        *)
THEOREM ImplementsTicket == ASSUME SyncDir PROVE Spec => TicketLife
<1>1. Init => Abstract!Init
  BY DEF Init, Abstract!Init, StageOf, Names, Empty
<1>2. ASSUME TInv, IInv, Mapped, Mapped', [Next]_vars
      PROVE  Abstract!Next
  <2>1. \A p \in Pointer : Advances(p)
    BY <1>2, QuietSteps, QuietAdvances, LoudAdvances DEF Next, Continue
  <2>2. \A p \in Pointer : StageOf(p)' \in Abstract!Stage
    BY DEF StageOf, Abstract!Stage
  <2> QED
    BY <1>2, <2>1, <2>2 DEF Advances, Mapped, Abstract!Next
<1>3. TInv /\ IInv => Mapped
  BY StageIsHistory DEF Mapped
<1> QED
  BY Inductive, <1>1, <1>2, <1>3, PTL DEF Spec, TicketLife, Abstract!Spec
-----------------------------------------------------------------------------
(* A file has a name, now or after a power loss, only once it is flushed.  *)
Whole(d) == d.parked \subseteq synced /\ \A c \in d.claims : c[1] \in synced

WholeInv ==
  /\ torn = {} /\ Whole(dir) /\ Whole(disk)
  /\ \A w \in Worker : pc[w] = "syncing" => minting[w] \in synced

(* Every step keeps named files whole: only SaveSync's pointer is renamed, *)
(* and a claim renames a file that already had a name.                     *)
LEMMA WholeNext == TInv /\ WholeInv /\ [Next]_vars => WholeInv'
<1> SUFFICES ASSUME TInv, WholeInv, [Next]_vars PROVE WholeInv'
  OBVIOUS
<1> USE DEF TInv, TypeOK, TicketsHeld, WholeInv, Whole
<1>1. ASSUME UNCHANGED files,
             \A w \in Worker : pc'[w] = "syncing" =>
               pc[w] = "syncing" /\ minting'[w] = minting[w]
      PROVE  WholeInv'
  BY <1>1 DEF files
<1>2. ASSUME NEW w \in Worker, ConsumeRename(w) PROVE WholeInv'
  <2>1. Whole(dir)'
    BY <1>2 DEF ConsumeRename, Claimed
  <2>2. disk' \in {disk, dir'} /\ torn' = torn /\ synced' = synced
    BY <1>2 DEF ConsumeRename, Persist
  <2>3. \A v \in Worker : pc'[v] = "syncing" =>
          pc[v] = "syncing" /\ minting'[v] = minting[v]
    BY <1>2 DEF ConsumeRename, Goto, locals
  <2> QED
    BY <2>1, <2>2, <2>3
<1>3. ASSUME NEW w \in Worker, Release(w) PROVE WholeInv'
  <2>1. Whole(dir)'
    BY <1>3 DEF Release
  <2>2. disk' \in {disk, dir'} /\ torn' = torn /\ synced' = synced
    BY <1>3 DEF Release, Persist
  <2>3. \A v \in Worker : pc'[v] = "syncing" =>
          pc[v] = "syncing" /\ minting'[v] = minting[v]
    BY <1>3 DEF Release, EndCalls
  <2> QED
    BY <2>1, <2>2, <2>3
<1>4. ASSUME NEW w \in Worker, SaveSync(w) PROVE WholeInv'
  BY <1>4 DEF SaveSync, Goto, locals
<1>5. ASSUME NEW w \in Worker, SaveCommit(w) PROVE WholeInv'
  <2>1. Whole(dir)'
    BY <1>5 DEF SaveCommit
  <2>2. disk' \in {disk, dir'} /\ torn' = torn /\ synced' = synced
    BY <1>5 DEF SaveCommit, Persist
  <2>3. \A v \in Worker : pc'[v] = "syncing" =>
          pc[v] = "syncing" /\ minting'[v] = minting[v]
    BY <1>5 DEF SaveCommit, LeaveRun, Goto, EndCalls
  <2> QED
    BY <2>1, <2>2, <2>3
<1>6. CASE PowerLoss
  <2>1. Names(disk) \ synced = {}
    BY DEF Names
  <2> QED
    BY <1>6, <2>1 DEF PowerLoss, EndCalls
<1>7. CASE UNCHANGED vars
  BY <1>1, <1>7 DEF vars, locals
<1>8. ASSUME NEW x \in Process, Crash(x) PROVE WholeInv'
  BY <1>1, <1>8 DEF Crash, EndCalls
<1>9. ASSUME NEW x \in Process, NEW d \in Definition, RegisterWorkflow(x, d)
       PROVE  WholeInv'
  BY <1>1, <1>9 DEF RegisterWorkflow, locals
<1>10. ASSUME NEW x \in Process, NEW b \in BOOLEAN, SetAuthorizer(x, b)
       PROVE  WholeInv'
  BY <1>1, <1>10 DEF SetAuthorizer, locals
<1>11. ASSUME NEW w \in Worker,
              \/ Run(w) \/ Locate(w) \/ Authorize(w) \/ ConsumeRead(w)
              \/ EnterRun(w)
              \/ \E p \in Pointer : Load(w, p) \/ SaveWrite(w, p)
       PROVE  WholeInv'
  <2>1. UNCHANGED files
    BY <1>11 DEF Run, Locate, Authorize, ConsumeRead, EnterRun, Load, SaveWrite
  <2>2. \A v \in Worker : pc'[v] = "syncing" =>
          pc[v] = "syncing" /\ minting'[v] = minting[v]
    BY <1>11 DEF Run, Locate, Authorize, ConsumeRead, EnterRun, Load,
                 SaveWrite,
                 Goto, locals
  <2> QED
    BY <1>1, <2>1, <2>2
<1>12. ASSUME NEW w \in Worker,
              \/ Refuse(w) \/ ConsumeMiss(w) \/ ConsumeFails(w)
              \/ ConsumeReadFails(w)
              \/ FinishRun(w) \/ Panic(w) \/ ReleaseFails(w) \/ SaveFails(w)
       PROVE  WholeInv'
  <2>1. UNCHANGED files
    BY <1>12 DEF Refuse, ConsumeMiss, ConsumeFails, ConsumeReadFails,
                 FinishRun,
                 Panic, ReleaseFails, SaveFails
  <2>2. EndCalls({w}) \/ LeaveRun(w)
    BY <1>12 DEF Refuse, ConsumeMiss, ConsumeFails, ConsumeReadFails,
                 FinishRun,
                 Panic, ReleaseFails, SaveFails
  <2>3. \A v \in Worker : pc'[v] = "syncing" =>
          pc[v] = "syncing" /\ minting'[v] = minting[v]
    BY <2>2 DEF EndCalls, LeaveRun, Goto
  <2> QED
    BY <1>1, <2>1, <2>3
<1> QED
  BY <1>2, <1>3, <1>4, <1>5, <1>6, <1>7, <1>8, <1>9, <1>10, <1>11, <1>12
     DEF Next, Continue

(* Sync before rename is enough, even where directory updates are lazy: a  *)
(* power loss never tears a state file that has a name.                    *)
THEOREM VisibleFilesAreWhole == Spec => []NeverTorn
<1>1. Init => WholeInv
  BY DEF Init, WholeInv, Whole, Empty
<1>2. WholeInv => NeverTorn
  BY DEF WholeInv, NeverTorn
<1> QED
  BY TypeInit, TypeNext, WholeNext, <1>1, <1>2, PTL DEF Spec
-----------------------------------------------------------------------------
(* A call past authorize on a directed suspension was allowed by an        *)
(* Authorizer since its Load.                                              *)
Cleared(w) == pc[w] \notin {"idle", "loaded", "located"}

AInv ==
  \A w \in Worker : ticket[w] \in audience /\ Cleared(w)
                      => <<w, ticket[w]>> \in granted

(* What most steps do: no call comes closer to a ticket, no grant is lost. *)
Reserved ==
  /\ UNCHANGED <<audience, granted>>
  /\ \A w \in Worker : Cleared(w)' /\ ticket'[w] # None =>
                         Cleared(w) /\ ticket'[w] = ticket[w]

(* Every step keeps directed suspensions behind their Authorizer.          *)
LEMMA AuthorizedNext == TInv /\ AInv /\ [Next]_vars => AInv'
<1> SUFFICES ASSUME TInv, AInv, [Next]_vars PROVE AInv'
  OBVIOUS
<1> USE DEF TInv, TypeOK, TicketsHeld
<1>1. ASSUME Reserved PROVE AInv'
  BY <1>1 DEF Reserved, AInv, Cleared
<1>2. ASSUME NEW w \in Worker, NEW p \in Pointer, Load(w, p) PROVE AInv'
  BY <1>2 DEF Load, Goto, AInv, Cleared
<1>3. ASSUME NEW w \in Worker, Authorize(w) PROVE AInv'
  BY <1>3 DEF Authorize, Open, Goto, locals, AInv, Cleared
<1>4. ASSUME NEW w \in Worker, NEW q \in Pointer, SaveWrite(w, q) PROVE AInv'
  BY <1>4 DEF SaveWrite, Goto, history, AInv, Cleared
<1>5. ASSUME NEW x \in Process, Crash(x) PROVE Reserved
  BY <1>5 DEF Crash, EndCalls, history, Reserved, Cleared
<1>6. ASSUME NEW x \in Process, NEW d \in Definition, RegisterWorkflow(x, d)
      PROVE Reserved
  BY <1>6 DEF RegisterWorkflow, locals, history, Reserved, Cleared
<1>7. ASSUME NEW x \in Process, NEW b \in BOOLEAN, SetAuthorizer(x, b)
      PROVE Reserved
  BY <1>7 DEF SetAuthorizer, locals, history, Reserved, Cleared
<1>8. ASSUME NEW w \in Worker,
             Run(w) \/ Locate(w) \/ ConsumeRead(w) \/ EnterRun(w) \/ SaveSync(w)
      PROVE Reserved
  BY <1>8 DEF Run, Locate, ConsumeRead, EnterRun, SaveSync, Goto, locals,
              history, Reserved, Cleared
<1>9. ASSUME NEW w \in Worker, ConsumeRename(w) PROVE Reserved
  BY <1>9 DEF ConsumeRename, Goto, locals, Reserved, Cleared
<1>10. ASSUME NEW w \in Worker,
              \/ Refuse(w) \/ ConsumeMiss(w) \/ ConsumeFails(w)
              \/ ConsumeReadFails(w) \/ FinishRun(w) \/ Panic(w) \/ Release(w)
              \/ ReleaseFails(w) \/ SaveCommit(w) \/ SaveFails(w)
       PROVE Reserved
  <2>1. UNCHANGED <<audience, granted>>
    BY <1>10 DEF Refuse, ConsumeMiss, ConsumeFails, ConsumeReadFails, FinishRun,
                 Panic, Release, ReleaseFails, SaveCommit, SaveFails, history
  <2>2. EndCalls({w}) \/ (LeaveRun(w) /\ Cleared(w))
    BY <1>10 DEF Refuse, ConsumeMiss, ConsumeFails, ConsumeReadFails, FinishRun,
                 Panic, Release, ReleaseFails, SaveCommit, SaveFails, Cleared
  <2> QED
    BY <2>1, <2>2 DEF EndCalls, LeaveRun, Goto, Reserved, Cleared
<1>11. ASSUME PowerLoss PROVE Reserved
  BY <1>11 DEF PowerLoss, EndCalls, history, Reserved, Cleared
<1>12. ASSUME UNCHANGED vars PROVE Reserved
  BY <1>12 DEF vars, locals, history, Reserved, Cleared
<1> QED
  BY <1>1, <1>2, <1>3, <1>4, <1>5, <1>6, <1>7, <1>8, <1>9, <1>10, <1>11, <1>12
     DEF Next, Continue

(* Nobody holds a directed suspension without an Authorizer's yes to this  *)
(* very call, deployments of authorizers and crashes included (authorize). *)
THEOREM DirectedIsAuthorized == Spec => []AuthorizedOnly
<1>1. Init => AInv
  BY DEF Init, AInv
<1>2. TInv /\ AInv => AuthorizedOnly
  BY DEF AInv, AuthorizedOnly, Holding, Cleared
<1> QED
  BY TypeInit, TypeNext, AuthorizedNext, <1>1, <1>2, PTL DEF Spec
=============================================================================

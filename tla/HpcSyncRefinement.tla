------------------------- MODULE HpcSyncRefinement -------------------------
(***************************************************************************)
(* HpcSync implements RecoveryPoint: every step of an invocation, of an    *)
(* rsync child, of the producer, every crash and every failed write is a   *)
(* step of the abstract catalogue or leaves it as it is.                   *)
(***************************************************************************)
EXTENDS HpcSyncProofs

USE ConstantsAssumption, NoneAssumption

(* The part of the state that the catalogue shows. *)
shown == <<plan, completed, marker, result>>

LEMMA InitRefines == Init => Catalogue!Init
BY DEF Init, Catalogue!Init, StageOf

LEMMA UnchangedRefines ==
    ASSUME UNCHANGED shown
    PROVE  UNCHANGED Catalogue!vars
BY DEF shown, Catalogue!vars, StageOf

(* Only five actions write what the catalogue shows. *)
LEMMA ShownSteps ==
    ASSUME IndInv, [Next]_vars
    PROVE  \/ UNCHANGED shown
           \/ \E p \in Proc :
                 \/ WritePlan(p) \/ WriteCompleted(p) \/ WriteResult(p)
                 \/ RsyncSucceeds(p) \/ RsyncStops(p)
<1> USE DEF shown, audit, receiver
<1>1. CASE UNCHANGED vars
    BY <1>1 DEF vars
<1>2. CASE Producer
    BY <1>2 DEF Producer, ProducerMarks, SourceChanges, ConfigChanges
<1>3. ASSUME NEW p \in Proc, Invoke(p) PROVE UNCHANGED shown
  <2>1. ASSUME PlanStart(p) \/ PlanRefused(p) PROVE UNCHANGED shown
    BY <2>1 DEF PlanStart, PlanRefused
  <2>2. ASSUME NEW r \in RunId, VerifyStart(p, r) \/ VerifyRefused(p, r) \/ RunAlreadyDone(p, r)
        PROVE  UNCHANGED shown
    BY <2>2 DEF VerifyStart, VerifyRefused, RunAlreadyDone
  <2>3. ASSUME NEW r \in RunId, NEW a \in Approvals, RunStart(p, r, a) \/ RunRefused(p, r, a)
        PROVE  UNCHANGED shown
    BY <2>3 DEF RunStart, RunRefused
  <2> QED
    BY <1>3, <2>1, <2>2, <2>3 DEF Invoke
<1>4. ASSUME NEW p \in Proc, Proceed(p)
      PROVE  \/ UNCHANGED shown
             \/ WritePlan(p) \/ WriteCompleted(p) \/ WriteResult(p) \/ RsyncStops(p)
  <2>1. ASSUME ChooseBase(p) \/ AcquireLock(p) \/ LockBusy(p) \/ Spawn(p) PROVE UNCHANGED shown
    BY <2>1 DEF ChooseBase, AcquireLock, LockBusy, Spawn
  <2>2. ASSUME \/ PlanReap(p) \/ TransferReap(p) \/ CompareReap(p) \/ MarkerReap(p)
               \/ VerifyReap(p)
        PROVE  UNCHANGED shown
    BY <2>2 DEF PlanReap, TransferReap, CompareReap, MarkerReap, VerifyReap
  <2>3. ASSUME WriteRequest(p) \/ WriteLatest(p) PROVE UNCHANGED shown
    BY <2>3 DEF WriteRequest, WriteLatest
  <2> QED
    BY <1>4, <2>1, <2>2, <2>3 DEF Proceed, Deadline
<1>5. ASSUME NEW p \in Proc, Rsync(p)
      PROVE  UNCHANGED shown \/ RsyncSucceeds(p) \/ RsyncStops(p)
    BY <1>5 DEF Rsync, RsyncFails, RsyncRead
<1>6. ASSUME NEW p \in Proc, Abort(p) \/ Crash(p) \/ OrphanEnds(p) PROVE UNCHANGED shown
    BY <1>6 DEF Abort, Crash, OrphanEnds
<1> QED
    BY <1>1, <1>2, <1>3, <1>4, <1>5, <1>6 DEF Next

(* The plan of a fresh id, on a completed base, opens its recovery point.  *)
LEMMA WritePlanRefines ==
    ASSUME IndInv, NEW p \in Proc, WritePlan(p)
    PROVE  Catalogue!Next
<1>a. Planning(p) /\ call[p] \in Call
    BY DEF IndInv, TypeOK, Control, WritePlan, Planning
<1>r. PICK r \in RunId : r = call[p].run
    BY <1>a DEF Call
<1>b. PICK b \in RunId \cup {None} : b = call[p].base
    BY <1>a DEF Call
<1>1. /\ plan[r] = None
      /\ r \notin completed /\ r \notin marker
      /\ b # None => b \in completed /\ plan[b] # None
  <2>1. completed \subseteq marker /\ \A q \in marker : plan[q] # None
    BY DEF IndInv, EvidenceInOrder
  <2>2. plan[r] = None /\ (b # None => b \in completed)
    BY <1>a, <1>r, <1>b DEF IndInv, IdsAreFresh, ChosenBase
  <2> QED
    BY <2>1, <2>2
<1>2. /\ plan' = [plan EXCEPT ![r] = [config |-> call[p].cfg, prev |-> b]]
      /\ plan \in [RunId -> PlanRecord \cup {None}]
      /\ plan'[r] \in PlanRecord /\ plan'[r].prev = b
      /\ UNCHANGED <<completed, marker, result>>
    BY <1>a, <1>r, <1>b DEF IndInv, TypeOK, WritePlan, Call, PlanRecord, receiver
<1>3. StageOf(r) = "unused" /\ (b # None => StageOf(b) = "completed")
    BY <1>1 DEF StageOf
<1>4. /\ StageOf(r)' = "planned"
      /\ \A q \in RunId \ {r} : StageOf(q)' = StageOf(q) /\ plan'[q] = plan[q]
    BY <1>1, <1>2 DEF StageOf
<1>5. Catalogue!Plan(r, b)
    BY <1>1, <1>2, <1>3, <1>4 DEF Catalogue!Plan
<1> QED
    BY <1>1, <1>5 DEF Catalogue!Next

(* The marker of a run arrives, for the first time or again. *)
LEMMA MarkerRefines ==
    ASSUME IndInv, NEW p \in Proc, RsyncSucceeds(p) \/ RsyncStops(p)
    PROVE  Catalogue!Next \/ UNCHANGED Catalogue!vars
<1>r. PICK r \in RunId : r = child[p].run
    BY DEF RsyncSucceeds, RsyncStops, Running, IndInv, TypeOK, Child
<1>1. UNCHANGED <<plan, completed, result>>
    BY DEF RsyncSucceeds, RsyncStops, audit
<1>2. CASE marker' = marker
    BY <1>1, <1>2, UnchangedRefines DEF shown
<1>3. CASE marker' # marker
  <2>1. /\ marker' = marker \cup {r} /\ r \notin marker
        /\ plan[r] # None /\ r \notin completed
    <3>1. child[p] # None /\ child[p].task = "marker" /\ marker' = marker \cup {r}
        BY <1>r, <1>3 DEF RsyncSucceeds, RsyncStops, Running
    <3> QED
        BY <1>r, <1>3, <3>1 DEF IndInv, EvidenceInOrder
  <2>2. /\ StageOf(r) = "planned" /\ StageOf(r)' = "marked"
        /\ \A q \in RunId \ {r} : StageOf(q)' = StageOf(q)
    BY <1>1, <2>1 DEF StageOf
  <2>3. Catalogue!Mark(r)
    BY <1>1, <2>1, <2>2 DEF Catalogue!Mark, Catalogue!Advance
  <2> QED
    BY <2>1, <2>3 DEF Catalogue!Next
<1> QED
    BY <1>2, <1>3

(* An invocation that is neither idle nor killed works on a run id.        *)
LEMMA CallOfALiveOne ==
    ASSUME IndInv, NEW p \in Proc, pc[p] \notin {"idle", "crashed"}
    PROVE  call[p].run \in RunId
<1>1. call[p] # None
    BY DEF IndInv, Control
<1>2. call[p] \in Call
    BY <1>1 DEF IndInv, TypeOK
<1> QED
    BY <1>2 DEF Call

LEMMA WriteCompletedRefines ==
    ASSUME IndInv, NEW p \in Proc, WriteCompleted(p)
    PROVE  Catalogue!Next \/ UNCHANGED Catalogue!vars
<1>r. PICK r \in RunId : r = call[p].run
    BY CallOfALiveOne DEF WriteCompleted
<1>1. /\ r \in marker /\ plan[r] # None
      /\ completed' = completed \cup {r} /\ UNCHANGED <<plan, marker, result>>
    BY <1>r DEF WriteCompleted, receiver, IndInv, TypeOK, Control, Call, EvidenceInOrder
<1>2. CASE r \in completed
    BY <1>1, <1>2, UnchangedRefines DEF shown
<1>3. CASE r \notin completed
  <2>1. /\ StageOf(r) = "marked" /\ StageOf(r)' = "completed"
        /\ \A q \in RunId \ {r} : StageOf(q)' = StageOf(q)
    BY <1>1, <1>3 DEF StageOf
  <2>2. Catalogue!Complete(r)
    BY <1>1, <2>1 DEF Catalogue!Complete, Catalogue!Advance
  <2> QED
    BY <1>1, <2>2 DEF Catalogue!Next
<1> QED
    BY <1>2, <1>3

LEMMA WriteResultRefines ==
    ASSUME IndInv, NEW p \in Proc, WriteResult(p)
    PROVE  Catalogue!Next
<1>r. PICK r \in RunId : r = call[p].run
    BY CallOfALiveOne DEF WriteResult
<1>o. PICK o \in Status : o = call[p].status
    BY DEF WriteResult, IndInv, Control, TypeOK
<1>1. /\ plan[r] # None
      /\ o = "success" => r \in completed
      /\ result' = [result EXCEPT ![r] = o] /\ UNCHANGED <<plan, marker, completed>>
    BY <1>r, <1>o DEF WriteResult, receiver, IndInv, TypeOK, Control, Call, EvidenceInOrder,
           RunIsApproved, Alive
<1>2. StageOf(r) # "unused" /\ (o = "success" => StageOf(r) = "completed")
    BY <1>1 DEF StageOf
<1>3. Catalogue!Report(r, o)
    BY <1>1, <1>2 DEF Catalogue!Report, StageOf
<1> QED
    BY <1>1, <1>3 DEF Catalogue!Next, Status

(* hpc-sync keeps the promises of RecoveryPoint about plans, markers,      *)
(* completion and reported outcomes, whatever fails.                       *)
THEOREM Refinement == Spec => KeepsThePromise
<1>1. Init => Catalogue!Init
    BY InitRefines
<1>2. IndInv /\ [Next]_vars => [Catalogue!Next]_(Catalogue!vars)
    BY ShownSteps, UnchangedRefines, WritePlanRefines, MarkerRefines, WriteCompletedRefines,
       WriteResultRefines
<1> QED
    BY <1>1, <1>2, Invariance, PTL DEF Spec, KeepsThePromise, Catalogue!Spec
=============================================================================

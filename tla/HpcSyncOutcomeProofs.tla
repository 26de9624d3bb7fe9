------------------------ MODULE HpcSyncOutcomeProofs ------------------------
(***************************************************************************)
(* Proofs about what HpcSync leaves behind: the marker, the status, the    *)
(* snapshots and what they hold.  Each property has its own strengthening  *)
(* of IndInv and its own assumption about the world: nobody is killed, no  *)
(* write fails, no id is run twice at once, or the source is at rest.      *)
(***************************************************************************)
EXTENDS HpcSyncProofs

USE ConstantsAssumption, NoneAssumption

(* The steps that only end an invocation, and possibly reap its child.     *)
Leave(p) ==
    /\ pc[p] = "latest" => MayCrash \/ MayFailIO
    /\ \E x \in Exit : Return(p, x)
    /\ child' = child \/ Reap(p)
    /\ child'[p] = None
    /\ UNCHANGED <<env, audit, receiver, compared>>

(* The invocation is killed and its child goes on. *)
LeaveOrphan(p) == MayCrash /\ Running(p) /\ Crash(p)

(* The dry run of a plan went well. *)
DryRunDone(p) ==
    /\ Finished(p, "dry_run") /\ Ok(p)
    /\ Reap(p) /\ Goto(p, "request")
    /\ UNCHANGED <<env, lock, call, audit, receiver, compared>>

InvocationStep(p) ==
    \/ Leave(p) \/ LeaveOrphan(p) \/ PlanStart(p) \/ ChooseBase(p)
    \/ \E r \in RunId : VerifyStart(p, r)
    \/ \E r \in RunId, a \in Approvals : RunStart(p, r, a)
    \/ AcquireLock(p) \/ Spawn(p) \/ DryRunDone(p)
    \/ TransferReap(p) \/ CompareReap(p) \/ MarkerReap(p)
    \/ WriteRequest(p) \/ WritePlan(p) \/ WriteCompleted(p)
    \/ WriteResult(p) \/ WriteLatest(p)

RsyncStep(p) == RsyncSucceeds(p) \/ RsyncStops(p) \/ \E f \in File : RsyncRead(p, f)

LEMMA LeaveSteps ==
    ASSUME IndInv, NEW p \in Proc,
           \/ PlanRefused(p)
           \/ \E r \in RunId : VerifyRefused(p, r) \/ RunAlreadyDone(p, r)
           \/ \E r \in RunId, a \in Approvals : RunRefused(p, r, a)
           \/ LockBusy(p) \/ VerifyReap(p) \/ Abort(p) \/ OrphanEnds(p)
           \/ PlanReap(p) /\ ~Ok(p)
           \/ Crash(p) /\ ~Running(p)
    PROVE  Leave(p)
<1> USE DEF Leave, IndInv, TypeOK, Control, Exit, Reap
<1>1. CASE PlanRefused(p)
    BY <1>1 DEF PlanRefused
<1>2. ASSUME NEW r \in RunId, VerifyRefused(p, r) \/ RunAlreadyDone(p, r) PROVE Leave(p)
    BY <1>2 DEF VerifyRefused, RunAlreadyDone
<1>3. ASSUME NEW r \in RunId, NEW a \in Approvals, RunRefused(p, r, a) PROVE Leave(p)
    BY <1>3 DEF RunRefused
<1>4. CASE LockBusy(p)
    BY <1>4 DEF LockBusy
<1>5. CASE VerifyReap(p)
    BY <1>5 DEF VerifyReap, Finished
<1>6. CASE Abort(p)
    BY <1>6 DEF Abort
<1>7. CASE OrphanEnds(p)
    BY <1>7 DEF OrphanEnds
<1>8. CASE PlanReap(p) /\ ~Ok(p)
    BY <1>8 DEF PlanReap, Finished
<1>9. CASE Crash(p) /\ ~Running(p)
    BY <1>9 DEF Crash
<1> QED
    BY <1>1, <1>2, <1>3, <1>4, <1>5, <1>6, <1>7, <1>8, <1>9

(* The ways in which the state can change, for the case splits below.      *)
LEMMA StepCases ==
    ASSUME IndInv, Next
    PROVE  Producer \/ \E p \in Proc : InvocationStep(p) \/ RsyncStep(p)
<1> USE DEF InvocationStep, RsyncStep
<1>1. ASSUME NEW p \in Proc, Invoke(p) PROVE InvocationStep(p)
    BY <1>1, LeaveSteps DEF Invoke
<1>2. ASSUME NEW p \in Proc, Proceed(p) PROVE InvocationStep(p) \/ RsyncStep(p)
  <2>1. ASSUME PlanReap(p), Ok(p) PROVE DryRunDone(p)
    BY <2>1 DEF PlanReap, DryRunDone, env, audit, receiver
  <2> QED
    BY <1>2, <2>1, LeaveSteps DEF Proceed, Deadline
<1>3. ASSUME NEW p \in Proc, Rsync(p) PROVE RsyncStep(p)
    BY <1>3 DEF Rsync, RsyncFails
<1>4. ASSUME NEW p \in Proc, Abort(p) \/ Crash(p) \/ OrphanEnds(p) PROVE InvocationStep(p)
    BY <1>4, LeaveSteps DEF Crash, LeaveOrphan
<1> QED
    BY <1>1, <1>2, <1>3, <1>4 DEF Next

(* A step of one slot leaves the others alone. *)
LEMMA OthersStay ==
    ASSUME IndInv, NEW p \in Proc, InvocationStep(p) \/ RsyncStep(p), NEW q \in Proc \ {p}
    PROVE  call'[q] = call[q] /\ pc'[q] = pc[q] /\ child'[q] = child[q]
<1> USE DEF IndInv, TypeOK, Goto, Begin, Return, Reap, Execute, Conclude
<1>1. CASE RsyncStep(p)
    BY <1>1 DEF RsyncStep, RsyncSucceeds, RsyncStops, RsyncRead
<1>2. CASE Leave(p) \/ LeaveOrphan(p) \/ WritePlan(p) \/ WriteLatest(p)
    BY <1>2 DEF Leave, LeaveOrphan, Crash, WritePlan, WriteLatest
<1>3. CASE \/ PlanStart(p) \/ ChooseBase(p)
           \/ \E r \in RunId : VerifyStart(p, r)
           \/ \E r \in RunId, a \in Approvals : RunStart(p, r, a)
    BY <1>3 DEF PlanStart, ChooseBase, VerifyStart, RunStart
<1>4. CASE AcquireLock(p) \/ Spawn(p) \/ DryRunDone(p) \/ WriteRequest(p)
    BY <1>4 DEF AcquireLock, Spawn, DryRunDone, WriteRequest
<1>5. CASE TransferReap(p) \/ CompareReap(p) \/ MarkerReap(p)
    BY <1>5 DEF TransferReap, CompareReap, MarkerReap
<1>6. CASE WriteCompleted(p) \/ WriteResult(p)
    BY <1>6 DEF WriteCompleted, WriteResult
<1> QED
    BY <1>1, <1>2, <1>3, <1>4, <1>5, <1>6 DEF InvocationStep

(* Which step of an invocation writes what. *)
LEMMA InvocationWrites ==
    ASSUME NEW p \in Proc, InvocationStep(p)
    PROVE  /\ UNCHANGED <<source, snapshot, marker>>
           /\ completed' = completed \/ WriteCompleted(p)
           /\ result' = result \/ WriteResult(p)
           /\ latest' = latest \/ WriteLatest(p)
           /\ compared' = compared \/ Spawn(p)
<1> USE DEF env, audit, receiver
<1>1. CASE Leave(p) \/ LeaveOrphan(p) \/ WritePlan(p) \/ WriteLatest(p)
    BY <1>1 DEF Leave, LeaveOrphan, Crash, WritePlan, WriteLatest
<1>2. CASE \/ PlanStart(p) \/ ChooseBase(p)
           \/ \E r \in RunId : VerifyStart(p, r)
           \/ \E r \in RunId, a \in Approvals : RunStart(p, r, a)
    BY <1>2 DEF PlanStart, ChooseBase, VerifyStart, RunStart
<1>3. CASE AcquireLock(p) \/ Spawn(p) \/ DryRunDone(p) \/ WriteRequest(p)
    BY <1>3 DEF AcquireLock, Spawn, DryRunDone, WriteRequest
<1>4. CASE TransferReap(p) \/ CompareReap(p) \/ MarkerReap(p)
    BY <1>4 DEF TransferReap, CompareReap, MarkerReap
<1>5. CASE WriteCompleted(p) \/ WriteResult(p)
    BY <1>5 DEF WriteCompleted, WriteResult
<1> QED
    BY <1>1, <1>2, <1>3, <1>4, <1>5 DEF InvocationStep

(* What reading a file does to the locals of an rsync. *)
LEMMA ReadFields ==
    ASSUME IndInv, NEW p \in Proc, NEW f \in File, RsyncRead(p, f)
    PROVE  /\ child[p] \in Child /\ child'[p] \in Child
           /\ child'[p].task = child[p].task /\ child'[p].run = child[p].run
           /\ child[p].exit = "running" /\ child'[p].exit = "running"
           /\ child'[p].todo = child[p].todo \ {f}
           /\ child'[p].got = IF child[p].task = "transfer"
                                THEN [child[p].got EXCEPT ![f] = source[f]]
                                ELSE child[p].got
           /\ child'[p].diff = (child[p].diff \/ (child[p].task = "compare" /\
                                   source[f] \notin {Absent, snapshot[child[p].run][f]}))
<1> DEFINE c == child[p]
           g == [c.got EXCEPT ![f] = IF c.task = "transfer" THEN source[f] ELSE c.got[f]]
           d == c.diff \/ (c.task = "compare" /\ source[f] \notin {Absent, snapshot[c.run][f]})
<1>1. c \in Child
    BY DEF IndInv, TypeOK, RsyncRead, Running
<1>2. child'[p] = [c EXCEPT !.todo = c.todo \ {f}, !.got = g, !.diff = d]
    BY <1>1 DEF IndInv, TypeOK, RsyncRead, Child
<1>3. child'[p] \in Child
  <2>1. g \in Tree
    BY <1>1 DEF IndInv, TypeOK, Child, Tree, Content
  <2>2. d \in BOOLEAN
    BY <1>1 DEF Child
  <2> HIDE DEF g, d
  <2> QED
    BY <1>1, <1>2, <2>1, <2>2 DEF Child
<1>4. /\ child'[p].task = c.task /\ child'[p].run = c.run /\ child'[p].exit = c.exit
      /\ child'[p].todo = c.todo \ {f} /\ child'[p].got = g /\ child'[p].diff = d
  <2> HIDE DEF g, d
  <2> QED
    BY <1>1, <1>2 DEF Child
<1>5. c.task # "transfer" => g = c.got
    BY <1>1 DEF Child, Tree
<1> QED
    BY <1>1, <1>3, <1>4, <1>5 DEF RsyncRead, Running

-----------------------------------------------------------------------------
(* Without kills there are no orphans. *)

LEMMA NobodyCrashedInv ==
    ASSUME ~MayCrash, IndInv, NobodyCrashed, [Next]_vars
    PROVE  NobodyCrashed'
<1> USE DEF NobodyCrashed, IndInv, TypeOK
<1>1. CASE UNCHANGED vars
    BY <1>1 DEF vars
<1>2. CASE Producer
    BY <1>2 DEF Producer, ProducerMarks, SourceChanges, ConfigChanges
<1>3. ASSUME NEW p \in Proc, RsyncStep(p) PROVE NobodyCrashed'
    BY <1>3 DEF RsyncStep, RsyncSucceeds, RsyncStops, RsyncRead
<1>4. ASSUME NEW p \in Proc, InvocationStep(p), NEW q \in Proc PROVE pc'[q] # "crashed"
  <2> USE DEF Goto, Begin, Return, Execute, Conclude
  <2>1. CASE Leave(p) \/ LeaveOrphan(p) \/ WritePlan(p) \/ WriteLatest(p)
    BY <2>1 DEF Leave, LeaveOrphan, WritePlan, WriteLatest
  <2>2. CASE \/ PlanStart(p) \/ ChooseBase(p)
             \/ \E r \in RunId : VerifyStart(p, r)
             \/ \E r \in RunId, a \in Approvals : RunStart(p, r, a)
    BY <2>2 DEF PlanStart, ChooseBase, VerifyStart, RunStart
  <2>3. CASE AcquireLock(p) \/ Spawn(p) \/ DryRunDone(p) \/ WriteRequest(p)
    BY <2>3 DEF AcquireLock, Spawn, DryRunDone, WriteRequest
  <2>4. CASE TransferReap(p) \/ CompareReap(p) \/ MarkerReap(p)
    BY <2>4 DEF TransferReap, CompareReap, MarkerReap
  <2>5. CASE WriteCompleted(p) \/ WriteResult(p)
    BY <2>5 DEF WriteCompleted, WriteResult
  <2> QED
    BY <1>4, <2>1, <2>2, <2>3, <2>4, <2>5 DEF InvocationStep
<1> QED
    BY <1>1, <1>2, <1>3, <1>4, StepCases DEF NobodyCrashed

LEMMA NobodyCrashes ==
    ASSUME ~MayCrash
    PROVE  Spec => []NobodyCrashed
<1>1. Init => NobodyCrashed
    BY DEF Init, NobodyCrashed
<1>2. IndInv /\ NobodyCrashed /\ [Next]_vars => NobodyCrashed'
    BY NobodyCrashedInv
<1> QED
    BY <1>1, <1>2, Invariance, PTL DEF Spec

(* Two rsync processes of the job run at once only where an invocation may *)
(* be killed: the child of one that is not killed ends before the lock is  *)
(* dropped.                                                                *)
THEOREM OverlapNeedsAKill ==
    ASSUME ~MayCrash
    PROVE  Spec => []NoOverlap
<1>1. IndInv /\ NobodyCrashed => NoOverlap
    BY DEF IndInv, Control, OneOperationAtATime, Locked, NobodyCrashed, NoOverlap, Running
<1> QED
    BY <1>1, Invariance, NobodyCrashes, PTL

-----------------------------------------------------------------------------
(* The marker follows the comparison. *)

Evidenced(p) == call[p] # None /\ call[p].op = "run" => ComparedFirst!(p)!2

LEMMA ComparedFirstStep ==
    ASSUME IndInv, ComparedFirst, NEW p \in Proc, InvocationStep(p)
    PROVE  Evidenced(p)'
<1> USE DEF Evidenced, Goto, Begin, IndInv, TypeOK, Control, Ok, Clean
<1>0. Evidenced(p)
    BY DEF ComparedFirst
<1>1. CASE Leave(p) \/ LeaveOrphan(p) \/ WritePlan(p) \/ WriteLatest(p)
    BY <1>1 DEF Leave, LeaveOrphan, Crash, Return, WritePlan, WriteLatest
<1>2. CASE PlanStart(p) \/ ChooseBase(p) \/ \E r \in RunId : VerifyStart(p, r)
    BY <1>2 DEF PlanStart, ChooseBase, VerifyStart, Call
<1>3. ASSUME NEW r \in RunId, NEW a \in Approvals, RunStart(p, r, a) PROVE Evidenced(p)'
    BY <1>3 DEF RunStart
<1>4. CASE AcquireLock(p) \/ DryRunDone(p) \/ WriteRequest(p)
    BY <1>0, <1>4 DEF AcquireLock, DryRunDone, WriteRequest
<1>5. CASE Spawn(p)
    BY <1>0, <1>5 DEF Spawn
<1>6. CASE TransferReap(p)
    BY <1>0, <1>6 DEF TransferReap, Finished, Execute, Conclude, Call
<1>7. CASE CompareReap(p)
    BY <1>0, <1>7 DEF CompareReap, Finished, Execute, Conclude, Call
<1>8. CASE MarkerReap(p)
    BY <1>0, <1>8 DEF MarkerReap, Finished, Conclude, Call
<1>9. CASE WriteCompleted(p) \/ WriteResult(p)
    BY <1>0, <1>9 DEF WriteCompleted, WriteResult
<1> QED
    BY <1>1, <1>2, <1>3, <1>4, <1>5, <1>6, <1>7, <1>8, <1>9 DEF InvocationStep

(* Only the holder of the lock starts a transfer, so that the evidence of  *)
(* the others stays.                                                       *)
LEMMA ComparedFirstOthers ==
    ASSUME IndInv, ComparedFirst, NEW p \in Proc, InvocationStep(p), NEW q \in Proc \ {p}
    PROVE  Evidenced(q)'
<1>0. Evidenced(q)
    BY DEF ComparedFirst, Evidenced
<1>1. call'[q] = call[q] /\ pc'[q] = pc[q] /\ child'[q] = child[q]
    BY OthersStay
<1>2. CASE compared' = compared
    BY <1>0, <1>1, <1>2 DEF Evidenced, Clean, Ok
<1>3. CASE Spawn(p)
  <2>1. lock = p /\ pc[q] \notin Locked
    BY <1>3 DEF Spawn, IndInv, OneOperationAtATime, Locked
  <2>2. call[q] # None /\ call[q].op = "run" => pc[q] = "lock" /\ call[q].task = "transfer"
    BY <2>1, <1>0 DEF IndInv, TypeOK, PC, Locked, Control, Evidenced
  <2> QED
    BY <1>1, <2>1, <2>2 DEF Evidenced, Clean, Ok
<1> QED
    BY <1>2, <1>3, InvocationWrites

LEMMA ComparedFirstRsync ==
    ASSUME IndInv, ComparedFirst, NEW p \in Proc, RsyncStep(p), NEW q \in Proc
    PROVE  Evidenced(q)'
<1> USE DEF IndInv, TypeOK, Running
<1>0. Evidenced(q)
    BY DEF ComparedFirst, Evidenced
<1>1. call' = call /\ pc' = pc /\ (q # p => child'[q] = child[q])
    BY DEF RsyncStep, RsyncSucceeds, RsyncStops, RsyncRead
<1>2. CASE q # p
  <2>1. compared \subseteq compared'
    BY DEF RsyncStep, RsyncSucceeds, RsyncStops, RsyncRead
  <2> QED
    BY <1>0, <1>1, <1>2, <2>1 DEF Evidenced, Clean, Ok
<1>3. CASE q = p /\ (RsyncStops(p) \/ \E f \in File : RsyncRead(p, f))
  <2>1. child'[p].exit # "ok"
    <3>1. RsyncStops(p) => child'[p].exit # "ok"
        BY DEF RsyncStops, Child
    <3>2. ASSUME NEW f \in File, RsyncRead(p, f) PROVE child'[p].exit # "ok"
      <4> HIDE DEF IndInv, TypeOK, Running
      <4>1. child'[p].exit = "running"
        BY <3>2, ReadFields
      <4> QED
        BY <4>1
    <3> QED
        BY <1>3, <3>1, <3>2
  <2>2. compared' = compared
    BY <1>3 DEF RsyncStops, RsyncRead
  <2> QED
    BY <1>0, <1>1, <1>3, <2>1, <2>2 DEF Evidenced, Clean, Ok
<1>4. CASE q = p /\ RsyncSucceeds(p)
  <2>1. /\ child'[p].diff = child[p].diff /\ compared \subseteq compared'
        /\ child[p].task = "compare" /\ Alive(p) /\ call[p].op = "run" /\ ~child[p].diff =>
              child[p].run \in compared'
    BY <1>4 DEF RsyncSucceeds, Child
  <2>2. pc[p] = "wait" => child[p].task = call[p].task /\ child[p].run = call[p].run
    BY DEF Control
  <2> QED
    BY <1>0, <1>1, <1>4, <2>1, <2>2 DEF Evidenced, Clean, Ok, Alive
<1> QED
    BY <1>2, <1>3, <1>4 DEF RsyncStep

LEMMA ComparedFirstInv ==
    ASSUME IndInv, ComparedFirst, [Next]_vars
    PROVE  ComparedFirst'
<1> SUFFICES ASSUME NEW q \in Proc PROVE Evidenced(q)'
    BY DEF ComparedFirst, Evidenced
<1>0. Evidenced(q)
    BY DEF ComparedFirst, Evidenced
<1>1. CASE UNCHANGED vars \/ Producer
  <2>1. UNCHANGED <<call, pc, child, compared>>
    BY <1>1 DEF vars, Producer, ProducerMarks, SourceChanges, ConfigChanges
  <2> QED
    BY <1>0, <2>1 DEF Evidenced, Clean, Ok
<1>2. ASSUME NEW p \in Proc, InvocationStep(p) PROVE Evidenced(q)'
    BY <1>2, ComparedFirstStep, ComparedFirstOthers
<1>3. ASSUME NEW p \in Proc, RsyncStep(p) PROVE Evidenced(q)'
    BY <1>3, ComparedFirstRsync
<1> QED
    BY <1>1, <1>2, <1>3, StepCases

LEMMA ComparisonsComeFirst == Spec => []ComparedFirst
<1>1. Init => ComparedFirst
    BY DEF Init, ComparedFirst
<1>2. IndInv /\ ComparedFirst /\ [Next]_vars => ComparedFirst'
    BY ComparedFirstInv
<1> QED
    BY <1>1, <1>2, Invariance, PTL DEF Spec

(* The marker is uploaded by the child of a run that is at its marker.     *)
LEMMA MarkerStep ==
    ASSUME IndInv, NobodyCrashed, ComparedFirst, [Next]_vars,
           NEW r \in marker' \ marker, plan[r].config \in VerifyingConfig
    PROVE  r \in compared
<1>1. PICK p \in Proc : RsyncStep(p)
  <2>1. CASE UNCHANGED vars \/ Producer
    BY <2>1 DEF vars, receiver, Producer, ProducerMarks, SourceChanges, ConfigChanges
  <2> QED
    BY <2>1, StepCases, InvocationWrites
<1>2. child[p].task = "marker" /\ child[p].run = r /\ child[p] # None
    BY <1>1 DEF RsyncStep, RsyncSucceeds, RsyncStops, RsyncRead, Running, receiver
<1>3. pc[p] = "wait" /\ call[p] # None /\ call[p].task = "marker" /\ call[p].run = r
    BY <1>2 DEF IndInv, Control, NobodyCrashed
<1>4. call[p].op = "run"
    BY <1>3 DEF IndInv, Control, TypeOK, Call
<1>5. call[p].cfg = plan[r].config
    BY <1>3, <1>4 DEF IndInv, RunIsApproved, Alive
<1> QED
    BY <1>3, <1>4, <1>5 DEF ComparedFirst

(* With verify_after_run, whatever the number of invocations and whatever  *)
(* writes fail, no marker goes up without a clean comparison after the     *)
(* latest transfer.  An orphan of a killed run might bring one later.      *)
THEOREM MarkersAreVerified ==
    ASSUME ~MayCrash
    PROVE  Spec => MarkedAfterComparison
<1>1. IndInv /\ NobodyCrashed /\ ComparedFirst /\ [Next]_vars =>
        [\A r \in marker' \ marker :
            plan[r].config \in VerifyingConfig => r \in compared]_vars
    BY MarkerStep
<1> QED
    BY <1>1, Invariance, NobodyCrashes, ComparisonsComeFirst, PTL
    DEF Spec, MarkedAfterComparison

-----------------------------------------------------------------------------
(* The status follows the history. *)

(* Only two steps have to do with "latest": into it and out of it.         *)
LEMMA AwayFromLatest ==
    ASSUME ~MayCrash, ~MayFailIO, IndInv, NEW p \in Proc, InvocationStep(p),
           ~WriteResult(p), ~WriteLatest(p)
    PROVE  pc[p] # "latest" /\ pc'[p] # "latest"
<1> USE DEF IndInv, TypeOK, Goto, Begin, Return, Execute, Conclude
<1>1. CASE Leave(p) \/ LeaveOrphan(p) \/ WritePlan(p)
    BY <1>1 DEF Leave, LeaveOrphan, WritePlan
<1>2. CASE \/ PlanStart(p) \/ ChooseBase(p)
           \/ \E r \in RunId : VerifyStart(p, r)
           \/ \E r \in RunId, a \in Approvals : RunStart(p, r, a)
    BY <1>2 DEF PlanStart, ChooseBase, VerifyStart, RunStart
<1>3. CASE AcquireLock(p) \/ Spawn(p) \/ DryRunDone(p) \/ WriteRequest(p)
    BY <1>3 DEF AcquireLock, Spawn, DryRunDone, WriteRequest, Finished
<1>4. CASE TransferReap(p) \/ CompareReap(p) \/ MarkerReap(p)
    BY <1>4 DEF TransferReap, CompareReap, MarkerReap, Finished
<1>5. CASE WriteCompleted(p)
    BY <1>5 DEF WriteCompleted
<1> QED
    BY <1>1, <1>2, <1>3, <1>4, <1>5 DEF InvocationStep

LEMMA StatusFollowsStep ==
    ASSUME ~MayCrash, ~MayFailIO, IndInv, StatusFollows, NEW p \in Proc, InvocationStep(p)
    PROVE  StatusFollows'
<1> USE DEF StatusFollows, status_job, history_job
<1>1. CASE WriteResult(p)
  <2>1. /\ pc'[p] = "latest" /\ call' = call
        /\ call[p].run \in RunId /\ result'[call[p].run] = call[p].status
    BY <1>1 DEF WriteResult, Goto, IndInv, TypeOK, Control, Call
  <2>2. \A q \in Proc \ {p} : pc'[q] # "latest"
    BY <1>1 DEF WriteResult, Goto, IndInv, TypeOK, OneOperationAtATime, Locked
  <2> QED
    BY <2>1, <2>2
<1>2. CASE WriteLatest(p)
  <2>1. \A q \in Proc : pc'[q] # "latest"
    BY <1>2 DEF WriteLatest, Return, IndInv, TypeOK, OneOperationAtATime, Locked
  <2>2. /\ call[p].run \in RunId /\ result' = result
        /\ latest' = [run |-> call[p].run, status |-> result[call[p].run]]
        /\ result[call[p].run] \in Status
    BY <1>2 DEF WriteLatest, LatestRecord, IndInv, TypeOK, Control, Call
  <2>3. latest' # None /\ result[call[p].run] # None
    BY <2>2 DEF LatestRecords
  <2> QED
    BY <2>1, <2>2, <2>3
<1>3. CASE ~WriteResult(p) /\ ~WriteLatest(p)
  <2>1. pc[p] # "latest" /\ pc'[p] # "latest" /\ result' = result /\ latest' = latest
    BY <1>3, AwayFromLatest, InvocationWrites
  <2>2. \A q \in Proc \ {p} : call'[q] = call[q] /\ pc'[q] = pc[q]
    BY OthersStay
  <2> QED
    BY <2>1, <2>2
<1> QED
    BY <1>1, <1>2, <1>3

LEMMA StatusFollowsInv ==
    ASSUME ~MayCrash, ~MayFailIO, IndInv, StatusFollows, [Next]_vars
    PROVE  StatusFollows'
<1>1. CASE UNCHANGED vars \/ Producer \/ \E p \in Proc : RsyncStep(p)
  <2>1. UNCHANGED <<pc, call, result, latest>>
    BY <1>1 DEF vars, Producer, ProducerMarks, SourceChanges, ConfigChanges, RsyncStep,
                RsyncSucceeds, RsyncStops, RsyncRead, audit
  <2> QED
    BY <2>1 DEF StatusFollows, status_job, history_job
<1>2. ASSUME NEW p \in Proc, InvocationStep(p) PROVE StatusFollows'
    BY <1>2, StatusFollowsStep
<1> QED
    BY <1>1, <1>2, StepCases

(* `status` agrees with the history whenever the job is unlocked, for any  *)
(* number of invocations, as long as none is killed or fails to write      *)
(* between result.json and latest/<job>.json.                              *)
THEOREM StatusAgreesWithHistory ==
    ASSUME ~MayCrash, ~MayFailIO
    PROVE  Spec => []StatusIsAuthoritative
<1>1. Init => StatusFollows
    BY DEF Init, StatusFollows, status_job, history_job
<1>2. IndInv /\ StatusFollows /\ [Next]_vars => StatusFollows'
    BY StatusFollowsInv
<1>3. IndInv /\ StatusFollows => StatusIsAuthoritative
    BY DEF IndInv, TypeOK, OneOperationAtATime, Locked, StatusFollows, StatusIsAuthoritative
<1> QED
    BY <1>1, <1>2, <1>3, Invariance, PTL DEF Spec

-----------------------------------------------------------------------------
(* A success is final. *)

(* What an rsync does to the rest of the state, and to its own identity.   *)
LEMMA RsyncKeeps ==
    ASSUME IndInv, NEW p \in Proc, RsyncStep(p)
    PROVE  /\ UNCHANGED <<pc, call, source, completed, result>>
           /\ child[p] \in Child /\ child'[p] \in Child /\ child[p].exit = "running"
           /\ child'[p].task = child[p].task /\ child'[p].run = child[p].run
<1>1. CASE RsyncSucceeds(p) \/ RsyncStops(p)
    BY <1>1 DEF RsyncSucceeds, RsyncStops, Running, IndInv, TypeOK, Child, env, audit
<1>2. ASSUME NEW f \in File, RsyncRead(p, f)
      PROVE  UNCHANGED <<pc, call, source, completed, result>>
    BY <1>2 DEF RsyncRead, env, audit
<1>3. ASSUME NEW f \in File, RsyncRead(p, f)
      PROVE  /\ child[p] \in Child /\ child'[p] \in Child /\ child[p].exit = "running"
             /\ child'[p].task = child[p].task /\ child'[p].run = child[p].run
    BY <1>3, ReadFields
<1> QED
    BY <1>1, <1>2, <1>3 DEF RsyncStep

(* An invocation keeps its child as it is, reaps it, or starts it.         *)
LEMMA ChildOfStep ==
    ASSUME IndInv, NEW p \in Proc, InvocationStep(p)
    PROVE  child'[p] = child[p] \/ child'[p] = None \/ Spawn(p)
<1> USE DEF IndInv, TypeOK, Reap
<1>1. CASE Leave(p) \/ LeaveOrphan(p) \/ WritePlan(p) \/ WriteLatest(p)
    BY <1>1 DEF Leave, LeaveOrphan, Crash, WritePlan, WriteLatest
<1>2. CASE \/ PlanStart(p) \/ ChooseBase(p)
           \/ \E r \in RunId : VerifyStart(p, r)
           \/ \E r \in RunId, a \in Approvals : RunStart(p, r, a)
    BY <1>2 DEF PlanStart, ChooseBase, VerifyStart, RunStart
<1>3. CASE AcquireLock(p) \/ DryRunDone(p) \/ WriteRequest(p)
    BY <1>3 DEF AcquireLock, DryRunDone, WriteRequest
<1>4. CASE TransferReap(p) \/ CompareReap(p) \/ MarkerReap(p)
    BY <1>4 DEF TransferReap, CompareReap, MarkerReap
<1>5. CASE WriteCompleted(p) \/ WriteResult(p)
    BY <1>5 DEF WriteCompleted, WriteResult
<1> QED
    BY <1>1, <1>2, <1>3, <1>4, <1>5 DEF InvocationStep

(* Only a transfer carries content. *)
LEMMA CarriesNothingInv ==
    ASSUME IndInv, CarriesNothing, [Next]_vars
    PROVE  CarriesNothing'
<1> SUFFICES ASSUME NEW q \in Proc, child'[q] # None, child'[q].task # "transfer"
             PROVE  child'[q].got = Empty
    BY DEF CarriesNothing, Empty
<1>0. child[q] # None /\ child[q].task # "transfer" => child[q].got = Empty
    BY DEF CarriesNothing
<1>1. CASE child'[q] = child[q]
    BY <1>0, <1>1
<1>2. ASSUME child'[q] # child[q], NEW p \in Proc, InvocationStep(p)
      PROVE  child'[q].got = Empty
  <2>1. p = q /\ Spawn(q)
    BY <1>2, OthersStay, ChildOfStep
  <2> QED
    BY <2>1 DEF Spawn, IndInv, TypeOK
<1>3. ASSUME child'[q] # child[q], NEW p \in Proc, RsyncStep(p)
      PROVE  child'[q].got = Empty
  <2>1. p = q
    BY <1>3, OthersStay
  <2>2. child[q] \in Child /\ child[q].got = Empty
    BY <1>0, <1>3, <2>1, RsyncKeeps
  <2>3. CASE RsyncSucceeds(q) \/ RsyncStops(q)
    BY <2>2, <2>3 DEF RsyncSucceeds, RsyncStops, IndInv, TypeOK, Child
  <2>4. ASSUME NEW f \in File, RsyncRead(q, f) PROVE child'[q].got = Empty
    BY <2>2, <2>4, ReadFields
  <2> QED
    BY <1>3, <2>1, <2>3, <2>4 DEF RsyncStep
<1>4. CASE UNCHANGED vars \/ Producer
    BY <1>0, <1>4 DEF vars, Producer, ProducerMarks, SourceChanges, ConfigChanges
<1> QED
    BY <1>1, <1>2, <1>3, <1>4, StepCases

LEMMA OnlyTransfersCarry == Spec => []CarriesNothing
<1>1. Init => CarriesNothing
    BY DEF Init, CarriesNothing
<1>2. IndInv /\ CarriesNothing /\ [Next]_vars => CarriesNothing'
    BY CarriesNothingInv
<1> QED
    BY <1>1, <1>2, Invariance, PTL DEF Spec

(* An invocation comes to work on a run only by starting it.               *)
LEMMA WorksOnStep ==
    ASSUME IndInv, NEW p \in Proc, InvocationStep(p), NEW r \in RunId, WorksOn(p, r)'
    PROVE  \/ WorksOn(p, r) /\ pc[p] # "latest"
           \/ \E a \in Approvals : RunStart(p, r, a)
<1> USE DEF WorksOn, IndInv, TypeOK, Control, Goto, Begin, Reap, Finished
<1>1. CASE Leave(p) \/ WritePlan(p) \/ WriteLatest(p)
    BY <1>1 DEF Leave, Return, WritePlan, WriteLatest
<1>2. CASE LeaveOrphan(p)
    BY <1>2 DEF LeaveOrphan, Crash, Running
<1>3. CASE PlanStart(p) \/ ChooseBase(p) \/ \E x \in RunId : VerifyStart(p, x)
    BY <1>3 DEF PlanStart, ChooseBase, VerifyStart, Call
<1>4. ASSUME NEW x \in RunId, NEW a \in Approvals, RunStart(p, x, a) PROVE x = r
    BY <1>4 DEF RunStart
<1>5. CASE Spawn(p)
    BY <1>5 DEF Spawn, Call
<1>6. CASE AcquireLock(p) \/ DryRunDone(p) \/ WriteRequest(p)
    BY <1>6 DEF AcquireLock, DryRunDone, WriteRequest
<1>7. CASE TransferReap(p) \/ CompareReap(p) \/ MarkerReap(p)
    BY <1>7 DEF TransferReap, CompareReap, MarkerReap, Execute, Conclude, Call
<1>8. CASE WriteCompleted(p) \/ WriteResult(p)
    BY <1>8 DEF WriteCompleted, WriteResult
<1> QED
    BY <1>1, <1>2, <1>3, <1>4, <1>5, <1>6, <1>7, <1>8 DEF InvocationStep

LEMMA NotYetDoneStep ==
    ASSUME IndInv, OneRunPerId, NotYetDone, NEW p \in Proc, InvocationStep(p)
    PROVE  NotYetDone'
<1> SUFFICES ASSUME NEW q \in Proc, NEW r \in RunId, result'[r] = "success", WorksOn(q, r)'
             PROVE  pc'[q] = "latest"
    BY DEF NotYetDone, Successful
<1>0. result[r] = "success" /\ WorksOn(q, r) => pc[q] = "latest"
    BY DEF NotYetDone, Successful
<1>1. WriteResult(p) => WorksOn(p, call[p].run) /\ pc'[p] = "latest"
    BY DEF WriteResult, Goto, WorksOn, IndInv, TypeOK, Control
<1>2. result[r] = "success" \/ (WriteResult(p) /\ r = call[p].run)
    BY InvocationWrites DEF WriteResult, IndInv, TypeOK
<1>3. CASE q # p
  <2>1. WorksOn(q, r) /\ pc'[q] = pc[q]
    BY <1>3, OthersStay DEF WorksOn
  <2> QED
    BY <2>1, <1>0, <1>1, <1>2, <1>3 DEF OneRunPerId
<1>4. CASE q = p /\ ~WriteResult(p)
  <2>1. ASSUME NEW a \in Approvals, RunStart(p, r, a) PROVE FALSE
    BY <2>1, <1>2, <1>4 DEF RunStart, AlreadyDone
  <2> QED
    BY <2>1, <1>0, <1>2, <1>4, WorksOnStep
<1> QED
    BY <1>1, <1>3, <1>4

LEMMA NotYetDoneInv ==
    ASSUME IndInv, OneRunPerId, NotYetDone, [Next]_vars
    PROVE  NotYetDone'
<1> USE DEF NotYetDone, Successful, WorksOn
<1>1. CASE UNCHANGED vars \/ Producer
  <2>1. UNCHANGED <<pc, call, child, result>>
    BY <1>1 DEF vars, Producer, ProducerMarks, SourceChanges, ConfigChanges, audit
  <2> QED
    BY <2>1
<1>2. ASSUME NEW p \in Proc, RsyncStep(p) PROVE NotYetDone'
  <2>1. UNCHANGED <<pc, call, result>>
    BY <1>2, RsyncKeeps
  <2>2. /\ child[p] # None
        /\ child'[p].task = child[p].task /\ child'[p].run = child[p].run
        /\ \A q \in Proc \ {p} : child'[q] = child[q]
    BY <1>2, RsyncKeeps, OthersStay
  <2> QED
    BY <2>1, <2>2
<1>3. ASSUME NEW p \in Proc, InvocationStep(p) PROVE NotYetDone'
    BY <1>3, NotYetDoneStep
<1> QED
    BY <1>1, <1>2, <1>3, StepCases

(* What is renamed into a successful run is nothing.                       *)
LEMMA SnapshotStays ==
    ASSUME IndInv, CarriesNothing, NotYetDone, NEW p \in Proc, RsyncStep(p),
           NEW r \in Successful
    PROVE  snapshot'[r] = snapshot[r]
<1>1. ASSUME NEW f \in File, RsyncRead(p, f) PROVE snapshot'[r] = snapshot[r]
    BY <1>1 DEF RsyncRead, receiver
<1>2. ASSUME NEW S \in SUBSET File, Install(child[p], S) PROVE snapshot'[r] = snapshot[r]
  <2>1. r \in RunId /\ snapshot[r] \in Tree /\ child[p] \in Child /\ child[p] # None
    BY RsyncKeeps DEF Successful, IndInv, TypeOK
  <2>2. CASE child[p].run # r
    BY <1>2, <2>1, <2>2 DEF Install, IndInv, TypeOK, Child
  <2>3. CASE child[p].run = r
    <3>1. child[p].task # "transfer"
        BY <2>1, <2>3 DEF NotYetDone, WorksOn, IndInv, Control
    <3>2. child[p].got = Empty
        BY <2>1, <3>1 DEF CarriesNothing
    <3>3. snapshot'[r] = [f \in File |-> snapshot[r][f]]
        BY <1>2, <2>1, <2>3, <3>2 DEF Install, Empty, IndInv, TypeOK
    <3> QED
        BY <2>1, <3>3 DEF Tree
  <2> QED
    BY <2>2, <2>3
<1> QED
    BY <1>1, <1>2 DEF RsyncStep, RsyncSucceeds, RsyncStops

LEMMA FinalStep ==
    ASSUME IndInv, CarriesNothing, NotYetDone, [Next]_vars, NEW r \in Successful
    PROVE  result'[r] = "success" /\ snapshot'[r] = snapshot[r]
<1>0. r \in RunId /\ result[r] = "success"
    BY DEF Successful
<1>1. CASE UNCHANGED vars \/ Producer
    BY <1>0, <1>1 DEF vars, Producer, ProducerMarks, SourceChanges, ConfigChanges, audit, receiver
<1>2. ASSUME NEW p \in Proc, RsyncStep(p)
      PROVE  result'[r] = "success" /\ snapshot'[r] = snapshot[r]
    BY <1>0, <1>2, RsyncKeeps, SnapshotStays
<1>3. ASSUME NEW p \in Proc, InvocationStep(p)
      PROVE  result'[r] = "success" /\ snapshot'[r] = snapshot[r]
  <2>1. snapshot' = snapshot /\ (result' = result \/ WriteResult(p))
    BY <1>3, InvocationWrites
  <2>2. WriteResult(p) => call[p].run # r
    BY <1>0 DEF WriteResult, NotYetDone, WorksOn, IndInv, Control
  <2> QED
    BY <1>0, <2>1, <2>2 DEF WriteResult, IndInv, TypeOK
<1> QED
    BY <1>1, <1>2, <1>3, StepCases

(* As long as no two invocations (or what a killed one left behind) work   *)
(* on one run id at once, a run that once had success keeps its result and *)
(* every file of its snapshot, whatever crashes and fails around it.       *)
THEOREM SuccessIsFinalApart == Spec /\ []OneRunPerId => RecoveryPointIsFinal
<1>1. Init => NotYetDone
    BY DEF Init, NotYetDone, WorksOn
<1>2. IndInv /\ OneRunPerId /\ NotYetDone /\ [Next]_vars => NotYetDone'
    BY NotYetDoneInv
<1>3. IndInv /\ CarriesNothing /\ NotYetDone /\ [Next]_vars =>
        [\A r \in Successful : result'[r] = "success" /\ snapshot'[r] = snapshot[r]]_vars
    BY FinalStep
<1> QED
    BY <1>1, <1>2, <1>3, Invariance, OnlyTransfersCarry, PTL DEF Spec, RecoveryPointIsFinal

(* In particular when the job's invocations come one after the other.      *)
THEOREM SuccessIsFinal ==
    ASSUME \A p, q \in Proc : p = q
    PROVE  Spec => RecoveryPointIsFinal
<1>1. OneRunPerId
    BY DEF OneRunPerId
<1> QED
    BY <1>1, SuccessIsFinalApart, PTL

-----------------------------------------------------------------------------
(* A source at rest is copied as it is. *)

AsItIs(p) == child[p] # None => ReadAsItIs!(p)!2

(* The producer of a quiet source changes it only where nobody reads it.   *)
LEMMA ProducerWaits ==
    ASSUME QuietSource, IndInv, Producer
    PROVE  /\ UNCHANGED <<pc, call, child, completed, snapshot>>
           /\ source' = source \/ \A q \in Proc : call[q] = None /\ child[q] = None
<1>1. UNCHANGED <<pc, call, child, completed, snapshot>>
    BY DEF Producer, ProducerMarks, SourceChanges, ConfigChanges, audit, receiver
<1>2. source' = source \/ Quiet
    BY DEF Producer, ProducerMarks, SourceChanges, ConfigChanges
<1> QED
    BY <1>1, <1>2 DEF Quiet, IndInv, Control

(* What is renamed into place comes from the source as it is.              *)
LEMMA InstallsSource ==
    ASSUME IndInv, CarriesNothing, ReadAsItIs, NEW p \in Proc, RsyncStep(p),
           NEW r \in RunId, NEW f \in File
    PROVE  snapshot'[r][f] \in {snapshot[r][f], source[f]}
<1>0. child[p] \in Child /\ child[p] # None
    BY RsyncKeeps
<1>1. ASSUME NEW g \in File, RsyncRead(p, g) PROVE snapshot' = snapshot
    BY <1>1 DEF RsyncRead, receiver
<1>2. child[p].got[f] \in {Absent, source[f]}
    BY <1>0 DEF CarriesNothing, Empty, ReadAsItIs
<1>3. ASSUME NEW S \in SUBSET File, Install(child[p], S)
      PROVE  snapshot'[r][f] \in {snapshot[r][f], source[f]}
  <2>1. CASE child[p].run # r
    BY <1>0, <1>3, <2>1 DEF Install, IndInv, TypeOK, Child
  <2>2. CASE child[p].run = r
    <3>1. snapshot'[r] = [g \in File |-> IF g \in S /\ child[p].got[g] # Absent
                                           THEN child[p].got[g] ELSE snapshot[r][g]]
        BY <1>3, <2>2 DEF Install, IndInv, TypeOK
    <3> QED
        BY <3>1, <1>2
  <2> QED
    BY <2>1, <2>2
<1> QED
    BY <1>1, <1>3 DEF RsyncStep, RsyncSucceeds, RsyncStops

(* The reads of one rsync. *)
LEMMA AsItIsRead ==
    ASSUME IndInv, CarriesNothing, ReadAsItIs, NEW p \in Proc, NEW f \in File, RsyncRead(p, f)
    PROVE  AsItIs(p)'
<1> USE DEF AsItIs
<1>0. AsItIs(p) /\ child[p] # None
    BY DEF ReadAsItIs, RsyncRead, Running
<1>1. UNCHANGED <<source, snapshot>>
    BY DEF RsyncRead, env, receiver
<1>2. child'[p].exit # "ok"
    BY ReadFields
<1>3. ASSUME child'[p].task = "transfer", NEW g \in File
      PROVE  child'[p].got[g] = IF g \in child'[p].todo THEN Absent ELSE source[g]
  <2>1. child[p].task = "transfer" /\ child[p].got \in Tree
        /\ child'[p].got = [child[p].got EXCEPT ![f] = source[f]]
        /\ child'[p].todo = child[p].todo \ {f}
    BY <1>3, ReadFields DEF Child
  <2> QED
    BY <1>0, <2>1 DEF Tree
<1>4. ASSUME child'[p].task = "compare", ~child'[p].diff, NEW g \in File \ child'[p].todo
      PROVE  source[g] \in {Absent, snapshot[child'[p].run][g]}
  <2>1. /\ child[p].task = "compare" /\ child'[p].run = child[p].run
        /\ child'[p].todo = child[p].todo \ {f}
        /\ ~child[p].diff /\ source[f] \in {Absent, snapshot[child[p].run][f]}
    BY <1>4, ReadFields
  <2> QED
    BY <1>0, <1>4, <2>1
<1> QED
    BY <1>1, <1>2, <1>3, <1>4

LEMMA AsItIsRsync ==
    ASSUME IndInv, CarriesNothing, ReadAsItIs, NEW p \in Proc, RsyncStep(p), NEW q \in Proc
    PROVE  AsItIs(q)'
<1>0. AsItIs(q)
    BY DEF ReadAsItIs, AsItIs
<1>1. source' = source
    BY RsyncKeeps
<1>2. child[q] # None => \A f \in File :
        snapshot'[child[q].run][f] \in {snapshot[child[q].run][f], source[f]}
    BY InstallsSource DEF IndInv, TypeOK, Child
<1>3. CASE q # p
  <2>1. child'[q] = child[q]
    BY <1>3, OthersStay
  <2> QED
    BY <1>0, <1>1, <1>2, <2>1 DEF AsItIs
<1>4. CASE q = p /\ (RsyncSucceeds(p) \/ RsyncStops(p))
  <2>1. /\ child[p] # None /\ child'[p].task = child[p].task /\ child'[p].run = child[p].run
        /\ child'[p].todo = child[p].todo /\ child'[p].got = child[p].got
        /\ child'[p].diff = child[p].diff
        /\ child'[p].exit = "ok" => child[p].todo = {}
    BY <1>4 DEF RsyncSucceeds, RsyncStops, Running, IndInv, TypeOK, Child
  <2> QED
    BY <1>0, <1>1, <1>2, <1>4, <2>1 DEF AsItIs
<1>5. ASSUME NEW f \in File, q = p, RsyncRead(p, f) PROVE AsItIs(q)'
    BY <1>5, AsItIsRead
<1> QED
    BY <1>3, <1>4, <1>5 DEF RsyncStep

LEMMA ReadAsItIsInv ==
    ASSUME QuietSource, IndInv, CarriesNothing, ReadAsItIs, [Next]_vars
    PROVE  ReadAsItIs'
<1> SUFFICES ASSUME NEW q \in Proc PROVE AsItIs(q)'
    BY DEF ReadAsItIs, AsItIs
<1>0. AsItIs(q)
    BY DEF ReadAsItIs, AsItIs
<1>1. CASE UNCHANGED vars
    BY <1>0, <1>1 DEF vars, AsItIs
<1>2. CASE Producer
    BY <1>0, <1>2, ProducerWaits DEF AsItIs
<1>3. ASSUME NEW p \in Proc, InvocationStep(p) PROVE AsItIs(q)'
  <2>1. UNCHANGED <<source, snapshot>>
    BY <1>3, InvocationWrites
  <2>2. child'[q] = child[q] \/ child'[q] = None \/ Spawn(q)
    BY <1>3, OthersStay, ChildOfStep
  <2>3. ASSUME Spawn(q) PROVE AsItIs(q)'
    BY <2>3 DEF Spawn, AsItIs, Empty, IndInv, TypeOK
  <2> QED
    BY <1>0, <2>1, <2>2, <2>3 DEF AsItIs
<1>4. ASSUME NEW p \in Proc, RsyncStep(p) PROVE AsItIs(q)'
    BY <1>4, AsItIsRsync
<1> QED
    BY <1>1, <1>2, <1>3, <1>4, StepCases

(* A run gets past its transfer only when the transfer ended well.         *)
LEMMA TransferredStep ==
    ASSUME IndInv, ComparedFirst, NEW p \in Proc, InvocationStep(p), Transferred(p)'
    PROVE  Transferred(p) /\ call'[p].run = call[p].run
<1> USE DEF Transferred, IndInv, TypeOK, Control, Goto, Begin, Finished, Ok
<1>1. CASE Leave(p) \/ LeaveOrphan(p) \/ WritePlan(p) \/ WriteLatest(p)
    BY <1>1 DEF Leave, LeaveOrphan, Crash, Return, WritePlan, WriteLatest
<1>2. CASE \/ PlanStart(p) \/ ChooseBase(p)
           \/ \E r \in RunId : VerifyStart(p, r)
           \/ \E r \in RunId, a \in Approvals : RunStart(p, r, a)
    BY <1>2 DEF PlanStart, ChooseBase, VerifyStart, RunStart, Call
<1>3. CASE AcquireLock(p)
    BY <1>3 DEF AcquireLock, ComparedFirst
<1>4. CASE Spawn(p)
    BY <1>4 DEF Spawn
<1>5. CASE DryRunDone(p) \/ WriteRequest(p) \/ WriteCompleted(p) \/ WriteResult(p)
    BY <1>5 DEF DryRunDone, WriteRequest, WriteCompleted, WriteResult
<1>6. CASE TransferReap(p)
    BY <1>6 DEF TransferReap, Execute, Conclude, Call
<1>7. CASE CompareReap(p)
    BY <1>7 DEF CompareReap, Execute, Conclude, Call
<1>8. CASE MarkerReap(p)
    BY <1>8 DEF MarkerReap, Conclude, Call
<1> QED
    BY <1>1, <1>2, <1>3, <1>4, <1>5, <1>6, <1>7, <1>8 DEF InvocationStep

(* A transfer that ends well brings every file the source has.             *)
LEMMA TransferEnds ==
    ASSUME IndInv, ReadAsItIs, NEW p \in Proc, RsyncSucceeds(p),
           child[p].task = "transfer"
    PROVE  Covers(child[p].run)'
<1>1. /\ child[p] \in Child /\ child[p] # None /\ child[p].todo = {}
      /\ source' = source /\ Install(child[p], File)
    BY DEF RsyncSucceeds, Running, IndInv, TypeOK, env
<1>2. \A f \in File : child[p].got[f] = source[f]
    BY <1>1 DEF ReadAsItIs
<1>3. child[p].run \in RunId
    BY <1>1 DEF Child
<1>4. snapshot'[child[p].run] = [f \in File |->
          IF f \in File /\ child[p].got[f] # Absent
            THEN child[p].got[f] ELSE snapshot[child[p].run][f]]
    BY <1>1, <1>3 DEF Install, IndInv, TypeOK
<1>5. child'[p].run = child[p].run
    BY RsyncKeeps DEF RsyncStep
<1> QED
    BY <1>1, <1>2, <1>4, <1>5 DEF Covers

LEMMA TransferCoversRsync ==
    ASSUME IndInv, CarriesNothing, ReadAsItIs, TransferCovers, NEW p \in Proc, RsyncStep(p),
           NEW q \in Proc, Transferred(q)'
    PROVE  Covers(call[q].run)'
<1>1. UNCHANGED <<pc, call>>
    BY RsyncKeeps
<1>2. call[q] # None /\ call[q].run \in RunId /\ call[q].op = "run"
    BY <1>1 DEF Transferred, IndInv, TypeOK, Call
<1>3. CASE Transferred(q)
  <2>1. Covers(call[q].run)
    BY <1>3 DEF TransferCovers
  <2>2. \A f \in File : snapshot'[call[q].run][f] \in {snapshot[call[q].run][f], source[f]}
    BY <1>2, InstallsSource
  <2> QED
    BY <1>1, <2>1, <2>2, RsyncKeeps DEF Covers
<1>4. CASE ~Transferred(q)
  <2>1. pc[q] = "wait" /\ call[q].task = "transfer" /\ child'[q].exit = "ok"
    BY <1>1, <1>4 DEF Transferred, Ok
  <2>2. child[q].task = "transfer" /\ child[q].run = call[q].run /\ child[q].exit # "ok"
    BY <1>2, <1>4, <2>1 DEF IndInv, Control, Transferred, Ok
  <2>3. p = q
    BY <2>1, <2>2, OthersStay
  <2>4. RsyncSucceeds(q)
    <3>1. RsyncStops(q) => child'[q].exit = "failed"
        BY DEF RsyncStops, Running, IndInv, TypeOK, Child
    <3>2. ASSUME NEW f \in File, RsyncRead(q, f) PROVE child'[q].exit = "running"
        BY <3>2, ReadFields
    <3> QED
        BY <2>1, <2>3, <3>1, <3>2 DEF RsyncStep
  <2>5. Covers(child[q].run)' /\ child'[q].run = call'[q].run
    BY <1>1, <2>2, <2>3, <2>4, TransferEnds, RsyncKeeps
  <2> QED
    BY <2>5 DEF Covers
<1> QED
    BY <1>3, <1>4

LEMMA TransferCoversInv ==
    ASSUME QuietSource, IndInv, ComparedFirst, CarriesNothing, ReadAsItIs, TransferCovers,
           [Next]_vars
    PROVE  TransferCovers'
<1> SUFFICES ASSUME NEW q \in Proc, Transferred(q)'
             PROVE  Covers(call[q].run)'
    BY DEF TransferCovers
<1>0. Transferred(q) => Covers(call[q].run)
    BY DEF TransferCovers
<1>1. CASE UNCHANGED vars
    BY <1>0, <1>1 DEF vars, Transferred, Ok, Covers
<1>2. CASE Producer
    BY <1>0, <1>2, ProducerWaits DEF Transferred, Ok, Covers
<1>3. ASSUME NEW p \in Proc, InvocationStep(p) PROVE Covers(call[q].run)'
  <2>1. UNCHANGED <<source, snapshot>>
    BY <1>3, InvocationWrites
  <2>2. CASE p = q
    BY <1>0, <1>3, <2>1, <2>2, TransferredStep DEF Covers
  <2>3. CASE p # q
    BY <1>0, <1>3, <2>1, <2>3, OthersStay DEF Transferred, Ok, Covers
  <2> QED
    BY <2>2, <2>3
<1>4. ASSUME NEW p \in Proc, RsyncStep(p) PROVE Covers(call[q].run)'
    BY <1>4, TransferCoversRsync
<1> QED
    BY <1>1, <1>2, <1>3, <1>4, StepCases

LEMMA SourceIsCopied ==
    ASSUME QuietSource
    PROVE  Spec => [](ReadAsItIs /\ TransferCovers)
<1>1. Init => ReadAsItIs /\ TransferCovers
    BY DEF Init, ReadAsItIs, TransferCovers, Transferred
<1>2. IndInv /\ ComparedFirst /\ CarriesNothing /\ (ReadAsItIs /\ TransferCovers) /\ [Next]_vars
        => (ReadAsItIs /\ TransferCovers)'
    BY ReadAsItIsInv, TransferCoversInv
<1> QED
    BY <1>1, <1>2, Invariance, ComparisonsComeFirst, OnlyTransfersCarry, PTL DEF Spec

LEMMA CompletionStep ==
    ASSUME IndInv, TransferCovers, [Next]_vars, NEW r \in completed' \ completed
    PROVE  Covers(r)
<1>1. PICK p \in Proc : WriteCompleted(p)
  <2>1. CASE UNCHANGED vars \/ Producer
    BY <2>1 DEF vars, audit, Producer, ProducerMarks, SourceChanges, ConfigChanges
  <2> QED
    BY <2>1, StepCases, InvocationWrites, RsyncKeeps
<1>2. r = call[p].run /\ pc[p] = "completed"
    BY <1>1 DEF WriteCompleted
<1>3. Transferred(p)
    BY <1>2 DEF Transferred, IndInv, Control
<1> QED
    BY <1>2, <1>3 DEF TransferCovers

(* With a producer that waits until nobody runs, a COMPLETED run holds     *)
(* every file of the source, for any number of invocations and slots, with *)
(* orphans that still write, repeated runs of one id, and failed writes.   *)
THEOREM CompletionsCoverTheSource ==
    ASSUME QuietSource
    PROVE  Spec => CompletionCoversSource
<1>1. IndInv /\ (ReadAsItIs /\ TransferCovers) /\ [Next]_vars =>
        [\A r \in completed' \ completed : Covers(r)]_vars
    BY CompletionStep
<1> QED
    BY <1>1, Invariance, SourceIsCopied, PTL DEF Spec, CompletionCoversSource

LEMMA VerifiedStep ==
    ASSUME IndInv, ReadAsItIs, NEW p \in Proc, VerifyReap(p), ret'[p] = "success"
    PROVE  Covers(call[p].run)
<1>1. Clean(p)
    BY DEF VerifyReap, Return, IndInv, TypeOK
<1>2. /\ child[p] # None /\ child[p].exit = "ok" /\ ~child[p].diff
      /\ child[p].task = "compare" /\ child[p].run = call[p].run
    BY <1>1 DEF VerifyReap, Finished, Clean, Ok, IndInv, Control
<1>3. \A f \in File : source[f] \in {Absent, snapshot[child[p].run][f]}
    BY <1>2 DEF ReadAsItIs
<1> QED
    BY <1>2, <1>3 DEF Covers

(* Under the same producer, `verified` means that every file of the source *)
(* is in the snapshot as it is, whatever else went on during the reading.  *)
THEOREM VerificationsCoverTheSource ==
    ASSUME QuietSource
    PROVE  Spec => VerifiedCoversSource
<1>1. IndInv /\ (ReadAsItIs /\ TransferCovers) =>
        [\A p \in Proc : VerifyReap(p) /\ ret'[p] = "success" => Covers(call[p].run)]_vars
    BY VerifiedStep
<1> QED
    BY <1>1, Invariance, SourceIsCopied, PTL DEF Spec, VerifiedCoversSource

-----------------------------------------------------------------------------
(* What the proofs above rest on, in one invariant.                        *)

LEMMA OutcomeInvStep ==
    ASSUME IndInv, OutcomeInv, [Next]_vars
    PROVE  OutcomeInv'
<1>1. CarriesNothing' /\ ComparedFirst'
    BY CarriesNothingInv, ComparedFirstInv DEF OutcomeInv
<1>2. ~MayCrash => NobodyCrashed'
    BY NobodyCrashedInv DEF OutcomeInv
<1>3. ~MayCrash /\ ~MayFailIO => StatusFollows'
    BY StatusFollowsInv DEF OutcomeInv
<1>4. (\A p, q \in Proc : p = q) => NotYetDone'
    BY NotYetDoneInv DEF OutcomeInv, OneRunPerId
<1>5. QuietSource => ReadAsItIs' /\ TransferCovers'
    BY ReadAsItIsInv, TransferCoversInv DEF OutcomeInv
<1> QED
    BY <1>1, <1>2, <1>3, <1>4, <1>5 DEF OutcomeInv

(* At every moment, with any slots, runs and files: what a child has read, *)
(* what a run has compared, what status lags behind and who may still      *)
(* write into a finished run are as the outcomes need it, each part under  *)
(* its own condition (transfer, persist_result and what lies between).     *)
THEOREM OutcomesAreInvariant == Spec => []OutcomeInv
<1>1. Init => OutcomeInv
    BY DEF Init, OutcomeInv, CarriesNothing, ComparedFirst, NobodyCrashed, StatusFollows,
           status_job, history_job, NotYetDone, WorksOn, ReadAsItIs, TransferCovers, Transferred
<1> QED
    BY <1>1, OutcomeInvStep, Invariance, PTL DEF Spec

-----------------------------------------------------------------------------
(* An invocation moves on, and so it ends.                                 *)

LEMMA ProceedCases ==
    ASSUME IndInv, NEW p \in Proc, Proceed(p)
    PROVE  InvocationStep(p) \/ Deadline(p)
<1>1. ASSUME PlanReap(p), Ok(p) PROVE DryRunDone(p)
    BY <1>1 DEF PlanReap, DryRunDone, env, audit, receiver
<1> QED
    BY <1>1, LeaveSteps DEF Proceed, InvocationStep

(* What StepsLeft looks at. *)
LEMMA StepsLeftType ==
    ASSUME IndInv, NEW p \in Proc
    PROVE  /\ StepsLeft(p) \in 0..14
           /\ Alive(p) => StepsLeft(p) > 0
           /\ pc[p] \in PC
           /\ pc[p] \in {"spawn", "wait"} => call[p].task \in Task
<1>1. pc[p] \in PC
    BY DEF IndInv, TypeOK
<1>2. pc[p] \in {"spawn", "wait"} => call[p].task \in Task
    BY DEF IndInv, TypeOK, Control, Call
<1> QED
    BY <1>1, <1>2 DEF StepsLeft, StepsAfter, PC, Task, Alive

LEMMA StepsLeftTypeNext ==
    ASSUME IndInv', NEW p \in Proc
    PROVE  StepsLeft(p)' \in 0..14
<1>1. pc'[p] \in PC /\ (pc'[p] \in {"spawn", "wait"} => call'[p].task \in Task)
    BY DEF IndInv, TypeOK, Control, Call
<1> QED
    BY <1>1 DEF StepsLeft, StepsAfter, PC, Task

(* Every step of an invocation that goes on leaves it fewer.               *)
LEMMA OwnStep ==
    ASSUME IndInv, NEW p \in Proc, InvocationStep(p), Alive(p), Alive(p)'
    PROVE  StepsLeft(p)' < StepsLeft(p)
<1>1. /\ pc \in [Proc -> PC] /\ call \in [Proc -> Call \cup {None}]
      /\ child \in [Proc -> Child \cup {None}]
    BY DEF IndInv, TypeOK
<1> USE DEF StepsLeft, StepsAfter, Goto
<1>2. CASE ChooseBase(p) \/ AcquireLock(p)
  <2>1. call'[p].task = call[p].task
    BY <1>1, <1>2 DEF ChooseBase, AcquireLock, IndInv, Control, Call
  <2>2. CASE ChooseBase(p)
    BY <1>1, <2>2 DEF ChooseBase
  <2>3. CASE AcquireLock(p)
    <3>1. call[p].task \in Task
      BY <1>1, <2>3 DEF AcquireLock, IndInv, Control, Call
    <3> QED
      BY <1>1, <2>1, <2>3, <3>1 DEF AcquireLock, Task
  <2> QED
    BY <1>2, <2>2, <2>3
<1>3. CASE Spawn(p)
  <2>1. pc[p] = "spawn" /\ pc'[p] = "wait" /\ call' = call
    BY <1>1, <1>3 DEF Spawn
  <2>2. call[p].task \in Task
    BY <2>1, StepsLeftType
  <2> QED
    BY <2>1, <2>2 DEF Task
<1>4. CASE DryRunDone(p)
  <2>1. pc[p] = "wait" /\ pc'[p] = "request" /\ ~Running(p) /\ call[p].task = "dry_run"
    BY <1>1, <1>4 DEF DryRunDone, Finished, Running
  <2> QED
    BY <2>1
<1>5. CASE TransferReap(p) \/ CompareReap(p) \/ MarkerReap(p)
  <2>1. /\ pc[p] = "wait" /\ ~Running(p) /\ call[p] \in Call
        /\ call[p].task \in {"transfer", "compare", "marker"}
    BY <1>1, <1>5 DEF TransferReap, CompareReap, MarkerReap, Finished, Running, IndInv, Control
  <2>2. \/ pc'[p] \in {"completed", "result"}
        \/ /\ pc'[p] = "spawn"
           /\ \/ call[p].task = "transfer" /\ call'[p].task \in {"compare", "marker"}
              \/ call[p].task = "compare" /\ call'[p].task = "marker"
    BY <1>1, <1>5, <2>1
       DEF TransferReap, CompareReap, MarkerReap, Finished, Execute, Conclude, Call
  <2> QED
    BY <2>1, <2>2
<1>6. CASE WriteRequest(p) \/ WriteCompleted(p) \/ WriteResult(p)
    BY <1>1, <1>6 DEF WriteRequest, WriteCompleted, WriteResult
<1>7. CASE WritePlan(p) \/ WriteLatest(p) \/ Leave(p) \/ LeaveOrphan(p)
    BY <1>1, <1>7 DEF WritePlan, WriteLatest, Leave, LeaveOrphan, Crash, Return, Alive
<1>8. CASE \/ PlanStart(p) \/ \E r \in RunId : VerifyStart(p, r)
           \/ \E r \in RunId, a \in Approvals : RunStart(p, r, a)
    BY <1>8 DEF PlanStart, VerifyStart, RunStart, Alive
<1> QED
    BY <1>2, <1>3, <1>4, <1>5, <1>6, <1>7, <1>8 DEF InvocationStep

(* A child only ever stops running. *)
LEMMA RsyncMovesOn ==
    ASSUME IndInv, NEW p \in Proc, RsyncStep(p)
    PROVE  /\ StepsLeft(p)' <= StepsLeft(p)
           /\ Deadline(p) => StepsLeft(p)' < StepsLeft(p)
<1>1. UNCHANGED <<pc, call>> /\ Running(p)
  <2>1. UNCHANGED <<pc, call>>
    BY RsyncKeeps
  <2>2. RsyncStep(p) => Running(p)
    BY Zenon DEF RsyncStep, RsyncSucceeds, RsyncStops, RsyncRead
  <2> QED
    BY <2>1, <2>2
<1>2. pc[p] \in PC /\ (pc[p] \in {"spawn", "wait"} => call[p].task \in Task)
    BY StepsLeftType
<1>3. Deadline(p) => pc[p] = "wait" /\ ~Running(p)'
    BY DEF Deadline, RsyncStops, Running, IndInv, TypeOK
<1> QED
    BY <1>1, <1>2, <1>3 DEF StepsLeft, StepsAfter, PC, Task

LEMMA StepMovesOn ==
    ASSUME IndInv, [Next]_vars, NEW p \in Proc, Alive(p), Alive(p)'
    PROVE  /\ StepsLeft(p)' <= StepsLeft(p)
           /\ Proceed(p) => StepsLeft(p)' < StepsLeft(p)
<1>1. Proceed(p) => StepsLeft(p)' < StepsLeft(p)
    BY ProceedCases, OwnStep, RsyncMovesOn DEF Deadline, RsyncStep
<1>5. StepsLeft(p)' \in 0..14
    BY NextInv, StepsLeftTypeNext
<1>2. StepsLeft(p) \in Int /\ (UNCHANGED <<pc[p], call[p], child[p]>>
        => StepsLeft(p)' = StepsLeft(p))
    BY StepsLeftType DEF StepsLeft, Running
<1>3. CASE UNCHANGED vars \/ Producer
    BY <1>1, <1>2, <1>3 DEF vars, Producer, ProducerMarks, SourceChanges, ConfigChanges
<1>4. ASSUME NEW q \in Proc, InvocationStep(q) \/ RsyncStep(q)
      PROVE  StepsLeft(p)' <= StepsLeft(p)
  <2>1. CASE q = p
    <3>1. StepsLeft(p)' < StepsLeft(p) => StepsLeft(p)' <= StepsLeft(p)
      BY <1>2, <1>5
    <3> QED
      BY <1>4, <2>1, <3>1, OwnStep, RsyncMovesOn
  <2>2. CASE q # p
    BY <1>2, <1>4, <2>2, OthersStay
  <2> QED
    BY <2>1, <2>2
<1> QED
    BY <1>1, <1>3, <1>4, StepCases

(* plan_job, run_job and verify_job run straight through: nothing that     *)
(* children, kills of others, failures and the producer do sends one back. *)
THEOREM EveryStepIsProgress == Spec => InvocationsMoveOn
<1>1. IndInv /\ [Next]_vars =>
        [\A p \in Proc : Alive(p) /\ Alive(p)' =>
            /\ StepsLeft(p)' <= StepsLeft(p)
            /\ Proceed(p) => StepsLeft(p)' < StepsLeft(p)]_vars
    BY StepMovesOn
<1> QED
    BY <1>1, Invariance, PTL DEF Spec, InvocationsMoveOn

(* An invocation that has fewer than k steps left ends. *)
Near(p, k) == StepsLeft(p) < k
EndsFrom(p, k) == [](Near(p, k) => <>~Alive(p))

(* What the scheduler owes to p. *)
CanProceed(p) == Alive(p) => ENABLED <<Proceed(p)>>_vars
Scheduled(p)  == Spec /\ WF_vars(Proceed(p)) /\ []CanProceed(p)

LEMMA OneStepNearer ==
    ASSUME NEW p \in Proc, NEW k \in Nat, NEW j \in Nat, j = k + 1
    PROVE  Scheduled(p) /\ EndsFrom(p, k) => EndsFrom(p, j)
<1>1. IndInv /\ IndInv' /\ [Next]_vars /\ Near(p, j) /\ Alive(p) /\ Alive(p)' => Near(p, j)'
  <2> SUFFICES ASSUME IndInv, IndInv', [Next]_vars, Near(p, j), Alive(p), Alive(p)'
               PROVE  Near(p, j)'
    OBVIOUS
  <2>1. StepsLeft(p) \in Int /\ StepsLeft(p)' \in Int /\ StepsLeft(p)' <= StepsLeft(p)
    BY StepMovesOn, StepsLeftType, StepsLeftTypeNext
  <2> QED
    BY <2>1 DEF Near
<1>2. IndInv /\ IndInv' /\ [Next]_vars /\ Near(p, j) /\ Alive(p) /\ <<Proceed(p)>>_vars
        => Near(p, k)' \/ ~Alive(p)'
  <2> SUFFICES ASSUME IndInv, IndInv', [Next]_vars, Near(p, j), Alive(p), Proceed(p), Alive(p)'
               PROVE  Near(p, k)'
    OBVIOUS
  <2>1. StepsLeft(p) \in Int /\ StepsLeft(p)' \in Int /\ StepsLeft(p)' < StepsLeft(p)
    BY StepMovesOn, StepsLeftType, StepsLeftTypeNext
  <2> QED
    BY <2>1 DEF Near
<1> QED
    BY <1>1, <1>2, Invariance, PTL DEF Scheduled, CanProceed, EndsFrom, Spec

LEMMA ScheduledEnds ==
    ASSUME NEW p \in Proc
    PROVE  Scheduled(p) => (Alive(p) ~> ~Alive(p))
<1>1. IndInv => ~Near(p, 0) /\ Near(p, 15)
    BY StepsLeftType DEF Near
<1>2. Scheduled(p) => EndsFrom(p, 0)
    BY <1>1, Invariance, PTL DEF Scheduled, EndsFrom
<1>3. Scheduled(p) => EndsFrom(p, 5)
  <2>1. Scheduled(p) => EndsFrom(p, 1)
    BY <1>2, OneStepNearer
  <2>2. Scheduled(p) => EndsFrom(p, 2)
    BY <2>1, OneStepNearer
  <2>3. Scheduled(p) => EndsFrom(p, 3)
    BY <2>2, OneStepNearer
  <2>4. Scheduled(p) => EndsFrom(p, 4)
    BY <2>3, OneStepNearer
  <2> QED
    BY <2>4, OneStepNearer
<1>4. Scheduled(p) => EndsFrom(p, 10)
  <2>1. Scheduled(p) => EndsFrom(p, 6)
    BY <1>3, OneStepNearer
  <2>2. Scheduled(p) => EndsFrom(p, 7)
    BY <2>1, OneStepNearer
  <2>3. Scheduled(p) => EndsFrom(p, 8)
    BY <2>2, OneStepNearer
  <2>4. Scheduled(p) => EndsFrom(p, 9)
    BY <2>3, OneStepNearer
  <2> QED
    BY <2>4, OneStepNearer
<1>5. Scheduled(p) => EndsFrom(p, 15)
  <2>1. Scheduled(p) => EndsFrom(p, 11)
    BY <1>4, OneStepNearer
  <2>2. Scheduled(p) => EndsFrom(p, 12)
    BY <2>1, OneStepNearer
  <2>3. Scheduled(p) => EndsFrom(p, 13)
    BY <2>2, OneStepNearer
  <2>4. Scheduled(p) => EndsFrom(p, 14)
    BY <2>3, OneStepNearer
  <2> QED
    BY <2>4, OneStepNearer
<1> QED
    BY <1>1, <1>5, Invariance, PTL DEF Scheduled, EndsFrom

(* Every invocation ends, whatever its children do and whoever else is at  *)
(* work, if it can always make a step: what NeverStuck says, which TLC     *)
(* checks, since the prover knows nothing of ENABLED.                      *)
THEOREM EveryInvocationEnds == FairSpec /\ []NeverStuck => InvocationEnds
<1> SUFFICES ASSUME NEW p \in Proc
             PROVE  FairSpec /\ []NeverStuck => (Alive(p) ~> ~Alive(p))
    BY DEF InvocationEnds
<1>1. FairSpec => Spec /\ Fairness(p)
    BY DEF FairSpec
<1>2. NeverStuck => CanProceed(p)
    BY DEF NeverStuck, CanProceed
<1> QED
    BY <1>1, <1>2, ScheduledEnds, PTL DEF Scheduled, Fairness

=============================================================================

--------------------------- MODULE HpcSyncProofs ---------------------------
(***************************************************************************)
(* Proofs about HpcSync for every set of slots, run ids, configurations    *)
(* and files.  IndInv is inductive: one lemma per action, or per family of *)
(* actions that change the state in the same way, and in each lemma one    *)
(* step per part of the invariant.                                         *)
(***************************************************************************)
EXTENDS HpcSync, TLAPS

USE ConstantsAssumption, NoneAssumption

-----------------------------------------------------------------------------
LEMMA InitIndInv == Init => IndInv
<1> SUFFICES ASSUME Init PROVE IndInv
    OBVIOUS
<1>1. TypeOK
    BY DEF Init, TypeOK, Tree, Empty, Content, PC
<1>2. Control /\ OneOperationAtATime
    BY DEF Init, Control, OneOperationAtATime, Locked
<1>3. IdsAreFresh /\ ChosenBase /\ BaseIsRecoveryPoint
    BY DEF Init, IdsAreFresh, ChosenBase, BaseIsRecoveryPoint, Planning
<1>4. RunIsApproved /\ EvidenceInOrder /\ SuccessIsBacked
    BY DEF Init, RunIsApproved, EvidenceInOrder, SuccessIsBacked, Alive, Status
<1> QED
    BY <1>1, <1>2, <1>3, <1>4 DEF IndInv

(* Returning drops the lock and the locals, and nothing depends on them.   *)
LEMMA ReturnInv ==
    ASSUME IndInv, NEW p \in Proc, NEW x \in Exit, Return(p, x),
           child' = child \/ Reap(p), child'[p] = None,
           UNCHANGED <<env, audit, receiver, compared>>
    PROVE  IndInv'
<1> USE DEF Return, Reap, env, audit, receiver
<1>1. TypeOK'
    BY DEF IndInv, TypeOK, Control, PC
<1>2. Control'
    BY DEF IndInv, TypeOK, Control, PC
<1>3. OneOperationAtATime'
    BY DEF IndInv, TypeOK, Control, OneOperationAtATime, Locked, PC
<1>4. IdsAreFresh'
    BY DEF IndInv, TypeOK, IdsAreFresh, Planning
<1>5. RunIsApproved'
    BY DEF IndInv, TypeOK, Control, RunIsApproved, PlanHash, Alive
<1>6. EvidenceInOrder' /\ SuccessIsBacked'
    BY DEF IndInv, TypeOK, Control, EvidenceInOrder, SuccessIsBacked
<1>7. ChosenBase' /\ BaseIsRecoveryPoint'
    BY DEF IndInv, TypeOK, Control, ChosenBase, Planning, BaseIsRecoveryPoint
<1> QED
    BY <1>1, <1>2, <1>3, <1>4, <1>5, <1>6, <1>7 DEF IndInv

(* The producer and the owner of the configuration touch nothing of the job. *)
LEMMA ProducerInv ==
    ASSUME IndInv, Producer
    PROVE  IndInv'
<1>u. UNCHANGED <<lock, dirs, request, plan, completed, result, latest, snapshot, marker,
                  pc, call, ret, child, compared>>
    BY DEF Producer, ProducerMarks, SourceChanges, ConfigChanges, audit, receiver
<1>1. config' \in Config /\ source' \in Tree /\ ready' \in BOOLEAN
  <2>1. CASE ProducerMarks
    BY <2>1 DEF ProducerMarks, IndInv, TypeOK
  <2>2. CASE \E f \in File : SourceChanges(f)
    BY <2>2 DEF SourceChanges, IndInv, TypeOK, Tree, Content
  <2>3. CASE \E c \in Config : ConfigChanges(c)
    BY <2>3 DEF ConfigChanges, IndInv, TypeOK
  <2> QED
    BY <2>1, <2>2, <2>3 DEF Producer
<1>2. TypeOK'
    BY <1>1, <1>u DEF IndInv, TypeOK
<1>3. Control' /\ OneOperationAtATime'
    BY <1>u DEF IndInv, Control, OneOperationAtATime
<1>4. IdsAreFresh' /\ RunIsApproved'
    BY <1>u DEF IndInv, IdsAreFresh, Planning, RunIsApproved, PlanHash, Alive
<1>5. EvidenceInOrder' /\ SuccessIsBacked'
    BY <1>u DEF IndInv, EvidenceInOrder, SuccessIsBacked
<1>6. ChosenBase' /\ BaseIsRecoveryPoint'
    BY <1>u DEF IndInv, ChosenBase, Planning, BaseIsRecoveryPoint
<1> QED
    BY <1>2, <1>3, <1>4, <1>5, <1>6 DEF IndInv

LEMMA PlanStartInv ==
    ASSUME IndInv, NEW p \in Proc, PlanStart(p)
    PROVE  IndInv'
<1> USE DEF PlanStart, FreshIds, Begin, env, audit, receiver
<1>0. call'[p] \in Call /\ call'[p].op = "plan" /\ call'[p].task = "dry_run"
    BY DEF IndInv, TypeOK, Call, Task
<1>1. TypeOK'
    BY <1>0 DEF IndInv, TypeOK, Control, PC
<1>2. Control'
    BY <1>0 DEF IndInv, TypeOK, Control, PC
<1>3. OneOperationAtATime'
    BY DEF IndInv, TypeOK, Control, OneOperationAtATime, Locked, PC
<1>4. IdsAreFresh'
    BY DEF IndInv, TypeOK, IdsAreFresh, Planning
<1>5. RunIsApproved'
    BY DEF IndInv, TypeOK, Control, RunIsApproved, PlanHash, Alive
<1>6. EvidenceInOrder' /\ SuccessIsBacked'
    BY DEF IndInv, TypeOK, Control, EvidenceInOrder, SuccessIsBacked
<1>7. ChosenBase' /\ BaseIsRecoveryPoint'
    BY DEF IndInv, TypeOK, Control, ChosenBase, Planning, BaseIsRecoveryPoint
<1> QED
    BY <1>1, <1>2, <1>3, <1>4, <1>5, <1>6, <1>7 DEF IndInv

LEMMA RunStartInv ==
    ASSUME IndInv, NEW p \in Proc, NEW r \in RunId, NEW a \in Approvals, RunStart(p, r, a)
    PROVE  IndInv'
<1> USE DEF RunStart, Approved, Begin, env, audit, receiver
<1>0. call'[p] \in Call /\ call'[p].op = "run" /\ call'[p].task = "transfer"
    BY DEF IndInv, TypeOK, Call, Task, Approvals, PlanHash, Hash, PlanRecord
<1>1. TypeOK'
    BY <1>0 DEF IndInv, TypeOK, Control, PC
<1>2. Control'
    BY <1>0 DEF IndInv, TypeOK, Control, PC
<1>3. OneOperationAtATime'
    BY DEF IndInv, TypeOK, Control, OneOperationAtATime, Locked, PC
<1>4. IdsAreFresh'
    BY DEF IndInv, TypeOK, IdsAreFresh, Planning
<1>5. RunIsApproved'
  <2>1. /\ plan[r] # None /\ call'[p].approval = PlanHash(r)
        /\ call'[p].run = r /\ call'[p].cfg = plan[r].config /\ call'[p].base = plan[r].prev
        /\ \A q \in Proc \ {p} : call'[q] = call[q] /\ pc'[q] = pc[q]
    BY DEF IndInv, TypeOK
  <2> SUFFICES ASSUME NEW q \in Proc, Alive(q)', call'[q].op = "run"
               PROVE  RunIsApproved!(q)!2'
    BY DEF RunIsApproved
  <2>2. CASE q = p
    BY <2>1, <2>2 DEF PlanHash
  <2>3. CASE q # p
    BY <2>1, <2>3 DEF IndInv, RunIsApproved, PlanHash, Alive
  <2> QED
    BY <2>2, <2>3
<1>6. EvidenceInOrder' /\ SuccessIsBacked'
    BY DEF IndInv, TypeOK, Control, EvidenceInOrder, SuccessIsBacked
<1>7. ChosenBase' /\ BaseIsRecoveryPoint'
    BY DEF IndInv, TypeOK, Control, ChosenBase, Planning, BaseIsRecoveryPoint
<1> QED
    BY <1>1, <1>2, <1>3, <1>4, <1>5, <1>6, <1>7 DEF IndInv

LEMMA VerifyStartInv ==
    ASSUME IndInv, NEW p \in Proc, NEW r \in RunId, VerifyStart(p, r)
    PROVE  IndInv'
<1> USE DEF VerifyStart, Begin, env, audit, receiver
<1>0. call'[p] \in Call /\ call'[p].op = "verify" /\ call'[p].task = "compare"
    BY DEF IndInv, TypeOK, Call, Task
<1>1. TypeOK'
    BY <1>0 DEF IndInv, TypeOK, Control, PC
<1>2. Control'
    BY <1>0 DEF IndInv, TypeOK, Control, PC
<1>3. OneOperationAtATime'
    BY DEF IndInv, TypeOK, Control, OneOperationAtATime, Locked, PC
<1>4. IdsAreFresh'
    BY DEF IndInv, TypeOK, IdsAreFresh, Planning
<1>5. RunIsApproved'
    BY DEF IndInv, TypeOK, Control, RunIsApproved, PlanHash, Alive
<1>6. EvidenceInOrder' /\ SuccessIsBacked'
    BY DEF IndInv, TypeOK, Control, EvidenceInOrder, SuccessIsBacked
<1>7. ChosenBase' /\ BaseIsRecoveryPoint'
    BY DEF IndInv, TypeOK, Control, ChosenBase, Planning, BaseIsRecoveryPoint
<1> QED
    BY <1>1, <1>2, <1>3, <1>4, <1>5, <1>6, <1>7 DEF IndInv

(* A successful run is completed, has a plan, and so is not the run being planned. *)
LEMMA ChooseBaseInv ==
    ASSUME IndInv, NEW p \in Proc, ChooseBase(p)
    PROVE  IndInv'
<1> USE DEF ChooseBase, IsLatestSuccessful, Successful, Goto, env, audit, receiver
<1>0. /\ call[p] \in Call /\ call'[p] \in Call
      /\ call'[p].op = call[p].op /\ call'[p].run = call[p].run /\ call'[p].cfg = call[p].cfg
      /\ call'[p].approval = call[p].approval /\ call'[p].task = call[p].task /\ call'[p].status = call[p].status
      /\ call'[p].base \in Successful \cup {None}
    BY DEF IndInv, TypeOK, Control, Call, Task, Status
<1>1. TypeOK'
    BY <1>0 DEF IndInv, TypeOK, Control, PC
<1>2. Control'
    BY <1>0 DEF IndInv, TypeOK, Control, PC
<1>3. OneOperationAtATime'
    BY <1>0 DEF IndInv, TypeOK, Control, OneOperationAtATime, Locked, PC
<1>4. IdsAreFresh'
    BY <1>0 DEF IndInv, TypeOK, IdsAreFresh, Planning
<1>5. RunIsApproved'
    BY <1>0 DEF IndInv, TypeOK, Control, RunIsApproved, PlanHash, Alive, Planning
<1>6. EvidenceInOrder' /\ SuccessIsBacked'
    BY <1>0 DEF IndInv, TypeOK, Control, EvidenceInOrder, SuccessIsBacked
<1>7. ChosenBase' /\ BaseIsRecoveryPoint'
    BY <1>0 DEF IndInv, TypeOK, Control, ChosenBase, Planning, BaseIsRecoveryPoint, SuccessIsBacked, IdsAreFresh
<1> QED
    BY <1>1, <1>2, <1>3, <1>4, <1>5, <1>6, <1>7 DEF IndInv

LEMMA AcquireLockInv ==
    ASSUME IndInv, NEW p \in Proc, AcquireLock(p)
    PROVE  IndInv'
<1> USE DEF AcquireLock, TryLock, Goto, env, audit, receiver
<1>1. TypeOK'
    BY DEF IndInv, TypeOK, Control, PC
<1>2. Control'
    BY DEF IndInv, TypeOK, Control, PC
<1>3. OneOperationAtATime'
    BY DEF IndInv, TypeOK, Control, OneOperationAtATime, Locked, PC
<1>4. IdsAreFresh'
    BY DEF IndInv, TypeOK, IdsAreFresh, Planning
<1>5. RunIsApproved'
    BY DEF IndInv, TypeOK, Control, RunIsApproved, PlanHash, Alive
<1>6. EvidenceInOrder' /\ SuccessIsBacked'
    BY DEF IndInv, TypeOK, Control, EvidenceInOrder, SuccessIsBacked
<1>7. ChosenBase' /\ BaseIsRecoveryPoint'
    BY DEF IndInv, TypeOK, Control, ChosenBase, Planning, BaseIsRecoveryPoint
<1> QED
    BY <1>1, <1>2, <1>3, <1>4, <1>5, <1>6, <1>7 DEF IndInv

(* A marker is uploaded only by a run, whose plan exists.                  *)
LEMMA SpawnInv ==
    ASSUME IndInv, NEW p \in Proc, Spawn(p)
    PROVE  IndInv'
<1> USE DEF Spawn, Goto, env, audit, receiver
<1>0. child'[p] \in Child /\ child'[p].task = call[p].task /\ child'[p].run = call[p].run
    BY DEF IndInv, TypeOK, Control, PC, Child, Tree, Empty, Content, Call, Task
<1>1. TypeOK'
    BY <1>0 DEF IndInv, TypeOK, Control, PC
<1>2. Control'
  <2>1. /\ pc'[p] = "wait" /\ child'[p] # None /\ call' = call /\ call[p] # None
        /\ \A q \in Proc \ {p} : child'[q] = child[q] /\ pc'[q] = pc[q]
    BY <1>0 DEF IndInv, TypeOK, Control, PC
  <2> QED
    BY <1>0, <2>1 DEF IndInv, Control
<1>3. OneOperationAtATime'
    BY DEF IndInv, TypeOK, Control, OneOperationAtATime, Locked, PC
<1>4. IdsAreFresh'
    BY DEF IndInv, TypeOK, IdsAreFresh, Planning
<1>5. RunIsApproved'
    BY DEF IndInv, TypeOK, Control, RunIsApproved, PlanHash, Alive
<1>6. EvidenceInOrder' /\ SuccessIsBacked'
    BY DEF IndInv, TypeOK, Control, EvidenceInOrder, SuccessIsBacked, RunIsApproved, Alive, Call, Task
<1>7. ChosenBase' /\ BaseIsRecoveryPoint'
    BY DEF IndInv, TypeOK, Control, ChosenBase, Planning, BaseIsRecoveryPoint
<1> QED
    BY <1>1, <1>2, <1>3, <1>4, <1>5, <1>6, <1>7 DEF IndInv

LEMMA RsyncReadInv ==
    ASSUME IndInv, NEW p \in Proc, NEW f \in File, RsyncRead(p, f)
    PROVE  IndInv'
<1> USE DEF RsyncRead, Running, env, audit, receiver
<1>0. /\ child[p] \in Child /\ child'[p] \in Child
      /\ child'[p].task = child[p].task /\ child'[p].run = child[p].run
      /\ child'[p].exit = child[p].exit
  <2> DEFINE c == child[p]
             g == [c.got EXCEPT ![f] = IF c.task = "transfer" THEN source[f] ELSE c.got[f]]
             d == c.diff \/ (c.task = "compare" /\ source[f] \notin {Absent, snapshot[c.run][f]})
  <2>1. c \in Child
    BY DEF IndInv, TypeOK
  <2>2. g \in Tree
    BY <2>1 DEF IndInv, TypeOK, Child, Tree, Content
  <2>3. d \in BOOLEAN
    BY <2>1 DEF Child
  <2>4. child'[p] = [c EXCEPT !.todo = c.todo \ {f}, !.got = g, !.diff = d]
    BY <2>1 DEF IndInv, TypeOK, Child
  <2>5. [c EXCEPT !.todo = c.todo \ {f}, !.got = g, !.diff = d] \in Child
    <3> HIDE DEF g, d
    <3> QED
        BY <2>1, <2>2, <2>3 DEF Child
  <2>6. /\ child'[p].task = c.task /\ child'[p].run = c.run /\ child'[p].exit = c.exit
    <3> HIDE DEF g, d
    <3> QED
        BY <2>1, <2>4 DEF Child
  <2> QED
    BY <2>1, <2>4, <2>5, <2>6
<1>1. TypeOK'
    BY <1>0 DEF IndInv, TypeOK, Control, PC
<1>2. Control'
    BY <1>0 DEF IndInv, TypeOK, Control, PC
<1>3. OneOperationAtATime'
    BY DEF IndInv, TypeOK, Control, OneOperationAtATime, Locked, PC
<1>4. IdsAreFresh'
    BY DEF IndInv, TypeOK, IdsAreFresh, Planning
<1>5. RunIsApproved'
    BY DEF IndInv, TypeOK, Control, RunIsApproved, PlanHash, Alive
<1>6. EvidenceInOrder' /\ SuccessIsBacked'
    BY <1>0 DEF IndInv, TypeOK, Control, EvidenceInOrder, SuccessIsBacked
<1>7. ChosenBase' /\ BaseIsRecoveryPoint'
    BY DEF IndInv, TypeOK, Control, ChosenBase, Planning, BaseIsRecoveryPoint
<1> QED
    BY <1>1, <1>2, <1>3, <1>4, <1>5, <1>6, <1>7 DEF IndInv

(* Renaming files into place leaves every snapshot a tree.                 *)
LEMMA InstallType ==
    ASSUME TypeOK, NEW c \in Child, NEW S \in SUBSET File, Install(c, S)
    PROVE  snapshot' \in [RunId -> Tree]
<1> DEFINE t == [f \in File |-> IF f \in S /\ c.got[f] # Absent THEN c.got[f]
                                                        ELSE snapshot[c.run][f]]
<1>1. c.run \in RunId /\ c.got \in Tree /\ snapshot[c.run] \in Tree
    BY DEF TypeOK, Child
<1>2. t \in Tree
    BY <1>1 DEF Tree, Content
<1>3. snapshot' = [snapshot EXCEPT ![c.run] = t]
    BY DEF Install
<1> QED
    BY <1>2, <1>3 DEF TypeOK

LEMMA RsyncSucceedsInv ==
    ASSUME IndInv, NEW p \in Proc, RsyncSucceeds(p)
    PROVE  IndInv'
<1> USE DEF RsyncSucceeds, Running, env, audit
<1>0. /\ child[p] \in Child /\ child'[p] \in Child
      /\ child'[p].task = child[p].task /\ child'[p].run = child[p].run
      /\ child'[p].exit = "ok"
    BY DEF IndInv, TypeOK, Child
<1>a. snapshot' \in [RunId -> Tree] /\ marker' \subseteq RunId
    BY <1>0, InstallType DEF IndInv, TypeOK, Child
<1>1. TypeOK'
    BY <1>0, <1>a DEF IndInv, TypeOK, Child
<1>2. Control'
    BY <1>0 DEF IndInv, TypeOK, Control, PC
<1>3. OneOperationAtATime'
    BY DEF IndInv, TypeOK, Control, OneOperationAtATime, Locked, PC
<1>4. IdsAreFresh'
    BY DEF IndInv, TypeOK, IdsAreFresh, Planning
<1>5. RunIsApproved'
    BY DEF IndInv, TypeOK, Control, RunIsApproved, PlanHash, Alive
<1>6. EvidenceInOrder' /\ SuccessIsBacked'
    BY <1>0 DEF IndInv, TypeOK, Control, EvidenceInOrder, SuccessIsBacked, Child
<1>7. ChosenBase' /\ BaseIsRecoveryPoint'
    BY DEF IndInv, TypeOK, Control, ChosenBase, Planning, BaseIsRecoveryPoint
<1> QED
    BY <1>1, <1>2, <1>3, <1>4, <1>5, <1>6, <1>7 DEF IndInv

LEMMA RsyncStopsInv ==
    ASSUME IndInv, NEW p \in Proc, RsyncStops(p)
    PROVE  IndInv'
<1> USE DEF RsyncStops, Running, env, audit
<1>0. /\ child[p] \in Child /\ child'[p] \in Child
      /\ child'[p].task = child[p].task /\ child'[p].run = child[p].run
      /\ child'[p].exit = "failed"
    BY DEF IndInv, TypeOK, Child
<1>a. snapshot' \in [RunId -> Tree] /\ marker' \subseteq RunId
    BY <1>0, InstallType DEF IndInv, TypeOK, Child
<1>1. TypeOK'
    BY <1>0, <1>a DEF IndInv, TypeOK, Child
<1>2. Control'
    BY <1>0 DEF IndInv, TypeOK, Control, PC
<1>3. OneOperationAtATime'
    BY DEF IndInv, TypeOK, Control, OneOperationAtATime, Locked, PC
<1>4. IdsAreFresh'
    BY DEF IndInv, TypeOK, IdsAreFresh, Planning
<1>5. RunIsApproved'
    BY DEF IndInv, TypeOK, Control, RunIsApproved, PlanHash, Alive
<1>6. EvidenceInOrder' /\ SuccessIsBacked'
    BY <1>0 DEF IndInv, TypeOK, Control, EvidenceInOrder, SuccessIsBacked, Child
<1>7. ChosenBase' /\ BaseIsRecoveryPoint'
    BY DEF IndInv, TypeOK, Control, ChosenBase, Planning, BaseIsRecoveryPoint
<1> QED
    BY <1>1, <1>2, <1>3, <1>4, <1>5, <1>6, <1>7 DEF IndInv

(* A run that goes on with the arguments it started with stays approved.   *)
LEMMA StillApproved ==
    ASSUME IndInv, NEW p \in Proc, plan' = plan, Alive(p),
           call'[p].op = call[p].op, call'[p].run = call[p].run, call'[p].cfg = call[p].cfg,
           call'[p].approval = call[p].approval, call'[p].base = call[p].base,
           \A q \in Proc \ {p} : call'[q] = call[q] /\ pc'[q] = pc[q]
    PROVE  RunIsApproved'
<1> SUFFICES ASSUME NEW q \in Proc, Alive(q)', call'[q].op = "run"
             PROVE  RunIsApproved!(q)!2'
    BY DEF RunIsApproved
<1>1. Alive(q) /\ RunIsApproved!(q)!2
    BY DEF IndInv, RunIsApproved, Alive
<1> QED
    BY <1>1 DEF PlanHash

LEMMA TransferReapInv ==
    ASSUME IndInv, NEW p \in Proc, TransferReap(p)
    PROVE  IndInv'
<1> USE DEF TransferReap, Finished, Execute, Conclude, Reap, Goto, Ok, Clean, env, audit, receiver
<1>0. /\ call[p] \in Call /\ call'[p] \in Call
      /\ call'[p].op = call[p].op /\ call'[p].run = call[p].run /\ call'[p].cfg = call[p].cfg
      /\ call'[p].approval = call[p].approval /\ call'[p].base = call[p].base
      /\ call'[p].op = "run"
      /\ call'[p].task \in {"transfer", "compare", "marker"}
      /\ pc'[p] = "result" => call'[p].status = "failed"
    BY DEF IndInv, TypeOK, Control, Call, Task, Status
<1>1. TypeOK'
    BY <1>0 DEF IndInv, TypeOK, Control, PC
<1>2. Control'
    BY <1>0 DEF IndInv, TypeOK, Control, PC, Call, Status
<1>3. OneOperationAtATime'
    BY <1>0 DEF IndInv, TypeOK, Control, OneOperationAtATime, Locked, PC
<1>4. IdsAreFresh'
    BY <1>0 DEF IndInv, TypeOK, IdsAreFresh, Planning
<1>5. RunIsApproved'
  <2>1. /\ plan' = plan /\ Alive(p)
        /\ \A q \in Proc \ {p} : call'[q] = call[q] /\ pc'[q] = pc[q]
    BY DEF IndInv, TypeOK, Alive
  <2> QED
    BY <1>0, <2>1, StillApproved
<1>6. EvidenceInOrder' /\ SuccessIsBacked'
    BY <1>0 DEF IndInv, TypeOK, Control, EvidenceInOrder, SuccessIsBacked
<1>7. ChosenBase' /\ BaseIsRecoveryPoint'
    BY <1>0 DEF IndInv, TypeOK, Control, ChosenBase, Planning, BaseIsRecoveryPoint
<1> QED
    BY <1>1, <1>2, <1>3, <1>4, <1>5, <1>6, <1>7 DEF IndInv

LEMMA CompareReapInv ==
    ASSUME IndInv, NEW p \in Proc, CompareReap(p)
    PROVE  IndInv'
<1> USE DEF CompareReap, Finished, Execute, Conclude, Reap, Goto, Ok, Clean, env, audit, receiver
<1>0. /\ call[p] \in Call /\ call'[p] \in Call
      /\ call'[p].op = call[p].op /\ call'[p].run = call[p].run /\ call'[p].cfg = call[p].cfg
      /\ call'[p].approval = call[p].approval /\ call'[p].base = call[p].base
      /\ call'[p].op = "run"
      /\ call'[p].task \in {"compare", "marker"}
      /\ pc'[p] = "result" => call'[p].status = "verification_failed"
    BY DEF IndInv, TypeOK, Control, Call, Task, Status
<1>1. TypeOK'
    BY <1>0 DEF IndInv, TypeOK, Control, PC
<1>2. Control'
    BY <1>0 DEF IndInv, TypeOK, Control, PC, Call, Status
<1>3. OneOperationAtATime'
    BY <1>0 DEF IndInv, TypeOK, Control, OneOperationAtATime, Locked, PC
<1>4. IdsAreFresh'
  <2>1. /\ UNCHANGED <<plan, dirs>>
        /\ ~Planning(p)' /\ \A q \in Proc \ {p} : call'[q] = call[q]
    BY <1>0 DEF IndInv, TypeOK, Planning
  <2> QED
    BY <2>1 DEF IndInv, IdsAreFresh, Planning
<1>5. RunIsApproved'
  <2>1. /\ plan' = plan /\ Alive(p)
        /\ \A q \in Proc \ {p} : call'[q] = call[q] /\ pc'[q] = pc[q]
    BY DEF IndInv, TypeOK, Alive
  <2> QED
    BY <1>0, <2>1, StillApproved
<1>6. EvidenceInOrder' /\ SuccessIsBacked'
    BY <1>0 DEF IndInv, TypeOK, Control, EvidenceInOrder, SuccessIsBacked
<1>7. ChosenBase' /\ BaseIsRecoveryPoint'
    BY <1>0 DEF IndInv, TypeOK, Control, ChosenBase, Planning, BaseIsRecoveryPoint
<1> QED
    BY <1>1, <1>2, <1>3, <1>4, <1>5, <1>6, <1>7 DEF IndInv

(* The marker child ended well: its marker is on the receiver.             *)
LEMMA MarkerReapInv ==
    ASSUME IndInv, NEW p \in Proc, MarkerReap(p)
    PROVE  IndInv'
<1> USE DEF MarkerReap, Finished, Execute, Conclude, Reap, Goto, Ok, Clean, env, audit, receiver
<1>0. /\ call[p] \in Call /\ call'[p] \in Call
      /\ call'[p].op = call[p].op /\ call'[p].run = call[p].run /\ call'[p].cfg = call[p].cfg
      /\ call'[p].approval = call[p].approval /\ call'[p].base = call[p].base
      /\ call'[p].op = "run"
      /\ call'[p].task = "marker"
      /\ call'[p].status \in Status /\ (pc'[p] = "result" => call'[p].status = "failed")
    BY DEF IndInv, TypeOK, Control, Call, Task, Status
<1>1. TypeOK'
    BY <1>0 DEF IndInv, TypeOK, Control, PC
<1>2. Control'
    BY <1>0 DEF IndInv, TypeOK, Control, PC, Call, Status
<1>3. OneOperationAtATime'
    BY <1>0 DEF IndInv, TypeOK, Control, OneOperationAtATime, Locked, PC
<1>4. IdsAreFresh'
    BY <1>0 DEF IndInv, TypeOK, IdsAreFresh, Planning
<1>5. RunIsApproved'
  <2>1. /\ plan' = plan /\ Alive(p)
        /\ \A q \in Proc \ {p} : call'[q] = call[q] /\ pc'[q] = pc[q]
    BY DEF IndInv, TypeOK, Alive
  <2> QED
    BY <1>0, <2>1, StillApproved
<1>6. EvidenceInOrder' /\ SuccessIsBacked'
    BY <1>0 DEF IndInv, TypeOK, Control, EvidenceInOrder, SuccessIsBacked
<1>7. ChosenBase' /\ BaseIsRecoveryPoint'
    BY <1>0 DEF IndInv, TypeOK, Control, ChosenBase, Planning, BaseIsRecoveryPoint
<1> QED
    BY <1>1, <1>2, <1>3, <1>4, <1>5, <1>6, <1>7 DEF IndInv

LEMMA PlanReapInv ==
    ASSUME IndInv, NEW p \in Proc, Finished(p, "dry_run"), Reap(p), Goto(p, "request"),
           UNCHANGED <<lock, call>>, UNCHANGED <<env, audit, receiver, compared>>
    PROVE  IndInv'
<1> USE DEF Finished, Reap, Goto, env, audit, receiver
<1>1. TypeOK'
    BY DEF IndInv, TypeOK, Control, PC
<1>2. Control'
    BY DEF IndInv, TypeOK, Control, PC
<1>3. OneOperationAtATime'
    BY DEF IndInv, TypeOK, Control, OneOperationAtATime, Locked, PC
<1>4. IdsAreFresh'
    BY DEF IndInv, TypeOK, IdsAreFresh, Planning
<1>5. RunIsApproved'
    BY DEF IndInv, TypeOK, Control, RunIsApproved, PlanHash, Alive
<1>6. EvidenceInOrder' /\ SuccessIsBacked'
    BY DEF IndInv, TypeOK, Control, EvidenceInOrder, SuccessIsBacked
<1>7. ChosenBase' /\ BaseIsRecoveryPoint'
    BY DEF IndInv, TypeOK, Control, ChosenBase, Planning, BaseIsRecoveryPoint
<1> QED
    BY <1>1, <1>2, <1>3, <1>4, <1>5, <1>6, <1>7 DEF IndInv

LEMMA WriteRequestInv ==
    ASSUME IndInv, NEW p \in Proc, WriteRequest(p)
    PROVE  IndInv'
<1> USE DEF WriteRequest, Goto, env, receiver
<1>1. TypeOK'
    BY DEF IndInv, TypeOK, Control, PC, Call
<1>2. Control'
    BY DEF IndInv, TypeOK, Control, PC
<1>3. OneOperationAtATime'
    BY DEF IndInv, TypeOK, Control, OneOperationAtATime, Locked, PC
<1>4. IdsAreFresh'
    BY DEF IndInv, TypeOK, IdsAreFresh, Planning
<1>5. RunIsApproved'
    BY DEF IndInv, TypeOK, Control, RunIsApproved, PlanHash, Alive
<1>6. EvidenceInOrder' /\ SuccessIsBacked'
    BY DEF IndInv, TypeOK, Control, EvidenceInOrder, SuccessIsBacked
<1>7. ChosenBase' /\ BaseIsRecoveryPoint'
    BY DEF IndInv, TypeOK, Control, ChosenBase, Planning, BaseIsRecoveryPoint
<1> QED
    BY <1>1, <1>2, <1>3, <1>4, <1>5, <1>6, <1>7 DEF IndInv

(* The plan of a fresh id: no run is approved for it, no base is it.       *)
LEMMA WritePlanInv ==
    ASSUME IndInv, NEW p \in Proc, WritePlan(p)
    PROVE  IndInv'
<1> USE DEF WritePlan, Return, env, receiver
<1>0. /\ Planning(p) /\ call[p] \in Call
      /\ plan'[call[p].run] \in PlanRecord /\ plan'[call[p].run].prev = call[p].base
      /\ \A r \in RunId \ {call[p].run} : plan'[r] = plan[r]
    BY DEF IndInv, TypeOK, Control, Call, PlanRecord, Planning
<1>1. TypeOK'
  <2>1. plan' \in [RunId -> PlanRecord \cup {None}] /\ ret' \in [Proc -> Exit \cup {None}]
    BY <1>0 DEF IndInv, TypeOK, Exit
  <2> QED
    BY <2>1 DEF IndInv, TypeOK, PC
<1>2. Control'
    BY <1>0 DEF IndInv, TypeOK, Control, PC
<1>3. OneOperationAtATime'
    BY <1>0 DEF IndInv, TypeOK, Control, OneOperationAtATime, Locked, PC
<1>4. IdsAreFresh'
    BY <1>0 DEF IndInv, TypeOK, IdsAreFresh, Planning
<1>5. RunIsApproved'
    BY <1>0 DEF IndInv, TypeOK, Control, RunIsApproved, PlanHash, Alive, IdsAreFresh, Planning
<1>6. EvidenceInOrder' /\ SuccessIsBacked'
    BY <1>0 DEF IndInv, TypeOK, Control, EvidenceInOrder, SuccessIsBacked, IdsAreFresh
<1>7. ChosenBase' /\ BaseIsRecoveryPoint'
  <2>1. ChosenBase'
    BY DEF IndInv, TypeOK, ChosenBase, Planning
  <2>2. ASSUME NEW r \in RunId, plan'[r] # None, plan'[r].prev # None
        PROVE  plan'[r].prev \in (completed \cap marker) \ {r}
    <3>1. CASE r = call[p].run
        BY <1>0, <2>2, <3>1 DEF IndInv, ChosenBase, EvidenceInOrder
    <3>2. CASE r # call[p].run
        BY <1>0, <2>2, <3>2 DEF IndInv, BaseIsRecoveryPoint
    <3> QED
        BY <3>1, <3>2
  <2> QED
    BY <2>1, <2>2 DEF BaseIsRecoveryPoint
<1> QED
    BY <1>1, <1>2, <1>3, <1>4, <1>5, <1>6, <1>7 DEF IndInv

LEMMA WriteCompletedInv ==
    ASSUME IndInv, NEW p \in Proc, WriteCompleted(p)
    PROVE  IndInv'
<1> USE DEF WriteCompleted, Goto, env, receiver
<1>1. TypeOK'
    BY DEF IndInv, TypeOK, Control, PC, Call
<1>2. Control'
    BY DEF IndInv, TypeOK, Control, PC, Status
<1>3. OneOperationAtATime'
    BY DEF IndInv, TypeOK, Control, OneOperationAtATime, Locked, PC
<1>4. IdsAreFresh'
    BY DEF IndInv, TypeOK, IdsAreFresh, Planning
<1>5. RunIsApproved'
    BY DEF IndInv, TypeOK, Control, RunIsApproved, PlanHash, Alive
<1>6. EvidenceInOrder' /\ SuccessIsBacked'
  <2>1. call[p].run \in marker /\ completed \subseteq marker
    BY DEF IndInv, EvidenceInOrder
  <2>2. EvidenceInOrder'
    BY <2>1 DEF IndInv, TypeOK, EvidenceInOrder
  <2> QED
    BY <2>2 DEF IndInv, SuccessIsBacked
<1>7. ChosenBase' /\ BaseIsRecoveryPoint'
    BY DEF IndInv, TypeOK, Control, ChosenBase, Planning, BaseIsRecoveryPoint
<1> QED
    BY <1>1, <1>2, <1>3, <1>4, <1>5, <1>6, <1>7 DEF IndInv

LEMMA WriteResultInv ==
    ASSUME IndInv, NEW p \in Proc, WriteResult(p)
    PROVE  IndInv'
<1> USE DEF WriteResult, Goto, env, receiver
<1>1. TypeOK'
    BY DEF IndInv, TypeOK, Control, PC, Call
<1>2. Control'
    BY DEF IndInv, TypeOK, Control, PC
<1>3. OneOperationAtATime'
    BY DEF IndInv, TypeOK, Control, OneOperationAtATime, Locked, PC
<1>4. IdsAreFresh'
    BY DEF IndInv, TypeOK, IdsAreFresh, Planning
<1>5. RunIsApproved'
    BY DEF IndInv, TypeOK, Control, RunIsApproved, PlanHash, Alive
<1>6. EvidenceInOrder' /\ SuccessIsBacked'
    BY DEF IndInv, TypeOK, Control, EvidenceInOrder, SuccessIsBacked, RunIsApproved, Alive, Call
<1>7. ChosenBase' /\ BaseIsRecoveryPoint'
    BY DEF IndInv, TypeOK, Control, ChosenBase, Planning, BaseIsRecoveryPoint
<1> QED
    BY <1>1, <1>2, <1>3, <1>4, <1>5, <1>6, <1>7 DEF IndInv

LEMMA WriteLatestInv ==
    ASSUME IndInv, NEW p \in Proc, WriteLatest(p)
    PROVE  IndInv'
<1> USE DEF WriteLatest, LatestRecord, Return, env, receiver
<1>1. TypeOK'
    BY DEF IndInv, TypeOK, Control, PC, Call, LatestRecords, Exit
<1>2. Control'
    BY DEF IndInv, TypeOK, Control, PC
<1>3. OneOperationAtATime'
    BY DEF IndInv, TypeOK, Control, OneOperationAtATime, Locked, PC
<1>4. IdsAreFresh'
    BY DEF IndInv, TypeOK, IdsAreFresh, Planning
<1>5. RunIsApproved'
    BY DEF IndInv, TypeOK, Control, RunIsApproved, PlanHash, Alive
<1>6. EvidenceInOrder' /\ SuccessIsBacked'
    BY DEF IndInv, TypeOK, Control, EvidenceInOrder, SuccessIsBacked
<1>7. ChosenBase' /\ BaseIsRecoveryPoint'
    BY DEF IndInv, TypeOK, Control, ChosenBase, Planning, BaseIsRecoveryPoint
<1> QED
    BY <1>1, <1>2, <1>3, <1>4, <1>5, <1>6, <1>7 DEF IndInv

(* A killed invocation leaves its child behind and nothing else.           *)
LEMMA CrashInv ==
    ASSUME IndInv, NEW p \in Proc, Crash(p)
    PROVE  IndInv'
<1> USE DEF Crash, Return, Reap, Running, Alive, env, audit, receiver
<1>1. TypeOK'
    BY DEF IndInv, TypeOK, Control, PC, Exit
<1>2. Control'
    BY DEF IndInv, TypeOK, Control, PC
<1>3. OneOperationAtATime'
    BY DEF IndInv, TypeOK, Control, OneOperationAtATime, Locked, PC
<1>4. IdsAreFresh'
    BY DEF IndInv, TypeOK, IdsAreFresh, Planning
<1>5. RunIsApproved'
    BY DEF IndInv, TypeOK, Control, RunIsApproved, PlanHash, Alive
<1>6. EvidenceInOrder' /\ SuccessIsBacked'
    BY DEF IndInv, TypeOK, Control, EvidenceInOrder, SuccessIsBacked
<1>7. ChosenBase' /\ BaseIsRecoveryPoint'
    BY DEF IndInv, TypeOK, Control, ChosenBase, Planning, BaseIsRecoveryPoint
<1> QED
    BY <1>1, <1>2, <1>3, <1>4, <1>5, <1>6, <1>7 DEF IndInv

-----------------------------------------------------------------------------
LEMMA StutterInv ==
    ASSUME IndInv, UNCHANGED vars
    PROVE  IndInv'
BY DEF vars, IndInv, TypeOK, Control, OneOperationAtATime, IdsAreFresh, RunIsApproved,
       EvidenceInOrder, SuccessIsBacked, ChosenBase, BaseIsRecoveryPoint,
       Planning, Alive, Locked, PlanHash

(* The calls that are refused or answered at once, and the other ways in   *)
(* which an invocation only returns.                                       *)
LEMMA ReturningSteps ==
    ASSUME IndInv, NEW p \in Proc,
           \/ PlanRefused(p)
           \/ \E r \in RunId : VerifyRefused(p, r) \/ RunAlreadyDone(p, r)
           \/ \E r \in RunId, a \in Approvals : RunRefused(p, r, a)
           \/ LockBusy(p) \/ VerifyReap(p) \/ Abort(p) \/ OrphanEnds(p)
    PROVE  IndInv'
<1> USE ReturnInv DEF IndInv, TypeOK, Control, Exit, Reap
<1>1. CASE PlanRefused(p)
    BY <1>1 DEF PlanRefused
<1>2. ASSUME NEW r \in RunId, VerifyRefused(p, r) \/ RunAlreadyDone(p, r) PROVE IndInv'
    BY <1>2 DEF VerifyRefused, RunAlreadyDone
<1>3. ASSUME NEW r \in RunId, NEW a \in Approvals, RunRefused(p, r, a) PROVE IndInv'
    BY <1>3 DEF RunRefused
<1>4. CASE LockBusy(p)
    BY <1>4 DEF LockBusy
<1>5. CASE VerifyReap(p)
    BY <1>5 DEF VerifyReap
<1>6. CASE Abort(p)
    BY <1>6 DEF Abort
<1>7. CASE OrphanEnds(p)
    BY <1>7 DEF OrphanEnds
<1> QED
    BY <1>1, <1>2, <1>3, <1>4, <1>5, <1>6, <1>7

LEMMA PlanReapSteps ==
    ASSUME IndInv, NEW p \in Proc, PlanReap(p)
    PROVE  IndInv'
<1>1. CASE Ok(p)
    BY <1>1, PlanReapInv DEF PlanReap, audit, receiver, env
<1>2. CASE ~Ok(p)
    BY <1>2, ReturnInv DEF PlanReap, Reap, Exit, IndInv, TypeOK
<1> QED
    BY <1>1, <1>2

LEMMA NextInv == IndInv /\ [Next]_vars => IndInv'
<1> SUFFICES ASSUME IndInv, [Next]_vars PROVE IndInv'
    OBVIOUS
<1>1. CASE UNCHANGED vars
    BY <1>1, StutterInv
<1>2. CASE Producer
    BY <1>2, ProducerInv
<1>3. ASSUME NEW p \in Proc, Invoke(p) PROVE IndInv'
    BY <1>3, PlanStartInv, RunStartInv, VerifyStartInv, ReturningSteps DEF Invoke
<1>4. ASSUME NEW p \in Proc, Proceed(p) PROVE IndInv'
    BY <1>4, ChooseBaseInv, AcquireLockInv, SpawnInv, RsyncStopsInv, PlanReapSteps,
       TransferReapInv, CompareReapInv, MarkerReapInv, WriteRequestInv, WritePlanInv,
       WriteCompletedInv, WriteResultInv, WriteLatestInv, ReturningSteps
    DEF Proceed, Deadline
<1>5. ASSUME NEW p \in Proc, Rsync(p) PROVE IndInv'
    BY <1>5, RsyncSucceedsInv, RsyncStopsInv, RsyncReadInv DEF Rsync, RsyncFails
<1>6. ASSUME NEW p \in Proc, Abort(p) \/ Crash(p) \/ OrphanEnds(p) PROVE IndInv'
    BY <1>6, CrashInv, ReturningSteps
<1> QED
    BY <1>1, <1>2, <1>3, <1>4, <1>5, <1>6 DEF Next

-----------------------------------------------------------------------------
(* Types, control, and every part of the evidence hold in every behaviour. *)
THEOREM Invariance == Spec => []IndInv
<1> QED
    BY InitIndInv, NextInv, PTL DEF Spec

(* The type invariant, for any number of slots, run ids and files.         *)
THEOREM TypeCorrect == Spec => []TypeOK
<1>1. IndInv => TypeOK
    BY DEF IndInv
<1> QED
    BY <1>1, Invariance, PTL

(* The lock serialises the operations of any number of invocations, also   *)
(* when some of them are killed or fail while they hold it.                *)
THEOREM MutualExclusion == Spec => []OneOperationAtATime
<1>1. IndInv => OneOperationAtATime
    BY DEF IndInv
<1> QED
    BY <1>1, Invariance, PTL

(* No crash, failed write, orphan or concurrent repetition can make a      *)
(* result say success without its COMPLETED file, marker and plan.         *)
THEOREM SuccessHasEvidence == Spec => []SuccessIsBacked
<1>1. IndInv => SuccessIsBacked
    BY DEF IndInv
<1> QED
    BY <1>1, Invariance, PTL

(* No run works under another plan, configuration or base than approved.   *)
THEOREM RunsAreApproved == Spec => []RunIsApproved
<1>1. IndInv => RunIsApproved
    BY DEF IndInv
<1> QED
    BY <1>1, Invariance, PTL

(* Every base that a plan names is a completed run with its marker.        *)
THEOREM BasesAreCompleted == Spec => []BaseIsRecoveryPoint
<1>1. IndInv => BaseIsRecoveryPoint
    BY DEF IndInv
<1> QED
    BY <1>1, Invariance, PTL

=============================================================================

-------------------------- MODULE TreatmentsProofs --------------------------
(***************************************************************************)
(* What step 07 guarantees for any number of treatments, any grouping, any *)
(* number of threads and any number of attempts.                           *)
(*                                                                         *)
(* The inductive invariant has four parts: where the loop over the groups  *)
(* stands and which treatments are still before it (LoopInv), what each    *)
(* treatment's thread has on the cluster and on disk (TaskInv), what the   *)
(* loop has learnt of failures (ErrorInv), and that a group's first pods   *)
(* find the caches cold (ColdInv).                                         *)
(***************************************************************************)
EXTENDS Treatments, FiniteSetTheorems, WellFoundedInduction, TLAPS

\* Groups are begun in order, and a treatment's thread is at work only while
\* its group is the current one.
LoopInv ==
    /\ phase \in {"reset", "run"} => (opt.required => opt.resetCaches)
    /\ phase = "run" => batch <= NumBatches
    /\ phase = "start" => batch = 1
    /\ batch <= NumBatches + 1
    /\ \A t \in Treatments :
          /\ thread[t] # "idle" =>
                /\ BatchOf[t] <= batch
                /\ phase \in {"start", "reset"} => BatchOf[t] < batch
          /\ thread[t] = "idle" =>
                /\ BatchOf[t] >= batch
                /\ phase = "run" => BatchOf[t] > batch
          /\ thread[t] \in Active \cup {"queued"} => phase = "run" /\ BatchOf[t] = batch
    /\ \A t, u \in Treatments :
          BatchOf[t] = BatchOf[u] /\ thread[t] = "idle" => thread[u] = "idle"

\* What thread t leaves behind at each place of an attempt.
TaskOf(t) ==
    /\ thread[t] \in {"idle", "queued"} =>
          attempt[t] = 1 /\ pod[t] = "none" /\ local[t] = "none"
    /\ thread[t] \in {"deploy", "judge", "ok", "failed"} => pod[t] = "none"
    /\ thread[t] \in {"clean", "judge"} /\ ~bad[t] => local[t] # "partial"
    /\ thread[t] = "ok" => local[t] # "partial" /\ <<t, attempt[t]>> \in recorded
    /\ \A k \in Attempts : <<t, k>> \in recorded => thread[t] = "ok" /\ k = attempt[t]

TaskInv == \A t \in Treatments : TaskOf(t)

\* A failure is known once its group is over, and stops the loop if it should.
ErrorInv ==
    /\ \A t \in Treatments :
          /\ t \in errors => thread[t] \in {"failed", "raised"}
          /\ thread[t] \in {"failed", "raised"} =>
                t \in errors \/ (BatchOf[t] = batch /\ phase \in {"run", "raised"})
          /\ opt.stopOnError /\ t \in errors => phase = "done" /\ BatchOf[t] = batch
    /\ aborted => phase = "done" /\ thread[NumTreatments] = "idle"
    /\ phase = "done" /\ errors = {} /\ ~aborted => batch > NumBatches

\* Until a group's first pods are deployed its required reset holds.
Fresh == \A u \in Members : attempt[u] = 1 /\ thread[u] \in {"queued", "deploy"}

ColdInv == phase = "run" /\ opt.required /\ Fresh => cold

IInv == TypeOK /\ LoopInv /\ TaskInv /\ ErrorInv /\ ColdInv

-----------------------------------------------------------------------------
(* The batches.                                                            *)

\* Batches are numbered from 1, in the order of the treatments.
LEMMA Batches ==
    /\ NumTreatments \in Treatments /\ NumBatches \in 1..NumTreatments
    /\ \A t \in Treatments : BatchOf[t] \in 1..NumBatches
<1>1. NumTreatments \in Treatments
  BY TreatmentAssumption DEF TreatmentAssumption, Treatments
<1>. DEFINE Upto(n) == Heads \cap 1..n
<1>2. ASSUME NEW t \in Treatments, NEW u \in Treatments, t <= u
      PROVE  /\ Cardinality(Upto(t)) \in 1..u
             /\ Cardinality(Upto(t)) <= Cardinality(Upto(u))
  <2>1. t \in Nat \ {0} /\ u \in Nat \ {0} /\ 1 \in Heads
    BY TreatmentAssumption DEF TreatmentAssumption, Treatments, Heads
  <2>2. {1} \in SUBSET Upto(t) /\ Upto(t) \in SUBSET Upto(u) /\ Upto(u) \in SUBSET (1..u)
    BY <1>2, <2>1
  <2>3. IsFiniteSet(1..u) /\ Cardinality(1..u) = u
    BY <2>1, FS_Interval
  <2>. HIDE DEF Upto
  <2>4. IsFiniteSet(Upto(u)) /\ Cardinality(Upto(u)) <= u
    <3>. DEFINE I == 1..u
    <3>1. IsFiniteSet(I) /\ Upto(u) \in SUBSET I /\ Cardinality(I) = u
      BY <2>2, <2>3
    <3>. HIDE DEF I
    <3>2. IsFiniteSet(Upto(u)) /\ Cardinality(Upto(u)) <= Cardinality(I)
      BY <3>1, FS_Subset
    <3>. QED
      BY <3>1, <3>2
  <2>5. IsFiniteSet(Upto(t)) /\ Cardinality(Upto(t)) <= Cardinality(Upto(u))
    BY <2>2, <2>4, FS_Subset
  <2>6. Cardinality({1}) <= Cardinality(Upto(t)) /\ Cardinality({1}) = 1
    BY <2>2, <2>5, FS_Subset, FS_Singleton
  <2>7. Cardinality(Upto(t)) \in Nat /\ Cardinality(Upto(u)) \in Nat
    BY <2>4, <2>5, FS_CardinalityType
  <2>. QED
    BY <2>1, <2>4, <2>5, <2>6, <2>7
<1>3. ASSUME NEW t \in Treatments PROVE t <= NumTreatments
  BY TreatmentAssumption DEF TreatmentAssumption, Treatments
<1>4. NumBatches \in 1..NumTreatments
  BY <1>1, <1>2, <1>3 DEF NumBatches, BatchOf
<1>5. ASSUME NEW t \in Treatments PROVE BatchOf[t] \in 1..NumBatches
  BY <1>1, <1>2, <1>3, <1>4 DEF NumBatches, BatchOf
<1>. QED
  BY <1>1, <1>4, <1>5

LEMMA MembersAre == \A t \in Treatments : t \in Members <=> BatchOf[t] = batch
  BY DEF Members

-----------------------------------------------------------------------------
(* The steps of execute().                                                 *)

LEMMA InitIInv == Init => IInv
<1>. SUFFICES ASSUME Init PROVE IInv
  OBVIOUS
<1>1. TypeOK
  <2>1. 1 \in Attempts /\ 1 \in 1..(NumTreatments + 1)
    BY TreatmentAssumption DEF TreatmentAssumption, Attempts
  <2>2. /\ thread \in [Treatments -> {"idle", "queued"} \cup Active \cup Ended]
        /\ attempt \in [Treatments -> Attempts] /\ bad \in [Treatments -> BOOLEAN]
        /\ pod \in [Treatments -> {"none", "running", "ended"}] /\ left \in SUBSET Treatments
        /\ local \in [Treatments -> {"none", "partial", "whole"}]
    BY <2>1 DEF Init
  <2>3. /\ recorded \in SUBSET (Treatments \X Attempts) /\ errors \in SUBSET Treatments
        /\ aborted \in BOOLEAN /\ cold \in BOOLEAN
        /\ phase \in {"start", "reset", "run", "done", "raised"}
    BY DEF Init
  <2>4. batch \in 1..(NumTreatments + 1)
    BY <2>1 DEF Init
  <2>5. opt \in [resetCaches : BOOLEAN, required : BOOLEAN, stopOnError : BOOLEAN]
    BY DEF Init
  <2>. QED
    BY <2>2, <2>3, <2>4, <2>5 DEF TypeOK
<1>2. LoopInv
  BY Batches DEF Init, LoopInv, Active
<1>3. TaskInv
  BY DEF Init, TaskInv, TaskOf
<1>4. ErrorInv
  BY DEF Init, ErrorInv
<1>5. ColdInv
  BY DEF Init, ColdInv
<1>. QED
  BY <1>1, <1>2, <1>3, <1>4, <1>5 DEF IInv

LEMMA CheckControlsIInv == ASSUME IInv, CheckControls PROVE IInv'
<1>. USE DEF CheckControls, IInv, taskVars
<1>1. TypeOK'
  BY DEF TypeOK
<1>2. LoopInv'
  BY Batches DEF TypeOK, LoopInv, Active
<1>3. TaskInv'
  BY DEF TaskInv, TaskOf
<1>4. ErrorInv'
  BY Batches DEF LoopInv, ErrorInv
<1>5. ColdInv'
  BY DEF ColdInv
<1>. QED
  BY <1>1, <1>2, <1>3, <1>4, <1>5

\* The members of a group about to begin were all idle.
LEMMA StartGroupIInv ==
    ASSUME IInv, phase = "reset", batch <= NumBatches, StartGroup, cold' \in BOOLEAN,
           opt.required => cold'
    PROVE  IInv'
<1>. USE DEF StartGroup, IInv
<1>1. /\ \A t \in Treatments : t \in Members <=> BatchOf[t] = batch
      /\ \A t \in Members : thread[t] = "idle" /\ t \in Treatments
      /\ \A t \in Treatments : thread'[t] = IF t \in Members THEN "queued" ELSE thread[t]
      /\ thread' \in [Treatments -> {"idle", "queued"} \cup Active \cup Ended]
  BY MembersAre, Batches DEF LoopInv, TypeOK, Members
<1>2. TypeOK'
  BY <1>1 DEF TypeOK
<1>3. LoopInv'
  BY <1>1, Batches DEF TypeOK, LoopInv, Active
<1>4. TaskInv'
  BY <1>1 DEF TaskInv, TaskOf
<1>5. ErrorInv'
  BY <1>1 DEF ErrorInv, LoopInv
<1>6. ColdInv'
  BY DEF ColdInv
<1>. QED
  BY <1>2, <1>3, <1>4, <1>5, <1>6

LEMMA ResetCachesIInv == ASSUME IInv, ResetCaches PROVE IInv'
<1>1. phase = "reset" /\ batch <= NumBatches /\ cold \in BOOLEAN
  BY DEF ResetCaches, IInv, TypeOK
<1>2. CASE StartGroup /\ (cold' = TRUE \/ (UNCHANGED cold /\ ~opt.required))
  BY <1>1, <1>2, StartGroupIInv
<1>3. CASE /\ aborted' = TRUE /\ phase' = "done"
           /\ UNCHANGED <<taskVars, opt, batch, errors, cold>>
  <2>. USE <1>1, <1>3 DEF IInv, taskVars
  <2>1. TypeOK'
    BY DEF TypeOK
  <2>2. LoopInv'
    BY DEF LoopInv, Active
  <2>3. TaskInv'
    BY DEF TaskInv, TaskOf
  <2>4. ErrorInv'
    <3>1. thread[NumTreatments] = "idle"
      BY Batches DEF LoopInv, TypeOK, NumBatches
    <3>. QED
      BY <3>1 DEF ErrorInv
  <2>5. ColdInv'
    BY DEF ColdInv
  <2>. QED
    BY <2>1, <2>2, <2>3, <2>4, <2>5
<1>. QED
  BY <1>1, <1>2, <1>3 DEF ResetCaches, ResetFails, IInv, LoopInv

LEMMA GatherIInv == ASSUME IInv, Gather PROVE IInv'
<1>. USE DEF Gather, IInv, taskVars
<1>1. /\ \A t \in Treatments : t \in Members <=> BatchOf[t] = batch
      /\ Failed \subseteq Members /\ Members \subseteq Treatments
      /\ \A t \in Members : thread[t] \in Ended /\ (t \in Failed <=> thread[t] # "ok")
  BY MembersAre DEF Failed, GroupOver, Members
<1>2. TypeOK'
  BY <1>1, Batches, TreatmentAssumption DEF TreatmentAssumption, TypeOK, LoopInv
<1>3. LoopInv'
  BY <1>1, Batches DEF TypeOK, LoopInv, Active, Ended
<1>4. TaskInv'
  BY DEF TaskInv, TaskOf
<1>5. ErrorInv'
  BY <1>1, Batches DEF TypeOK, LoopInv, ErrorInv, Ended
<1>6. ColdInv'
  BY DEF ColdInv
<1>. QED
  BY <1>2, <1>3, <1>4, <1>5, <1>6

LEMMA ReturnIInv == ASSUME IInv, Return PROVE IInv'
<1>. USE DEF Return, IInv, taskVars
<1>1. TypeOK'
  BY DEF TypeOK
<1>2. LoopInv'
  BY Batches DEF TypeOK, LoopInv, Active
<1>3. TaskInv'
  BY DEF TaskInv, TaskOf
<1>4. ErrorInv'
  BY DEF ErrorInv, LoopInv
<1>5. ColdInv'
  BY DEF ColdInv
<1>. QED
  BY <1>1, <1>2, <1>3, <1>4, <1>5

-----------------------------------------------------------------------------
(* The steps of a thread.                                                  *)

\* A thread at work moves on, and nothing of the loop changes but that an
\* exception in a group of one leaves it.
Moves(t, l) ==
    /\ thread[t] \in Active \cup {"queued"} /\ l \in Active \cup Ended
    /\ Goto(t, l)
    /\ \/ UNCHANGED phase
       \/ phase' = "raised" /\ l = "raised" /\ Cardinality(Members) = 1
    /\ UNCHANGED <<opt, batch, errors, aborted>>

LEMMA TreatMoves ==
    ASSUME IInv, NEW t \in Treatments, Treat(t)
    PROVE  \E l : Moves(t, l)
<1>1. CASE Start(t)
  <2>. SUFFICES Moves(t, "deploy")
    OBVIOUS
  <2>. QED
    BY <1>1 DEF Start, At, Moves, Active, stepVars
<1>2. CASE Deploy(t)
  <2>1. Moves(t, "wait") \/ Moves(t, "judge")
    BY <1>2 DEF Deploy, At, Moves, Active, stepVars
  <2>. QED
    BY <2>1
<1>3. CASE WaitSeesEnd(t) \/ WaitTimesOut(t) \/ WaitMisreads(t)
  <2>1. Moves(t, "collect")
    BY <1>3 DEF WaitSeesEnd, WaitTimesOut, WaitMisreads, At, Moves, Active, stepVars
  <2>. QED
    BY <2>1
<1>4. CASE Collect(t)
  <2>1. Moves(t, "clean")
    BY <1>4 DEF Collect, At, Moves, Active, stepVars
  <2>. QED
    BY <2>1
<1>5. CASE Clean(t)
  <2>1. Moves(t, "judge")
    BY <1>5 DEF Clean, At, Moves, Active, stepVars
  <2>. QED
    BY <2>1
<1>6. CASE Succeed(t)
  <2>1. Moves(t, "ok")
    BY <1>6 DEF Succeed, At, Moves, Active, Ended, stepVars
  <2>. QED
    BY <2>1
<1>7. CASE Fail(t)
  <2>1. Moves(t, "deploy") \/ Moves(t, "failed")
    BY <1>7 DEF Fail, Retry, GiveUp, At, Moves, Active, Ended, stepVars
  <2>. QED
    BY <2>1
<1>8. CASE Raise(t)
  <2>1. Moves(t, "raised")
    BY <1>8 DEF Raise, Moves, Active, Ended
  <2>. QED
    BY <2>1
<1>. QED
  BY <1>1, <1>2, <1>3, <1>4, <1>5, <1>6, <1>7, <1>8 DEF Treat

LEMMA MovesLoopErrorInv ==
    ASSUME IInv, NEW t \in Treatments, NEW l, Moves(t, l)
    PROVE  LoopInv' /\ ErrorInv'
<1>. USE DEF IInv, Moves
<1>1. phase = "run" /\ BatchOf[t] = batch /\ t \in Members
  BY MembersAre DEF LoopInv
<1>2. /\ thread'[t] = l /\ \A u \in Treatments : u # t => thread'[u] = thread[u]
      /\ thread[t] # "idle" /\ l \notin {"idle", "queued"}
      /\ thread[t] \notin {"failed", "raised"}
  BY DEF Goto, TypeOK, Active, Ended
<1>3. ASSUME phase' # phase, NEW u \in Treatments, u # t
      PROVE  thread[u] \notin Active \cup {"queued"}
  <2>1. phase' = "raised" /\ Cardinality(Members) = 1
    BY <1>3
  <2>2. IsFiniteSet(Members)
    <3>1. IsFiniteSet(Treatments)
      BY TreatmentAssumption, FS_Interval DEF TreatmentAssumption, Treatments
    <3>2. Members \in SUBSET Treatments
      BY DEF Members
    <3>. QED
      BY <3>1, <3>2, FS_Subset
  <2>3. u \notin Members
    BY <1>1, <1>3, <2>1, <2>2, FS_Singleton
  <2>. QED
    BY <2>3, MembersAre DEF LoopInv
<1>4. LoopInv'
  <2>1. ASSUME NEW u \in Treatments
        PROVE  thread'[u] \in Active \cup {"queued"} => phase' = "run" /\ BatchOf[u] = batch
    <3>1. CASE u = t
      BY <1>1, <1>2, <3>1 DEF Active
    <3>2. CASE u # t
      BY <1>1, <1>2, <1>3, <3>2 DEF LoopInv
    <3>. QED
      BY <3>1, <3>2
  <2>2. ASSUME NEW u \in Treatments
        PROVE  /\ thread'[u] = "idle" <=> thread[u] = "idle"
               /\ thread'[u] # "idle" => BatchOf[u] <= batch
               /\ thread'[u] = "idle" => BatchOf[u] > batch /\ BatchOf[u] >= batch
    BY <1>1, <1>2, Batches DEF LoopInv, TypeOK
  <2>. QED
    BY <1>1, <2>1, <2>2 DEF LoopInv
<1>5. ErrorInv'
  <2>1. ~aborted /\ phase' # "done"
    BY <1>1 DEF ErrorInv
  <2>2. ASSUME NEW u \in Treatments
        PROVE  /\ u \in errors => thread'[u] \in {"failed", "raised"}
               /\ thread'[u] \in {"failed", "raised"} =>
                     u \in errors \/ (BatchOf[u] = batch /\ phase' \in {"run", "raised"})
               /\ ~(opt.stopOnError /\ u \in errors)
    BY <1>1, <1>2 DEF ErrorInv
  <2>. QED
    BY <2>1, <2>2 DEF ErrorInv
<1>. QED
  BY <1>4, <1>5

\* A thread's step leaves the other treatments' things alone.
OthersKept(t) ==
    \A u \in Treatments \ {t} :
        /\ thread'[u] = thread[u] /\ attempt'[u] = attempt[u] /\ bad'[u] = bad[u]
        /\ pod'[u] = pod[u] /\ local'[u] = local[u]
        /\ \A k \in Attempts : <<u, k>> \in recorded' <=> <<u, k>> \in recorded

LEMMA TreatTasks ==
    ASSUME IInv, NEW t \in Treatments, Treat(t)
    PROVE  TypeOK' /\ TaskOf(t)' /\ OthersKept(t)
<1>. USE DEF IInv, TypeOK, TaskInv, At, Goto, Active, Ended, stepVars
<1>0. TaskOf(t)
  OBVIOUS
<1>1. CASE Start(t)
  BY <1>0, <1>1 DEF Start, TaskOf, OthersKept
<1>2. CASE Deploy(t)
  <2>1. PICK failure \in BOOLEAN :
           /\ bad' = [bad EXCEPT ![t] = failure]
           /\ \/ /\ pod' = [pod EXCEPT ![t] = "running"] /\ cold' = FALSE
                 /\ thread' = [thread EXCEPT ![t] = "wait"]
              \/ /\ failure /\ UNCHANGED <<pod, cold>>
                 /\ thread' = [thread EXCEPT ![t] = "judge"]
    BY <1>2 DEF Deploy
  <2>2. thread[t] = "deploy" /\ UNCHANGED <<attempt, left, local, recorded, stepVars>>
    BY <1>2 DEF Deploy
  <2>3. CASE /\ pod' = [pod EXCEPT ![t] = "running"] /\ cold' = FALSE
             /\ thread' = [thread EXCEPT ![t] = "wait"]
    <3>1. TypeOK'
      BY <2>1, <2>2, <2>3
    <3>2. TaskOf(t)'
      BY <1>0, <2>1, <2>2, <2>3 DEF TaskOf
    <3>3. OthersKept(t)
      BY <2>1, <2>2, <2>3 DEF OthersKept
    <3>. QED
      BY <3>1, <3>2, <3>3
  <2>4. CASE /\ failure /\ UNCHANGED <<pod, cold>>
             /\ thread' = [thread EXCEPT ![t] = "judge"]
    <3>1. TypeOK'
      BY <2>1, <2>2, <2>4
    <3>2. TaskOf(t)'
      BY <1>0, <2>1, <2>2, <2>4 DEF TaskOf
    <3>3. OthersKept(t)
      BY <2>1, <2>2, <2>4 DEF OthersKept
    <3>. QED
      BY <3>1, <3>2, <3>3
  <2>. QED
    BY <2>1, <2>3, <2>4
<1>3. CASE WaitSeesEnd(t)
  BY <1>0, <1>3 DEF WaitSeesEnd, TaskOf, OthersKept
<1>4. CASE WaitTimesOut(t)
  BY <1>0, <1>4 DEF WaitTimesOut, TaskOf, OthersKept
<1>5. CASE WaitMisreads(t)
  BY <1>0, <1>5 DEF WaitMisreads, TaskOf, OthersKept
<1>6. CASE Collect(t)
  BY <1>0, <1>6 DEF Collect, TaskOf, OthersKept
<1>7. CASE Clean(t)
  BY <1>0, <1>7 DEF Clean, TaskOf, OthersKept
<1>8. CASE Succeed(t)
  BY <1>0, <1>8 DEF Succeed, TaskOf, OthersKept
<1>9. CASE Fail(t) /\ Retry(t)
  <2>1. attempt[t] + 1 \in Attempts
    BY <1>9, TreatmentAssumption DEF TreatmentAssumption, Retry, Attempts
  <2>2. PICK rest \in {"none", "partial", local[t]} : local' = [local EXCEPT ![t] = rest]
    BY <1>9 DEF Retry
  <2>. QED
    BY <1>0, <1>9, <2>1, <2>2 DEF Fail, Retry, TaskOf, OthersKept
<1>10. CASE Fail(t) /\ GiveUp(t)
  BY <1>0, <1>10 DEF Fail, GiveUp, TaskOf, OthersKept
<1>11. CASE Raise(t)
  BY <1>0, <1>11 DEF Raise, TaskOf, OthersKept
<1>. QED
  BY <1>1, <1>2, <1>3, <1>4, <1>5, <1>6, <1>7, <1>8, <1>9, <1>10, <1>11 DEF Treat, Fail

\* A thread that deployed, or tries again, is no longer fresh.
LEMMA TreatColdInv ==
    ASSUME IInv, NEW t \in Treatments, Treat(t)
    PROVE  ColdInv'
<1>. SUFFICES ASSUME phase' = "run", opt'.required, Fresh' PROVE cold'
  BY DEF ColdInv
<1>1. PICK l : Moves(t, l)
  BY TreatMoves
<1>2. /\ phase = "run" /\ opt' = opt /\ batch' = batch /\ Members' = Members
      /\ t \in Members
  BY <1>1, MembersAre DEF Moves, Members, IInv, LoopInv
<1>3. attempt'[t] = 1 /\ thread'[t] \in {"queued", "deploy"}
  BY <1>2 DEF Fresh
<1>4. Start(t) \/ (Fail(t) /\ Retry(t))
  BY <1>3 DEF Treat, Deploy, WaitSeesEnd, WaitTimesOut, WaitMisreads, Collect, Clean,
              Succeed, Fail, Retry, GiveUp, Raise, Goto, IInv, TypeOK
<1>5. Start(t)
  <2>1. ~Retry(t)
    BY <1>3, TreatmentAssumption
       DEF TreatmentAssumption, Retry, IInv, TypeOK, Attempts
  <2>. QED
    BY <1>4, <2>1
<1>6. UNCHANGED <<attempt, cold>> /\ thread' = [thread EXCEPT ![t] = "deploy"]
      /\ thread[t] = "queued"
  BY <1>5 DEF Start, At, Goto
<1>7. Fresh
  BY <1>2, <1>6 DEF Fresh, Members, IInv, TypeOK
<1>. QED
  BY <1>2, <1>6, <1>7 DEF IInv, ColdInv

LEMMA TreatIInv == ASSUME IInv, NEW t \in Treatments, Treat(t) PROVE IInv'
<1>1. LoopInv' /\ ErrorInv'
  BY TreatMoves, MovesLoopErrorInv
<1>2. TypeOK' /\ TaskOf(t)' /\ OthersKept(t)
  BY TreatTasks
<1>3. ASSUME NEW u \in Treatments, u # t PROVE TaskOf(u)'
  BY <1>2, <1>3 DEF OthersKept, IInv, TypeOK, TaskInv, TaskOf
<1>4. TaskInv'
  BY <1>2, <1>3 DEF TaskInv
<1>. QED
  BY <1>1, <1>2, <1>4, TreatColdInv DEF IInv

LEMMA HarnessEndsIInv == ASSUME IInv, NEW t \in Treatments, HarnessEnds(t) PROVE IInv'
<1>. USE DEF HarnessEnds, IInv, stepVars
<1>1. TypeOK'
  BY DEF TypeOK
<1>2. LoopInv'
  BY DEF LoopInv
<1>3. ASSUME NEW u \in Treatments PROVE TaskOf(u)'
  BY DEF TaskInv, TaskOf, TypeOK
<1>4. ErrorInv'
  BY DEF ErrorInv
<1>5. ColdInv'
  BY DEF ColdInv, Fresh, Members
<1>. QED
  BY <1>1, <1>2, <1>3, <1>4, <1>5 DEF TaskInv

LEMMA NextIInv == IInv /\ [Next]_vars => IInv'
<1>1. IInv /\ UNCHANGED vars => IInv'
  BY DEF IInv, TypeOK, LoopInv, TaskInv, TaskOf, ErrorInv, ColdInv, Fresh, Members,
         vars, taskVars, stepVars
<1>. QED
  BY <1>1, CheckControlsIInv, ResetCachesIInv, GatherIInv, ReturnIInv, TreatIInv,
     HarnessEndsIInv DEF Next, Execute

LEMMA IInvAlways == Spec => []IInv
  BY InitIInv, NextIInv, PTL DEF Spec

-----------------------------------------------------------------------------

\* The types of the step's state.
THEOREM TypeCorrect == Spec => []TypeOK
  BY IInvAlways, PTL DEF IInv

\* However the treatments interleave, the pods that were neither deleted nor
\* left with a message belong to an attempt at work or to a treatment that
\* raised, and then the step's result has its error.
THEOREM LoadAlwaysAccountedFor == Spec => []LoadIsAccountedFor
<1>1. ASSUME IInv, NEW t \in Treatments, pod[t] # "none"
      PROVE  /\ thread[t] \in {"wait", "collect", "clean", "raised"}
             /\ phase = "done" => t \in errors
  <2>1. thread[t] \in {"wait", "collect", "clean", "raised"}
    BY <1>1 DEF IInv, TypeOK, TaskInv, TaskOf, Active, Ended
  <2>2. phase = "done" => thread[t] = "raised"
    BY <1>1, <2>1 DEF IInv, LoopInv, Active
  <2>. QED
    BY <1>1, <2>1, <2>2 DEF IInv, ErrorInv
<1>2. IInv => LoadIsAccountedFor
  BY <1>1 DEF LoadIsAccountedFor
<1>. QED
  BY <1>2, IInvAlways, PTL

\* What is recorded is one attempt, the last and nothing half collected, of
\* exactly the treatments that succeeded.
THEOREM AlwaysRecordedOnceAndWhole == Spec => []RecordedOnceAndWhole
<1>1. IInv => RecordedOnceAndWhole
  BY DEF IInv, TypeOK, TaskInv, TaskOf, RecordedOnceAndWhole
<1>. QED
  BY <1>1, IInvAlways, PTL

\* With treatment_stop_on_error no group begins after one with a failure, and
\* every group that began is run to its end.
THEOREM AlwaysStopsAtGroupBoundary == Spec => []StopsAtGroupBoundary
<1>1. ASSUME IInv, opt.stopOnError, NEW t \in Treatments, NEW u \in Treatments,
             BatchOf[t] < BatchOf[u], thread[t] \in {"failed", "raised"}
      PROVE  thread[u] = "idle"
  <2>1. BatchOf[t] = batch
    BY <1>1 DEF IInv, ErrorInv
  <2>. QED
    BY <1>1, <2>1, Batches DEF IInv, LoopInv, TypeOK
<1>2. ASSUME IInv, phase = "done", NEW t \in Treatments, NEW u \in Treatments,
             BatchOf[t] = BatchOf[u], thread[t] # "idle"
      PROVE  thread[u] \in Ended
  BY <1>2 DEF IInv, LoopInv, TypeOK
<1>3. IInv => StopsAtGroupBoundary
  BY <1>1, <1>2 DEF StopsAtGroupBoundary
<1>. QED
  BY <1>3, IInvAlways, PTL

\* The step succeeds exactly when every treatment has a recorded attempt
\* (execute).
SuccessMeansAllRecorded ==
    phase = "done" =>
        ((errors = {} /\ ~aborted) <=> \A t \in Treatments : thread[t] = "ok")

LEMMA SuccessIsAllOk == IInv => SuccessMeansAllRecorded
<1>1. ASSUME IInv, phase = "done", errors = {}, ~aborted, NEW t \in Treatments
      PROVE  thread[t] = "ok"
  <2>1. batch > NumBatches /\ BatchOf[t] <= NumBatches /\ BatchOf[t] # batch
    BY <1>1, Batches DEF IInv, ErrorInv, TypeOK
  <2>2. thread[t] # "idle" /\ thread[t] \notin Active \cup {"queued"}
    BY <1>1, <2>1, Batches DEF IInv, LoopInv, TypeOK
  <2>3. thread[t] \notin {"failed", "raised"}
    BY <1>1, <2>1 DEF IInv, ErrorInv
  <2>. QED
    BY <1>1, <2>2, <2>3 DEF IInv, TypeOK, Ended
<1>2. ASSUME IInv, \A t \in Treatments : thread[t] = "ok"
      PROVE  errors = {} /\ ~aborted
  BY <1>2, Batches DEF IInv, TypeOK, ErrorInv
<1>. QED
  BY <1>1, <1>2 DEF SuccessMeansAllRecorded

\* The step's success and the treatments' success are the same thing.
THEOREM SuccessAlwaysMeansAllRecorded == Spec => []SuccessMeansAllRecorded
  BY SuccessIsAllOk, IInvAlways, PTL

\* Whatever the grouping, a required reset is confirmed before the first pod
\* of each group, and no pod is deployed in between.
THEOREM RequiredAlwaysMeansCold == Spec => RequiredMeansCold
<1>. DEFINE A == \A t \in Treatments :
          (/\ opt.required /\ pod'[t] = "running" /\ pod[t] # "running"
           /\ \A u \in Members : attempt[u] = 1 /\ thread[u] \in {"queued", "deploy"})
              => cold
<1>1. IInv /\ [Next]_vars => [A]_vars
  <2>. SUFFICES ASSUME IInv, Next, NEW t \in Treatments, opt.required, Fresh,
                       pod'[t] = "running", pod[t] # "running"
                PROVE  cold
    BY DEF Fresh
  <2>1. Deploy(t)
    BY DEF Next, Execute, CheckControls, ResetCaches, ResetFails, StartGroup, Gather, Return,
           Treat, Start, Deploy, WaitSeesEnd, WaitTimesOut, WaitMisreads, Collect, Clean,
           Succeed, Fail, Raise, HarnessEnds, taskVars, IInv, TypeOK
  <2>2. phase = "run"
    BY <2>1 DEF Deploy, At, IInv, LoopInv, Active
  <2>. QED
    BY <2>2 DEF IInv, ColdInv
<1>. QED
  BY <1>1, IInvAlways, PTL DEF Spec, RequiredMeansCold

-----------------------------------------------------------------------------
(* Step 07 keeps the promise of Trials.                                    *)

LEMMA PromiseInit == Init => Promise!Init
  BY DEF Init, TrialState, TrialCount, Verdict, Promise!Init

\* Whoever has left "waiting" is where the loop says.
LEMMA TrialStates ==
    ASSUME IInv, NEW t \in Treatments
    PROVE  /\ TrialState[t] = "waiting" <=> thread[t] \in {"idle", "queued"}
           /\ TrialState[t] = "working" <=> thread[t] \in Active
           /\ \A e \in Ended : TrialState[t] = e <=> thread[t] = e
           /\ thread[t] \notin {"idle", "queued"} => TrialCount[t] = attempt[t]
           /\ thread[t] \in Active \cup {"queued"} => phase = "run" /\ Verdict = "none"
  BY DEF TrialState, TrialCount, Verdict, IInv, TypeOK, LoopInv, Active, Ended

\* The loop ends between groups, and what it returns is about all of them.
LEMMA TellPromise ==
    ASSUME IInv, IInv', phase \notin {"done", "raised"}, phase' = "done",
           UNCHANGED <<taskVars, opt>>
    PROVE  Promise!Next
<1>. USE DEF taskVars
<1>1. Verdict = "none" /\ Verdict' = IF errors' = {} /\ ~aborted' THEN "ok" ELSE "errors"
  BY DEF Verdict
<1>2. \A t \in Treatments : thread[t] \in Ended \cup {"idle"}
  BY DEF IInv, LoopInv, TypeOK
<1>3. Promise!GroupsWhole
  BY <1>2 DEF Promise!GroupsWhole, Promise!Ended, TrialState, Ended, Active, IInv, LoopInv
<1>4. (errors' = {} /\ ~aborted') <=> \A t \in Treatments : thread'[t] = "ok"
  <2>1. IInv' => SuccessMeansAllRecorded'
    BY SuccessIsAllOk, PTL
  <2>. QED
    BY <2>1 DEF SuccessMeansAllRecorded
<1>5. \A t \in Treatments : thread'[t] = "ok" <=> TrialState[t] = "ok"
  BY <1>2 DEF TrialState, Ended, Active
<1>6. UNCHANGED <<opt, TrialState, TrialCount, recorded>>
  BY DEF TrialState, TrialCount
<1>7. Promise!Tell
  BY <1>1, <1>3, <1>4, <1>5, <1>6 DEF Promise!Tell
<1>. QED
  BY <1>1, <1>7 DEF Promise!Next

\* Of the threads the loop only starts those of the group it begins.
LEMMA ExecuteThreads ==
    ASSUME IInv, Execute
    PROVE  /\ UNCHANGED <<opt, attempt, recorded>>
           /\ \A t \in Treatments :
                 \/ thread'[t] = thread[t]
                 \/ thread[t] = "idle" /\ thread'[t] = "queued"
<1>1. CASE UNCHANGED <<opt, taskVars>>
  BY <1>1 DEF taskVars
<1>2. CASE UNCHANGED opt /\ StartGroup /\ phase = "reset"
  BY <1>2, MembersAre DEF StartGroup, IInv, TypeOK, LoopInv
<1>. QED
  BY <1>1, <1>2
     DEF Execute, CheckControls, ResetCaches, ResetFails, StartGroup, Gather, Return

LEMMA ExecutePromise ==
    ASSUME IInv, IInv', Execute
    PROVE  Promise!Next \/ UNCHANGED Promise!vars
<1>1. CASE phase' = "done"
  <2>1. phase \notin {"done", "raised"} /\ UNCHANGED <<taskVars, opt>>
    BY <1>1 DEF Execute, CheckControls, ResetCaches, ResetFails, StartGroup, Gather, Return
  <2>. QED
    BY <1>1, <2>1, TellPromise
<1>2. CASE phase' # "done"
  <2>1. phase \in {"start", "reset", "run"} /\ phase' \in {"reset", "run"}
    BY <1>2 DEF Execute, CheckControls, ResetCaches, ResetFails, StartGroup, Gather, Return
  <2>2. UNCHANGED <<TrialState, TrialCount, Verdict>>
    BY <2>1, ExecuteThreads DEF TrialState, TrialCount, Verdict, Active
  <2>. QED
    BY <2>2, ExecuteThreads DEF Promise!vars
<1>. QED
  BY <1>1, <1>2

\* A thread moves within an attempt: nothing is seen of it.
LEMMA QuietStep ==
    ASSUME IInv, NEW t \in Treatments, NEW l \in Active, thread[t] \in Active, Goto(t, l),
           UNCHANGED <<attempt, recorded, stepVars>>
    PROVE  UNCHANGED Promise!vars
  BY DEF IInv, TypeOK, Goto, stepVars, TrialState, TrialCount, Verdict, Active, Promise!vars

LEMMA StartPromise ==
    ASSUME IInv, NEW t \in Treatments, Start(t)
    PROVE  Promise!Begin(t)
<1>. USE DEF Start, At, Goto, stepVars
<1>1. thread[t] = "queued" /\ BatchOf[t] = batch /\ attempt[t] = 1
  BY DEF IInv, LoopInv, TaskInv, TaskOf, Active
<1>2. ASSUME NEW u \in Treatments, BatchOf[u] < BatchOf[t]
      PROVE  /\ thread[u] \in Ended
             /\ opt.stopOnError => thread[u] = "ok"
  <2>1. thread[u] \in Ended
    BY <1>1, <1>2, Batches DEF IInv, LoopInv, TypeOK
  <2>2. opt.stopOnError => thread[u] \notin {"failed", "raised"}
    BY <1>1, <1>2, Batches DEF IInv, LoopInv, ErrorInv
  <2>. QED
    BY <2>1, <2>2 DEF Ended
<1>3. \A u \in Treatments : BatchOf[u] < BatchOf[t] =>
         IF opt.stopOnError THEN TrialState[u] = "ok" ELSE TrialState[u] \in Promise!Ended
  BY <1>2, TrialStates DEF Ended, Promise!Ended
<1>4. TrialState[t] = "waiting"
  BY <1>1 DEF TrialState
<1>5. /\ TrialState' = [TrialState EXCEPT ![t] = "working"]
      /\ TrialCount' = [TrialCount EXCEPT ![t] = 1]
      /\ Verdict' = Verdict
  BY <1>1 DEF IInv, TypeOK, TrialState, TrialCount, Verdict, Active
<1>. QED
  BY <1>3, <1>4, <1>5 DEF Promise!Begin

\* The end of an attempt is the end of a trial; an exception may come at any
\* place of one.
LEMMA EndPromise ==
    ASSUME IInv, NEW t \in Treatments, Succeed(t) \/ Fail(t) \/ Raise(t)
    PROVE  Promise!Succeed(t) \/ Promise!TryAgain(t) \/ Promise!Fail(t) \/ Promise!Raise(t)
<1>. USE DEF IInv, TypeOK, At, Goto, stepVars, TrialState, TrialCount, Verdict, Active
<1>0. TrialState[t] = "working" /\ TrialCount[t] = attempt[t] /\ t \in Members
  BY MembersAre DEF Succeed, Fail, Raise, LoopInv
<1>1. CASE Succeed(t)
  BY <1>0, <1>1 DEF Succeed, Promise!Succeed
<1>2. CASE Fail(t) /\ Retry(t)
  BY <1>0, <1>2 DEF Fail, Retry, Promise!TryAgain
<1>3. CASE Fail(t) /\ GiveUp(t)
  BY <1>0, <1>3 DEF Fail, GiveUp, Promise!Fail
<1>4. CASE Raise(t)
  <2>1. /\ TrialState' = [TrialState EXCEPT ![t] = "raised"]
        /\ UNCHANGED <<opt, TrialCount, recorded>>
    BY <1>0, <1>4 DEF Raise
  <2>2. phase = "run" /\ Verdict = "none"
    BY <1>4 DEF Raise, LoopInv
  <2>3. Cardinality(Members) = 1 <=> Promise!Alone(t)
    <3>1. IsFiniteSet(Members)
      <4>1. IsFiniteSet(Treatments)
        BY TreatmentAssumption, FS_Interval DEF TreatmentAssumption, Treatments
      <4>2. Members \in SUBSET Treatments
        BY DEF Members
      <4>. QED
        BY <4>1, <4>2, FS_Subset
    <3>2. Promise!Alone(t) <=> Members = {t}
      BY <1>0, MembersAre DEF Promise!Alone, Members
    <3>3. Members = {t} => Cardinality(Members) = 1
      BY FS_Singleton
    <3>4. ASSUME Cardinality(Members) = 1 PROVE Members = {t}
      <4>1. PICK u : Members = {u}
        BY <3>1, <3>4, FS_Singleton
      <4>. QED
        BY <1>0, <4>1
    <3>. QED
      BY <3>2, <3>3, <3>4
  <2>4. Verdict' = IF Promise!Alone(t) THEN "raised" ELSE Verdict
    BY <1>4, <2>2, <2>3 DEF Raise
  <2>. QED
    BY <1>0, <2>1, <2>4 DEF Promise!Raise
<1>. QED
  BY <1>1, <1>2, <1>3, <1>4 DEF Fail

LEMMA TreatPromise ==
    ASSUME IInv, NEW t \in Treatments, Treat(t) \/ HarnessEnds(t)
    PROVE  Promise!Next \/ UNCHANGED Promise!vars
<1>1. CASE Start(t) \/ Succeed(t) \/ Fail(t) \/ Raise(t)
  <2>1. Verdict = "none"
    BY <1>1, TrialStates DEF Start, Succeed, Fail, Raise, At, Active
  <2>. QED
    BY <1>1, <2>1, StartPromise, EndPromise DEF Promise!Next
<1>2. CASE Deploy(t) \/ WaitSeesEnd(t) \/ WaitTimesOut(t) \/ WaitMisreads(t)
           \/ Collect(t) \/ Clean(t)
  <2>1. \E l \in Active : Goto(t, l)
    BY <1>2 DEF Deploy, WaitSeesEnd, WaitTimesOut, WaitMisreads, Collect, Clean, Active
  <2>2. thread[t] \in Active /\ UNCHANGED <<attempt, recorded, stepVars>>
    BY <1>2 DEF Deploy, WaitSeesEnd, WaitTimesOut, WaitMisreads, Collect, Clean, At, Active
  <2>. QED
    BY <2>1, <2>2, QuietStep
<1>3. CASE HarnessEnds(t)
  BY <1>3 DEF HarnessEnds, stepVars, TrialState, TrialCount, Verdict, Promise!vars
<1>. QED
  BY <1>1, <1>2, <1>3 DEF Treat

\* For any treatments, groups, threads and attempts, step 07 does what Trials
\* promises: a group waits for the one before it, nothing that has ended is
\* tried again, exactly the successes are recorded, and the verdict is the
\* last thing that happens and true (execute, _run_treatment).
THEOREM StepKeepsItsPromise == Spec => ImplementsTrials
<1>1. IInv /\ IInv' /\ [Next]_vars => [Promise!Next]_(Promise!vars)
  <2>1. UNCHANGED vars => UNCHANGED Promise!vars
    BY DEF vars, taskVars, stepVars, TrialState, TrialCount, Verdict, Promise!vars
  <2>. QED
    BY <2>1, ExecutePromise, TreatPromise DEF Next
<1>. QED
  BY <1>1, PromiseInit, IInvAlways, PTL DEF Spec, ImplementsTrials, Promise!Spec

-----------------------------------------------------------------------------
(* That the step ends.                                                     *)

\* How far a treatment has come, over all its attempts.
Place(t) ==
    CASE thread[t] = "idle"    -> 0
      [] thread[t] = "queued"  -> 1
      [] thread[t] = "deploy"  -> 2
      [] thread[t] = "wait"    -> 3
      [] thread[t] = "collect" -> 4
      [] thread[t] = "clean"   -> 5
      [] thread[t] = "judge"   -> 6
      [] OTHER                 -> 7

Moved(t) == 6 * (attempt[t] - 1) + Place(t)

\* How far the loop over the groups has come.
Looped ==
    CASE phase = "start" -> 0
      [] phase = "reset" -> 2 * batch
      [] phase = "run"   -> 2 * batch + 1
      [] OTHER           -> 2 * NumBatches + 3

\* Nothing goes back, and a step of the loop or of a thread gets further.
Advances ==
    /\ Looped' >= Looped
    /\ Execute => Looped' > Looped
    /\ \A t \in Treatments :
          /\ Moved(t)' >= Moved(t)
          /\ Treat(t) => Moved(t)' > Moved(t)

Limits ==
    /\ Looped \in 0..(2 * NumBatches + 3)
    /\ \A t \in Treatments : Moved(t) \in 0..(6 * MaxAttempts + 1)

LEMMA WithinLimits == IInv => Limits
<1>. SUFFICES ASSUME IInv PROVE Limits
  OBVIOUS
<1>. USE TreatmentAssumption DEF TreatmentAssumption
<1>1. Looped \in 0..(2 * NumBatches + 3)
  <2>1. NumBatches \in Nat
    BY Batches DEF Treatments
  <2>2. batch \in Nat /\ batch <= NumBatches + 1
    BY <2>1 DEF IInv, TypeOK, LoopInv
  <2>. QED
    BY <2>1, <2>2 DEF Looped
<1>2. ASSUME NEW t \in Treatments PROVE Moved(t) \in 0..(6 * MaxAttempts + 1)
  <2>1. attempt[t] \in 1..MaxAttempts /\ Place(t) \in 0..7
    BY DEF IInv, TypeOK, Attempts, Place
  <2>. QED
    BY <2>1 DEF Moved
<1>. QED
  BY <1>1, <1>2 DEF Limits

LEMMA ExecuteAdvances == ASSUME IInv, Execute PROVE Looped' > Looped
<1>1. NumBatches \in Nat /\ batch \in Nat
  BY Batches, TreatmentAssumption DEF TreatmentAssumption, Treatments, IInv, TypeOK
<1>. USE <1>1, Batches DEF IInv, LoopInv, Looped, taskVars
<1>2. CASE CheckControls
  BY <1>2 DEF CheckControls
<1>3. CASE ResetCaches
  BY <1>3 DEF ResetCaches, ResetFails, StartGroup
<1>4. CASE Gather
  BY <1>4 DEF Gather
<1>5. CASE Return
  BY <1>5 DEF Return
<1>. QED
  BY <1>2, <1>3, <1>4, <1>5 DEF Execute

LEMMA TreatAdvances ==
    ASSUME IInv, NEW t \in Treatments, Treat(t)
    PROVE  Moved(t)' > Moved(t)
<1>. USE DEF At, Goto, Place, Moved, Active, Ended
<1>1. attempt[t] \in Int /\ thread \in [Treatments -> {"idle", "queued"} \cup Active \cup Ended]
      /\ attempt \in [Treatments -> Attempts]
  BY TreatmentAssumption DEF TreatmentAssumption, IInv, TypeOK, Attempts
<1>2. CASE Start(t) \/ WaitSeesEnd(t) \/ WaitTimesOut(t) \/ WaitMisreads(t)
           \/ Collect(t) \/ Clean(t) \/ Succeed(t)
  BY <1>1, <1>2 DEF Start, WaitSeesEnd, WaitTimesOut, WaitMisreads, Collect, Clean, Succeed
<1>3. CASE Deploy(t)
  BY <1>1, <1>3 DEF Deploy
<1>4. CASE Fail(t)
  BY <1>1, <1>4 DEF Fail, Retry, GiveUp
<1>5. CASE Raise(t)
  BY <1>1, <1>5 DEF Raise
<1>. QED
  BY <1>2, <1>3, <1>4, <1>5 DEF Treat

\* What TLC checks as StepEnds, without its fairness: each step of the driver
\* gets the loop or one treatment further, nothing takes either back, and the
\* way is finite, whatever the pods do.
THEOREM StepRunsOut == Spec => [][Advances]_vars /\ []Limits
<1>1. ASSUME IInv, IInv', Next PROVE Advances
  <2>1. /\ Looped \in Int /\ Looped' \in Int
        /\ \A t \in Treatments : Moved(t) \in Int /\ Moved(t)' \in Int
    <3>1. Limits /\ Limits'
      <4>1. IInv' => Limits'
        BY WithinLimits, PTL
      <4>. QED
        BY <1>1, <4>1, WithinLimits
    <3>. QED
      BY <3>1 DEF Limits
  <2>2. CASE Execute
    <3>1. ASSUME NEW t \in Treatments
          PROVE  Moved(t)' >= Moved(t)
      <4>1. /\ attempt' = attempt /\ attempt[t] \in Int
            /\ thread'[t] = thread[t] \/ (thread[t] = "idle" /\ thread'[t] = "queued")
        BY <1>1, <2>2, ExecuteThreads, TreatmentAssumption
           DEF TreatmentAssumption, IInv, TypeOK, Attempts
      <4>. QED
        BY <4>1 DEF Moved, Place
    <3>. QED
      BY <1>1, <2>1, <2>2, <3>1, ExecuteAdvances, TreatAdvances DEF Advances
  <2>3. ASSUME NEW t \in Treatments, Treat(t) PROVE Advances
    <3>1. \A u \in Treatments \ {t} : Moved(u)' = Moved(u)
      BY <1>1, <2>3, TreatTasks DEF OthersKept, Moved, Place
    <3>2. Looped' >= Looped
      <4>1. PICK l : Moves(t, l)
        BY <1>1, <2>3, TreatMoves
      <4>2. batch' = batch /\ batch <= NumBatches /\ phase = "run"
        BY <1>1, <4>1 DEF Moves, IInv, LoopInv
      <4>3. batch \in Nat /\ NumBatches \in Nat
        BY <1>1, Batches, TreatmentAssumption
           DEF TreatmentAssumption, Treatments, IInv, TypeOK
      <4>. QED
        BY <4>1, <4>2, <4>3 DEF Moves, Looped
    <3>. QED
      BY <1>1, <2>1, <2>3, <3>1, <3>2, ExecuteAdvances, TreatAdvances DEF Advances
  <2>4. ASSUME NEW t \in Treatments, HarnessEnds(t) PROVE Advances
    <3>1. Looped' = Looped /\ \A u \in Treatments : Moved(u)' = Moved(u)
      BY <2>4 DEF HarnessEnds, stepVars, Looped, Moved, Place
    <3>. QED
      BY <1>1, <2>1, <3>1, ExecuteAdvances, TreatAdvances DEF Advances
  <2>. QED
    BY <1>1, <2>2, <2>3, <2>4 DEF Next
<1>2. IInv /\ IInv' /\ [Next]_vars => [Advances]_vars
  BY <1>1
<1>. QED
  BY <1>2, WithinLimits, IInvAlways, PTL DEF Spec
-----------------------------------------------------------------------------
(* Nobody waits for nobody.                                                *)

LEMMA LeastElement ==
    ASSUME NEW T \in SUBSET Nat, T # {}
    PROVE  \E m \in T : \A k \in T : m <= k
<1>. DEFINE R == {p \in Nat \X Nat : p[1] < p[2]}
<1>1. IsWellFoundedOn(R, Nat)
  BY NatLessThanWellFounded DEF OpToRel
<1>2. ASSUME NEW x \in Nat, NEW y \in Nat, <<y, x>> \notin R PROVE x <= y
  BY <1>2
<1>. HIDE DEF R
<1>3. PICK m \in T : \A k \in T : <<k, m>> \notin R
  BY <1>1, WFMin
<1>. QED
  BY <1>2, <1>3

\* What the guards of Next ask of the loop, and of one thread.  Raise, which
\* any thread at work may always do, is not counted, nor is a harness's end.
LoopCanStep == phase \in {"start", "reset"} \/ (phase = "run" /\ GroupOver)

ThreadCanStep(t) ==
    \/ /\ phase = "run" /\ At(t, "queued") /\ Cardinality(InFlight) < MaxParallel
       /\ \A u \in Treatments : u < t => ~At(u, "queued")
    \/ thread[t] \in {"deploy", "wait", "collect", "clean"}
    \/ At(t, "judge") /\ attempt[t] <= MaxAttempts

\* The step is over or its driver can go on without the harness pods: the
\* group's first queued member finds a thread or the threads are at work.
DriverNeverStuck ==
    phase \notin {"done", "raised"} =>
        LoopCanStep \/ \E t \in Treatments : ThreadCanStep(t)

LEMMA ActiveGoesOn ==
    ASSUME IInv, NEW t \in Treatments, thread[t] \in Active
    PROVE  ThreadCanStep(t)
<1>1. attempt[t] \in Attempts
  BY DEF IInv, TypeOK
<1>2. attempt[t] <= MaxAttempts
  BY <1>1, TreatmentAssumption DEF TreatmentAssumption, Attempts
<1>. QED
  BY <1>2 DEF ThreadCanStep, At, Active

LEMMA QueueGoesOn ==
    ASSUME IInv, phase = "run", InFlight = {}, NEW t \in Treatments, At(t, "queued")
    PROVE  \E u \in Treatments : ThreadCanStep(u)
<1>. DEFINE Q == {u \in Treatments : At(u, "queued")}
<1>1. Q \in SUBSET Nat /\ Q # {}
  BY TreatmentAssumption DEF TreatmentAssumption, Treatments
<1>2. PICK u \in Q : \A k \in Q : u <= k
  BY <1>1, LeastElement
<1>3. \A v \in Treatments : v < u => ~At(v, "queued")
  <2>. SUFFICES ASSUME NEW v \in Q, v < u PROVE FALSE
    OBVIOUS
  <2>1. v \in Nat /\ u \in Nat /\ u <= v
    BY <1>1, <1>2
  <2>. QED
    BY <2>1
<1>4. Cardinality(InFlight) < MaxParallel
  BY FS_EmptySet, TreatmentAssumption DEF TreatmentAssumption
<1>. QED
  BY <1>2, <1>3, <1>4 DEF ThreadCanStep

\* The step never comes to a standstill, with any number of treatments,
\* threads and attempts and whatever the pods do; with StepRunsOut this is
\* what TLC checks as StepEnds, but for its fairness (execute,
\* _run_batch_parallel).
THEOREM StepIsNeverStuck == Spec => []DriverNeverStuck
<1>1. ASSUME IInv PROVE DriverNeverStuck
  <2>. SUFFICES ASSUME phase = "run", ~GroupOver
                PROVE  \E t \in Treatments : ThreadCanStep(t)
    BY <1>1 DEF DriverNeverStuck, LoopCanStep, IInv, TypeOK
  <2>1. PICK t \in Treatments : BatchOf[t] = batch /\ thread[t] \notin Ended
    BY DEF GroupOver, Members
  <2>2. thread[t] # "idle"
    <3>1. BatchOf[t] \in Nat
      BY Batches DEF Treatments
    <3>2. thread[t] = "idle" => BatchOf[t] > batch
      BY <1>1 DEF IInv, LoopInv
    <3>. QED
      BY <2>1, <3>1, <3>2
  <2>3. thread[t] \in {"queued"} \cup Active
    BY <1>1, <2>1, <2>2 DEF IInv, TypeOK
  <2>4. CASE InFlight # {}
    BY <1>1, <2>4, ActiveGoesOn DEF InFlight
  <2>5. CASE InFlight = {}
    <3>1. At(t, "queued")
      BY <2>3, <2>5 DEF InFlight, At
    <3>. QED
      BY <1>1, <2>5, <3>1, QueueGoesOn
  <2>. QED
    BY <2>4, <2>5
<1>. QED
  BY <1>1, IInvAlways, PTL
=============================================================================

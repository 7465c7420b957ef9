------------------------- MODULE WaitForPodsProofs --------------------------
(***************************************************************************)
(* What wait_for_pods guarantees for any number of pods, any timeout and   *)
(* any number of query attempts.                                           *)
(*                                                                         *)
(* Two invariants carry it.  One is about the clock: once a pod was seen   *)
(* to start, the time since is the time elapsed.  The other is about the   *)
(* Deployment's status, which is out of date by any amount: it counts the  *)
(* pods that were live at some earlier moment, and since that moment new   *)
(* pods have only come and old ones only gone.                             *)
(***************************************************************************)
EXTENDS WaitForPods, FiniteSetTheorems, TLAPS

\* The clock restarted with the first pod seen to start, and only then.
ClockInv ==
    /\ pc \in {"poll", "rollout"} => failures < RolloutAttempts
    /\ pc = "rollout" => elapsed <= Timeout
    /\ pc = "timedOut" => elapsed = Timeout + 1
    /\ seen = reset
    /\ ~seen => since = 0
    /\ seen /\ pc \in {"poll", "rollout", "timedOut"} => since = elapsed

\* The status describes the live pods of an earlier moment, L.
Describes(L) ==
    /\ status.updated = Cardinality(L \cap New)
    /\ status.replicas = Cardinality(L)
    /\ L \cap New \subseteq Live
    /\ Live \cap Old \subseteq L

StatusInv ==
    /\ \A p \in New : pod[p] # "deleting"
    /\ status.observed => \E L \in SUBSET Pods : Describes(L)

IInv == TypeOK /\ ClockInv /\ StatusInv /\ SuccessMeansRolledOut

-----------------------------------------------------------------------------
(* Counting.                                                               *)

LEMMA PodsFinite ==
    /\ IsFiniteSet(Pods) /\ IsFiniteSet(New) /\ IsFiniteSet(Old)
    /\ Old \cap New = {}
    /\ Wanted \in Nat /\ Cardinality(Old) \in Nat
    /\ \A S \in SUBSET Pods : IsFiniteSet(S) /\ Cardinality(S) \in Nat
<1>1. IsFiniteSet(New) /\ IsFiniteSet(Old) /\ Old \cap New = {}
  BY WaitAssumption DEF WaitAssumption
<1>2. IsFiniteSet(Pods)
  BY <1>1, FS_Union DEF Pods
<1>3. \A S \in SUBSET Pods : IsFiniteSet(S) /\ Cardinality(S) \in Nat
  BY <1>2, FS_Subset, FS_CardinalityType
<1>. QED
  BY <1>1, <1>2, <1>3, FS_CardinalityType DEF Wanted

\* A status that shows every new pod and no more replicas than those was
\* written when exactly the new pods were live.
LEMMA NothingPending ==
    ASSUME TypeOK, StatusInv, managed, ~Pending
    PROVE  Live \cap Old = {} /\ New \subseteq Live
<1>1. status.observed /\ status.updated >= Wanted /\ status.replicas <= status.updated
  BY PodsFinite DEF Pending, TypeOK
<1>2. PICK L \in SUBSET Pods : Describes(L)
  BY <1>1 DEF StatusInv
<1>3. /\ IsFiniteSet(L) /\ Cardinality(L) \in Nat
      /\ L \cap New \in SUBSET New /\ L \cap New \in SUBSET L
      /\ Cardinality(L \cap New) \in Nat
  BY PodsFinite DEF Pods
<1>4. Cardinality(L \cap New) <= Wanted /\ Cardinality(L \cap New) <= Cardinality(L)
  BY <1>3, PodsFinite, FS_Subset DEF Wanted
<1>5. Cardinality(L \cap New) = Cardinality(New) /\ Cardinality(L \cap New) = Cardinality(L)
  BY <1>1, <1>2, <1>3, <1>4, PodsFinite DEF Describes, Wanted
<1>6. L \cap New = New
  BY <1>3, <1>5, PodsFinite, FS_Subset
<1>7. L \cap New = L
  BY <1>3, <1>5, FS_Subset
<1>. QED
  BY <1>2, <1>6, <1>7, PodsFinite DEF Describes

-----------------------------------------------------------------------------
(* The invariant.                                                          *)

LEMMA InitIInv == Init => IInv
<1>. SUFFICES ASSUME Init PROVE IInv
  OBVIOUS
<1>0. /\ Timeout \in Nat /\ RolloutAttempts \in Nat /\ RolloutAttempts > 0
      /\ pc = "poll" /\ elapsed = 0 /\ failures = 0 /\ managed \in BOOLEAN
      /\ seen = FALSE /\ reset = FALSE /\ since = 0
  BY WaitAssumption DEF WaitAssumption, Init
<1>1. TypeOK
  <2>1. PICK upgrade \in BOOLEAN :
           LET n == IF upgrade THEN Cardinality(Old) ELSE 0
           IN  /\ pod = [p \in Pods |-> IF upgrade /\ p \in Old THEN "ready" ELSE "absent"]
               /\ status = [observed |-> FALSE, updated |-> n, replicas |-> n, available |-> n]
    BY DEF Init
  <2>2. pod \in [Pods -> PodState]
    BY <2>1 DEF PodState
  <2>3. status \in [observed : BOOLEAN, updated : Nat, replicas : Nat, available : Nat]
    BY <2>1, PodsFinite
  <2>4. elapsed \in 0..(Timeout + 1) /\ failures \in 0..RolloutAttempts /\ since \in 0..SinceCap
    BY <1>0 DEF SinceCap
  <2>5. pc \in {"poll", "rollout"} \cup Outcome /\ reset \in BOOLEAN /\ seen \in BOOLEAN
    BY <1>0
  <2>. QED
    BY <1>0, <2>2, <2>3, <2>4, <2>5 DEF TypeOK
<1>2. ClockInv
  BY <1>0 DEF ClockInv
<1>3. StatusInv
  BY PodsFinite DEF Init, StatusInv, Pods
<1>4. SuccessMeansRolledOut
  BY DEF Init, SuccessMeansRolledOut
<1>. QED
  BY <1>1, <1>2, <1>3, <1>4 DEF IInv

\* The wait itself touches neither the pods nor the status.
LEMMA WaitStepIInv == IInv /\ WaitStep => IInv'
<1>. SUFFICES ASSUME IInv, WaitStep PROVE IInv'
  OBVIOUS
<1>1. UNCHANGED clusterVars
  BY DEF WaitStep, TimeOut, PollFails, PollFindsNone, Poll, CheckRollout, RolloutQueryFails
<1>2. StatusInv'
  BY <1>1 DEF IInv, StatusInv, Describes, Live, clusterVars
<1>3. TypeOK' /\ ClockInv'
  <2>. USE <1>1, WaitAssumption
       DEF WaitAssumption, IInv, TypeOK, ClockInv, Outcome, SinceCap, Longer, Sleep,
           clusterVars, historyVars
  <2>1. CASE TimeOut
    BY <2>1 DEF TimeOut
  <2>2. CASE PollFails
    BY <2>2 DEF PollFails
  <2>3. CASE PollFindsNone
    BY <2>3 DEF PollFindsNone
  <2>4. CASE Poll
    <3>1. /\ Resets \in BOOLEAN /\ Elapsed \in 0..Timeout
          /\ (Starting # {}) \in BOOLEAN
          /\ Resets <=> ~reset /\ Starting # {}
          /\ Elapsed = IF Resets THEN 0 ELSE elapsed
      BY <2>4 DEF Poll, Resets, Elapsed
    <3>2. /\ seen' = (seen \/ Starting # {}) /\ reset' = (reset \/ Resets)
          /\ pc = "poll" /\ UNCHANGED failures
      BY <2>4 DEF Poll, NoteReset
    <3>3. \/ pc' \in {"failed", "rollout"} /\ elapsed' = Elapsed /\ UNCHANGED since
          \/ /\ pc' = "poll" /\ elapsed' = Elapsed + 1
             /\ since' = IF seen' THEN Longer ELSE since
      BY <2>4 DEF Poll, Stop
    <3>4. seen' = reset' /\ seen' \in BOOLEAN
      BY <3>1, <3>2
    <3>5. CASE Resets
      BY <3>1, <3>2, <3>3, <3>4, <3>5
    <3>6. CASE ~Resets
      <4>1. seen' = seen
        BY <3>1, <3>2, <3>6
      <4>. QED
        BY <3>1, <3>2, <3>3, <3>4, <3>6, <4>1
    <3>. QED
      BY <3>5, <3>6
  <2>5. CASE CheckRollout
    BY <2>5 DEF CheckRollout
  <2>6. CASE RolloutQueryFails
    BY <2>6 DEF RolloutQueryFails
  <2>. QED
    BY <2>1, <2>2, <2>3, <2>4, <2>5, <2>6 DEF WaitStep
<1>4. SuccessMeansRolledOut'
  <2>. SUFFICES ASSUME pc' = "succeeded", managed', failures' < RolloutAttempts
                PROVE  (Live \cap Old = {} /\ New \subseteq Live)'
    BY DEF SuccessMeansRolledOut
  <2>1. Live' = Live /\ managed
    BY <1>1 DEF clusterVars, Live
  <2>2. CheckRollout
    BY WaitAssumption DEF WaitAssumption, WaitStep, TimeOut, PollFails, PollFindsNone, Poll,
       Sleep, Stop, RolloutQueryFails, IInv, TypeOK
  <2>3. ~Pending
    BY <2>2 DEF CheckRollout, Sleep
  <2>. QED
    BY <2>1, <2>3, NothingPending DEF IInv
<1>. QED
  BY <1>2, <1>3, <1>4 DEF IInv

\* New pods only come and old ones only go.
LEMMA PodsRollForward ==
    ASSUME TypeOK, StatusInv, PodChanges \/ PodRollsOver
    PROVE  /\ pod' \in [Pods -> PodState] /\ UNCHANGED <<status, managed>>
           /\ \A p \in New : pod'[p] # "deleting"
           /\ New \cap Live \subseteq Live'
           /\ Live' \cap Old \subseteq Live
<1>1. CASE PodChanges
  <2>1. PICK p \in Pods, m \in PodMoves :
           pod[p] = m[1] /\ pod' = [pod EXCEPT ![p] = m[2]] /\ UNCHANGED <<status, managed>>
    BY <1>1 DEF PodChanges
  <2>2. /\ m[2] \in PodState /\ m[2] # "deleting"
        /\ m[1] \in {"absent", "deleting"} <=> m[2] \in {"absent", "deleting"}
    BY DEF PodMoves, PodState
  <2>. QED
    BY <2>1, <2>2 DEF TypeOK, StatusInv, Live, Pods
<1>2. ASSUME NEW p \in New, pod[p] = "absent", pod' = [pod EXCEPT ![p] = "queued"],
             UNCHANGED <<status, managed>>
      PROVE  /\ pod' \in [Pods -> PodState]
             /\ \A q \in New : pod'[q] # "deleting"
             /\ New \cap Live \subseteq Live'
             /\ Live' \cap Old \subseteq Live
  BY <1>2, PodsFinite DEF TypeOK, StatusInv, Live, Pods, PodState
<1>3. ASSUME NEW p \in Old \cap Live, pod' = [pod EXCEPT ![p] = "deleting"],
             UNCHANGED <<status, managed>>
      PROVE  /\ pod' \in [Pods -> PodState]
             /\ \A q \in New : pod'[q] # "deleting"
             /\ New \cap Live \subseteq Live'
             /\ Live' \cap Old \subseteq Live
  BY <1>3, PodsFinite DEF TypeOK, StatusInv, Live, Pods, PodState
<1>. QED
  BY <1>1, <1>2, <1>3 DEF PodRollsOver

LEMMA ClusterIInv == IInv /\ Cluster => IInv'
<1>. SUFFICES ASSUME IInv, Cluster PROVE IInv'
  OBVIOUS
<1>1. UNCHANGED <<pc, elapsed, reset, failures, historyVars>>
  BY DEF Cluster
<1>2. ClockInv'
  BY <1>1 DEF IInv, ClockInv, historyVars
<1>3. CASE PodChanges \/ PodRollsOver
  <2>1. /\ pod' \in [Pods -> PodState] /\ UNCHANGED <<status, managed>>
        /\ \A p \in New : pod'[p] # "deleting"
        /\ New \cap Live \subseteq Live'
        /\ Live' \cap Old \subseteq Live
    BY <1>3, PodsRollForward DEF IInv
  <2>2. TypeOK'
    BY <1>1, <2>1 DEF IInv, TypeOK, historyVars
  <2>3. StatusInv'
    BY <2>1 DEF IInv, StatusInv, Describes
  <2>4. SuccessMeansRolledOut'
    BY <1>1, <2>1 DEF IInv, SuccessMeansRolledOut
  <2>. QED
    BY <1>2, <2>2, <2>3, <2>4 DEF IInv
<1>4. CASE ControllerSyncs
  <2>1. UNCHANGED <<pod, managed>> /\ Live' = Live /\ Live \in SUBSET Pods
    BY <1>4 DEF ControllerSyncs, Live
  <2>2. /\ Live \cap New \in SUBSET Pods /\ Ready \in SUBSET Pods
        /\ Cardinality(Live \cap New) \in Nat /\ Cardinality(Live) \in Nat
        /\ Cardinality(Ready) \in Nat
    BY <2>1, PodsFinite DEF Ready
  <2>3. TypeOK'
    BY <1>1, <1>4, <2>1, <2>2 DEF ControllerSyncs, IInv, TypeOK, historyVars
  <2>4. Describes(Live)'
    BY <1>4, <2>1 DEF ControllerSyncs, Describes
  <2>5. StatusInv'
    BY <2>1, <2>4 DEF IInv, StatusInv, Describes
  <2>6. SuccessMeansRolledOut'
    BY <1>1, <2>1 DEF IInv, SuccessMeansRolledOut
  <2>. QED
    BY <1>2, <2>3, <2>5, <2>6 DEF IInv
<1>. QED
  BY <1>3, <1>4 DEF Cluster

LEMMA NextIInv == IInv /\ [Next]_vars => IInv'
<1>1. IInv /\ UNCHANGED vars => IInv'
  BY DEF IInv, TypeOK, ClockInv, StatusInv, Describes, SuccessMeansRolledOut, Live,
         vars, clusterVars, historyVars
<1>. QED
  BY <1>1, WaitStepIInv, ClusterIInv DEF Next

LEMMA IInvAlways == Spec => []IInv
  BY InitIInv, NextIInv, PTL DEF Spec

-----------------------------------------------------------------------------

\* The types of the wait's and the cluster's state.
THEOREM TypeCorrect == Spec => []TypeOK
  BY IInvAlways, PTL DEF IInv

\* However many pods there are and however late the Deployment's status is,
\* a wait that succeeded while Deployments could be listed has outlasted the
\* old revision and seen the new one complete.
THEOREM SuccessAlwaysRolledOut == Spec => []SuccessMeansRolledOut
  BY IInvAlways, PTL DEF IInv

\* Whatever the timeout, a wait that saw a pod start and times out gave it
\* exactly one whole timeout.
THEOREM StartupAlwaysBudgeted == Spec => []StartupHasItsOwnBudget
<1>1. IInv => StartupHasItsOwnBudget
  BY DEF IInv, ClockInv, StartupHasItsOwnBudget
<1>. QED
  BY <1>1, IInvAlways, PTL

-----------------------------------------------------------------------------
(* That the wait ends, as far as safety goes.                              *)

\* The time given to the wait so far, that before its one reset included;
\* a second on the clock is worth two, so that judging counts as well.
Clock == elapsed + (IF reset THEN Timeout + 2 ELSE 0)

Spent ==
    2 * Clock + (IF pc = "poll" THEN 0 ELSE IF pc = "rollout" THEN 1 ELSE 2)

\* A step of the wait that sleeps is a tick later; one that does not sleep
\* leaves "poll" for "rollout", or either of them for good.
LEMMA WaitStepSpends == ASSUME IInv, WaitStep PROVE Spent' > Spent
<1>. USE WaitAssumption
     DEF WaitAssumption, IInv, TypeOK, ClockInv, Outcome, Sleep, Spent, Clock
<1>1. CASE TimeOut
  BY <1>1 DEF TimeOut
<1>2. CASE PollFails \/ PollFindsNone
  BY <1>2 DEF PollFails, PollFindsNone
<1>3. CASE Poll
  <2>1. /\ reset' = (reset \/ Resets) /\ Resets \in BOOLEAN /\ (Resets => ~reset)
        /\ pc = "poll" /\ elapsed \in 0..Timeout
    BY <1>3 DEF Poll, NoteReset, Resets
  <2>2. \/ pc' \in {"failed", "rollout"} /\ elapsed' = Elapsed
        \/ pc' = "poll" /\ elapsed' = Elapsed + 1
    BY <1>3 DEF Poll, Stop
  <2>3. CASE Resets
    <3>1. reset = FALSE /\ reset' = TRUE
      BY <2>1, <2>3
    <3>. QED
      BY <2>1, <2>2, <2>3, <3>1 DEF Elapsed
  <2>4. CASE ~Resets
    <3>1. reset' = reset
      BY <2>1, <2>4
    <3>. QED
      BY <2>1, <2>2, <2>4, <3>1 DEF Elapsed
  <2>. QED
    BY <2>3, <2>4
<1>4. CASE CheckRollout \/ RolloutQueryFails
  BY <1>4 DEF CheckRollout, RolloutQueryFails
<1>. QED
  BY <1>1, <1>2, <1>3, <1>4 DEF WaitStep

\* What TLC checks as WaitEnds, without its fairness: whatever the pods and
\* the queries do, each step of the wait spends some of what it has, nothing
\* gives it back, and what it has is finite, two timeouts in all.
THEOREM WaitRunsOut ==
    Spec => /\ [][/\ Spent' >= Spent
                  /\ WaitStep => Spent' > Spent]_vars
            /\ [](Spent \in 0..(4 * Timeout + 8))
<1>. DEFINE Spends == Spent' >= Spent /\ (WaitStep => Spent' > Spent)
            Finite == Spent \in 0..(4 * Timeout + 8)
<1>1. IInv => Finite
  BY WaitAssumption DEF WaitAssumption, IInv, TypeOK, Outcome, Spent, Clock
<1>2. IInv /\ [Next]_vars => [Spends]_vars
  <2>1. ASSUME IInv, Cluster PROVE Spends
    <3>1. Spent' = Spent /\ Spent \in Int
      BY <1>1, <2>1 DEF Cluster, Spent, Clock
    <3>2. WaitStep => Spent' > Spent
      BY <2>1, WaitStepSpends
    <3>. QED
      BY <3>1, <3>2
  <2>2. ASSUME IInv, IInv', WaitStep PROVE Spends
    <3>1. Spent \in Int /\ Spent' \in Int
      BY <2>2, WaitAssumption DEF WaitAssumption, IInv, TypeOK, Spent, Clock
    <3>. QED
      BY <2>2, <3>1, WaitStepSpends
  <2>. QED
    BY <2>1, <2>2, NextIInv DEF Next
<1>. HIDE DEF Finite
<1>. QED
  BY <1>1, <1>2, IInvAlways, PTL DEF Spec, Finite
=============================================================================

------------------------ MODULE RestartBudgetProofs -------------------------
(***************************************************************************)
(* The shared restart budget for every number of waits, pods and restarts: *)
(* each safety invariant of RestartBudget's passing run is a theorem of    *)
(* its Spec, however the threads' claims, stores, takes and deletes        *)
(* interleave.                                                             *)
(*                                                                         *)
(* The argument is ownership: a grant is in one place at a time, in the    *)
(* hands of the wait that claimed it, in _pending, or in the hands of the  *)
(* wait that took it.  It may be lost on the way (Store overwrites) but    *)
(* never doubled.                                                          *)
(***************************************************************************)
EXTENDS RestartBudget, FiniteSetTheorems, WellFoundedInduction, TLAPS

Undeleted(u) == u \in claimed /\ deletes[u] = 0

\* A grant is in one place at a time, and not yet deleted there.
IGrants ==
    /\ \A u \in pending :
          Undeleted(u) /\ \A w \in Waits : u \notin fresh[w] \cup held[w]
    /\ \A w \in Waits : \A u \in fresh[w] :
          /\ Undeleted(u)
          /\ \A v \in Waits : u \notin held[v] /\ (v # w => u \notin fresh[v])
    /\ \A w \in Waits : \A u \in held[w] :
          Undeleted(u) /\ \A v \in Waits : v # w => u \notin held[v]

ICharged ==
    /\ used = Cardinality(claimed) /\ used <= Limit
    /\ claimed \cap Bare = {}
    /\ \A u \in Uids : deletes[u] <= 1 /\ (deletes[u] > 0 => u \in claimed)

\* What a wait has added to its deadline, and what it still owes it, is the
\* grace of what was charged for its own pods; it owes only between a claim
\* and the extension.
IPaid ==
    \A w \in Waits :
        deadline[w] + Grace * extend[w] = Timeout + Grace * Cardinality(claimed \cap Mine(w))

IOwed == \A w \in Waits : extend[w] # 0 => pc[w] \in {"store", "take", "delete"}

\* A grant is not yet stored, or not yet deleted, only at the place for it.
IHands ==
    \A w \in Waits :
        /\ fresh[w] # {} => pc[w] = "store"
        /\ held[w] # {} => pc[w] = "delete"

\* The clock of a wait: read at a poll, it has not passed the deadline, and
\* neither had it when it was set back.
IClock ==
    \A w \in Waits :
        /\ elapsed[w] <= deadline[w] + 1
        /\ before[w] <= deadline[w]
        /\ ~reset[w] => before[w] = 0
        /\ pc[w] \in {"observe", "store", "take", "delete", "judge"} => elapsed[w] <= deadline[w]

\* A wait sees pods of its own only, and concludes from one at least.
ISnap ==
    \A w \in Waits :
        /\ Listed(w) \subseteq Mine(w)
        /\ pc[w] \in {"observe", "judge", "failed", "succeeded"} => Live(w) # {}

\* A crash that a wait is about to judge, or has judged, was not restarted.
IJudged ==
    \A w \in Waits :
        /\ pc[w] \in {"judge", "failed"} =>
              \A u \in Crashing(w) : u \notin claimed \/ snap[w][u] = "terminal"
        /\ pc[w] = "failed" => Crashing(w) # {}
        /\ pc[w] = "succeeded" => \A u \in Live(w) : snap[w][u] = "ready"

IInv ==
    /\ TypeOK /\ IGrants /\ ICharged /\ IPaid /\ IOwed /\ IHands /\ IClock
    /\ ISnap /\ IJudged

-----------------------------------------------------------------------------
LEMMA InitIInv == Init => IInv
<1> SUFFICES ASSUME Init PROVE IInv
  OBVIOUS
<1> USE BudgetAssumption, PodAssumption
<1>1. TypeOK
  BY DEF Init, TypeOK, PodState, PC, Outcome
<1>2. IGrants
  BY DEF Init, IGrants
<1>3. ICharged
  BY FS_EmptySet DEF Init, ICharged
<1>4. IPaid
  <2> SUFFICES ASSUME NEW w \in Waits
               PROVE deadline[w] + Grace * extend[w]
                        = Timeout + Grace * Cardinality(claimed \cap Mine(w))
    BY DEF IPaid
  <2>1. claimed \cap Mine(w) = {} /\ deadline[w] = Timeout /\ extend[w] = 0
    BY DEF Init
  <2>2. Cardinality(claimed \cap Mine(w)) = 0
    BY <2>1, FS_EmptySet
  <2> QED
    BY <2>1, <2>2
<1>5. IOwed /\ IHands /\ IClock /\ ISnap /\ IJudged
  BY DEF Init, IOwed, IHands, IClock, ISnap, IJudged, Listed
<1> QED
  BY <1>1, <1>2, <1>3, <1>4, <1>5 DEF IInv

-----------------------------------------------------------------------------
(* What one claim adds to the account.                                     *)

LEMMA Counts ==
    ASSUME TypeOK, NEW w \in Waits
    PROVE  /\ IsFiniteSet(claimed) /\ Cardinality(claimed) \in Nat
           /\ IsFiniteSet(claimed \cap Mine(w)) /\ Cardinality(claimed \cap Mine(w)) \in Nat
BY FS_Subset, FS_CardinalityType, PodAssumption DEF TypeOK

\* What a wait may claim is its own, so that no other wait's account moves.
LEMMA ClaimIsOwn ==
    ASSUME ISnap, NEW w \in Waits, NEW G \in SUBSET Claimable(w)
    PROVE  /\ G \subseteq Mine(w) /\ G \cap claimed = {} /\ G \cap Bare = {}
           /\ \A v \in Waits \ {w} : (claimed \cup G) \cap Mine(v) = claimed \cap Mine(v)
<1>1. G \subseteq Mine(w) /\ G \cap claimed = {} /\ G \cap Bare = {}
  BY DEF Claimable, Eligible, ISnap
<1>2. ASSUME NEW v \in Waits \ {w}
      PROVE  (claimed \cup G) \cap Mine(v) = claimed \cap Mine(v)
  BY <1>1 DEF Mine
<1> QED
  BY <1>1, <1>2

LEMMA ClaimCounts ==
    ASSUME TypeOK, ISnap, NEW w \in Waits, NEW G \in SUBSET Claimable(w)
    PROVE  /\ IsFiniteSet(G) /\ Cardinality(G) \in Nat
           /\ Cardinality(claimed \cup G) = Cardinality(claimed) + Cardinality(G)
           /\ Cardinality((claimed \cup G) \cap Mine(w))
                 = Cardinality(claimed \cap Mine(w)) + Cardinality(G)
<1>1. G \subseteq Mine(w) /\ G \cap claimed = {}
  BY ClaimIsOwn
<1>2. IsFiniteSet(G) /\ Cardinality(G) \in Nat
  BY <1>1, FS_Subset, FS_CardinalityType, PodAssumption DEF Mine
<1>3. Cardinality(claimed \cup G) = Cardinality(claimed) + Cardinality(G)
  <2>1. Cardinality(claimed \cup G)
           = Cardinality(claimed) + Cardinality(G) - Cardinality(claimed \cap G)
    BY <1>2, Counts, FS_Union
  <2>2. Cardinality(claimed \cap G) = 0
    BY <1>1, FS_EmptySet
  <2> QED
    BY <1>2, <2>1, <2>2, Counts
<1>4. Cardinality((claimed \cup G) \cap Mine(w))
         = Cardinality(claimed \cap Mine(w)) + Cardinality(G)
  <2>1. (claimed \cup G) \cap Mine(w) = (claimed \cap Mine(w)) \cup G
    BY <1>1
  <2>2. Cardinality((claimed \cap Mine(w)) \cup G)
           = Cardinality(claimed \cap Mine(w)) + Cardinality(G)
               - Cardinality((claimed \cap Mine(w)) \cap G)
    BY <1>2, Counts, FS_Union
  <2>3. (claimed \cap Mine(w)) \cap G = {}
    BY <1>1
  <2>4. Cardinality((claimed \cap Mine(w)) \cap G) = 0
    BY <2>3, FS_EmptySet
  <2>5. Cardinality(claimed \cap Mine(w)) \in Nat
    BY Counts
  <2>6. Cardinality((claimed \cap Mine(w)) \cup G)
           = Cardinality(claimed \cap Mine(w)) + Cardinality(G)
    BY <1>2, <2>2, <2>4, <2>5
  <2> QED
    BY <2>1, <2>6, Zenon
<1> QED
  BY <1>2, <1>3, <1>4

-----------------------------------------------------------------------------
\* Sleeping, and leaving the loop, keep the types of what they assign.
LEMMA LoopTypes ==
    ASSUME TypeOK, NEW w \in Waits
    PROVE  /\ Forget(w) => snap' \in [Waits -> [Uids -> PodState]]
           /\ SleepAndPoll(w) => /\ pc' \in [Waits -> PC]
                                 /\ elapsed' \in [Waits -> Nat]
                                 /\ snap' \in [Waits -> [Uids -> PodState]]
           /\ \A o \in PC : Goto(w, o) => pc' \in [Waits -> PC]
           /\ \A o \in PC : End(w, o) => /\ pc' \in [Waits -> PC]
                                         /\ elapsed' \in [Waits -> Nat]
                                         /\ snap' \in [Waits -> [Uids -> PodState]]
<1>1. NoPods \in [Uids -> PodState]
  BY DEF NoPods, PodState
<1>2. Forget(w) => snap' \in [Waits -> [Uids -> PodState]]
  BY <1>1 DEF Forget, TypeOK
<1>3. \A o \in PC : Goto(w, o) => pc' \in [Waits -> PC]
  BY DEF Goto, TypeOK
<1>4. "poll" \in PC
  BY DEF PC
<1>5. SleepAndPoll(w) => elapsed' \in [Waits -> Nat]
  BY DEF SleepAndPoll, TypeOK
<1>6. \A o : End(w, o) => elapsed' = elapsed /\ snap' = snap
  BY DEF End
<1> QED
  BY <1>2, <1>3, <1>4, <1>5, <1>6 DEF SleepAndPoll, End, TypeOK

\* What a poll that finds pods does to the clock of its wait.
LEMMA ClockKeptOrReset ==
    ASSUME TypeOK, NEW w \in Waits, ResetsClock(w) \/ KeepsClock(w)
    PROVE  /\ \/ elapsed' = elapsed /\ before' = before /\ reset' = reset
              \/ /\ ~reset[w] /\ reset'[w] /\ elapsed'[w] = 0 /\ before'[w] = elapsed[w]
                 /\ \A v \in Waits \ {w} : /\ elapsed'[v] = elapsed[v] /\ before'[v] = before[v]
                                           /\ reset'[v] = reset[v]
           /\ elapsed' \in [Waits -> Nat] /\ before' \in [Waits -> Nat]
           /\ reset' \in [Waits -> BOOLEAN]
<1>0. elapsed \in [Waits -> Nat] /\ before \in [Waits -> Nat] /\ reset \in [Waits -> BOOLEAN]
  BY DEF TypeOK
<1>1. CASE KeepsClock(w)
  BY <1>0, <1>1 DEF KeepsClock, resetVars
<1>2. CASE ResetsClock(w)
  <2>1. /\ ~reset[w] /\ reset' = [reset EXCEPT ![w] = TRUE]
        /\ elapsed' = [elapsed EXCEPT ![w] = 0] /\ before' = [before EXCEPT ![w] = elapsed[w]]
    BY <1>2 DEF ResetsClock
  <2>2. reset'[w] /\ reset' \in [Waits -> BOOLEAN] /\ \A v \in Waits \ {w} : reset'[v] = reset[v]
    BY <1>0, <2>1
  <2>3. /\ elapsed'[w] = 0 /\ before'[w] = elapsed[w]
        /\ \A v \in Waits \ {w} : elapsed'[v] = elapsed[v] /\ before'[v] = before[v]
        /\ elapsed' \in [Waits -> Nat] /\ before' \in [Waits -> Nat]
    BY <1>0, <2>1
  <2> QED
    BY <2>1, <2>2, <2>3
<1> QED
  BY <1>1, <1>2

LEMMA TypeStep ==
    ASSUME TypeOK, ISnap, [Next]_vars
    PROVE  TypeOK'
<1> USE DEF resetVars
<1>1. {"poll", "observe", "store", "take", "delete", "judge",
       "succeeded", "failed", "timedOut"} = PC
  BY DEF PC, Outcome
<1>2. ASSUME NEW w \in Waits, TimeOut(w) \/ PollFails(w) \/ Judge(w)
      PROVE  TypeOK'
  <2>1. pc' \in [Waits -> PC] /\ elapsed' \in [Waits -> Nat]
           /\ snap' \in [Waits -> [Uids -> PodState]]
    BY <1>1, <1>2, LoopTypes DEF TimeOut, PollFails, Judge
  <2> QED
    BY <1>2, <2>1 DEF TypeOK, TimeOut, PollFails, Judge, budgetVars, Mine
<1>3. ASSUME NEW w \in Waits, Poll(w)
      PROVE  TypeOK'
  <2>1. [u \in Uids |-> IF u \in Mine(w) THEN pod[u] ELSE "absent"] \in [Uids -> PodState]
    BY DEF TypeOK, PodState
  <2>2. pc' \in [Waits -> PC] /\ snap' \in [Waits -> [Uids -> PodState]]
    BY <1>1, <1>3, <2>1, LoopTypes DEF Poll, TypeOK
  <2>3. /\ elapsed' \in [Waits -> Nat] /\ before' \in [Waits -> Nat]
        /\ reset' \in [Waits -> BOOLEAN]
    BY <1>3, ClockKeptOrReset DEF Poll
  <2> QED
    BY <1>3, <2>2, <2>3 DEF TypeOK, Poll, budgetVars, Mine
<1>4. ASSUME NEW w \in Waits, ObserveGrants(w)
      PROVE  TypeOK'
  <2>1. PICK G \in SUBSET Claimable(w) :
           /\ claimed' = claimed \cup G
           /\ used' = used + Cardinality(G)
           /\ fresh' = [fresh EXCEPT ![w] = G]
           /\ extend' = [extend EXCEPT ![w] = Cardinality(G)]
    BY <1>4 DEF ObserveGrants
  <2>2. G \subseteq Mine(w) /\ Cardinality(G) \in Nat
    BY ClaimIsOwn, ClaimCounts
  <2>3. pc' \in [Waits -> PC] /\ snap' \in [Waits -> [Uids -> PodState]]
    BY <1>1, <1>4, LoopTypes DEF ObserveGrants
  <2>4. fresh' \in [Waits -> SUBSET Uids] /\ \A v \in Waits : fresh'[v] \subseteq Mine(v)
    BY <2>1, <2>2 DEF TypeOK, Mine
  <2>5. used' \in Nat /\ claimed' \in SUBSET Uids /\ extend' \in [Waits -> Nat]
    BY <2>1, <2>2 DEF TypeOK, Mine
  <2> QED
    BY <1>4, <2>3, <2>4, <2>5 DEF TypeOK, ObserveGrants, Mine
<1>5. ASSUME NEW w \in Waits, ObserveHoldsOpen(w) \/ ObserveNothing(w) \/ Store(w)
      PROVE  TypeOK'
  <2>1. pc' \in [Waits -> PC] /\ snap' \in [Waits -> [Uids -> PodState]]
    BY <1>1, <1>5, LoopTypes DEF ObserveHoldsOpen, ObserveNothing, Store, waitVars, TypeOK
  <2> QED
    BY <1>5, <2>1 DEF TypeOK, ObserveHoldsOpen, ObserveNothing, Store, budgetVars, waitVars, Mine
<1>6. ASSUME NEW w \in Waits, Take(w)
      PROVE  TypeOK'
  <2>1. pc' \in [Waits -> PC] /\ elapsed' \in [Waits -> Nat]
           /\ snap' \in [Waits -> [Uids -> PodState]]
    BY <1>1, <1>6, LoopTypes DEF Take, TypeOK
  <2> QED
    BY <1>6, <2>1 DEF TypeOK, Take, Mine
<1>7. ASSUME NEW w \in Waits, Extend(w)
      PROVE  TypeOK'
  <2>1. pc' \in [Waits -> PC] /\ elapsed' \in [Waits -> Nat]
           /\ snap' \in [Waits -> [Uids -> PodState]]
    BY <1>7, LoopTypes DEF Extend
  <2>2. deadline[w] + Grace * extend[w] \in Nat
    <3>1. deadline[w] \in Nat /\ extend[w] \in Nat /\ Grace \in Nat
      BY BudgetAssumption DEF TypeOK
    <3> QED
      BY <3>1
  <2>3. deadline' \in [Waits -> Nat]
    <3> DEFINE d == deadline[w] + Grace * extend[w]
    <3>1. deadline' = [deadline EXCEPT ![w] = d]
      BY <1>7 DEF Extend
    <3>2. d \in Nat
      BY <2>2
    <3> HIDE DEF d
    <3> QED
      BY <3>1, <3>2 DEF TypeOK
  <2>4. extend' \in [Waits -> Nat]
    BY <1>7 DEF TypeOK, Extend
  <2> QED
    BY <1>7, <2>1, <2>3, <2>4 DEF TypeOK, Extend, budgetVars, Mine
<1>8. ASSUME NEW w \in Waits, NEW u \in Uids, Delete(w, u)
      PROVE  TypeOK'
  <2>1. pod' \in [Uids -> PodState]
    BY <1>8 DEF TypeOK, Delete, PodState
  <2>2. held' \in [Waits -> SUBSET Uids] /\ deletes' \in [Uids -> Nat]
    BY <1>8 DEF TypeOK, Delete
  <2>3. \A v \in Waits : fresh'[v] \subseteq Mine(v)
    BY <1>8 DEF TypeOK, Delete
  <2> QED
    BY <1>8, <2>1, <2>2, <2>3 DEF TypeOK, Delete, Mine, budgetVars
<1>9. CASE Cluster
  <2>1. pod' \in [Uids -> PodState]
    <3>1. ASSUME NEW u \in Uids, NEW m \in PodMoves, pod' = [pod EXCEPT ![u] = m[2]]
          PROVE  pod' \in [Uids -> PodState]
      <4>1. m[2] \in PodState
        BY <3>1 DEF PodMoves, PodState
      <4> QED
        BY <3>1, <4>1 DEF TypeOK
    <3>2. ASSUME NEW u \in Uids, pod' = [pod EXCEPT ![u] = "queued"]
          PROVE  pod' \in [Uids -> PodState]
      BY <3>2 DEF TypeOK, PodState
    <3> QED
      BY <1>9, <3>1, <3>2 DEF Cluster, PodChanges, PodReplaced
  <2>2. UNCHANGED <<budgetVars, pc, waitVars, deletes>>
    BY <1>9 DEF Cluster, PodChanges, PodReplaced
  <2> QED
    BY <2>1, <2>2 DEF TypeOK, Mine, budgetVars, waitVars
<1>10. CASE UNCHANGED vars
  BY <1>10 DEF TypeOK, vars, budgetVars, waitVars, Mine
<1> QED
  BY <1>2, <1>3, <1>4, <1>5, <1>6, <1>7, <1>8, <1>9, <1>10 DEF Next, WaitStep

-----------------------------------------------------------------------------
(* Who has which grant.                                                    *)

accounts == <<claimed, used, pending, fresh, held, deletes>>

\* The steps that move no grant.
LEMMA QuietSteps ==
    ASSUME [Next]_vars
    PROVE  \/ UNCHANGED accounts
           \/ \E w \in Waits : ObserveGrants(w) \/ Store(w) \/ Take(w)
           \/ \E w \in Waits, u \in Uids : Delete(w, u)
<1>1. ASSUME NEW w \in Waits, TimeOut(w) \/ PollFails(w) \/ Poll(w) \/ ObserveHoldsOpen(w)
             \/ ObserveNothing(w) \/ Extend(w) \/ Judge(w)
      PROVE  UNCHANGED accounts
  BY <1>1 DEF accounts, TimeOut, PollFails, Poll, ObserveHoldsOpen, ObserveNothing, Extend,
              Judge, budgetVars, waitVars
<1>2. Cluster \/ UNCHANGED vars => UNCHANGED accounts
  BY DEF accounts, Cluster, PodChanges, PodReplaced, vars, budgetVars, waitVars
<1> QED
  BY <1>1, <1>2 DEF Next, WaitStep

LEMMA GrantsStep ==
    ASSUME IInv, [Next]_vars
    PROVE  IGrants'
<1> USE DEF IInv
<1>1. CASE UNCHANGED accounts
  BY <1>1 DEF accounts, IGrants, Undeleted
<1>2. ASSUME NEW w \in Waits, ObserveGrants(w)
      PROVE  IGrants'
  <2>1. PICK G \in SUBSET Claimable(w) :
           claimed' = claimed \cup G /\ fresh' = [fresh EXCEPT ![w] = G]
    BY <1>2 DEF ObserveGrants
  <2>2. UNCHANGED <<pending, held, deletes>>
    BY <1>2 DEF ObserveGrants
  <2>3. \A u \in G : u \in Uids /\ u \notin claimed /\ deletes[u] = 0
    <3>1. G \subseteq Mine(w) /\ G \cap claimed = {}
      BY ClaimIsOwn
    <3> QED
      BY <3>1 DEF Mine, ICharged, TypeOK
  <2>4. fresh'[w] = G /\ \A v \in Waits \ {w} : fresh'[v] = fresh[v]
    BY <2>1 DEF TypeOK
  <2> QED
    BY <2>1, <2>2, <2>3, <2>4 DEF IGrants, Undeleted
<1>3. ASSUME NEW w \in Waits, Store(w)
      PROVE  IGrants'
  <2>1. /\ pending' = fresh[w] /\ fresh'[w] = {}
        /\ \A v \in Waits \ {w} : fresh'[v] = fresh[v]
        /\ UNCHANGED <<claimed, held, deletes>>
    BY <1>3 DEF Store, TypeOK
  <2> QED
    BY <2>1 DEF IGrants, Undeleted
<1>4. ASSUME NEW w \in Waits, Take(w)
      PROVE  IGrants'
  <2>1. /\ pending' = {} /\ held'[w] = pending
        /\ \A v \in Waits \ {w} : held'[v] = held[v]
        /\ UNCHANGED <<claimed, fresh, deletes>>
    BY <1>4 DEF Take, TypeOK
  <2> QED
    BY <2>1 DEF IGrants, Undeleted
<1>5. ASSUME NEW w \in Waits, NEW u \in Uids, Delete(w, u)
      PROVE  IGrants'
  <2>1. /\ u \in held[w] /\ held'[w] = held[w] \ {u}
        /\ \A v \in Waits \ {w} : held'[v] = held[v]
        /\ \A q \in Uids \ {u} : deletes'[q] = deletes[q]
        /\ UNCHANGED <<claimed, pending, fresh>>
    BY <1>5 DEF Delete, TypeOK, budgetVars
  <2>2. pending \subseteq Uids /\ \A v \in Waits : fresh[v] \subseteq Uids /\ held[v] \subseteq Uids
    BY DEF TypeOK
  <2> QED
    BY <2>1, <2>2 DEF IGrants, Undeleted
<1> QED
  BY <1>1, <1>2, <1>3, <1>4, <1>5, QuietSteps

LEMMA ChargedStep ==
    ASSUME IInv, [Next]_vars
    PROVE  ICharged'
<1> USE DEF IInv
<1>1. CASE UNCHANGED accounts
  BY <1>1 DEF accounts, ICharged
<1>2. ASSUME NEW w \in Waits, ObserveGrants(w)
      PROVE  ICharged'
  <2>1. PICK G \in SUBSET Claimable(w) :
           /\ Grant(w, G)
           /\ claimed' = claimed \cup G
           /\ used' = used + Cardinality(G)
    BY <1>2 DEF ObserveGrants
  <2>2. /\ Cardinality(claimed \cup G) = Cardinality(claimed) + Cardinality(G)
        /\ G \cap Bare = {} /\ Cardinality(G) \in Nat
    BY ClaimIsOwn, ClaimCounts
  <2>3. Claimable(w) \subseteq Claimable(w) /\ Cardinality(Claimable(w)) \in Nat
    BY ClaimCounts
  <2>4. Cardinality(G) <= Limit - used
    BY <2>1, <2>3, BudgetAssumption DEF Grant, TypeOK, ICharged
  <2>5. used' = Cardinality(claimed') /\ used' <= Limit
    BY <2>1, <2>2, <2>4, BudgetAssumption DEF TypeOK, ICharged
  <2>6. UNCHANGED deletes
    BY <1>2 DEF ObserveGrants
  <2> QED
    BY <2>1, <2>2, <2>5, <2>6 DEF ICharged
<1>3. ASSUME NEW w \in Waits, Store(w) \/ Take(w)
      PROVE  ICharged'
  BY <1>3 DEF Store, Take, ICharged
<1>4. ASSUME NEW w \in Waits, NEW u \in Uids, Delete(w, u)
      PROVE  ICharged'
  <2>1. /\ UNCHANGED <<claimed, used>>
        /\ deletes'[u] = deletes[u] + 1 /\ \A q \in Uids \ {u} : deletes'[q] = deletes[q]
    BY <1>4 DEF Delete, TypeOK, budgetVars
  <2>2. u \in claimed /\ deletes[u] = 0
    BY <1>4 DEF Delete, IGrants, Undeleted
  <2> QED
    BY <2>1, <2>2 DEF ICharged
<1> QED
  BY <1>1, <1>2, <1>3, <1>4, QuietSteps

-----------------------------------------------------------------------------
(* What a wait may add to its deadline.                                    *)

LEMMA PaidStep ==
    ASSUME IInv, [Next]_vars
    PROVE  IPaid'
<1> USE DEF IInv
<1>1. ASSUME UNCHANGED <<claimed, extend, deadline>>
      PROVE  IPaid'
  BY <1>1 DEF IPaid, Mine
<1>2. ASSUME NEW w \in Waits, ObserveGrants(w)
      PROVE  IPaid'
  <2>1. PICK G \in SUBSET Claimable(w) :
           claimed' = claimed \cup G /\ extend' = [extend EXCEPT ![w] = Cardinality(G)]
    BY <1>2 DEF ObserveGrants
  <2> DEFINE c == Cardinality(claimed \cap Mine(w))
             g == Cardinality(G)
  <2>2. Cardinality((claimed \cup G) \cap Mine(w)) = c + g /\ c \in Nat /\ g \in Nat
    BY ClaimCounts, Counts
  <2>3. \A v \in Waits \ {w} : (claimed \cup G) \cap Mine(v) = claimed \cap Mine(v)
    BY ClaimIsOwn
  <2>4. deadline[w] + Grace * extend[w] = Timeout + Grace * c /\ extend[w] = 0
    BY <1>2 DEF IPaid, IOwed, ObserveGrants
  <2>5. deadline[w] \in Nat /\ extend[w] \in Nat /\ Grace \in Nat /\ Timeout \in Nat
    BY BudgetAssumption DEF TypeOK
  <2> HIDE DEF c, g
  <2>6. Grace * extend[w] = 0
    BY <2>4, <2>5
  <2>7. Grace * (c + g) = Grace * c + Grace * g /\ Grace * c \in Nat /\ Grace * g \in Nat
    BY <2>2, <2>5
  <2>8. deadline[w] + Grace * g = Timeout + Grace * (c + g)
    BY <2>4, <2>5, <2>6, <2>7
  <2>9. /\ deadline' = deadline /\ extend'[w] = g
        /\ \A v \in Waits \ {w} : extend'[v] = extend[v]
    BY <1>2, <2>1 DEF ObserveGrants, TypeOK, g
  <2> SUFFICES ASSUME NEW v \in Waits
               PROVE  deadline'[v] + Grace * extend'[v]
                         = Timeout + Grace * Cardinality(claimed' \cap Mine(v))
    BY DEF IPaid, Mine
  <2>10. CASE v = w
    <3>1. Cardinality(claimed' \cap Mine(w)) = c + g
      BY <2>1, <2>2
    <3> QED
      BY <2>8, <2>9, <2>10, <3>1
  <2>11. CASE v # w
    <3>1. claimed' \cap Mine(v) = claimed \cap Mine(v)
      BY <2>1, <2>3, <2>11
    <3> QED
      BY <2>9, <2>11, <3>1 DEF IPaid
  <2> QED
    BY <2>10, <2>11
<1>3. ASSUME NEW w \in Waits, Extend(w)
      PROVE  IPaid'
  <2>1. /\ deadline' = [deadline EXCEPT ![w] = deadline[w] + Grace * extend[w]]
        /\ extend' = [extend EXCEPT ![w] = 0] /\ claimed' = claimed
    BY <1>3 DEF Extend, budgetVars
  <2> DEFINE d == deadline[w] + Grace * extend[w]
  <2>2. deadline[w] \in Nat /\ extend[w] \in Nat /\ Grace \in Nat
    BY BudgetAssumption DEF TypeOK
  <2>3. d \in Nat /\ d = Timeout + Grace * Cardinality(claimed \cap Mine(w))
    <3>1. d \in Nat
      BY <2>2
    <3> QED
      BY <3>1 DEF IPaid
  <2>4. deadline' = [deadline EXCEPT ![w] = d]
    BY <2>1
  <2> HIDE DEF d
  <2>5. deadline'[w] = d /\ extend'[w] = 0
    BY <2>1, <2>4 DEF TypeOK
  <2>6. \A v \in Waits \ {w} : deadline'[v] = deadline[v] /\ extend'[v] = extend[v]
    BY <2>1, <2>4 DEF TypeOK
  <2>7. Grace * 0 = 0 /\ d + 0 = d
    BY <2>2, <2>3
  <2> SUFFICES ASSUME NEW v \in Waits
               PROVE  deadline'[v] + Grace * extend'[v]
                         = Timeout + Grace * Cardinality(claimed \cap Mine(v))
    BY <2>1 DEF IPaid, Mine
  <2>8. CASE v = w
    BY <2>3, <2>5, <2>7, <2>8
  <2>9. CASE v # w
    BY <2>6, <2>9 DEF IPaid
  <2> QED
    BY <2>8, <2>9
<1>4. ASSUME NEW w \in Waits, TimeOut(w) \/ PollFails(w) \/ Poll(w) \/ ObserveHoldsOpen(w)
             \/ ObserveNothing(w) \/ Store(w) \/ Take(w) \/ Judge(w)
      PROVE  UNCHANGED <<claimed, extend, deadline>>
  BY <1>4 DEF TimeOut, PollFails, Poll, ObserveHoldsOpen, ObserveNothing, Store, Take, Judge,
              budgetVars, waitVars
<1>5. ASSUME NEW w \in Waits, NEW u \in Uids, Delete(w, u)
      PROVE  UNCHANGED <<claimed, extend, deadline>>
  BY <1>5 DEF Delete, budgetVars
<1>6. Cluster \/ UNCHANGED vars => UNCHANGED <<claimed, extend, deadline>>
  BY DEF Cluster, PodChanges, PodReplaced, vars, budgetVars, waitVars
<1> QED
  BY <1>1, <1>2, <1>3, <1>4, <1>5, <1>6 DEF Next, WaitStep

-----------------------------------------------------------------------------
(* One iteration of a wait's loop.                                         *)

\* What a step of a wait does to its own loop, and to nobody else's.
Waited(w) == <<pc[w], extend[w], elapsed[w], deadline[w], reset[w], before[w]>>

LEMMA LoopStep ==
    ASSUME TypeOK, NEW w \in Waits, WaitStep(w)
    PROVE  /\ \A v \in Waits \ {w} : Waited(v)' = Waited(v)
           /\ pc'[w] = "observe" \/ UNCHANGED <<reset, before>>
           /\ \/ /\ pc[w] = "poll" /\ elapsed[w] > deadline[w] /\ pc'[w] = "timedOut"
                 /\ elapsed'[w] = elapsed[w] /\ UNCHANGED <<extend, deadline>>
              \/ /\ pc[w] = "poll" /\ elapsed[w] <= deadline[w] /\ pc'[w] = "poll"
                 /\ elapsed'[w] = elapsed[w] + 1 /\ UNCHANGED <<extend, deadline>>
              \/ /\ pc[w] = "poll" /\ elapsed[w] <= deadline[w] /\ pc'[w] = "observe"
                 /\ \/ elapsed'[w] = elapsed[w] /\ before'[w] = before[w] /\ reset'[w] = reset[w]
                    \/ ~reset[w] /\ reset'[w] /\ elapsed'[w] = 0 /\ before'[w] = elapsed[w]
                 /\ UNCHANGED <<extend, deadline>>
              \/ /\ pc[w] = "observe" /\ pc'[w] = "store"
                 /\ elapsed'[w] = elapsed[w] /\ UNCHANGED deadline
              \/ /\ pc[w] = "observe" /\ pc'[w] \in {"take", "judge"}
                 /\ elapsed'[w] = elapsed[w] /\ UNCHANGED <<extend, deadline>>
              \/ /\ pc[w] = "store" /\ pc'[w] = "take"
                 /\ elapsed'[w] = elapsed[w] /\ UNCHANGED <<extend, deadline>>
              \/ /\ pc[w] = "take" /\ pc'[w] = "delete"
                 /\ elapsed'[w] = elapsed[w] /\ UNCHANGED <<extend, deadline>>
              \/ /\ pc[w] \in {"take", "judge"} /\ pc'[w] = "poll" /\ (pc[w] = "take" => extend[w] = 0)
                 /\ elapsed'[w] = elapsed[w] + 1 /\ UNCHANGED <<extend, deadline>>
              \/ /\ pc[w] = "delete" /\ pc'[w] = "delete"
                 /\ elapsed'[w] = elapsed[w] /\ UNCHANGED <<extend, deadline>>
                 /\ \E u \in held[w] : held' = [held EXCEPT ![w] = @ \ {u}]
              \/ /\ pc[w] = "delete" /\ pc'[w] = "poll" /\ extend'[w] = 0
                 /\ deadline'[w] = deadline[w] + Grace * extend[w]
                 /\ elapsed'[w] = elapsed[w] + 1
              \/ /\ pc[w] = "judge" /\ pc'[w] \in {"failed", "succeeded"}
                 /\ elapsed'[w] = elapsed[w] /\ UNCHANGED <<extend, deadline>>
<1> USE DEF TypeOK, Goto, SleepAndPoll, End, Forget, Waited, budgetVars, waitVars, resetVars
<1>1. CASE TimeOut(w)
  BY <1>1 DEF TimeOut
<1>2. CASE PollFails(w)
  BY <1>2 DEF PollFails
<1>9. CASE Poll(w)
  <2>1. \/ elapsed' = elapsed /\ before' = before /\ reset' = reset
        \/ /\ ~reset[w] /\ reset'[w] /\ elapsed'[w] = 0 /\ before'[w] = elapsed[w]
           /\ \A v \in Waits \ {w} : /\ elapsed'[v] = elapsed[v] /\ before'[v] = before[v]
                                     /\ reset'[v] = reset[v]
    BY <1>9, ClockKeptOrReset DEF Poll
  <2>2. /\ pc[w] = "poll" /\ elapsed[w] <= deadline[w] /\ pc'[w] = "observe"
        /\ \A v \in Waits \ {w} : pc'[v] = pc[v]
        /\ UNCHANGED <<extend, deadline>>
    BY <1>9 DEF Poll
  <2>3. \A v \in Waits \ {w} : Waited(v)' = Waited(v)
    BY <2>1, <2>2
  <2>4. \/ elapsed'[w] = elapsed[w] /\ before'[w] = before[w] /\ reset'[w] = reset[w]
        \/ ~reset[w] /\ reset'[w] /\ elapsed'[w] = 0 /\ before'[w] = elapsed[w]
    BY <2>1
  <2> QED
    BY <2>2, <2>3, <2>4
<1>3. CASE ObserveGrants(w)
  BY <1>3 DEF ObserveGrants
<1>4. CASE ObserveHoldsOpen(w) \/ ObserveNothing(w)
  BY <1>4 DEF ObserveHoldsOpen, ObserveNothing
<1>5. CASE Store(w) \/ Take(w)
  BY <1>5 DEF Store, Take
<1>6. CASE Extend(w)
  <2> DEFINE d == deadline[w] + Grace * extend[w]
  <2>1. deadline' = [deadline EXCEPT ![w] = d]
    BY <1>6 DEF Extend
  <2> HIDE DEF d
  <2>2. deadline'[w] = d /\ \A v \in Waits \ {w} : deadline'[v] = deadline[v]
    BY <2>1
  <2> QED
    BY <1>6, <2>2 DEF Extend, d
<1>7. CASE Judge(w)
  BY <1>7 DEF Judge
<1>8. ASSUME NEW u \in Uids, Delete(w, u)
      PROVE  /\ pc[w] = "delete" /\ UNCHANGED <<pc, extend, elapsed, deadline, reset, before>>
             /\ u \in held[w] /\ held' = [held EXCEPT ![w] = @ \ {u}]
  BY <1>8 DEF Delete
<1> QED
  BY <1>1, <1>2, <1>3, <1>4, <1>5, <1>6, <1>7, <1>8, <1>9 DEF WaitStep

LEMMA LoopOrStill ==
    ASSUME TypeOK, [Next]_vars, NEW w \in Waits
    PROVE  WaitStep(w) \/ Waited(w)' = Waited(w)
<1>1. Cluster \/ UNCHANGED vars => Waited(w)' = Waited(w)
  BY DEF Cluster, PodChanges, PodReplaced, vars, waitVars, resetVars, Waited
<1>2. ASSUME NEW v \in Waits \ {w}, WaitStep(v)
      PROVE  Waited(w)' = Waited(w)
  BY <1>2, LoopStep
<1> QED
  BY <1>1, <1>2 DEF Next

LEMMA OwedStep ==
    ASSUME IInv, [Next]_vars
    PROVE  IOwed'
<1> SUFFICES ASSUME NEW w \in Waits, extend'[w] # 0
             PROVE  pc'[w] \in {"store", "take", "delete"}
  BY DEF IOwed
<1>1. CASE Waited(w)' = Waited(w)
  BY <1>1 DEF IInv, IOwed, Waited
<1>2. CASE WaitStep(w)
  BY <1>2, LoopStep DEF IInv, IOwed
<1> QED
  BY <1>1, <1>2, LoopOrStill DEF IInv

LEMMA HandsStep ==
    ASSUME IInv, [Next]_vars
    PROVE  IHands'
<1> USE DEF IInv, TypeOK, IHands, Goto
<1>1. ASSUME NEW w \in Waits, TimeOut(w) \/ PollFails(w) \/ Poll(w)
      PROVE  IHands'
  <2>1. CASE TimeOut(w) \/ PollFails(w)
    BY <1>1, <2>1 DEF TimeOut, PollFails, SleepAndPoll, End, budgetVars
  <2>2. CASE Poll(w)
    BY <1>1, <2>2 DEF Poll, budgetVars
  <2> QED BY <1>1, <2>1, <2>2
<1>2. ASSUME NEW w \in Waits, ObserveGrants(w)
      PROVE  IHands'
  <2>1. PICK G : fresh' = [fresh EXCEPT ![w] = G]
    BY <1>2 DEF ObserveGrants
  <2> QED
    BY <1>2, <2>1 DEF ObserveGrants
<1>3. ASSUME NEW w \in Waits, ObserveHoldsOpen(w) \/ ObserveNothing(w)
      PROVE  IHands'
  BY <1>3 DEF ObserveHoldsOpen, ObserveNothing, waitVars
<1>4. ASSUME NEW w \in Waits, Store(w) \/ Take(w)
      PROVE  IHands'
  BY <1>4 DEF Store, Take, SleepAndPoll
<1>5. ASSUME NEW w \in Waits, Extend(w) \/ Judge(w)
      PROVE  IHands'
  BY <1>5 DEF Extend, Judge, SleepAndPoll, End
<1>6. ASSUME NEW w \in Waits, NEW u \in Uids, Delete(w, u)
      PROVE  IHands'
  BY <1>6 DEF Delete
<1>7. Cluster \/ UNCHANGED vars => IHands'
  BY DEF Cluster, PodChanges, PodReplaced, vars, waitVars
<1> QED
  BY <1>1, <1>2, <1>3, <1>4, <1>5, <1>6, <1>7 DEF Next, WaitStep

\* A deadline is never brought forward.
LEMMA ClockStep ==
    ASSUME IInv, [Next]_vars
    PROVE  IClock'
<1> SUFFICES ASSUME NEW w \in Waits
             PROVE  /\ elapsed'[w] <= deadline'[w] + 1
                    /\ before'[w] <= deadline'[w]
                    /\ ~reset'[w] => before'[w] = 0
                    /\ pc'[w] \in {"observe", "store", "take", "delete", "judge"}
                          => elapsed'[w] <= deadline'[w]
  BY DEF IClock
<1>1. CASE Waited(w)' = Waited(w)
  BY <1>1 DEF IInv, IClock, Waited
<1>2. CASE WaitStep(w)
  <2> DEFINE more == Grace * extend[w]
  <2>1. more \in Nat
    <3>1. Grace \in Nat /\ extend[w] \in Nat
      BY BudgetAssumption DEF IInv, TypeOK
    <3> QED
      BY <3>1
  <2>2. deadline'[w] = deadline[w] \/ deadline'[w] = deadline[w] + more
    BY <1>2, LoopStep DEF IInv
  <2> HIDE DEF more
  <2>3. /\ deadline'[w] >= deadline[w] /\ deadline[w] \in Nat /\ deadline'[w] \in Nat
        /\ elapsed[w] \in Nat /\ before[w] \in Nat
    BY <2>1, <2>2 DEF IInv, TypeOK
  <2>4. /\ elapsed[w] <= deadline[w] + 1 /\ before[w] <= deadline[w]
        /\ ~reset[w] => before[w] = 0
        /\ pc[w] \in {"observe", "store", "take", "delete", "judge"} => elapsed[w] <= deadline[w]
    BY DEF IInv, IClock
  <2>5. \/ elapsed'[w] = elapsed[w] /\ pc'[w] \notin {"observe", "store", "take", "delete", "judge"}
        \/ elapsed'[w] = elapsed[w] /\ elapsed[w] <= deadline[w]
        \/ elapsed'[w] = elapsed[w] + 1 /\ pc'[w] = "poll" /\ elapsed[w] <= deadline[w]
        \/ elapsed'[w] = 0
    BY <1>2, <2>4, LoopStep DEF IInv
  <2>6. \/ before'[w] = before[w] /\ reset'[w] = reset[w]
        \/ reset'[w] /\ before'[w] = elapsed[w] /\ elapsed[w] <= deadline[w]
    BY <1>2, LoopStep DEF IInv
  <2>7. /\ elapsed'[w] <= deadline'[w] + 1
        /\ pc'[w] \in {"observe", "store", "take", "delete", "judge"} => elapsed'[w] <= deadline'[w]
    BY <2>3, <2>4, <2>5
  <2>8. before'[w] <= deadline'[w] /\ (~reset'[w] => before'[w] = 0)
    BY <2>3, <2>4, <2>6
  <2> QED
    BY <2>7, <2>8
<1> QED
  BY <1>1, <1>2, LoopOrStill DEF IInv

-----------------------------------------------------------------------------
(* What a wait concludes from its snapshot.                                *)

LEMMA CrashingFacts ==
    ASSUME NEW w \in Waits
    PROVE  /\ Crashing(w) \subseteq Live(w) /\ Live(w) \subseteq Listed(w)
           /\ Listed(w) \subseteq Uids
           /\ \A u \in Crashing(w) :
                 /\ snap[w][u] \in {"crashed", "terminal"}
                 /\ u \in NotReady(w)
                 /\ snap[w][u] = "crashed" /\ u \notin Bare => u \in Eligible(w)
BY DEF Crashing, Live, Listed, NotReady, Eligible

\* With the same snapshot a wait sees the same pods.
LEMMA SameSnapshot ==
    ASSUME NEW w \in Waits, snap'[w] = snap[w]
    PROVE  Listed(w)' = Listed(w) /\ Live(w)' = Live(w) /\ Crashing(w)' = Crashing(w)
BY DEF Listed, Live, Crashing

\* The other waits' places and snapshots are not a wait's to change.
LEMMA OwnStep ==
    ASSUME TypeOK, NEW w \in Waits, WaitStep(w)
    PROVE  /\ \A v \in Waits \ {w} : pc'[v] = pc[v] /\ snap'[v] = snap[v]
           /\ \/ pc'[w] \in {"poll", "store", "take", "delete", "timedOut"}
              \/ pc[w] = "delete" /\ pc'[w] = pc[w]
              \/ Poll(w) /\ pc'[w] = "observe"
              \/ ObserveNothing(w) /\ pc'[w] = "judge" /\ snap' = snap
              \/ Judge(w) /\ pc'[w] \in {"failed", "succeeded"} /\ snap' = snap
           /\ \/ snap'[w] = snap[w]
              \/ snap'[w] = NoPods
              \/ Poll(w) /\ snap'[w] = [u \in Uids |-> IF u \in Mine(w) THEN pod[u] ELSE "absent"]
<1> USE DEF TypeOK, Goto, SleepAndPoll, End, Forget
<1>1. CASE TimeOut(w) \/ PollFails(w)
  BY <1>1 DEF TimeOut, PollFails
<1>2. CASE Poll(w)
  BY <1>2 DEF Poll
<1>3. CASE ObserveGrants(w) \/ ObserveHoldsOpen(w) \/ ObserveNothing(w)
  BY <1>3 DEF ObserveGrants, ObserveHoldsOpen, ObserveNothing, waitVars
<1>4. CASE Store(w) \/ Take(w) \/ Extend(w)
  BY <1>4 DEF Store, Take, Extend
<1>5. CASE Judge(w)
  BY <1>5 DEF Judge
<1>6. ASSUME NEW u \in Uids, Delete(w, u)
      PROVE  pc' = pc /\ snap' = snap /\ pc[w] = "delete"
  BY <1>6 DEF Delete
<1> QED
  BY <1>1, <1>2, <1>3, <1>4, <1>5, <1>6 DEF WaitStep

\* A wait's own pods are charged for by that wait alone.
LEMMA ClaimsAreOwn ==
    ASSUME IInv, [Next]_vars, NEW w \in Waits,
           ~ObserveGrants(w)
    PROVE  claimed' \cap Mine(w) = claimed \cap Mine(w)
<1>1. CASE UNCHANGED accounts
  BY <1>1 DEF accounts
<1>2. ASSUME NEW v \in Waits, ObserveGrants(v)
      PROVE  claimed' \cap Mine(w) = claimed \cap Mine(w)
  <2>1. PICK G \in SUBSET Claimable(v) : claimed' = claimed \cup G
    BY <1>2 DEF ObserveGrants
  <2>2. v # w
    BY <1>2
  <2> QED
    BY <2>1, <2>2, ClaimIsOwn DEF IInv
<1>3. ASSUME NEW v \in Waits, Store(v) \/ Take(v)
      PROVE  claimed' = claimed
  BY <1>3 DEF Store, Take
<1>4. ASSUME NEW v \in Waits, NEW u \in Uids, Delete(v, u)
      PROVE  claimed' = claimed
  BY <1>4 DEF Delete, budgetVars
<1> QED
  BY <1>1, <1>2, <1>3, <1>4, QuietSteps

\* A wait that finds nothing to claim and no reason to hold on has not
\* restarted any pod it sees crashing.
LEMMA NothingClaimed ==
    ASSUME IInv, NEW w \in Waits, ObserveNothing(w)
    PROVE  \A u \in Crashing(w) : u \notin claimed \/ snap[w][u] = "terminal"
<1> SUFFICES ASSUME NEW u \in Crashing(w), u \in claimed, snap[w][u] # "terminal"
             PROVE  FALSE
  OBVIOUS
<1>1. u \in NotReady(w) /\ u \in Eligible(w)
  BY CrashingFacts DEF IInv, ICharged
<1>2. CASE Limit = 0
  <2>1. Cardinality(claimed) = 0
    <3>1. Cardinality(claimed) \in Nat
      BY Counts DEF IInv
    <3> QED
      BY <1>2, <3>1 DEF IInv, ICharged
  <2>2. IsFiniteSet(claimed)
    BY Counts DEF IInv
  <2>3. claimed = {}
    BY <2>1, <2>2, FS_EmptySet
  <2> QED
    BY <2>3
<1>3. CASE Limit > 0
  BY <1>1, <1>3 DEF ObserveNothing, HoldOpen
<1> QED
  BY <1>2, <1>3, BudgetAssumption

LEMMA JudgeStep ==
    ASSUME IInv, [Next]_vars
    PROVE  ISnap' /\ IJudged'
<1> SUFFICES ASSUME NEW w \in Waits
             PROVE  /\ (Listed(w) \subseteq Mine(w))'
                    /\ (pc[w] \in {"observe", "judge", "failed", "succeeded"} => Live(w) # {})'
                    /\ (pc[w] \in {"judge", "failed"} =>
                          \A u \in Crashing(w) : u \notin claimed \/ snap[w][u] = "terminal")'
                    /\ (pc[w] = "failed" => Crashing(w) # {})'
                    /\ (pc[w] = "succeeded" => \A u \in Live(w) : snap[w][u] = "ready")'
  BY DEF ISnap, IJudged
<1>1. /\ Listed(w) \subseteq Mine(w)
      /\ pc[w] \in {"observe", "judge", "failed", "succeeded"} => Live(w) # {}
      /\ pc[w] \in {"judge", "failed"} =>
            \A u \in Crashing(w) : u \notin claimed \/ snap[w][u] = "terminal"
      /\ pc[w] = "failed" => Crashing(w) # {}
      /\ pc[w] = "succeeded" => \A u \in Live(w) : snap[w][u] = "ready"
  BY DEF IInv, ISnap, IJudged
<1>2. Mine(w)' = Mine(w)
  BY DEF Mine
<1>3. CASE pc'[w] = pc[w] /\ snap'[w] = snap[w] /\ ~ObserveGrants(w)
  <2>1. Listed(w)' = Listed(w) /\ Live(w)' = Live(w) /\ Crashing(w)' = Crashing(w)
    BY <1>3, SameSnapshot
  <2>2. \A u \in Crashing(w) : u \in claimed' => u \in claimed
    BY <1>1, <1>3, ClaimsAreOwn, CrashingFacts
  <2> QED
    BY <1>1, <1>2, <1>3, <2>1, <2>2
<1>4. CASE WaitStep(w)
  <2>1. (Listed(w) \subseteq Mine(w))'
    <3>1. CASE snap'[w] = snap[w]
      BY <1>1, <1>2, <3>1, SameSnapshot
    <3>2. CASE snap'[w] = NoPods
      BY <3>2 DEF Listed, NoPods
    <3>3. CASE snap'[w] = [u \in Uids |-> IF u \in Mine(w) THEN pod[u] ELSE "absent"]
      BY <1>2, <3>3 DEF Listed
    <3> QED
      BY <1>4, <3>1, <3>2, <3>3, OwnStep DEF IInv
  <2>2. CASE pc'[w] \in {"poll", "store", "take", "delete", "timedOut"}
    BY <2>1, <2>2
  <2>3. CASE Poll(w) /\ pc'[w] = "observe"
    <3>1. /\ \E u \in Mine(w) : pod[u] \notin {"absent", "deleting"}
          /\ snap'[w] = [u \in Uids |-> IF u \in Mine(w) THEN pod[u] ELSE "absent"]
      BY <2>3 DEF Poll, SleepAndPoll, Goto, IInv, TypeOK
    <3>2. Live(w)' # {}
      BY <3>1 DEF Live, Listed, Mine
    <3> QED
      BY <2>1, <2>3, <3>2
  <2>4. CASE ObserveNothing(w) /\ pc'[w] = "judge" /\ snap' = snap
    <3>1. Live(w)' = Live(w) /\ Crashing(w)' = Crashing(w) /\ claimed' = claimed
      BY <2>4, SameSnapshot DEF ObserveNothing, budgetVars
    <3>2. pc[w] = "observe"
      BY <2>4 DEF ObserveNothing
    <3> QED
      BY <1>1, <2>1, <2>4, <3>1, <3>2, NothingClaimed
  <2>5. CASE Judge(w) /\ pc'[w] \in {"failed", "succeeded"} /\ snap' = snap
    <3>1. Live(w)' = Live(w) /\ Crashing(w)' = Crashing(w) /\ claimed' = claimed
      BY <2>5, SameSnapshot DEF Judge, budgetVars
    <3>2. pc[w] = "judge"
      BY <2>5 DEF Judge
    <3>3. pc'[w] = "failed" => Crashing(w) # {}
      BY <2>5 DEF Judge, End, SleepAndPoll, Goto, IInv, TypeOK
    <3>4. pc'[w] = "succeeded" => NotReady(w) \cap Live(w) = {}
      BY <2>5 DEF Judge, End, SleepAndPoll, Goto, IInv, TypeOK
    <3>5. pc'[w] = "succeeded" => \A u \in Live(w) : snap[w][u] = "ready"
      BY <3>4, CrashingFacts DEF NotReady
    <3> QED
      BY <1>1, <2>1, <2>5, <3>1, <3>2, <3>3, <3>5
  <2>6. CASE pc[w] = "delete" /\ pc'[w] = pc[w]
    BY <2>1, <2>6
  <2> QED
    BY <1>4, <2>2, <2>3, <2>4, <2>5, <2>6, OwnStep DEF IInv
<1>5. ASSUME NEW v \in Waits \ {w}, WaitStep(v), ~ObserveGrants(w)
      PROVE  pc'[w] = pc[w] /\ snap'[w] = snap[w]
  BY <1>5, OwnStep DEF IInv
<1>6. Cluster \/ UNCHANGED vars => pc'[w] = pc[w] /\ snap'[w] = snap[w]
  BY DEF Cluster, PodChanges, PodReplaced, vars, waitVars
<1>7. ObserveGrants(w) => WaitStep(w)
  BY DEF WaitStep
<1> QED
  BY <1>3, <1>4, <1>5, <1>6, <1>7 DEF Next

-----------------------------------------------------------------------------
LEMMA NextIInv == IInv /\ [Next]_vars => IInv'
BY TypeStep, GrantsStep, ChargedStep, PaidStep, OwedStep, HandsStep, ClockStep, JudgeStep
   DEF IInv

THEOREM Invariance == Spec => []IInv
BY InitIInv, NextIInv, PTL DEF Spec

\* Every variable keeps its type, and a wait claims pods of its own selector
\* only (RestartBudgetPolicy.observe).
THEOREM TypeCorrect == Spec => []TypeOK
BY Invariance, PTL DEF IInv

\* The waits together never charge, nor delete, more than the budget, in any
\* interleaving of their claims, stores and takes (RestartBudget.claim).
THEOREM BudgetIsAGlobalCap == Spec => []DeletionsWithinBudget
<1>1. IInv => DeletionsWithinBudget
  BY DEF IInv, ICharged, DeletionsWithinBudget
<1> QED
  BY <1>1, Invariance, PTL

\* No pod instance is deleted twice, and none without a controller
\* (take_granted, eligible).
THEOREM NoSecondDelete == Spec => []DeletedOnce
<1>1. IInv => DeletedOnce
  BY PodAssumption DEF IInv, ICharged, DeletedOnce
<1> QED
  BY <1>1, Invariance, PTL

\* A wait fails on a crash that the budget was not spent on, or on one no
\* restart clears (RestartBudgetPolicy.observe, wait_for_pods).
THEOREM RestartedPodsAreSpared == Spec => []SparesRestartedPods
<1>1. IInv => SparesRestartedPods
  BY DEF IInv, IJudged, SparesRestartedPods
<1> QED
  BY <1>1, Invariance, PTL

\* A wait succeeds on at least one pod, all of them Ready (wait_for_pods).
THEOREM SuccessIsEarned == Spec => []SuccessMeansReady
<1>1. IInv => SuccessMeansReady
  BY DEF IInv, ISnap, IJudged, SuccessMeansReady
<1> QED
  BY <1>1, Invariance, PTL

-----------------------------------------------------------------------------
(* The waits together implement the atomic account.                        *)

Patience == [w \in Waits |-> deadline[w] + Grace * extend[w]]

\* What a wait is entitled to is a function of the claims on its pods.
LEMMA PatienceIsCounted ==
    ASSUME IPaid
    PROVE  Patience = [w \in Waits |-> Timeout + Grace * Cardinality(claimed \cap Mine(w))]
BY DEF IPaid, Patience

\* The abstract module counts as this one does.
LEMMA SameCount ==
    ASSUME NEW S
    PROVE  Account!Cardinality(S) = Cardinality(S)
BY Zenon DEF Account!Cardinality, Cardinality

LEMMA AccountInit == Init => Account!Init
<1> SUFFICES ASSUME Init PROVE Account!Init
  OBVIOUS
<1>1. claimed = {}
  BY DEF Init
<1>2. Cardinality({}) = 0
  BY FS_EmptySet
<1>3. \A w \in Waits : claimed \cap Mine(w) = {}
  BY <1>1
<1>4. \A w \in Waits : Cardinality(claimed \cap Mine(w)) = 0
  BY <1>2, <1>3
<1>5. Patience = [w \in Waits |-> Timeout + Grace * Cardinality(claimed \cap Mine(w))]
  BY InitIInv, PatienceIsCounted DEF IInv
<1>6. \A w \in Waits : Timeout + Grace * Cardinality(claimed \cap Mine(w)) = Timeout
  BY <1>4, BudgetAssumption
<1>7. Patience = [w \in Waits |-> Timeout]
  BY <1>5, <1>6
<1> QED
  BY <1>1, <1>7 DEF Init, Account!Init, Patience

LEMMA AccountStep ==
    ASSUME IInv, [Next]_vars
    PROVE  [Account!Next]_(Account!vars)
<1> DEFINE Entitled(S, w) == Timeout + Grace * Cardinality(S \cap Mine(w))
<1>1. Patience = [w \in Waits |-> Entitled(claimed, w)]
  BY PatienceIsCounted DEF IInv
<1>2. IPaid' /\ \A w \in Waits : Mine(w)' = Mine(w)
  BY PaidStep DEF Mine
<1>3. Patience' = [w \in Waits |-> Entitled(claimed', w)]
  BY <1>2 DEF IPaid, Patience
<1>4. ASSUME UNCHANGED <<claimed, deletes>>
      PROVE  UNCHANGED Account!vars
  <2>1. Patience' = Patience
    BY <1>1, <1>3, <1>4
  <2> QED
    BY <1>4, <2>1 DEF Account!vars, Patience
<1>5. ASSUME NEW w \in Waits, ObserveGrants(w)
      PROVE  Account!Next
  <2>1. PICK G \in (SUBSET Claimable(w)) \ {{}} :
           Grant(w, G) /\ claimed' = claimed \cup G /\ used' = used + Cardinality(G)
    BY <1>5 DEF ObserveGrants
  <2>2. /\ G \subseteq Mine(w) /\ G \cap claimed = {} /\ G \cap Bare = {}
        /\ Cardinality(G) \in Nat
        /\ Cardinality((claimed \cup G) \cap Mine(w))
              = Cardinality(claimed \cap Mine(w)) + Cardinality(G)
        /\ \A v \in Waits \ {w} : (claimed \cup G) \cap Mine(v) = claimed \cap Mine(v)
    <3>1. TypeOK /\ ISnap /\ G \in SUBSET Claimable(w)
      BY <2>1 DEF IInv
    <3>2. /\ G \subseteq Mine(w) /\ G \cap claimed = {} /\ G \cap Bare = {}
          /\ \A v \in Waits \ {w} : (claimed \cup G) \cap Mine(v) = claimed \cap Mine(v)
      BY <3>1, ClaimIsOwn
    <3>3. /\ Cardinality(G) \in Nat
          /\ Cardinality((claimed \cup G) \cap Mine(w))
                = Cardinality(claimed \cap Mine(w)) + Cardinality(G)
      BY <3>1, ClaimCounts
    <3> QED
      BY <3>2, <3>3
  <2>3. G \in (SUBSET Uids) \ {{}} /\ \A u \in G : Owner[u] = w /\ u \notin Bare \cup claimed
    BY <2>1, <2>2 DEF Mine
  <2>4. Cardinality(claimed \cup G) <= Limit
    BY <2>1, ChargedStep DEF ICharged
  <2>5. Cardinality(claimed \cap Mine(w)) \in Nat /\ Grace \in Nat /\ Timeout \in Nat
    BY Counts, BudgetAssumption DEF IInv
  <2>6. Entitled(claimed', w) = Entitled(claimed, w) + Grace * Cardinality(G)
    <3> DEFINE c == Cardinality(claimed \cap Mine(w))
               g == Cardinality(G)
    <3>1. Cardinality(claimed' \cap Mine(w)) = c + g
      BY <2>1, <2>2
    <3>2. c \in Nat /\ g \in Nat
      BY <2>2, <2>5
    <3> HIDE DEF c, g
    <3>3. Timeout + Grace * (c + g) = Timeout + Grace * c + Grace * g
      BY <2>5, <3>2
    <3> QED
      BY <3>1, <3>3 DEF c, g
  <2>7. \A v \in Waits \ {w} : Entitled(claimed', v) = Entitled(claimed, v)
    BY <2>1, <2>2
  <2> HIDE DEF Entitled
  <2>8. Patience' = [Patience EXCEPT ![w] = @ + Grace * Cardinality(G)]
    <3> DEFINE more == Grace * Cardinality(G)
    <3>1. Patience[w] = Entitled(claimed, w)
      BY <1>1
    <3>2. Patience' = [v \in Waits |-> IF v = w THEN Patience[w] + more ELSE Entitled(claimed, v)]
      BY <1>3, <2>6, <2>7, <3>1
    <3> HIDE DEF more
    <3>3. Patience' = [Patience EXCEPT ![w] = Patience[w] + more]
      BY <1>1, <3>2
    <3> QED
      BY <3>3 DEF more
  <2>9. UNCHANGED deletes
    BY <1>5 DEF ObserveGrants
  <2>10. Account!Charge(w, G)
    BY <2>1, <2>3, <2>4, <2>8, <2>9, SameCount DEF Account!Charge, Patience
  <2> QED
    BY <2>3, <2>10 DEF Account!Next
<1>6. ASSUME NEW w \in Waits, NEW u \in Uids, Delete(w, u)
      PROVE  Account!Next
  <2>1. u \in claimed /\ deletes[u] = 0 /\ claimed' = claimed
    BY <1>6 DEF Delete, IInv, IGrants, Undeleted, budgetVars
  <2>2. deletes' = [deletes EXCEPT ![u] = 1]
    BY <1>6, <2>1 DEF Delete
  <2>3. Patience' = Patience
    BY <1>1, <1>3, <2>1
  <2>4. Account!Restart(u)
    BY <2>1, <2>2, <2>3 DEF Account!Restart, Patience
  <2> QED
    BY <2>4 DEF Account!Next
<1>7. ASSUME NEW w \in Waits, Store(w) \/ Take(w)
      PROVE  UNCHANGED <<claimed, deletes>>
  BY <1>7 DEF Store, Take
<1>8. UNCHANGED accounts => UNCHANGED <<claimed, deletes>>
  BY DEF accounts
<1> QED
  BY <1>4, <1>5, <1>6, <1>7, <1>8, QuietSteps

\* However the threads' claims, stores, takes and deletes interleave, they
\* keep one atomic account: charges within the limit, each to the owner of
\* the pods and with exactly its grace, each followed by at most one delete
\* (RestartBudget.claim, RestartBudgetPolicy.observe, take_granted).
THEOREM BudgetIsAnAllowance == Spec => ImplementsAllowance
<1>1. IInv /\ [Next]_vars => [Account!Next]_(Account!vars)
  BY AccountStep
<1> QED
  BY <1>1, AccountInit, Invariance, PTL DEF Spec, ImplementsAllowance, Account!Spec

\* More restarts are worth more patience.
LEMMA GraceGrows ==
    ASSUME NEW g \in Nat, NEW m \in Nat, NEW n \in Nat
    PROVE  g * n \in Nat /\ (m <= n => g * m <= g * n)
<1>1. g * n \in Nat
  OBVIOUS
<1>2. ASSUME m <= n PROVE g * m <= g * n
  <2>1. PICK k \in Nat : n = m + k
    <3>1. n - m \in Nat /\ n = m + (n - m)
      BY <1>2
    <3> QED
      BY <3>1
  <2>2. g * (m + k) = g * m + g * k /\ g * m \in Nat /\ g * k \in Nat
    OBVIOUS
  <2> QED
    BY <2>1, <2>2
<1> QED
  BY <1>1, <1>2

\* No wait outlasts its timeout and the whole budget's grace twice over, and
\* one poll: the deadline moves by no more than the budget pays for and is
\* read again at every poll, and the clock is set back once (wait_for_pods,
\* deadline_reset, extend_deadline).
THEOREM BudgetBoundsTheWait == Spec => []WaitIsBounded
<1>1. IInv => WaitIsBounded
  <2> SUFFICES ASSUME IInv, NEW w \in Waits
               PROVE  before[w] + elapsed[w] <= 2 * (Timeout + Grace * Limit) + 1
    BY DEF WaitIsBounded
  <2> DEFINE c == Cardinality(claimed \cap Mine(w))
  <2>1. c \in Nat /\ c <= Limit
    <3>1. c <= Cardinality(claimed)
      BY Counts, FS_Subset DEF IInv
    <3> QED
      BY <3>1, Counts, BudgetAssumption DEF IInv, ICharged
  <2>2. deadline[w] + Grace * extend[w] = Timeout + Grace * c
    BY DEF IInv, IPaid
  <2>3. /\ elapsed[w] <= deadline[w] + 1 /\ before[w] <= deadline[w] /\ before[w] \in Nat
        /\ elapsed[w] \in Nat /\ deadline[w] \in Nat /\ extend[w] \in Nat
        /\ Grace \in Nat /\ Timeout \in Nat /\ Limit \in Nat
    BY BudgetAssumption DEF IInv, IClock, TypeOK
  <2> HIDE DEF c
  <2> DEFINE owed == Grace * extend[w]
             paid == Grace * c
             most == Grace * Limit
  <2>4. paid <= most /\ paid \in Nat /\ most \in Nat
    BY <2>1, <2>3, GraceGrows
  <2>5. owed \in Nat
    BY <2>3, GraceGrows
  <2>6. deadline[w] + owed = Timeout + paid
    BY <2>2
  <2> HIDE DEF owed, paid, most
  <2>7. before[w] + elapsed[w] <= 2 * (Timeout + most) + 1
    <3>1. deadline[w] <= Timeout + most
      BY <2>3, <2>4, <2>5, <2>6
    <3> QED
      BY <2>3, <2>4, <3>1
  <2> QED
    BY <2>7 DEF most
<1> QED
  BY <1>1, Invariance, PTL

-----------------------------------------------------------------------------
(* A wait moves forward, and only one step in it loses a grant.            *)

Rank(l) ==
    CASE l = "poll" -> 0 [] l = "observe" -> 1 [] l = "store" -> 2 [] l = "take" -> 3
      [] l = "delete" -> 4 [] l = "judge" -> 5 [] OTHER -> 6

\* Every poll a wait has made, before its clock was set back and since.
Polls(w) == before[w] + elapsed[w]

\* The next poll, a later place in the same iteration, or one pod fewer to
\* delete.
MovesOn(w) ==
    \/ Polls(w)' = Polls(w) + 1
    \/ Polls(w)' = Polls(w) /\ Rank(pc'[w]) > Rank(pc[w])
    \/ /\ Polls(w)' = Polls(w) /\ pc'[w] = pc[w]
       /\ \E u \in held[w] : held'[w] = held[w] \ {u}

\* Each step of a wait brings it closer to the end of its iteration or to its
\* next poll, the reset of its clock included, and no other thread's step
\* sets it back.  Polls are bounded by BudgetBoundsTheWait, the pods in hand
\* by the budget: a wait whose thread runs has finitely many steps to take
\* (wait_for_pods).
WaitsMoveOn ==
    [][\A w \in Waits : IF WaitStep(w) THEN MovesOn(w) ELSE Waited(w)' = Waited(w)]_vars

THEOREM NoWaitGoesRound == Spec => WaitsMoveOn
<1>1. ASSUME IInv, [Next]_vars
      PROVE  \A w \in Waits : IF WaitStep(w) THEN MovesOn(w) ELSE Waited(w)' = Waited(w)
  <2> SUFFICES ASSUME NEW w \in Waits, WaitStep(w)
               PROVE  MovesOn(w)
    BY <1>1, LoopOrStill DEF IInv
  <2>0. before[w] \in Nat /\ elapsed[w] \in Nat /\ (~reset[w] => before[w] = 0)
    BY <1>1 DEF IInv, TypeOK, IClock
  <2>1. CASE elapsed'[w] = elapsed[w] + 1 /\ before'[w] = before[w]
    BY <2>0, <2>1 DEF MovesOn, Polls
  <2>2. CASE ~(elapsed'[w] = elapsed[w] + 1 /\ before'[w] = before[w])
    <3>1. \/ pc[w] = "poll" /\ pc'[w] \in {"timedOut", "observe"}
          \/ pc[w] = "observe" /\ pc'[w] \in {"store", "take", "judge"}
          \/ pc[w] = "store" /\ pc'[w] = "take"
          \/ pc[w] = "take" /\ pc'[w] = "delete"
          \/ pc[w] = "judge" /\ pc'[w] \in {"failed", "succeeded"}
          \/ /\ pc[w] = "delete" /\ pc'[w] = "delete"
             /\ \E u \in held[w] : held' = [held EXCEPT ![w] = @ \ {u}]
      BY <1>1, <2>2, LoopStep DEF IInv
    <3>2. \A u : held' = [held EXCEPT ![w] = @ \ {u}] => held'[w] = held[w] \ {u}
      BY <1>1 DEF IInv, TypeOK
    <3>3. \/ elapsed'[w] = elapsed[w] /\ before'[w] = before[w]
          \/ ~reset[w] /\ elapsed'[w] = 0 /\ before'[w] = elapsed[w]
      BY <1>1, <2>2, LoopStep DEF IInv
    <3>4. Polls(w)' = Polls(w)
      BY <2>0, <3>3 DEF Polls
    <3> QED
      BY <3>1, <3>2, <3>4 DEF MovesOn, Rank
  <2> QED
    BY <2>1, <2>2
<1> QED
  BY <1>1, Invariance, PTL DEF Spec, WaitsMoveOn

\* Some wait has the grant of u in hand, or can take it.
InHand(u) == u \in pending \/ \E w \in Waits : u \in fresh[w] \cup held[w]

\* w stores its grants over others that nobody has taken.
Overwrites(w) == Store(w) /\ pending # {}

NoOverwrite == \A w \in Waits : ~Overwrites(w)

\* A grant that was in hand goes by its delete or by being overwritten.
LEMMA GrantsGo ==
    ASSUME IInv, [Next]_vars, NEW u \in claimed'
    PROVE  \/ deletes'[u] > 0 \/ InHand(u)'
           \/ \E w \in Waits : Overwrites(w) /\ u \in pending
           \/ u \in claimed /\ deletes[u] = 0 /\ ~InHand(u)
<1> SUFFICES ASSUME u \in claimed => deletes[u] > 0 \/ InHand(u)
             PROVE  \/ deletes'[u] > 0 \/ InHand(u)'
                    \/ \E w \in Waits : Overwrites(w) /\ u \in pending
  <2>1. u \in claimed => deletes[u] \in Nat
    BY DEF IInv, TypeOK
  <2> QED
    BY <2>1
<1>1. CASE UNCHANGED accounts
  BY <1>1 DEF accounts, InHand
<1>2. ASSUME NEW w \in Waits, ObserveGrants(w)
      PROVE  deletes'[u] > 0 \/ InHand(u)'
  <2>1. PICK G \in SUBSET Claimable(w) : claimed' = claimed \cup G /\ fresh' = [fresh EXCEPT ![w] = G]
    BY <1>2 DEF ObserveGrants
  <2>2. fresh[w] = {} /\ UNCHANGED <<pending, held, deletes>>
    BY <1>2 DEF ObserveGrants, IInv, IHands
  <2>3. fresh'[w] = G /\ \A v \in Waits \ {w} : fresh'[v] = fresh[v]
    BY <2>1 DEF IInv, TypeOK
  <2> QED
    BY <2>1, <2>2, <2>3 DEF InHand
<1>3. ASSUME NEW w \in Waits, Store(w)
      PROVE  \/ deletes'[u] > 0 \/ InHand(u)'
             \/ Overwrites(w) /\ u \in pending
  <2>1. /\ pending' = fresh[w] /\ UNCHANGED <<claimed, held, deletes>>
        /\ \A v \in Waits \ {w} : fresh'[v] = fresh[v]
    BY <1>3 DEF Store, IInv, TypeOK
  <2> QED
    BY <1>3, <2>1 DEF InHand, Overwrites
<1>4. ASSUME NEW w \in Waits, Take(w)
      PROVE  deletes'[u] > 0 \/ InHand(u)'
  <2>1. /\ held'[w] = pending /\ UNCHANGED <<claimed, fresh, deletes>>
        /\ \A v \in Waits \ {w} : held'[v] = held[v]
    BY <1>4 DEF Take, IInv, TypeOK
  <2>2. held[w] = {}
    BY <1>4 DEF Take, IInv, IHands
  <2> QED
    BY <2>1, <2>2 DEF InHand
<1>5. ASSUME NEW w \in Waits, NEW v \in Uids, Delete(w, v)
      PROVE  deletes'[u] > 0 \/ InHand(u)'
  <2>1. /\ UNCHANGED <<claimed, pending, fresh>> /\ u \in Uids
        /\ held'[w] = held[w] \ {v} /\ \A x \in Waits \ {w} : held'[x] = held[x]
        /\ deletes'[v] = deletes[v] + 1 /\ \A x \in Uids \ {v} : deletes'[x] = deletes[x]
        /\ deletes[v] \in Nat
    BY <1>5 DEF Delete, IInv, TypeOK, budgetVars
  <2> QED
    BY <2>1 DEF InHand
<1> QED
  BY <1>1, <1>2, <1>3, <1>4, <1>5, QuietSteps

\* A charged pod is dropped in one way only: a wait stores its grants over
\* others not yet taken.  Without such a step every charged pod is deleted or
\* in hand (the unlocked self._pending of RestartBudgetPolicy).
THEOREM OnlyOverwritingLoses ==
    Spec /\ [][NoOverwrite]_vars => []ChargedIsDeleted
<1>1. Init => ChargedIsDeleted
  BY DEF Init, ChargedIsDeleted
<1>2. /\ IInv /\ ChargedIsDeleted
      /\ [Next]_vars /\ [NoOverwrite]_vars
      => ChargedIsDeleted'
  <2> SUFFICES ASSUME IInv, ChargedIsDeleted, [Next]_vars,
                      [NoOverwrite]_vars,
                      NEW u \in claimed'
               PROVE  deletes'[u] > 0 \/ InHand(u)'
    BY DEF ChargedIsDeleted, InHand
  <2>1. \A w \in Waits : ~(Overwrites(w) /\ u \in pending /\ ~InHand(u)')
    <3>1. CASE UNCHANGED vars
      BY <3>1 DEF vars, budgetVars, InHand
    <3> QED
      BY <3>1 DEF NoOverwrite
  <2>2. ~(u \in claimed /\ deletes[u] = 0 /\ ~InHand(u))
    BY DEF ChargedIsDeleted, InHand
  <2> QED
    BY <2>1, <2>2, GrantsGo
<1> QED
  BY <1>1, <1>2, Invariance, PTL DEF Spec

\* A wait alone never overwrites: its grants are taken before it claims again.
\* The race of restart_race needs two stacks.
THEOREM SoleWaitLosesNothing ==
    ASSUME NEW w, Waits = {w}
    PROVE  Spec => []ChargedIsDeleted
<1> DEFINE Taken == pending # {} => pc[w] = "take"
<1>1. Init => Taken
  BY DEF Init
<1>2. IInv /\ Taken /\ [Next]_vars => Taken'
  <2> SUFFICES ASSUME IInv, Taken, [Next]_vars PROVE Taken'
    OBVIOUS
  <2>1. CASE WaitStep(w)
    <3>1. CASE Store(w) \/ Take(w)
      BY <3>1 DEF Store, Take, SleepAndPoll, Goto, IInv, TypeOK
    <3>2. CASE UNCHANGED pending /\ pc[w] # "take"
      BY <3>2
    <3>3. ASSUME NEW u \in Uids, Delete(w, u)
          PROVE  UNCHANGED pending /\ pc[w] # "take"
      BY <3>3 DEF Delete, budgetVars
    <3>4. \/ TimeOut(w) \/ PollFails(w) \/ Poll(w) \/ ObserveGrants(w) \/ ObserveHoldsOpen(w)
          \/ ObserveNothing(w) \/ Extend(w) \/ Judge(w)
          => UNCHANGED pending /\ pc[w] # "take"
      BY DEF TimeOut, PollFails, Poll, ObserveGrants, ObserveHoldsOpen, ObserveNothing, Extend,
             Judge, budgetVars
    <3> QED
      BY <2>1, <3>1, <3>2, <3>3, <3>4 DEF WaitStep
  <2>2. CASE Cluster \/ UNCHANGED vars
    BY <2>2 DEF Cluster, PodChanges, PodReplaced, vars, budgetVars
  <2> QED
    BY <2>1, <2>2 DEF Next
<1>3. Taken /\ [Next]_vars => [NoOverwrite]_vars
  BY DEF NoOverwrite, Overwrites, Store
<1> QED
  <2> HIDE DEF Taken
  <2> QED
    BY <1>1, <1>2, <1>3, Invariance, OnlyOverwritingLoses, PTL DEF Spec

-----------------------------------------------------------------------------
(* No wait is stuck.                                                       *)

LEMMA SubsetOfSize ==
    ASSUME NEW S, IsFiniteSet(S), NEW k \in Nat, k <= Cardinality(S)
    PROVE  \E G \in SUBSET S : Cardinality(G) = k
<1> DEFINE Large == {G \in SUBSET S : Cardinality(G) >= k}
<1>1. /\ IsWellFoundedOn(StrictSubsetOrdering(S), SUBSET S)
      /\ Large \subseteq SUBSET S /\ Large # {}
  <2>1. IsWellFoundedOn(StrictSubsetOrdering(S), SUBSET S)
    BY FS_StrictSubsetOrderingWellFounded, FS_FiniteSubsetsOfFinite
  <2>2. S \in Large
    BY FS_CardinalityType
  <2> QED
    BY <2>1, <2>2
<1>2. PICK G \in Large : \A H \in Large : <<H, G>> \notin StrictSubsetOrdering(S)
  <2> HIDE DEF Large
  <2> QED
    BY <1>1, WFMin
<1>3. G \in SUBSET S /\ IsFiniteSet(G) /\ Cardinality(G) \in Nat /\ Cardinality(G) >= k
  BY <1>2, FS_Subset, FS_CardinalityType
<1>4. ASSUME Cardinality(G) > k PROVE FALSE
  <2>1. PICK x : x \in G
    BY <1>3, <1>4, FS_EmptySet
  <2>2. Cardinality(G \ {x}) = Cardinality(G) - 1
    BY <1>3, <2>1, FS_RemoveElement
  <2>3. G \ {x} \in Large
    BY <1>3, <1>4, <2>2
  <2>4. <<G \ {x}, G>> \in StrictSubsetOrdering(S)
    BY <1>3, <2>1 DEF StrictSubsetOrdering
  <2> QED
    BY <1>2, <2>3, <2>4
<1> QED
  BY <1>3, <1>4

\* What the guards of WaitStep ask of a wait.
ObserveCanStep(w) ==
    \/ Limit > 0 /\ \E G \in (SUBSET Claimable(w)) \ {{}} : Grant(w, G)
    \/ GrantsNothing(w) /\ HoldOpen(w)
    \/ Limit > 0 /\ Eligible(w) # {} => GrantsNothing(w) /\ ~HoldOpen(w)

WaitCanStep(w) ==
    \/ pc[w] = "poll" /\ (elapsed[w] > deadline[w] \/ elapsed[w] <= deadline[w])
    \/ pc[w] = "observe" /\ ObserveCanStep(w)
    \/ pc[w] \in {"store", "take", "judge"}
    \/ pc[w] = "delete" /\ (held[w] = {} \/ \E u \in Uids : u \in held[w])

NoWaitIsStuck == \A w \in Waits : pc[w] \notin Outcome => WaitCanStep(w)

\* A claim is never refused an answer: some grants, or none.
LEMMA ClaimAnswers ==
    ASSUME IInv, NEW w \in Waits, Limit > 0, Eligible(w) # {}
    PROVE  \/ \E G \in (SUBSET Claimable(w)) \ {{}} : Grant(w, G)
           \/ GrantsNothing(w)
<1> DEFINE n == Cardinality(Claimable(w))
<1> DEFINE left == Limit - used
<1>1. IsFiniteSet(Claimable(w)) /\ n \in Nat
  BY ClaimCounts DEF IInv
<1>2. left \in Nat
  BY BudgetAssumption DEF IInv, ICharged, TypeOK
<1>3. Cardinality({}) = 0 /\ (n = 0 => Claimable(w) = {})
  BY <1>1, FS_EmptySet
<1>4. CASE n = 0 \/ left = 0
  <2>1. Grant(w, {})
    BY <1>1, <1>2, <1>3, <1>4 DEF Grant
  <2> QED
    BY <2>1 DEF GrantsNothing
<1>5. CASE n # 0 /\ left # 0
  <2> DEFINE k == IF n <= left THEN n ELSE left
  <2>1. k \in Nat \ {0} /\ k <= n
    BY <1>1, <1>2, <1>5
  <2>2. PICK G \in SUBSET Claimable(w) : Cardinality(G) = k
    <3> HIDE DEF k
    <3> QED
      BY <1>1, <2>1, SubsetOfSize
  <2>3. G # {}
    BY <1>3, <2>1, <2>2
  <2> QED
    BY <2>2, <2>3 DEF Grant
<1> QED
  BY <1>4, <1>5

\* No wait ever waits for another one, or for a pod, to go on: in each place
\* it can be, whatever the others have claimed, stored and taken, it has a
\* step to take.  It rests on the charge never exceeding the limit: an
\* overdrawn budget has no answer to a claim.  With NoWaitGoesRound and
\* BudgetBoundsTheWait this is what TLC checks as WaitsEnd, but for its
\* fairness (wait_for_pods, RestartBudget.claim).
THEOREM WaitsAreNeverStuck == Spec => []NoWaitIsStuck
<1>1. ASSUME IInv, NEW w \in Waits, pc[w] \notin Outcome PROVE WaitCanStep(w)
  <2>1. /\ pc[w] \in {"poll", "observe", "store", "take", "delete", "judge"}
        /\ elapsed[w] \in Nat /\ deadline[w] \in Nat /\ held[w] \in SUBSET Uids
    BY <1>1 DEF IInv, TypeOK, PC
  <2>2. pc[w] = "poll" => WaitCanStep(w)
    BY <2>1 DEF WaitCanStep
  <2>3. pc[w] = "observe" => WaitCanStep(w)
    <3>1. ObserveCanStep(w)
      BY <1>1, ClaimAnswers DEF ObserveCanStep
    <3> QED
      BY <3>1 DEF WaitCanStep
  <2>4. pc[w] \in {"store", "take", "delete", "judge"} => WaitCanStep(w)
    BY <2>1 DEF WaitCanStep
  <2> QED
    BY <2>1, <2>2, <2>3, <2>4
<1>2. IInv => NoWaitIsStuck
  BY <1>1 DEF NoWaitIsStuck
<1> QED
  BY <1>2, Invariance, PTL
=============================================================================

---------------------------- MODULE RestartBudget ---------------------------
(***************************************************************************)
(* --pod-restart-budget: several CommandExecutor.wait_for_pods calls, one  *)
(* per stack deployed in parallel, sharing one RestartBudget and one       *)
(* RestartBudgetPolicy (src/llmdbenchmark/utilities/podstate/policy.py,    *)
(* executor/command.py:402-697), against pods that crash and controllers   *)
(* that replace them.  The rest of the wait (rollouts, the pods expected,  *)
(* unanswered queries in detail) is module WaitForPods.                    *)
(*                                                                         *)
(* The threads interleave wherever one of them calls out of the            *)
(* interpreter's current bytecode: between the claim, which is under the   *)
(* budget's lock, the store into policy._pending, the take of it, and each *)
(* kubectl delete.  The store and the take are single steps: neither makes *)
(* a call between its read and its write.                                  *)
(***************************************************************************)
EXTENDS Integers, FiniteSets

CONSTANTS Waits,      \* the waiting threads
          Uids,       \* every pod instance there may ever be
          Owner,      \* the wait whose selector an instance matches
          Initial,    \* the instances that exist when the waits begin
          Bare,       \* the instances no controller owns
          Limit,      \* --pod-restart-budget
          Grace,      \* --pod-restart-grace, in poll intervals
          Timeout     \* the waits' timeout, in poll intervals

ASSUME BudgetAssumption ==
    /\ Limit \in Nat
    /\ Grace \in Nat
    /\ Timeout \in Nat

ASSUME PodAssumption ==
    /\ IsFiniteSet(Uids)
    /\ Owner \in [Uids -> Waits]
    /\ Initial \in SUBSET Uids
    /\ Bare \in SUBSET Initial

VARIABLES
    pod,        \* what the cluster says of each instance
    claimed,    \* budget._claimed_keys
    used,       \* budget._used
    pending,    \* policy._pending, shared by every wait
    pc,         \* where each wait is
    snap,       \* the pods a wait last observed
    fresh,      \* what its claim was granted, not yet stored
    extend,     \* the remedy's extend_deadline, in restarts
    held,       \* what take_granted() gave it, not yet deleted
    elapsed,    \* polls since start
    deadline,
    reset,      \* deadline_reset
    before,     \* history: the polls made before start was reset
    deletes     \* history: delete calls made per instance

budgetVars  == <<claimed, used, pending>>
resetVars   == <<reset, before>>
waitVars    == <<snap, fresh, extend, held, elapsed, deadline, resetVars>>
vars == <<pod, budgetVars, pc, waitVars, deletes>>

\* "crashed": DEGRADED by its containers; "failed": DEGRADED without any
\* container status (phase Failed); "terminal": TERMINAL by its containers.
\* A pod that is TERMINAL without container statuses is as "queued" to a wait.
PodState == {"absent", "queued", "started", "ready", "crashed", "failed", "terminal",
             "deleting"}
Outcome  == {"succeeded", "failed", "timedOut"}
PC == {"poll", "observe", "store", "take", "delete", "judge"} \cup Outcome

Mine(w) == {u \in Uids : Owner[u] = w}

TypeOK ==
    /\ pod \in [Uids -> PodState]
    /\ claimed \in SUBSET Uids
    /\ used \in Nat
    /\ pending \in SUBSET Uids
    /\ pc \in [Waits -> PC]
    /\ snap \in [Waits -> [Uids -> PodState]]
    /\ fresh \in [Waits -> SUBSET Uids]
    /\ \A w \in Waits : fresh[w] \subseteq Mine(w)
    /\ extend \in [Waits -> Nat]
    /\ held \in [Waits -> SUBSET Uids]
    /\ elapsed \in [Waits -> Nat]
    /\ deadline \in [Waits -> Nat]
    /\ reset \in [Waits -> BOOLEAN]
    /\ before \in [Waits -> Nat]
    /\ deletes \in [Uids -> Nat]

Init ==
    /\ pod = [u \in Uids |-> IF u \in Initial THEN "queued" ELSE "absent"]
    /\ claimed = {} /\ used = 0 /\ pending = {}
    /\ pc = [w \in Waits |-> "poll"]
    /\ snap = [w \in Waits |-> [u \in Uids |-> "absent"]]
    /\ fresh = [w \in Waits |-> {}]
    /\ extend = [w \in Waits |-> 0]
    /\ held = [w \in Waits |-> {}]
    /\ elapsed = [w \in Waits |-> 0]
    /\ deadline = [w \in Waits |-> Timeout]
    /\ reset = [w \in Waits |-> FALSE]
    /\ before = [w \in Waits |-> 0]
    /\ deletes = [u \in Uids |-> 0]

Goto(w, l) == pc' = [pc EXCEPT ![w] = l]

NoPods == [u \in Uids |-> "absent"]

\* The snapshot is not read again.
Forget(w) == snap' = [snap EXCEPT ![w] = NoPods]

\* The clock read once, before the loop.
RegressedSleepAndPoll(w) ==
    /\ Goto(w, "poll")
    /\ UNCHANGED elapsed
    /\ Forget(w)

\* time.sleep(poll_interval), and round the loop.
SleepAndPoll(w) ==
    /\ Goto(w, "poll")
    /\ elapsed' = [elapsed EXCEPT ![w] = @ + 1]
    /\ Forget(w)

\* Leaving wait_for_pods with an outcome.
End(w, outcome) ==
    /\ Goto(w, outcome)
    /\ UNCHANGED <<elapsed, snap>>

-----------------------------------------------------------------------------
(* What a snapshot says: PodState.ready, .crashing, .deleting.             *)

Listed(w)   == {u \in Uids : snap[w][u] # "absent"}
Live(w)     == {u \in Listed(w) : snap[w][u] # "deleting"}
Crashing(w) == {u \in Live(w) : snap[w][u] \in {"crashed", "terminal"}}
NotReady(w) == {u \in Listed(w) : snap[w][u] # "ready"}

\* RestartBudgetPolicy.eligible
Eligible(w) == {u \in Listed(w) : snap[w][u] \in {"crashed", "failed"} /\ u \notin Bare}

TimeOut(w) ==
    /\ pc[w] = "poll"
    /\ elapsed[w] > deadline[w]
    /\ End(w, "timedOut")
    /\ UNCHANGED <<pod, budgetVars, fresh, extend, held, deadline, deletes, resetVars>>

\* The query failed, or shows no pod but what is going away: nothing is
\* concluded from it.
PollFails(w) ==
    /\ pc[w] = "poll"
    /\ elapsed[w] <= deadline[w]
    /\ SleepAndPoll(w)
    /\ UNCHANGED <<pod, budgetVars, fresh, extend, held, deadline, deletes, resetVars>>

\* PodState.has_started and not PodState.ready, of the pods a poll shows: a
\* pod that is broken may have got as far or not.
Starting(w)    == {u \in Mine(w) : pod[u] = "started"}
MayBeStarting(w) == {u \in Mine(w) : pod[u] \in {"started", "crashed", "failed", "terminal"}}

\* The reset granted each time, and not remembered.
RegressedResetsClock(w) ==
    /\ MayBeStarting(w) # {}
    /\ before' = [before EXCEPT ![w] = @ + elapsed[w]]
    /\ elapsed' = [elapsed EXCEPT ![w] = 0]
    /\ UNCHANGED reset

\* The whole timeout once more, and the extensions granted so far, for the
\* first pod that is seen starting.
ResetsClock(w) ==
    /\ ~reset[w] /\ MayBeStarting(w) # {}
    /\ reset' = [reset EXCEPT ![w] = TRUE]
    /\ before' = [before EXCEPT ![w] = elapsed[w]]
    /\ elapsed' = [elapsed EXCEPT ![w] = 0]

KeepsClock(w) ==
    /\ reset[w] \/ Starting(w) = {}
    /\ UNCHANGED <<elapsed, resetVars>>

\* The whole namespace, with the selector dropped from the query.
RegressedPoll(w) ==
    /\ pc[w] = "poll"
    /\ elapsed[w] <= deadline[w]
    /\ Goto(w, "observe")
    /\ snap' = [snap EXCEPT ![w] = pod]
    /\ ResetsClock(w) \/ KeepsClock(w)
    /\ UNCHANGED <<pod, budgetVars, fresh, extend, held, deadline, deletes>>

Poll(w) ==
    /\ pc[w] = "poll"
    /\ elapsed[w] <= deadline[w]
    /\ \E u \in Mine(w) : pod[u] \notin {"absent", "deleting"}
    /\ Goto(w, "observe")
    /\ snap' = [snap EXCEPT ![w] = [u \in Uids |-> IF u \in Mine(w) THEN pod[u] ELSE "absent"]]
    /\ ResetsClock(w) \/ KeepsClock(w)
    /\ UNCHANGED <<pod, budgetVars, fresh, extend, held, deadline, deletes>>

-----------------------------------------------------------------------------
(* RestartBudget.claim under its lock, and policy.observe around it.       *)

Claimable(w) == Eligible(w) \ claimed

\* The lock forgotten: the limit checked against a stale count.
RegressedGrant(w, G) ==
    /\ G \subseteq Claimable(w)
    /\ Cardinality(G) = Cardinality(Claimable(w))

\* The first Limit - used of them; the list's order is the API's.
Grant(w, G) ==
    /\ G \subseteq Claimable(w)
    /\ Cardinality(G) =
          IF Cardinality(Claimable(w)) <= Limit - used
             THEN Cardinality(Claimable(w)) ELSE Limit - used

\* The wait judged on a pod whose replacement is on its way.
RegressedHoldOpen(w) == FALSE

HoldOpen(w) == NotReady(w) \cap claimed # {}

ObserveGrants(w) ==
    /\ pc[w] = "observe"
    /\ Limit > 0
    /\ \E G \in (SUBSET Claimable(w)) \ {{}} :
          /\ Grant(w, G)
          /\ claimed' = claimed \cup G
          /\ used' = used + Cardinality(G)
          /\ fresh' = [fresh EXCEPT ![w] = G]
          /\ extend' = [extend EXCEPT ![w] = Cardinality(G)]
    /\ Goto(w, "store") /\ Forget(w)
    /\ UNCHANGED <<pod, pending, held, elapsed, deadline, deletes, resetVars>>

GrantsNothing(w) == Limit > 0 /\ Eligible(w) # {} /\ Grant(w, {})

ObserveHoldsOpen(w) ==
    /\ pc[w] = "observe"
    /\ GrantsNothing(w) /\ HoldOpen(w)
    /\ Goto(w, "take") /\ Forget(w)
    /\ UNCHANGED <<pod, budgetVars, fresh, extend, held, elapsed, deadline, deletes, resetVars>>

ObserveNothing(w) ==
    /\ pc[w] = "observe"
    /\ Limit > 0 /\ Eligible(w) # {} => GrantsNothing(w) /\ ~HoldOpen(w)
    /\ Goto(w, "judge")
    /\ UNCHANGED <<pod, budgetVars, waitVars, deletes>>

\* self._pending = granted
Store(w) ==
    /\ pc[w] = "store"
    /\ pending' = fresh[w]
    /\ fresh' = [fresh EXCEPT ![w] = {}]
    /\ Goto(w, "take")
    /\ UNCHANGED <<pod, claimed, used, snap, extend, held, elapsed, deadline, deletes, resetVars>>

-----------------------------------------------------------------------------
(* _apply_pod_policies, after observe() returned a remedy.                 *)

\* take_granted() that returns the list without clearing it.
RegressedTake(w) ==
    /\ pc[w] = "take"
    /\ held' = [held EXCEPT ![w] = pending]
    /\ UNCHANGED pending
    /\ IF pending = {} /\ extend[w] = 0
          THEN SleepAndPoll(w)
          ELSE Goto(w, "delete") /\ UNCHANGED <<elapsed, snap>>
    /\ UNCHANGED <<pod, claimed, used, fresh, extend, deadline, deletes, resetVars>>

\* A remedy with no message and no grants is silent.  The grants taken are
\* whatever _pending holds, this wait's or not.
Take(w) ==
    /\ pc[w] = "take"
    /\ held' = [held EXCEPT ![w] = pending]
    /\ pending' = {}
    /\ IF pending = {} /\ extend[w] = 0
          THEN SleepAndPoll(w)
          ELSE Goto(w, "delete") /\ UNCHANGED <<elapsed, snap>>
    /\ UNCHANGED <<pod, claimed, used, fresh, extend, deadline, deletes, resetVars>>

\* _capture_and_delete: the call may fail, which is only warned about.
Delete(w, u) ==
    /\ pc[w] = "delete"
    /\ u \in held[w]
    /\ held' = [held EXCEPT ![w] = @ \ {u}]
    /\ deletes' = [deletes EXCEPT ![u] = @ + 1]
    /\ \/ pod' = [pod EXCEPT ![u] = IF @ = "absent" THEN @ ELSE "deleting"]
       \/ UNCHANGED pod
    /\ UNCHANGED <<budgetVars, pc, snap, fresh, extend, elapsed, deadline, resetVars>>

\* A grace of the whole budget for every remedy, silent ones included.
RegressedExtend(w) ==
    /\ pc[w] = "delete"
    /\ held[w] = {}
    /\ deadline' = [deadline EXCEPT ![w] = @ + Grace * Limit]
    /\ extend' = [extend EXCEPT ![w] = 0]
    /\ SleepAndPoll(w)
    /\ UNCHANGED <<pod, budgetVars, fresh, held, deletes, resetVars>>

Extend(w) ==
    /\ pc[w] = "delete"
    /\ held[w] = {}
    /\ deadline' = [deadline EXCEPT ![w] = @ + Grace * extend[w]]
    /\ extend' = [extend EXCEPT ![w] = 0]
    /\ SleepAndPoll(w)
    /\ UNCHANGED <<pod, budgetVars, fresh, held, deletes, resetVars>>

-----------------------------------------------------------------------------
(* No policy had anything to say: the wait's own rules.                    *)

\* Success asked of the pods before crashes are, on started rather than Ready.
RegressedJudge(w) ==
    /\ pc[w] = "judge"
    /\ IF \A u \in Live(w) : snap[w][u] # "queued"
          THEN End(w, "succeeded")
          ELSE IF Crashing(w) # {} THEN End(w, "failed") ELSE SleepAndPoll(w)
    /\ UNCHANGED <<pod, budgetVars, fresh, extend, held, deadline, deletes, resetVars>>

\* It sleeps on while a pod is not Ready, fewer are than expected, or a
\* rollout is not done; on a pod-level failure too, which is no crash.
Judge(w) ==
    /\ pc[w] = "judge"
    /\ \/ Crashing(w) # {} /\ End(w, "failed")
       \/ /\ Crashing(w) = {} /\ NotReady(w) \cap Live(w) = {}
          /\ End(w, "succeeded")
       \/ Crashing(w) = {} /\ SleepAndPoll(w)
    /\ UNCHANGED <<pod, budgetVars, fresh, extend, held, deadline, deletes, resetVars>>

-----------------------------------------------------------------------------
(* The cluster: kubelets and controllers (external).                       *)

\* What becomes of a pod once its wait is over is nobody's to see.
Watched(u) == pc[Owner[u]] \notin Outcome

PodMoves ==
    {<<"queued", "started">>, <<"queued", "failed">>, <<"queued", "terminal">>,
     <<"started", "ready">>, <<"started", "crashed">>, <<"started", "failed">>,
     <<"ready", "crashed">>, <<"ready", "failed">>, <<"crashed", "started">>,
     <<"deleting", "absent">>}

PodChanges(u) ==
    /\ Watched(u)
    /\ \E m \in PodMoves : m[1] = pod[u] /\ pod' = [pod EXCEPT ![u] = m[2]]
    /\ UNCHANGED <<budgetVars, pc, waitVars, deletes>>

\* A controller keeps as many pods as it began with; a new one is a new uid.
PodReplaced(u) ==
    /\ Watched(u) /\ u \notin Initial /\ pod[u] = "absent" /\ deletes[u] = 0
    /\ LET kept == Mine(Owner[u]) \ Bare
       IN  Cardinality({v \in kept : pod[v] \notin {"absent", "deleting"}})
              < Cardinality(kept \cap Initial)
    /\ pod' = [pod EXCEPT ![u] = "queued"]
    /\ UNCHANGED <<budgetVars, pc, waitVars, deletes>>

Cluster == \E u \in Uids : PodChanges(u) \/ PodReplaced(u)

WaitStep(w) ==
    \/ TimeOut(w) \/ PollFails(w) \/ Poll(w)
    \/ ObserveGrants(w) \/ ObserveHoldsOpen(w) \/ ObserveNothing(w)
    \/ Store(w) \/ Take(w) \/ Extend(w) \/ Judge(w)
    \/ \E u \in Uids : Delete(w, u)

Next == (\E w \in Waits : WaitStep(w)) \/ Cluster

Spec == Init /\ [][Next]_vars

\* The threads run on and every kubectl call returns; nothing is assumed of
\* the pods.
FairSpec == Spec /\ \A w \in Waits : WF_vars(WaitStep(w))

-----------------------------------------------------------------------------
(* Properties.                                                             *)

\* docs/standup.md, "at most three pod deletions in total": what the waits
\* delete between them stays within the budget, however their claims, stores
\* and takes interleave (RestartBudget.claim, take_granted).
DeletionsWithinBudget ==
    /\ used <= Limit
    /\ used = Cardinality(claimed)
    /\ \A u \in Uids : deletes[u] > 0 => u \in claimed

\* No instance is deleted twice, and no bare pod is deleted at all: _pending
\* hands each grant to one wait only, and eligibility is checked first.
DeletedOnce ==
    \A u \in Uids : deletes[u] <= 1 /\ (deletes[u] = 1 => u \notin Bare)

\* "Hold the wait open rather than letting the caller abort on a pod we
\* deliberately restarted" (policy.py:240-244): a wait that fails has seen a
\* crashing pod that the budget was not spent on, or one that has since
\* failed in a way no restart clears.
SparesRestartedPods ==
    \A w \in Waits : pc[w] = "failed" =>
        \E u \in Crashing(w) : u \notin claimed \/ snap[w][u] = "terminal"

\* A wait that succeeded saw every pod of its own that was not going away
\* Ready, and at least one.
SuccessMeansReady ==
    \A w \in Waits : pc[w] = "succeeded" =>
        Live(w) # {} /\ \A u \in Live(w) : snap[w][u] = "ready"

\* The threads keep one atomic account between them: each restart is charged
\* once, to a controlled pod of the wait that gets the grace for it, within
\* Limit, and deleted at most once; no wait's deadline moves otherwise
\* (claim, extend_deadline, take_granted).
Account == INSTANCE Allowance WITH
               charged  <- claimed,
               patience <- [w \in Waits |-> deadline[w] + Grace * extend[w]]
ImplementsAllowance == Account!Spec

\* No wait outlasts its timeout and the whole budget's grace twice over, and
\* the poll in which it notices: the deadline moves by no more than the budget
\* pays for, and the clock is set back once (wait_for_pods, deadline_reset).
WaitIsBounded ==
    \A w \in Waits : before[w] + elapsed[w] <= 2 * (Timeout + Grace * Limit) + 1

\* Every wait ends, whatever the pods do and however the grants get mixed up.
WaitsEnd == \A w \in Waits : <>(pc[w] \in Outcome)

\* docs/standup.md:264 and policy.py:94: a pod the budget was charged for is
\* deleted.  Until its delete call is made some wait still has it in hand.
ChargedIsDeleted ==
    \A u \in claimed : deletes[u] > 0 \/ u \in pending
                       \/ \E w \in Waits : u \in fresh[w] \cup held[w]
=============================================================================

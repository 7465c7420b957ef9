----------------------------- MODULE WaitForPods ----------------------------
(***************************************************************************)
(* One CommandExecutor.wait_for_pods (executor/command.py:402-610) after   *)
(* an apply that changed a Deployment: pods of the old revision serve on   *)
(* while those of the new one start, and the Deployment's status lags      *)
(* behind both.  Pod policies are off; with them on it is RestartBudget.   *)
(*                                                                         *)
(* A poll, with what the loop concludes from it, is one step; the rollout  *)
(* query is another, made later on a cluster that has moved on.  Time is   *)
(* counted in poll intervals.                                              *)
(***************************************************************************)
EXTENDS Integers, FiniteSets

CONSTANTS Old,              \* the pods of the revision before the apply
          New,              \* the pods the apply asks for
          Expected,         \* expected; 0 is None
          Timeout,          \* timeout, in poll intervals
          RolloutAttempts   \* ROLLOUT_QUERY_ATTEMPTS

Pods == Old \cup New

Wanted == Cardinality(New)

ASSUME WaitAssumption ==
    /\ IsFiniteSet(Old) /\ IsFiniteSet(New) /\ Old \cap New = {}
    /\ Expected \in Nat
    /\ Timeout \in Nat
    /\ RolloutAttempts \in Nat \ {0}

VARIABLES
    pod,        \* the cluster: pod -> its state
    status,     \* the Deployment's status, as its controller last wrote it
    managed,    \* whether a Deployment is behind the selector at all
    pc,         \* where the wait is, or how it ended
    elapsed,    \* time since start
    reset,      \* deadline_reset
    failures,   \* rollout_failures
    seen,       \* history: a poll has shown a pod that started, not yet Ready
    since       \* history: the time since the first such poll, up to a cap

clusterVars == <<pod, status, managed>>
historyVars == <<seen, since>>
vars == <<clusterVars, pc, elapsed, reset, failures, historyVars>>

PodState == {"absent", "queued", "starting", "ready", "crashing", "deleting"}

Outcome == {"succeeded", "failed", "timedOut"}

SinceCap == Timeout + 2

TypeOK ==
    /\ pod \in [Pods -> PodState]
    /\ status \in [observed : BOOLEAN, updated : Nat, replicas : Nat, available : Nat]
    /\ managed \in BOOLEAN
    /\ pc \in {"poll", "rollout"} \cup Outcome
    /\ elapsed \in 0..(Timeout + 1)
    /\ reset \in BOOLEAN
    /\ failures \in 0..RolloutAttempts
    /\ seen \in BOOLEAN /\ since \in 0..SinceCap

\* The old revision serves, fully rolled out; or this is the first apply.
Init ==
    /\ \E upgrade \in BOOLEAN :
          LET n == IF upgrade THEN Cardinality(Old) ELSE 0
          IN  /\ pod = [p \in Pods |-> IF upgrade /\ p \in Old THEN "ready" ELSE "absent"]
              /\ status = [observed |-> FALSE, updated |-> n, replicas |-> n, available |-> n]
    /\ managed \in BOOLEAN
    /\ pc = "poll"
    /\ elapsed = 0 /\ reset = FALSE /\ failures = 0
    /\ seen = FALSE /\ since = 0

-----------------------------------------------------------------------------
(* What a poll shows.                                                      *)

\* not p.deleting
Live == {p \in Pods : pod[p] \notin {"absent", "deleting"}}

Ready == {p \in Live : pod[p] = "ready"}

\* p.has_started and not p.ready
Starting == {p \in Live : pod[p] \in {"starting", "crashing"}}

Enough == IF Expected > 0 THEN Cardinality(Ready) >= Expected ELSE Live # {}

\* The reset given away to the old pods, which serve already.
RegressedResets == ~reset /\ (Starting \cup Ready) # {}

Resets == ~reset /\ Starting # {}

\* The reset granted each time, and not remembered.
RegressedNoteReset == UNCHANGED reset

NoteReset == reset' = (reset \/ Resets)

Elapsed == IF Resets THEN 0 ELSE elapsed

Longer == IF since < SinceCap THEN since + 1 ELSE since

\* time.sleep(poll_interval), e being the time elapsed when it begins.
Sleep(e) ==
    /\ pc' = "poll"
    /\ elapsed' = e + 1

Stop(outcome) ==
    /\ pc' = outcome
    /\ elapsed' = Elapsed

-----------------------------------------------------------------------------
(* The wait.                                                               *)

TimeOut ==
    /\ pc = "poll" /\ elapsed > Timeout
    /\ pc' = "timedOut"
    /\ UNCHANGED <<clusterVars, elapsed, reset, failures, historyVars>>

\* _observe_pods returned None: the pods are not known, not gone.
PollFails ==
    /\ pc = "poll" /\ elapsed <= Timeout
    /\ Sleep(elapsed)
    /\ since' = IF seen THEN Longer ELSE since
    /\ UNCHANGED <<clusterVars, reset, failures, seen>>

\* The snapshot without any live pod: neither success nor failure.
PollFindsNone ==
    /\ pc = "poll" /\ elapsed <= Timeout
    /\ Live = {}
    /\ Sleep(elapsed)
    /\ since' = IF seen THEN Longer ELSE since
    /\ UNCHANGED <<clusterVars, reset, failures, seen>>

\* A loop that polls again before it looks at the clock.
RegressedPoll ==
    /\ pc = "poll"
    /\ Live # {}
    /\ Sleep(elapsed)
    /\ UNCHANGED <<clusterVars, reset, failures, historyVars>>

Poll ==
    /\ pc = "poll" /\ elapsed <= Timeout
    /\ Live # {}
    /\ NoteReset
    /\ seen' = (seen \/ Starting # {})
    /\ \/ /\ \E p \in Live : pod[p] = "crashing"
          /\ Stop("failed") /\ UNCHANGED since
       \/ /\ Ready = Live /\ Enough
          /\ Stop("rollout") /\ UNCHANGED since
       \/ /\ \A p \in Live : pod[p] # "crashing"
          /\ ~(Ready = Live /\ Enough)
          /\ Sleep(Elapsed)
          /\ since' = IF seen' THEN Longer ELSE since
    /\ UNCHANGED <<clusterVars, failures>>

\* The generation's bookkeeping left out: an old status taken for a new one.
RegressedPending ==
    /\ managed
    /\ \/ status.updated < Wanted
       \/ status.replicas > status.updated
       \/ status.available < Wanted

\* _pending_rollouts
Pending ==
    /\ managed
    /\ \/ ~status.observed
       \/ status.updated < Wanted
       \/ status.replicas > status.updated
       \/ status.available < Wanted

CheckRollout ==
    /\ pc = "rollout"
    /\ IF Pending
          THEN Sleep(elapsed) /\ since' = IF seen THEN Longer ELSE since
          ELSE pc' = "succeeded" /\ UNCHANGED <<elapsed, since>>
    /\ UNCHANGED <<clusterVars, reset, failures, seen>>

\* The last failure ends the checking, not the wait; they need not be in a row.
RolloutQueryFails ==
    /\ pc = "rollout"
    /\ failures' = failures + 1
    /\ IF failures + 1 >= RolloutAttempts
          THEN pc' = "succeeded" /\ UNCHANGED <<elapsed, since>>
          ELSE Sleep(elapsed) /\ since' = IF seen THEN Longer ELSE since
    /\ UNCHANGED <<clusterVars, reset, seen>>

WaitStep ==
    \/ TimeOut \/ PollFails \/ PollFindsNone \/ Poll
    \/ CheckRollout \/ RolloutQueryFails

-----------------------------------------------------------------------------
(* The cluster (external): pods change, a probe may fail after it has      *)
(* passed, the Deployment's controller rolls the pods over under any       *)
(* strategy, and writes its status now and then.  Nobody evicts a new pod. *)

PodMoves ==
    {<<"queued", "starting">>, <<"starting", "ready">>, <<"starting", "crashing">>,
     <<"ready", "starting">>, <<"ready", "crashing">>, <<"crashing", "starting">>, <<"deleting", "absent">>}

PodChanges ==
    \E p \in Pods, m \in PodMoves :
        /\ pod[p] = m[1]
        /\ pod' = [pod EXCEPT ![p] = m[2]]
        /\ UNCHANGED <<status, managed>>

PodRollsOver ==
    \/ \E p \in New :
          /\ pod[p] = "absent"
          /\ pod' = [pod EXCEPT ![p] = "queued"]
          /\ UNCHANGED <<status, managed>>
    \/ \E p \in Old \cap Live :
          /\ pod' = [pod EXCEPT ![p] = "deleting"]
          /\ UNCHANGED <<status, managed>>

\* status.replicas and .availableReplicas count both revisions' pods.
ControllerSyncs ==
    /\ managed
    /\ status' = [observed  |-> TRUE,
                  updated   |-> Cardinality(Live \cap New),
                  replicas  |-> Cardinality(Live),
                  available |-> Cardinality(Ready)]
    /\ UNCHANGED <<pod, managed>>

Cluster ==
    /\ PodChanges \/ PodRollsOver \/ ControllerSyncs
    /\ UNCHANGED <<pc, elapsed, reset, failures, historyVars>>

Next == WaitStep \/ Cluster

Spec == Init /\ [][Next]_vars

\* The thread runs on and its queries return; nothing is assumed of the pods.
FairSpec == Spec /\ WF_vars(WaitStep)

-----------------------------------------------------------------------------
(* Properties.                                                             *)

\* "Mid-rollout the old pod is still Ready, and it can stand in for a
\* replacement that does not exist yet": when the wait on a Deployment has
\* succeeded, no pod of the old revision serves and every new one exists,
\* unless the Deployments could not be listed RolloutAttempts times.
SuccessMeansRolledOut ==
    (pc = "succeeded" /\ managed /\ failures < RolloutAttempts) =>
        Live \cap Old = {} /\ New \subseteq Live

\* "timeout resets once, the first time a pod starts": a wait that has seen
\* a pod start and then times out gave it the whole timeout and no more.
StartupHasItsOwnBudget ==
    (pc = "timedOut" /\ seen) => since = Timeout + 1

\* The wait ends, though pods start and crash and queries fail for ever.
WaitEnds == <>(pc \in Outcome)
=============================================================================

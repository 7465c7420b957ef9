-------------------------------- MODULE Trials --------------------------------
(***************************************************************************)
(* What step 07 promises the run phase, without pods, caches or threads:   *)
(* the groups are a barrier, each treatment begun is tried until a trial   *)
(* succeeds or the last one has failed, success and the record of the      *)
(* trial are one event, and the verdict, given when nobody is at work,     *)
(* says whether all have succeeded.                                        *)
(***************************************************************************)
EXTENDS Integers

CONSTANTS Treatments, GroupOf, MaxTrials

VARIABLES careful,      \* stop at the first group with a failure
          state,        \* treatment -> what has become of it
          trial,        \* treatment -> how many trials it has had
          recorded,     \* the trials whose results count
          verdict       \* what the run phase is told

vars == <<careful, state, trial, recorded, verdict>>

Ended == {"ok", "failed", "raised"}

Alone(t) == \A u \in Treatments : GroupOf[u] = GroupOf[t] => u = t

\* No group has been begun and not been brought to its end.
GroupsWhole ==
    \A t, u \in Treatments :
        GroupOf[t] = GroupOf[u] /\ state[t] # "waiting" => state[u] \in Ended

Init ==
    /\ careful \in BOOLEAN
    /\ state = [t \in Treatments |-> "waiting"]
    /\ trial = [t \in Treatments |-> 0]
    /\ recorded = {}
    /\ verdict = "none"

Begin(t) ==
    /\ state[t] = "waiting"
    /\ \A u \in Treatments :
          GroupOf[u] < GroupOf[t] =>
              IF careful THEN state[u] = "ok" ELSE state[u] \in Ended
    /\ state' = [state EXCEPT ![t] = "working"]
    /\ trial' = [trial EXCEPT ![t] = 1]
    /\ UNCHANGED <<careful, recorded, verdict>>

TryAgain(t) ==
    /\ state[t] = "working" /\ trial[t] < MaxTrials
    /\ trial' = [trial EXCEPT ![t] = @ + 1]
    /\ UNCHANGED <<careful, state, recorded, verdict>>

Succeed(t) ==
    /\ state[t] = "working"
    /\ state' = [state EXCEPT ![t] = "ok"]
    /\ recorded' = recorded \cup {<<t, trial[t]>>}
    /\ UNCHANGED <<careful, trial, verdict>>

Fail(t) ==
    /\ state[t] = "working" /\ trial[t] = MaxTrials
    /\ state' = [state EXCEPT ![t] = "failed"]
    /\ UNCHANGED <<careful, trial, recorded, verdict>>

\* An exception is the caller's if the treatment had its group to itself.
Raise(t) ==
    /\ state[t] = "working"
    /\ state' = [state EXCEPT ![t] = "raised"]
    /\ verdict' = IF Alone(t) THEN "raised" ELSE verdict
    /\ UNCHANGED <<careful, trial, recorded>>

\* Short of the last group only for a failure, or for a reset that was
\* required and could not be had, which leaves no other trace here.
Tell ==
    /\ GroupsWhole
    /\ verdict' = IF \A t \in Treatments : state[t] = "ok" THEN "ok" ELSE "errors"
    /\ UNCHANGED <<careful, state, trial, recorded>>

\* The verdict is the last that happens.
Next ==
    /\ verdict = "none"
    /\ \/ \E t \in Treatments :
             Begin(t) \/ TryAgain(t) \/ Succeed(t) \/ Fail(t) \/ Raise(t)
       \/ Tell

Spec == Init /\ [][Next]_vars
===============================================================================

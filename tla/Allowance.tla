------------------------------ MODULE Allowance -------------------------------
(***************************************************************************)
(* What --pod-restart-budget promises, with one atomic account instead of  *)
(* the threads of RestartBudget: Limit restarts in total, of pods with a   *)
(* controller, each charged to the wait that owns the pod and paying for   *)
(* that wait's patience, each deleted at most once.  A charged pod need    *)
(* not be deleted: the call may fail, and grants get lost (restart_race).  *)
(***************************************************************************)
EXTENDS Integers, FiniteSets

CONSTANTS Waits, Uids, Owner, Bare, Limit, Grace, Timeout

VARIABLES charged,      \* the instances the budget was charged for
          deletes,      \* delete calls per instance
          patience      \* per wait, the deadline it is entitled to; that
                        \* its clock is set back once is no part of this

vars == <<charged, deletes, patience>>

Init ==
    /\ charged = {}
    /\ deletes = [u \in Uids |-> 0]
    /\ patience = [w \in Waits |-> Timeout]

\* One claim: some pods of a wait, all at once, and their grace with them.
Charge(w, G) ==
    /\ \A u \in G : Owner[u] = w /\ u \notin Bare \cup charged
    /\ Cardinality(charged \cup G) <= Limit
    /\ charged' = charged \cup G
    /\ patience' = [patience EXCEPT ![w] = @ + Grace * Cardinality(G)]
    /\ UNCHANGED deletes

Restart(u) ==
    /\ u \in charged
    /\ deletes[u] = 0
    /\ deletes' = [deletes EXCEPT ![u] = 1]
    /\ UNCHANGED <<charged, patience>>

Next ==
    \/ \E w \in Waits : \E G \in (SUBSET Uids) \ {{}} : Charge(w, G)
    \/ \E u \in Uids : Restart(u)

Spec == Init /\ [][Next]_vars
===============================================================================

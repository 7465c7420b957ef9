-------------------------------- MODULE Phase ---------------------------------
(***************************************************************************)
(* What one call of StepExecutor.execute promises its caller, with every   *)
(* step of every stack atomic and no threads: preparation, then each stack *)
(* on its own in list order, then the tail; a failure ends the walk it     *)
(* belongs to, and the verdict tells whether there was one.  A selection   *)
(* with a name nothing bears is refused before anything is done.           *)
(***************************************************************************)
EXTENDS Integers

CONSTANTS NumSteps, Number, PerStack, Stacks

VARIABLES allowed, targets,     \* what was selected
          typo,                 \* and whether with a name nothing bears
          global,               \* global step -> its result
          stack,                \* stack -> per-stack step -> its result
          broken,               \* stacks given up between two steps
          verdict               \* what the caller is told

vars == <<allowed, targets, typo, global, stack, broken, verdict>>

Steps == 1..NumSteps

StackWork  == {s \in allowed : PerStack[s]}
GlobalWork == allowed \ StackWork
Preparation == {g \in GlobalWork : \A s \in StackWork : Number[g] <= Number[s]}

Prepared == \A g \in Preparation : global[g] = "passed"

\* A stack that nothing more will happen to.
Settled(st) ==
    \/ st \in broken
    \/ \E s \in StackWork : stack[st][s] = "failed"
    \/ \A s \in StackWork : stack[st][s] = "passed"

Init ==
    /\ allowed \in SUBSET Steps
    /\ targets \in SUBSET Stacks
    /\ typo \in BOOLEAN
    /\ global = [s \in Steps |-> "pending"]
    /\ stack = [st \in Stacks |-> [s \in Steps |-> "pending"]]
    /\ broken = {}
    /\ verdict = "none"

\* The tail waits for every stack, whatever became of it.
EndGlobal(g, r) ==
    /\ verdict = "none"
    /\ ~typo /\ g \in GlobalWork /\ global[g] = "pending"
    /\ \A h \in GlobalWork : h < g => global[h] = "passed"
    /\ g \notin Preparation => \A st \in targets : Settled(st)
    /\ global' = [global EXCEPT ![g] = r]
    /\ verdict' = IF r = "failed" THEN "errors" ELSE "none"
    /\ UNCHANGED <<allowed, targets, typo, stack, broken>>

EndStackStep(st, s, r) ==
    /\ verdict = "none"
    /\ ~typo /\ st \in targets /\ ~Settled(st) /\ Prepared
    /\ s \in StackWork /\ stack[st][s] = "pending"
    /\ \A q \in StackWork : q < s => stack[st][q] = "passed"
    /\ stack' = [stack EXCEPT ![st][s] = r]
    /\ UNCHANGED <<allowed, targets, typo, global, broken, verdict>>

GiveUp(st) ==
    /\ verdict = "none"
    /\ ~typo /\ st \in targets /\ ~Settled(st) /\ Prepared
    /\ broken' = broken \cup {st}
    /\ UNCHANGED <<allowed, targets, typo, global, stack, verdict>>

Refuse ==
    /\ verdict = "none"
    /\ typo
    /\ verdict' = "refused"
    /\ UNCHANGED <<allowed, targets, typo, global, stack, broken>>

\* The caller gets an exception, with the work wherever it is.
Raise ==
    /\ verdict = "none"
    /\ ~typo
    /\ verdict' = "raised"
    /\ UNCHANGED <<allowed, targets, typo, global, stack, broken>>

Return ==
    /\ verdict = "none"
    /\ ~typo
    /\ \A g \in GlobalWork : global[g] = "passed"
    /\ \A st \in targets : Settled(st)
    /\ verdict' = IF \A st \in targets : st \notin broken
                                         /\ \A s \in StackWork : stack[st][s] = "passed"
                     THEN "ok" ELSE "errors"
    /\ UNCHANGED <<allowed, targets, typo, global, stack, broken>>

Next ==
    \/ \E g \in Steps, r \in {"passed", "failed"} : EndGlobal(g, r)
    \/ \E st \in Stacks, s \in Steps, r \in {"passed", "failed"} : EndStackStep(st, s, r)
    \/ \E st \in Stacks : GiveUp(st)
    \/ Refuse
    \/ Raise
    \/ Return

Spec == Init /\ [][Next]_vars
===============================================================================

---------------------------- MODULE StepExecutor ----------------------------
(***************************************************************************)
(* The phase runner of src/llmdbenchmark/executor/step_executor.py: one    *)
(* call of StepExecutor.execute.  Every phase (standup, smoketest, run,    *)
(* teardown) is one such call over its own registry of steps.              *)
(*                                                                         *)
(* The check of --stack that precedes it, in the plan renderer, is the     *)
(* first step of the model.                                                *)
(*                                                                         *)
(* A step is its position in the constructor's stable sort by number       *)
(* (step_executor.py:26), so two steps of one number keep their registry   *)
(* order.  What a step does is abstracted to how it ends.                  *)
(*                                                                         *)
(* Operators named Regressed... are plausible bugs of the operator that    *)
(* follows them; no specification uses them, and PROJECT.json's "mutants"  *)
(* says which property each one breaks.                                    *)
(***************************************************************************)
EXTENDS Integers, FiniteSets

CONSTANTS NumSteps,     \* how many steps the phase's registry holds
          Number,       \* a step's number; not unique
          PerStack,     \* TRUE for a step that runs once per stack
          Stacks,       \* the stacks the renderer may have produced
          MaxParallel   \* --parallel

Steps == 1..NumSteps

ASSUME StepAssumption ==
    /\ NumSteps \in Nat
    /\ Number \in [Steps -> Nat]
    /\ PerStack \in [Steps -> BOOLEAN]
    /\ \A r, s \in Steps : r < s => Number[r] <= Number[s]

ASSUME StackAssumption ==
    /\ IsFiniteSet(Stacks)
    /\ MaxParallel \in Nat \ {0}

VARIABLES
    allowed,    \* the steps that -s / --step lets through
    targets,    \* the rendered stacks left by --stack; none is possible
    typo,       \* --stack also names a stack the scenario does not have
    phase,      \* where the command is
    gstat,      \* global step -> how far it is
    pool,       \* stack -> its future
    sstat,      \* stack -> per-stack step -> how far it is
    collected,  \* the stacks whose result execute() has appended
    errors      \* result.errors is not empty

vars == <<allowed, targets, typo, phase, gstat, pool, sstat, collected, errors>>

Status == {"todo", "running", "ok", "skipped", "failed"}
Passed == {"ok", "skipped"}

TypeOK ==
    /\ allowed \in SUBSET Steps
    /\ targets \in SUBSET Stacks
    /\ typo \in BOOLEAN
    /\ phase \in {"plan", "refused", "pre", "stacks", "post", "done", "raised"}
    /\ gstat \in [Steps -> Status]
    /\ pool \in [Stacks -> {"idle", "queued", "running", "returned", "raised"}]
    /\ \A st \in Stacks \ targets : pool[st] = "idle"
    /\ sstat \in [Stacks -> [Steps -> Status]]
    /\ collected \in SUBSET targets
    /\ errors \in BOOLEAN

-----------------------------------------------------------------------------
(* _partition_steps.                                                       *)

PerStackSteps == {s \in allowed : PerStack[s]}

\* The strict comparison that nightly 1543 failed with.
RegressedPreGlobal ==
    {g \in allowed \ PerStackSteps : \A s \in PerStackSteps : Number[g] < Number[s]}

PreGlobal ==
    {g \in allowed \ PerStackSteps : \A s \in PerStackSteps : Number[g] <= Number[s]}

PostGlobal == (allowed \ PerStackSteps) \ PreGlobal

GlobalSteps == IF phase = "pre" THEN PreGlobal ELSE PostGlobal

\* s is where a sequential walk over list, with these results so far, stands.
IsNextOf(list, stat, s) ==
    /\ s \in list
    /\ stat[s] = "todo"
    /\ \A r \in list : r < s => stat[r] \in Passed

AllPassed(list, stat) == \A s \in list : stat[s] \in Passed

StackFailed(st) == pool[st] = "raised" \/ \E s \in Steps : sstat[st][s] = "failed"

-----------------------------------------------------------------------------
Init ==
    /\ allowed \in SUBSET Steps
    /\ targets \in SUBSET Stacks
    /\ typo \in BOOLEAN
    /\ phase = "plan"
    /\ gstat = [s \in Steps |-> "todo"]
    /\ pool = [st \in Stacks |-> "idle"]
    /\ sstat = [st \in Stacks |-> [s \in Steps |-> "todo"]]
    /\ collected = {}
    /\ errors = FALSE

stackVars == <<pool, sstat, collected>>

(* RenderPlans.eval checks --stack against the scenario before a plan is   *)
(* rendered, and dispatch_cli exits with its error.  (An experiment has no *)
(* --stack, and renders without that check.)                               *)

\* The renderer not told of --stack, as an experiment's is not.
RegressedCheckNames ==
    /\ phase = "plan"
    /\ phase' = "pre"
    /\ UNCHANGED <<allowed, targets, typo, gstat, stackVars, errors>>

CheckNames ==
    /\ phase = "plan"
    /\ phase' = IF typo THEN "refused" ELSE "pre"
    /\ UNCHANGED <<allowed, targets, typo, gstat, stackVars, errors>>

(* _execute_global_steps.  should_skip is asked before the step; an        *)
(* exception it raises is not caught, unlike one raised by execute.        *)

SkipGlobal(s) ==
    /\ phase \in {"pre", "post"}
    /\ IsNextOf(GlobalSteps, gstat, s)
    /\ gstat' = [gstat EXCEPT ![s] = "skipped"]
    /\ UNCHANGED <<allowed, targets, typo, phase, stackVars, errors>>

SkipCheckRaises(s) ==
    /\ phase \in {"pre", "post"}
    /\ IsNextOf(GlobalSteps, gstat, s)
    /\ phase' = "raised"
    /\ UNCHANGED <<allowed, targets, typo, gstat, stackVars, errors>>

BeginGlobal(s) ==
    /\ phase \in {"pre", "post"}
    /\ IsNextOf(GlobalSteps, gstat, s)
    /\ gstat' = [gstat EXCEPT ![s] = "running"]
    /\ UNCHANGED <<allowed, targets, typo, phase, stackVars, errors>>

EndGlobal(s) ==
    /\ gstat[s] = "running"
    /\ \/ /\ gstat' = [gstat EXCEPT ![s] = "ok"]
          /\ UNCHANGED <<phase, errors>>
       \/ /\ gstat' = [gstat EXCEPT ![s] = "failed"]
          /\ errors' = TRUE
          /\ phase' = "done"
    /\ UNCHANGED <<allowed, targets, typo, stackVars>>

-----------------------------------------------------------------------------
(* _execute_per_stack_steps.  With one stack the steps run inline; the     *)
(* pool of one worker below is the same thing except for exceptions.  Its  *)
(* own check of --stack logs an unknown name and returns, with no stack    *)
(* run and nothing in the result.                                          *)

NothingToSubmit == PerStackSteps = {} \/ targets = {} \/ typo

\* Every rendered stack, whatever --stack says.
RegressedSubmitStacks ==
    /\ phase = "pre"
    /\ AllPassed(PreGlobal, gstat)
    /\ IF NothingToSubmit
          THEN phase' = "post" /\ UNCHANGED pool
          ELSE phase' = "stacks" /\ pool' = [st \in Stacks |-> "queued"]
    /\ UNCHANGED <<allowed, targets, typo, gstat, sstat, collected, errors>>

SubmitStacks ==
    /\ phase = "pre"
    /\ AllPassed(PreGlobal, gstat)
    /\ IF NothingToSubmit
          THEN phase' = "post" /\ UNCHANGED pool
          ELSE /\ phase' = "stacks"
               /\ pool' = [st \in Stacks |-> IF st \in targets THEN "queued" ELSE "idle"]
    /\ UNCHANGED <<allowed, targets, typo, gstat, sstat, collected, errors>>

Busy == {st \in Stacks : pool[st] = "running"}

StartStack(st) ==
    /\ phase = "stacks"
    /\ pool[st] = "queued"
    /\ Cardinality(Busy) < MaxParallel
    /\ Cardinality(Busy) < Cardinality(targets)
    /\ pool' = [pool EXCEPT ![st] = "running"]
    /\ UNCHANGED <<allowed, targets, typo, phase, gstat, sstat, collected, errors>>

SetStep(st, s, r) ==
    /\ sstat' = [sstat EXCEPT ![st][s] = r]
    /\ UNCHANGED <<allowed, targets, typo, phase, gstat, pool, collected, errors>>

\* A failure noted but the loop's break forgotten.
RegressedCanBegin(st, s) ==
    /\ pool[st] = "running"
    /\ s \in PerStackSteps
    /\ sstat[st][s] = "todo"
    /\ \A r \in PerStackSteps : r < s => sstat[st][r] \in Passed \cup {"failed"}

CanBegin(st, s) ==
    /\ pool[st] = "running"
    /\ IsNextOf(PerStackSteps, sstat[st], s)

SkipStackStep(st, s) == CanBegin(st, s) /\ SetStep(st, s, "skipped")

BeginStackStep(st, s) == CanBegin(st, s) /\ SetStep(st, s, "running")

EndStackStep(st, s) ==
    /\ sstat[st][s] = "running"
    /\ \E r \in {"ok", "failed"} : SetStep(st, s, r)

\* The exception caught in the worker, and an empty result returned.
RegressedStackRaises(st) ==
    /\ \E s \in Steps : CanBegin(st, s)
    /\ pool' = [pool EXCEPT ![st] = "returned"]
    /\ UNCHANGED <<allowed, targets, typo, phase, gstat, sstat, collected, errors>>

\* should_skip raised: inline it leaves execute(), in the pool it ends the future.
StackRaises(st) ==
    /\ \E s \in Steps : CanBegin(st, s)
    /\ pool' = [pool EXCEPT ![st] = "raised"]
    /\ phase' = IF Cardinality(targets) = 1 THEN "raised" ELSE phase
    /\ UNCHANGED <<allowed, targets, typo, gstat, sstat, collected, errors>>

ReturnStack(st) ==
    /\ pool[st] = "running"
    /\ \/ AllPassed(PerStackSteps, sstat[st])
       \/ \E s \in Steps : sstat[st][s] = "failed"
    /\ pool' = [pool EXCEPT ![st] = "returned"]
    /\ UNCHANGED <<allowed, targets, typo, phase, gstat, sstat, collected, errors>>

\* Nothing collected of a future that raised.
RegressedCollectStack(st) ==
    /\ phase = "stacks"
    /\ pool[st] = "returned"
    /\ st \notin collected
    /\ collected' = collected \cup {st}
    /\ UNCHANGED <<allowed, targets, typo, phase, gstat, pool, sstat, errors>>

\* as_completed yields the future; a raised one becomes a failed result.
CollectStack(st) ==
    /\ phase = "stacks"
    /\ pool[st] \in {"returned", "raised"}
    /\ st \notin collected
    /\ collected' = collected \cup {st}
    /\ UNCHANGED <<allowed, targets, typo, phase, gstat, pool, sstat, errors>>

\* Leaving the loop on the first stack that failed.
RegressedLeavePool ==
    /\ phase = "stacks"
    /\ collected = targets \/ \E st \in collected : StackFailed(st)
    /\ phase' = "post"
    /\ UNCHANGED <<allowed, targets, typo, gstat, stackVars, errors>>

LeavePool ==
    /\ phase = "stacks"
    /\ collected = targets
    /\ phase' = "post"
    /\ UNCHANGED <<allowed, targets, typo, gstat, stackVars, errors>>

Finish ==
    /\ phase = "post"
    /\ AllPassed(PostGlobal, gstat)
    /\ phase' = "done"
    /\ UNCHANGED <<allowed, targets, typo, gstat, stackVars, errors>>

-----------------------------------------------------------------------------
GlobalStep(s) == SkipGlobal(s) \/ SkipCheckRaises(s) \/ BeginGlobal(s) \/ EndGlobal(s)

StackStep(st, s) == SkipStackStep(st, s) \/ BeginStackStep(st, s) \/ EndStackStep(st, s)

StackFuture(st) == StartStack(st) \/ StackRaises(st) \/ ReturnStack(st) \/ CollectStack(st)

Next ==
    \/ CheckNames
    \/ \E s \in Steps : GlobalStep(s)
    \/ SubmitStacks
    \/ \E st \in Stacks : StackFuture(st)
    \/ \E st \in Stacks, s \in Steps : StackStep(st, s)
    \/ LeavePool
    \/ Finish

Spec == Init /\ [][Next]_vars

\* Every thread runs on, and every step returns: the waits inside the steps
\* have deadlines (WaitForPods), the commands are assumed to.
FairSpec == Spec /\ WF_vars(Next)

-----------------------------------------------------------------------------
(* Properties.                                                             *)

\* ExecutionResult.has_errors, of the result as collected so far.
HasErrors ==
    \/ errors
    \/ \E s \in Steps : gstat[s] = "failed"
    \/ \E st \in collected : StackFailed(st)

StackTouched(st) == \E s \in Steps : sstat[st][s] # "todo"

\* Global preparation is finished before any stack's work starts: when a
\* stack has begun a step, every selected global step numbered at or below
\* all the per-stack steps has passed (_partition_steps, execute).
PreparationFirst ==
    (\E st \in Stacks : StackTouched(st)) =>
        \A g \in allowed :
            (~PerStack[g] /\ \A s \in PerStackSteps : Number[g] <= Number[s])
                => gstat[g] \in Passed

\* No global step of the tail (upload, cleanup, analysis) runs while a stack
\* is still at work, or before every stack's result is in (as_completed).
NoTailBeforeStacksEnd ==
    (\E g \in PostGlobal : gstat[g] # "todo") =>
        \A st \in targets :
            /\ \A s \in Steps : sstat[st][s] # "running"
            /\ PerStackSteps # {} => st \in collected

\* One stack's failure stops that stack only: its later steps are untouched,
\* and its earlier ones passed, whatever the other stacks do (_execute_stack).
StopsAtFirstFailure ==
    \A st \in Stacks, s \in Steps :
        sstat[st][s] \in {"failed", "running"} =>
            \A r \in PerStackSteps :
                /\ r < s => sstat[st][r] \in Passed
                /\ r > s => sstat[st][r] = "todo"

\* A result returned by execute() reports an error exactly when something in
\* it failed, and no stack's failure is left out of it.  Without an error
\* everything asked for was done: each selected step passed, on each stack
\* that --stack names, and it names no stack that is not there ("Unknown
\* stack names fail loudly", README.md:269).  execute() alone would not keep
\* the last: it is the renderer's check that does (render_plans.py:2703).
ResultIsComplete ==
    phase = "done" =>
        /\ HasErrors <=> \/ \E s \in Steps : gstat[s] = "failed"
                         \/ \E st \in Stacks : StackFailed(st)
        /\ ~HasErrors =>
              /\ ~typo
              /\ \A g \in allowed : ~PerStack[g] => gstat[g] \in Passed
              /\ \A st \in targets : AllPassed(PerStackSteps, sstat[st])

\* The pool's threads do together what execute() promises: it is as if each
\* step were atomic and each stack on its own, between the preparation and
\* the tail; a stack that failed is not stepped again, and the verdict is
\* right (execute, _execute_stack, as_completed).
Result(x) == IF x \in Passed THEN "passed" ELSE IF x = "failed" THEN x ELSE "pending"

GlobalResults == [s \in Steps |-> Result(gstat[s])]
StackResults  == [st \in Stacks |-> [s \in Steps |-> Result(sstat[st][s])]]

\* An inline walk that raises ends the phase, not its stack.
GivenUp == {st \in Stacks : pool[st] = "raised" /\ Cardinality(targets) # 1}

Verdict == CASE phase = "raised" -> "raised"
             [] phase = "refused" -> "refused"
             [] phase = "done" -> IF HasErrors THEN "errors" ELSE "ok"
             [] OTHER -> "none"

Promise == INSTANCE Phase WITH
               global <- GlobalResults, stack <- StackResults,
               broken <- GivenUp, verdict <- Verdict
ImplementsPhase == Promise!Spec

\* The phase ends, and by then every stack has been run to its own end and
\* its result is in, whatever became of the others: all its steps passed, one
\* failed, or its future raised.  The stacks are left alone only when the
\* command was refused, raised, or a step of the preparation failed.
StackEnded(st) ==
    /\ st \in collected
    /\ StackFailed(st) \/ AllPassed(PerStackSteps, sstat[st])

AllStacksEnded ==
    \/ \E g \in PreGlobal : gstat[g] = "failed"
    \/ PerStackSteps = {}
    \/ \A st \in targets : StackEnded(st)

PhaseEnds ==
    <>(phase \in {"refused", "raised"} \/ (phase = "done" /\ AllStacksEnded))

\* executor/README.md:90, "Global steps below that boundary run first; global
\* steps at or above run after per-stack work": a global step that has run
\* before the stacks has a number below every per-stack step's.  It does not
\* hold of a step that ties with one, which the code has run first on purpose;
\* BoundaryIsTrueWithoutTies proves the rest of the sentence.
BoundaryRunsAfter ==
    \A g \in allowed :
        (~PerStack[g] /\ gstat[g] = "ok" /\ phase = "pre" /\ targets # {}) =>
            \A s \in PerStackSteps : Number[g] < Number[s]
=============================================================================

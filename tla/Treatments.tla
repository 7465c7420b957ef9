----------------------------- MODULE Treatments -----------------------------
(***************************************************************************)
(* The run phase's step 07 on one stack (run/steps/step_07_deploy_         *)
(* harness.py): treatments batched by group, the members of a group run    *)
(* concurrently, each one deploying, waiting, collecting, cleaning up and  *)
(* retrying on its own.                                                    *)
(*                                                                         *)
(* An attempt's parallel pods are one value of pod: they are deployed,     *)
(* waited for and deleted together.  pod is the present attempt's; its     *)
(* experiment_id, fresh for each, is the pair of treatment and attempt     *)
(* number.  The caches are the servers' prefix caches; all that is kept of *)
(* them is whether a reset was confirmed since harness pods were last      *)
(* deployed.  --dry-run, --debug, --data-collect skip and a wait timeout   *)
(* of 0 are left out.                                                      *)
(***************************************************************************)
EXTENDS Integers, FiniteSets

CONSTANTS NumTreatments,
          Group,            \* a treatment's group, or NoGroup
          NoGroup,
          MaxParallel,      \* max_parallel_treatments
          MaxAttempts       \* treatment_max_attempts

Treatments == 1..NumTreatments
Attempts == 1..MaxAttempts

ASSUME TreatmentAssumption ==
    /\ NumTreatments \in Nat \ {0}
    /\ MaxParallel \in Nat \ {0}
    /\ MaxAttempts \in Nat \ {0}
    /\ DOMAIN Group = Treatments

VARIABLES
    opt,        \* the run's controls
    phase,      \* where execute() is
    batch,      \* the group it has come to
    thread,     \* treatment -> where _run_treatment is
    attempt,    \* treatment -> the attempt it is at
    bad,        \* treatment -> treatment_errors is not empty
    pod,        \* treatment -> its harness pods
    left,       \* the treatments some of whose pods were left standing, at
                \* the user's request or with a warning
    local,      \* treatment -> the result directories of its attempt or,
                \* until it collects, what is left of the last one's
    recorded,   \* context.experiment_ids
    errors,     \* the treatments whose errors execute() has taken in
    aborted,    \* a cache reset that was required was not confirmed
    cold        \* a reset was confirmed since pods were last deployed

taskVars == <<thread, attempt, bad, pod, left, local, recorded>>
stepVars == <<opt, phase, batch, errors, aborted>>
vars == <<taskVars, stepVars, cold>>

Active == {"deploy", "wait", "collect", "clean", "judge"}
Ended  == {"ok", "failed", "raised"}

TypeOK ==
    /\ opt \in [resetCaches : BOOLEAN, required : BOOLEAN, stopOnError : BOOLEAN]
    /\ phase \in {"start", "reset", "run", "done", "raised"}
    /\ batch \in 1..(NumTreatments + 1)
    /\ thread \in [Treatments -> {"idle", "queued"} \cup Active \cup Ended]
    /\ attempt \in [Treatments -> Attempts]
    /\ bad \in [Treatments -> BOOLEAN]
    /\ pod \in [Treatments -> {"none", "running", "ended"}]
    /\ left \in SUBSET Treatments
    /\ local \in [Treatments -> {"none", "partial", "whole"}]
    /\ recorded \in SUBSET (Treatments \X Attempts)
    /\ errors \in SUBSET Treatments
    /\ aborted \in BOOLEAN /\ cold \in BOOLEAN

-----------------------------------------------------------------------------
(* _batch_specs: neighbours of one group share a batch.                    *)

Heads == {t \in Treatments : t = 1 \/ Group[t] = NoGroup \/ Group[t] # Group[t - 1]}

BatchOf == [t \in Treatments |-> Cardinality(Heads \cap 1..t)]

Members == {t \in Treatments : BatchOf[t] = batch}

NumBatches == BatchOf[NumTreatments]

Init ==
    /\ opt \in [resetCaches : BOOLEAN, required : BOOLEAN, stopOnError : BOOLEAN]
    /\ phase = "start" /\ batch = 1
    /\ thread = [t \in Treatments |-> "idle"]
    /\ attempt = [t \in Treatments |-> 1]
    /\ bad = [t \in Treatments |-> FALSE]
    /\ pod = [t \in Treatments |-> "none"] /\ left = {}
    /\ local = [t \in Treatments |-> "none"]
    /\ recorded = {} /\ errors = {} /\ aborted = FALSE
    /\ cold = FALSE

-----------------------------------------------------------------------------
(* execute(): the groups, one after another.                               *)

\* "A required reset that never runs" is rejected before anything runs.
CheckControls ==
    /\ phase = "start"
    /\ IF opt.required /\ ~opt.resetCaches
          THEN phase' = "done" /\ aborted' = TRUE
          ELSE phase' = "reset" /\ UNCHANGED aborted
    /\ UNCHANGED <<taskVars, opt, batch, errors, cold>>

StartGroup ==
    /\ phase' = "run"
    /\ thread' = [t \in Treatments |-> IF t \in Members THEN "queued" ELSE thread[t]]
    /\ UNCHANGED <<attempt, bad, pod, left, local, recorded, opt, batch, errors, aborted>>

\* A reset that warned, taken for one that worked.
RegressedResetFails == StartGroup /\ UNCHANGED cold

\* reset_caches_pods returned warnings.
ResetFails ==
    IF opt.required
       THEN /\ aborted' = TRUE /\ phase' = "done"
            /\ UNCHANGED <<taskVars, opt, batch, errors, cold>>
       ELSE StartGroup /\ UNCHANGED cold

\* _reset_caches_for_batch, once per group and before its first pod.
ResetCaches ==
    /\ phase = "reset" /\ batch <= NumBatches
    /\ \/ opt.resetCaches /\ StartGroup /\ cold' = TRUE
       \/ opt.resetCaches /\ ResetFails
       \/ ~opt.resetCaches /\ StartGroup /\ UNCHANGED cold

\* The group judged by the last of its results.
RegressedFailed == {t \in Members : thread[t] # "ok" /\ \A u \in Members : u <= t}

Failed == {t \in Members : thread[t] # "ok"}

\* A future that raised, never counted as a result.
RegressedGroupOver == \A t \in Members : thread[t] \in {"ok", "failed"}

\* Every result is in.
GroupOver == \A t \in Members : thread[t] \in Ended

Gather ==
    /\ phase = "run" /\ GroupOver
    /\ errors' = errors \cup Failed
    /\ IF Failed # {} /\ opt.stopOnError
          THEN phase' = "done" /\ UNCHANGED batch
          ELSE phase' = "reset" /\ batch' = batch + 1
    /\ UNCHANGED <<taskVars, opt, aborted, cold>>

Return ==
    /\ phase = "reset" /\ batch > NumBatches
    /\ phase' = "done"
    /\ UNCHANGED <<taskVars, opt, batch, errors, aborted, cold>>

-----------------------------------------------------------------------------
(* _run_treatment, one thread per member of the group.                     *)

InFlight == {t \in Treatments : thread[t] \in Active}

At(t, l) == thread[t] = l
Goto(t, l) == thread' = [thread EXCEPT ![t] = l]

\* The pool takes the members in submission order; one member runs inline.
Start(t) ==
    /\ phase = "run" /\ At(t, "queued")
    /\ Cardinality(InFlight) < MaxParallel
    /\ \A u \in Treatments : u < t => ~At(u, "queued")
    /\ Goto(t, "deploy")
    /\ UNCHANGED <<attempt, bad, pod, left, local, recorded, stepVars, cold>>

\* All, some or none of the attempt's pods are applied.
Deploy(t) ==
    /\ At(t, "deploy")
    /\ \E some, failure \in BOOLEAN :
          /\ some \/ failure
          /\ bad' = [bad EXCEPT ![t] = failure]
          /\ IF some
                THEN /\ pod' = [pod EXCEPT ![t] = "running"]
                     /\ cold' = FALSE
                     /\ Goto(t, "wait")
                ELSE Goto(t, "judge") /\ UNCHANGED <<pod, cold>>
    /\ UNCHANGED <<attempt, left, local, recorded, stepVars>>

\* wait_for_pods_by_selector: all pods terminal or gone, some of them crashed.
WaitSeesEnd(t) ==
    /\ At(t, "wait")
    /\ pod[t] = "ended"
    /\ \E crashed \in BOOLEAN : bad' = [bad EXCEPT ![t] = @ \/ crashed]
    /\ Goto(t, "collect")
    /\ UNCHANGED <<attempt, pod, left, local, recorded, stepVars, cold>>

WaitTimesOut(t) ==
    /\ At(t, "wait")
    /\ bad' = [bad EXCEPT ![t] = TRUE]
    /\ Goto(t, "collect")
    /\ UNCHANGED <<attempt, pod, left, local, recorded, stepVars, cold>>

\* A phase query that failed reads as "no pods", which is how the end looks.
WaitMisreads(t) ==
    /\ At(t, "wait")
    /\ Goto(t, "collect")
    /\ UNCHANGED <<attempt, bad, pod, left, local, recorded, stepVars, cold>>

\* A copy that failed is only warned about.
RegressedCollect(t) ==
    /\ At(t, "collect")
    /\ \E r \in {"none", "partial", "whole"} : local' = [local EXCEPT ![t] = r]
    /\ Goto(t, "clean")
    /\ UNCHANGED <<attempt, bad, pod, left, recorded, stepVars, cold>>

\* _collect_treatment_results_discovery: a PVC that cannot be read, or a copy
\* that fails, is an error; a PVC with no such directory is not.
Collect(t) ==
    /\ At(t, "collect")
    /\ \E r \in {"none", "partial", "whole"}, failure \in BOOLEAN :
          /\ r = "whole" => ~failure
          /\ r = "partial" => failure
          /\ local' = [local EXCEPT ![t] = r]
          /\ bad' = [bad EXCEPT ![t] = @ \/ failure]
    /\ Goto(t, "clean")
    /\ UNCHANGED <<attempt, pod, left, recorded, stepVars, cold>>

\* Cleanup on the path of success only.
RegressedClean(t) ==
    /\ At(t, "clean")
    /\ IF bad[t] THEN UNCHANGED pod ELSE pod' = [pod EXCEPT ![t] = "none"]
    /\ Goto(t, "judge")
    /\ UNCHANGED <<attempt, bad, left, local, recorded, stepVars, cold>>

\* The pods are deleted, or left: by --no-cleanup, or by a delete that failed
\* and is only warned about.
Clean(t) ==
    /\ At(t, "clean")
    /\ pod' = [pod EXCEPT ![t] = "none"]
    /\ left' \in {left, left \cup {t}}
    /\ Goto(t, "judge")
    /\ UNCHANGED <<attempt, bad, local, recorded, stepVars, cold>>

Succeed(t) ==
    /\ At(t, "judge") /\ ~bad[t]
    /\ recorded' = recorded \cup {<<t, attempt[t]>>}
    /\ Goto(t, "ok")
    /\ UNCHANGED <<attempt, bad, pod, left, local, stepVars, cold>>

\* _delete_faulty_results, as far as rmtree can (ignore_errors), and a fresh
\* experiment_id.
Retry(t) ==
    /\ attempt[t] < MaxAttempts
    /\ \E rest \in {"none", "partial", local[t]} :
          /\ local[t] = "none" => rest = "none"
          /\ local' = [local EXCEPT ![t] = rest]
    /\ attempt' = [attempt EXCEPT ![t] = @ + 1]
    /\ Goto(t, "deploy")

\* The last attempt's results are kept.
RegressedGiveUp(t) ==
    /\ attempt[t] <= MaxAttempts
    /\ attempt' = [attempt EXCEPT ![t] = @ + 1]
    /\ Goto(t, "failed")
    /\ UNCHANGED local

GiveUp(t) ==
    /\ attempt[t] = MaxAttempts
    /\ Goto(t, "failed")
    /\ UNCHANGED <<attempt, local>>

\* The validation gate (validate_failures) may fail what nothing else did.
\* treatment_errors begins empty again with the next attempt.
Fail(t) ==
    /\ At(t, "judge")
    /\ bad' = [bad EXCEPT ![t] = FALSE]
    /\ Retry(t) \/ GiveUp(t)
    /\ UNCHANGED <<pod, left, recorded, stepVars, cold>>

\* Anything not caught below: inline it leaves execute().
Raise(t) ==
    /\ thread[t] \in Active
    /\ Goto(t, "raised")
    /\ bad' = [bad EXCEPT ![t] = FALSE]
    /\ phase' = IF Cardinality(Members) = 1 THEN "raised" ELSE phase
    /\ UNCHANGED <<attempt, pod, left, local, recorded, opt, batch, errors, aborted, cold>>

-----------------------------------------------------------------------------
(* The harness runs to its end in its own time (external).                 *)

HarnessEnds(t) ==
    /\ pod[t] = "running"
    /\ pod' = [pod EXCEPT ![t] = "ended"]
    /\ UNCHANGED <<thread, attempt, bad, left, local, recorded, stepVars, cold>>

Treat(t) ==
    \/ Start(t) \/ Deploy(t) \/ WaitSeesEnd(t) \/ WaitTimesOut(t) \/ WaitMisreads(t)
    \/ Collect(t) \/ Clean(t) \/ Succeed(t) \/ Fail(t) \/ Raise(t)

Execute == CheckControls \/ ResetCaches \/ Gather \/ Return

Next ==
    \/ Execute
    \/ \E t \in Treatments : Treat(t) \/ HarnessEnds(t)

Spec == Init /\ [][Next]_vars

\* The driver's threads run on; nothing is assumed of the harness pods.
FairSpec == Spec /\ WF_vars(Execute \/ \E t \in Treatments : Treat(t))

-----------------------------------------------------------------------------
(* Properties.                                                             *)

\* Pods that the step has neither deleted nor left standing with a message are
\* those of an attempt at work, or of a treatment that raised: and when the
\* step returns, its result has that exception (phase 5 on every other path,
\* _run_batch_parallel).
LoadIsAccountedFor ==
    \A t \in Treatments : pod[t] # "none" =>
        /\ thread[t] \in {"wait", "collect", "clean", "raised"}
        /\ phase = "done" => t \in errors

\* What is recorded for upload is one attempt of each treatment that
\* succeeded, the last, and nothing half collected.  That it has any results
\* here is not said: a PVC without its directories is no error
\* (record_experiment_id).
RecordedOnceAndWhole ==
    \A t \in Treatments :
        /\ (\E k \in Attempts : <<t, k>> \in recorded) <=> thread[t] = "ok"
        /\ \A k \in Attempts : <<t, k>> \in recorded =>
              k = attempt[t] /\ local[t] # "partial"

\* experiment/README.md:108, "treatment_stop_on_error stops at a group
\* boundary": no group begins after one with a failure, and the members of
\* one that began are all run to their end.
StopsAtGroupBoundary ==
    /\ opt.stopOnError =>
          \A t, u \in Treatments :
              BatchOf[t] < BatchOf[u] /\ thread[t] \in {"failed", "raised"}
                  => thread[u] = "idle"
    /\ phase = "done" =>
          \A t, u \in Treatments :
              BatchOf[t] = BatchOf[u] /\ thread[t] # "idle" => thread[u] \in Ended

\* Step 07 keeps the promise of Trials: deploying, waiting, collecting and
\* cleaning up are out of sight, a group's threads begin and end its
\* treatments in any order, and the step result is the verdict (execute,
\* _run_treatment).
TrialState == [t \in Treatments |->
    IF thread[t] \in {"idle", "queued"} THEN "waiting"
    ELSE IF thread[t] \in Active THEN "working" ELSE thread[t]]

TrialCount == [t \in Treatments |-> IF thread[t] \in {"idle", "queued"} THEN 0 ELSE attempt[t]]

Verdict == CASE phase = "raised" -> "raised"
             [] phase = "done" -> IF errors = {} /\ ~aborted THEN "ok" ELSE "errors"
             [] OTHER -> "none"

Promise == INSTANCE Trials WITH
               GroupOf <- BatchOf, MaxTrials <- MaxAttempts, careful <- opt.stopOnError,
               state <- TrialState, trial <- TrialCount, verdict <- Verdict
ImplementsTrials == Promise!Spec

\* experiment/README.md:102, "reset_caches_required stops before a group, not
\* after": the first pods of a group are deployed on a confirmed reset.
RequiredMeansCold ==
    [][\A t \in Treatments :
          (/\ opt.required /\ pod'[t] = "running" /\ pod[t] # "running"
           /\ \A u \in Members : attempt[u] = 1 /\ thread[u] \in {"queued", "deploy"})
              => cold]_vars

\* The step returns or raises, whatever the pods do.
StepEnds == <>(phase \in {"done", "raised"})

\* interface/run.py:171, "re-run with a fresh experiment_id (so reset_caches
\* fires again for cold caches)": a retry's pods are deployed on a reset that
\* was confirmed after the pods of the attempt before it, unless one failed
\* or a sibling is at work.
RetriesStartCold ==
    [][\A t \in Treatments :
          (/\ opt.resetCaches /\ opt.required /\ Members = {t}
           /\ pod'[t] = "running" /\ pod[t] # "running")
              => cold]_vars

\* utilities/kube_helpers.py:230, "Wait for pods matching selector to start
\* and then complete": what is recorded came from a harness that was not
\* running any more when its results were collected.
RecordedRanToEnd ==
    [][\A t \in Treatments :
          (At(t, "wait") /\ thread'[t] = "collect" /\ ~bad'[t])
              => pod[t] # "running"]_vars
=============================================================================

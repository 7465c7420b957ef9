# A TLA+ model of llm-d-benchmark

llm-d-benchmark deploys LLM serving stacks on Kubernetes, runs load against
them, collects the results and tears the stacks down. It is a Python program
(`src/llmdbenchmark`) that drives `kubectl`, `helm` and `helmfile`. What can go
wrong in it is seldom one function: it is threads that share a context, polls
of a cluster that moves on meanwhile, retries of what was half done, and phases
of which one fails, and commands that build on what earlier ones recorded. These
modules model that control and check it with TLC; their safety properties are
also proved with TLAPS, for every value of the constants.

## 1. The system

### Components

| Component | Code | State it keeps | Operations | Module |
|---|---|---|---|---|
| Phase runner | `executor/step_executor.py`, `step.py` | the sorted step list, one result per step, one future per stack | `execute`, partition, global and per-stack walks, the thread pool | `StepExecutor` |
| Pod restart budget | `utilities/podstate/policy.py`, `executor/command.py` | claimed pods, restarts used, `_pending` grants; per wait a deadline | `claim`, `observe`, `take_granted`, capture and delete, deadline extension | `RestartBudget` |
| Readiness wait | `executor/command.py:402-610` | start time, deadline, reset flag, rollout failures | poll, judge, rollout check, time out | `WaitForPods` |
| Treatments of a run | `run/steps/step_07_deploy_harness.py`, `utilities/kube_helpers.py` | groups, attempts, harness pods, local results, `experiment_ids`, the servers' caches | reset, deploy, wait, collect, clean, validate, retry | `Treatments` |
| Experiment command | `cli.py:1951-2182`, `experiment/summary.py` | the treatment at hand, `config.workspace`, the summary | render, standup, smoketest, run, teardown, record | `Experiment` |
| Results on the PVC | `step_07` (823-913, 1367-1619, 1807-1943), `utilities/archive.py` | a directory of files, keepers and an archive; the remote script; the driver's copy | wait for the writers, compress in place, copy as a stream | `Collection`, `ResultStore` |
| Standup, update, teardown, recorded invocation | `cli.py`, `update/`, `utilities/standup_parameters.py`, standup steps 04, 07, 08, teardown steps 01, 02 | releases per stack, the flags they were applied with, a Secret | scope, merge, reuse, apply, record, uninstall | `Deployment` |
| A user's session | `cli.py:178-306` | what commands leave for the next one | commands in turn, then a run | `Session` |
| Other command waits | `executor/command.py:699-994` | as the readiness wait | jobs, daemonsets, PVCs, command retries | no |
| Results store | `results_store/` | `staged.json`, a remote | add, rm, push, pull | no |
| Plan rendering, smoketest probes, kustomize, analysis, agent, discovery, telemetry | `parser/`, `smoketests/`, `kustomize/`, `analysis/`, `agent/`, `llm_d_stack_discovery/` | files | pure functions or I/O | no |

### How they interact

The experiment command (or `standup`, `run`, ... alone) calls the phases one
after another. Each phase builds an `ExecutionContext` and hands a registry of
`Step`s to a `StepExecutor`. The executor runs the global steps that prepare,
then one thread per stack, then the rest. A step calls
`CommandExecutor`; standup steps of different stacks call
`CommandExecutor.wait_for_pods` at the same time, on *one* executor with *one*
`RestartBudgetPolicy` and one `RestartBudget`. In the run phase, step 07 has
threads of its own: the members of a treatment group deploy harness pods
against one endpoint, and share `context.experiment_ids` under a lock. The
cluster changes all the while: kubelets restart containers, controllers
replace pods, harness pods end. For each attempt step 07 waits for the harness
pods and the summary pod, has a script run in the data-access pod compress what
they wrote to the shared PVC, and copies it.

Commands also meet through the cluster. Standup step 08 writes the flags of the
invocation to a Secret; `update` reads them back, merges what it was given,
re-renders the plan, re-applies the components the change reaches and records
the merged flags; teardown removes the releases and the Secret.

### What is hard here, and what makes each part correct

* **Phase runner.** Threads that complete in any order; two steps of one
  number; exceptions in two different places. Correct: preparation before any
  stack, tail after all of them, a failure stops its own stack and nothing
  else, and the result tells of every failure.
* **Restart budget.** A check under a lock, then effects outside it, by several
  threads. Correct: the total is a cap, no pod is deleted twice, a pod that was
  restarted does not fail the wait, and every wait ends, within a bound. A wait
  has two sources of patience, the grace of the restarts charged for it and one
  reset of its clock when a pod starts; it has no third.
* **Readiness wait.** Pods are read at one time, the rollout at another, the
  Deployment's status lags, and queries fail. Correct: success means the new
  revision serves and the old one does not; the timeout is reset once, for a
  pod that is really starting.
* **Treatments.** Concurrent members, retries, leftovers, caches. Correct:
  load on the stack is accounted for, nothing half collected is recorded, groups
  are a barrier, and success means every treatment has a recorded attempt.
* **Experiment.** Five phases with several ways to end. Correct: one result per
  treatment begun, nothing left behind without a trace, and no treatment begun
  after a failure that stops.

* **Results.** The only copy of a result set is deleted by a script whose exec
  stream may drop, that may be killed, and that must not run while a pod still
  writes. Correct: what was written can be read at any moment, reports stay
  plain files, and a copy reported as whole is.
* **Commands in turn.** An update renders everything again from flags somebody
  typed earlier; steps fail between applying and recording. Correct: an update
  changes things only to what the user last asked for, only in its scope, and
  the Secret says how the stacks run. The code keeps this with three exceptions,
  which the properties name: the keys of a failed command, a warning, and a
  standup that applied and recorded different things (section 4, item 2).

`PROJECT.json` lists the single hazards, each at its line, with the properties
that would catch it, and a note where none does or where they make an exception:
some of the hazards are things the code does, and a property that holds of the
code has to step around them.

## 2. The modules

Conventions. An operator `RegressedX` just before `X` is a plausible bug of
`X` that no specification uses; `PROJECT.json` names, for every checked
property, the one that breaks it. *External* actions stand for Kubernetes; the
code in `src/` is all that is known of it. History variables are marked.

### StepExecutor and Phase

One call of `StepExecutor.execute`. A step is its position in the constructor's
stable sort; `Number` and `PerStack` are its attributes. `allowed` is what
`--step` selects and `targets` what `--stack` leaves; both are any subset, and
`typo` says that `--stack` has a name the scenario does not. Two places look at
that. `RenderPlans.eval` (`render_plans.py:2698-2715`) makes an unknown name a
rendering error, with which the command exits before any phase: `CheckNames`.
`_execute_per_stack_steps` (180-189) logs it and returns with nothing in the
result: `NothingToSubmit`. By itself that second check would let a phase succeed
with no stack run, so `ResultIsComplete`, which says that without an error
everything named was done, rests on the first; its mutant drops the first check,
and TLC then finds the silent success.
`PreGlobal` / `PostGlobal` are `_partition_steps`. `SkipGlobal`, `BeginGlobal`,
`EndGlobal` walk the global steps; `SubmitStacks`, `StartStack`,
`BeginStackStep`, `EndStackStep`, `ReturnStack`, `CollectStack`, `LeavePool` are
the pool. `should_skip` is called outside the `try` of `_safe_execute_step`, so
its exception is an action of its own (`SkipCheckRaises`, `StackRaises`): with
one stack, which runs inline, it leaves `execute()`; in the pool it ends that
stack's future. A step's work is abstracted to how it ends.

`Phase` is what a caller of `execute()` may rely on, with no threads and no
`begin`: preparation, each stack by itself, the tail, and a verdict.
`StepExecutor` refines it (`ImplementsPhase`): a step that is running is still
to come there, a skipped one has passed, and a stack whose future raised is
given up.

`PhaseEnds` says that the phase comes to its end *and* that every selected stack
has then been run to its own end, unless the command was refused, raised, or had
a step of the preparation fail.

### RestartBudget and Allowance

Several `wait_for_pods` threads (`Waits`) with pods identified by uid
(`RestartBudget._key`). The atomic steps are the places where a thread can be
interrupted: the claim under the lock (`ObserveGrants`), the assignment to
`_pending` (`Store`), its swap in `take_granted` (`Take`), each delete call
(`Delete`, which may fail), the deadline (`Extend`). A wait judges on the
snapshot it polled (`snap`), not on the cluster. `Judge` is the wait's own rule
when no policy has spoken; the pods expected and the rollout, which can only
delay a success, are a choice to sleep on there. External: `PodChanges`,
`PodReplaced` (a replacement is a new uid). Time is counted in poll intervals.

`Poll` includes the reset of the clock (`command.py:509-512`): the first pod that
is seen to have started and is not Ready sets `start` back, once in a wait
(`ResetsClock`, `KeepsClock`; `before`, history, is what the clock showed then).
The extensions granted so far remain, so that a wait may last twice its timeout
and the grace of the whole budget, and one poll (`WaitIsBounded`).

The states of a pod are what the code tells apart. A pod that is DEGRADED by a
container (`crashed`) is eligible for a restart and fails a wait that has none to
give; one that is DEGRADED because it failed without any container status
(`failed`) is eligible too, but `crashing` is false of it, and the wait sleeps on
to its deadline; a TERMINAL one (`terminal`) is not eligible and fails the wait.

`Allowance` is the budget as `--pod-restart-budget` describes it: one account, a
purchase of some pods of one wait in one step, at most `Limit` in all, and at
most one delete for each. `RestartBudget` refines it (`ImplementsAllowance`): a
wait's patience is its deadline and the extension the policy owes it, so that
`Store`, `Take` and `Extend` are invisible, in whatever order two waits do them.
The allowance does not promise that what is charged is deleted; the code does not
keep that (`restart_race`).

### WaitForPods

One wait with policies off, after an apply that gave a Deployment a new
revision, or created it. A poll with its conclusions is one step; the rollout
query (`CheckRollout`, `RolloutQueryFails`) is a second one, on a cluster that
has moved. `ControllerSyncs` writes the Deployment's status whenever it likes;
until then the status is the old generation's. `managed` says whether there is
a Deployment at all: the code checks no other kind of workload. No new pod is
evicted during the wait, which no check before its return could exclude.
`since` (history) is the time since the first poll that showed a pod starting,
and is capped at `SinceCap`.

### Treatments and Trials

Step 07 of the run phase. `batch` and `phase` are the loop of `execute()`;
`thread`, `attempt` and `bad` are `_run_treatment`'s control and its
`treatment_errors`; `pod` and `local` are the present attempt's harness pods
and local result directories. The parallel pods of an attempt are one value.
`cold` says whether a cache reset was confirmed since harness pods were last
deployed. `Raise` is an exception anywhere in an attempt: a group of one runs
inline, where it leaves the step. `left` holds the treatments with pods kept
by `--no-cleanup` or by a delete that failed and was warned about; the code
forgets them, and so does `pod`. `LoadIsAccountedFor` is about all other pods, and
says of a treatment that raised, whose pods nobody deletes, that the step's result
has its error. `Retry` removes the directories of the failed attempt as far as
`rmtree(ignore_errors=True)` gets; what is left of them is under the old
experiment id. Left out: `--dry-run`, `--debug`, `--no-pvc`'s sentinels,
`--data-collect skip`, the run summary pod, log capture, a wait timeout of 0.

`Trials` is what the run phase is told of it, without pods, directories, caches or
threads: a group waits for the one before, a trial may be repeated, a success and
its record are one event, and the verdict is the last thing that happens.
`Treatments` refines it (`ImplementsTrials`). An error may be told with groups
not begun: after a failure, or after a required reset that did not work, which
leaves no other trace there.

### Experiment

`_execute_experiment`. Each phase returns, raises `PhaseError`, or raises
something else. `up` is the set of treatments with something on the cluster: a
failed standup may or may not have deployed anything, a successful teardown
removes its own treatment's stack and perhaps others of the same names.
`failure` and `torn` become the summary's status in `Record`.

### Collection and ResultStore

One result directory on the PVC and the driver that collects it. The state of
the directory is `plain` (the files that are there as files), `dirs`, `archive`
(absent, or whether `zstd -t` would pass) and `packed` (the members of a good
archive). `Check` to `Sweep` are the script of `archive.py`, command by command;
`ScriptDies` is `set -e` or the death of the pod, at any of them. `Rerun` is the
script started once more on what an earlier start left, which is what its own
check of an existing archive is for. A name the script refuses is the outcome
`failed` of `Check`. `SeesEnd`, `TimesOut` and `Misreads` are the ways
`wait_for_pods_by_selector` returns, for the harness and then the summary pod;
`Gate` is `_should_compress_on_pvc`; `ExecDrops` is a `kubectl exec` that returns
non-zero while the script runs on; the docstring of `_compress_on_pvc`, "False
leaves it untouched", does not hold then. `List` and `Read` are one tar stream
over a directory that may change between two entries; `StreamFails` is one of the
`max_attempts`. `kubectl cp` is the same with its retries inside. A file is
written whole, and `misread` and `dropped` are history.

`ResultStore` is what the user of a collection relies on: results held until
they are taken, a report that means something, and a `doubt` that says what an
incident has cost: nothing, the word of the report, or the results themselves.
`Collection` refines it (`CollectionImplementsStore`): `held` is what can be read
as a file or from a good archive, so that moving files into the archive, deleting
them and streaming them are all invisible. Only `misread` maps to the doubt that
permits loss.

### Deployment

`standup`, `update` and `teardown` on the stacks of one scenario in one
namespace. A flag is a pair of a selector (a stack or `*`) and a key; an option
like `--wva` is a pair for `*`. `Rendered` is what a component is rendered with:
it reads the keys that `KEY_COMPONENTS` gives it. `runs` records what each
component was last applied with, `secret` what the Secret holds. `Reuse` and
`Unread` are `reuse_invocation` with each of its returns, `InScope` and `Forced`
the refusals of `resolve_scope` and `step_spec`, `NoneMissing` is
`missing_stacks`. Per-stack steps of different stacks interleave. `ModelNamespace`,
`DeployRouter` and `DeployModelservice` may fail before or after applying; step
08 writes the Secret either way (line 374), and the update once more at its end
(`UpdateEnds`). Teardown step 01 uninstalls any subset and may fail.

Each command takes `-s`. `Standup` begins the steps of `-s` alone: one that leaves
out 08 applies and does not record, one with only 08 records what it has not
applied. `Teardown` has steps 01 and 02, or one of them. `WriteSecret` has three
outcomes: the Secret is written; it is not, and a warning says that an update
cannot tell the flags; or the ConfigMap before it could not be applied
(`standup_parameters.py:114-119`), or an exception ended step 08 after it had
applied, and nobody says that the Secret is the old one.

Four history variables say what the properties allow for. `intent` is what
the user last typed. `unsure` holds the pairs a failed command leaves in doubt:
an update those it was to change; a standup all of them, because it has recorded
what it may not have applied. `told` says that a warning, or an option the user
gave (`--no-reuse-invocation`, an update's `-s` without a step the change needs),
has announced that flags are not kept. `astray` says that a standup left steps out
by `-s`, or recorded nothing, and no warning said so. A whole standup of all
stacks that is recorded clears the last three.

`NoSilentRevert` and `SecretTellsTheTruth` hold up to `unsure`, `told` and
`astray`; each exception is something the code does. Of the first two the user
knows, from an error or a warning. Of the third he does not, and
`StandupsAreRecorded`, which is `NoSilentRevert` without that exception, is
violated (`standup_step`).

### Session

Both components together: commands one after the other, then, while the stacks
are up, a run with any controls. `StartRun` is the run that finds every stack's
endpoint.

## 3. Runs

| Run | Instance | Distinct states | Shows |
|---|---|---|---|
| `step_executor` | 3 stacks, `--parallel 2`, 4 steps numbered 2 (global), 2, 3 (global), 4; `--stack` with and without an unknown name | 340 000 | all seven properties of `StepExecutor`, the refinement of `Phase` among them |
| `restart_budget` | 2 waits, 3 pod instances (one a replacement), budget 2, grace 1, timeout 0 | 550 000 | all eight properties of `RestartBudget`, the refinement of `Allowance` among them |
| `wait_for_pods` | 2 old and 2 new pods, `expected` 2, timeout 2, 2 rollout attempts | 385 000 | all four of `WaitForPods` |
| `treatments` | a pair and a single treatment, 2 attempts, all controls | 1 310 000 | all seven of `Treatments`, the refinement of `Trials` among them |
| `experiment` | 3 setup treatments, both flags | 9 600 | all four of `Experiment` |
| `session` | 2 stacks, 2 keys (one of the router, one of namespace and modelservice), 3 commands; 3 files (report, metrics of the summary pod, trace in a directory), 2 streams, 2 starts of the script | 1 870 000 | all nine of `Session`, `Deployment` and `Collection` |
| `restart_race`, `standup_step`, `retry_warm`, `wait_misread`, `stop_on_error_doc`, `teardown_stack` | as above, smaller where it is enough | | violations, see section 4 |

Why these bounds are enough. *Stacks:* three with a pool of two have one
queued, one running and one done at once. *Steps:* the four cover a global
step that ties with a per-stack one, and one between two per-stack steps, with
any selection of them; the run registry has both shapes. *Waits:* two are what
an interference between `Store` and `Take` needs; a third adds no new kind of
it, and the cap itself is proved for any number. *Pods:* one for each wait and
one replacement; each can come into every state. No pod is bare in this
instance, for the sake of its size: that none such is deleted, half of
`DeletedOnce`, is proved (`NoSecondDelete`) and not checked. *Timeout 0* with
extensions of 1 lets a wait poll again exactly as often as it has paid for or has
had its clock reset; longer ones repeat the same polls. `restart_race` has a
timeout of 1. *Rollout:* two old pods are as many as the new revision wants,
so that the old status looks complete. *Attempts:* two; every attempt after the
second is like the second. *Groups:* one shared and one alone, in this order,
so that the barrier lies between them. *Setups:* one before, at, and after a
failure. *Commands:* a standup, an update and a second update are what a revert
needs, and a teardown can stand in any place. *`Filters`:* none or one of the two
stacks, so that a sibling is in scope or out of it. *`Pairs`:* for all stacks, for
one, and a key that reaches the dangerous step 04; at most one pair is typed in a
command. *`Overrides`:* none, or `-s 4,7`, which reaches the
dangerous step and leaves step 08 out; `-s 6,7` in `standup_step`. *Start of the run:* after one standup
without flags, because the collection reads none of the flags; the proofs have
none of these bounds but the last. *Files:* one keeper, one file at the top from
the second writer, and one in a directory, which the sweep removes whole.
`CHECK_DEADLOCK FALSE` everywhere: all the programs end.

**Fairness.** Only the program's own threads are fair: `WF_vars(Next)` for the
phase runner (its pool threads are scheduled by the operating system and a
step is assumed to return, which is what the waits' deadlines are for), weak
fairness of each wait's step for `RestartBudget` and `WaitForPods`, and of
the step's threads for `Treatments`. In `Session` the driver's thread
(`RunStep(Collect)`) and the commands of the remote script
(`RunStep(ScriptStep)`) are fair; nobody has to type a command, and no pod has
to end. `CollectionEnds` needs the second because an exec waits for its script,
and holds though streams drop and scripts die. Nothing is assumed of pods, controllers or
the harness: `WaitsEnd`, `WaitEnds` and `StepEnds` hold though pods crash
for ever, a rollout never finishes and a harness never ends. `Experiment` has
no liveness property: it is a loop over calls.

**Action properties and refinements.** `RequiredMeansCold`,
`NothingLeftBehind`, `NoSilentRevert` and `UpdateStaysInScope` say what a step may
never do. `ImplementsPhase`, `ImplementsAllowance`, `ImplementsTrials` and
`CollectionImplementsStore` are refinements: every step is one of the abstract
specification or leaves its state alone.

## 4. Where code and documents disagree

Each has a run that expects TLC to find the violation, and a finding in
`PROJECT.json` that quotes the line.

1. `restart_race`: two waits store their grants in the shared policy object
   before either takes them. One pod is charged and never deleted; its wait is
   held open to the deadline. `docs/standup.md:264`.
2. `standup_step`: `standup -s 6,7 --set ...` re-applies the routers and leaves out
   step 08, which alone records the flags. No warning is given, the Secret is out of
   date, and the next update that reaches step 07 puts the routers back.
   `update/README.md:108-110` says that recording is there to avoid this, and
   `docs/lifecycle.md:77-80` offers `standup -s`. A ConfigMap that cannot be applied
   has the same effect; its warning is about the benchmark report.
3. `retry_warm`: the caches are reset once per group, and a retry is inside the
   group: it measures what the failed attempt warmed.
   `interface/run.py:171-172`.
4. `wait_misread`: one failed `kubectl get` while the harness runs reads as its
   completion. `kube_helpers.py:230`. `LoadIsAccountedFor` and
   `RecordedOnceAndWhole` still hold: what is recorded was copied without
   error, only too early.
5. `stop_on_error_doc`: `--stop-on-error` does not stop after
   `failed_teardown`. `experiment/README.md:247`.
6. `teardown_stack`: `teardown --stack a` uninstalls the releases of every
   stack the scenario renders; `README.md:264` and `README.md:492` say the
   siblings stay, and so does a comment in the step itself
   (`step_01_uninstall_helm.py:380-384`). Only the match by chart is switched off.

Smaller remarks, without a run.

* `executor/README.md:90` says that global steps at the boundary run after the
  stacks. A global step whose number *equals* the lowest per-stack number runs
  before them (`step_executor.py:106`, on purpose, says its comment): the document
  is stale. `BoundaryIsTrueWithoutTies` proves it right about all other registries.
* The comment at `step_executor.py:175-178` says that unknown stack names "fail
  loudly rather than silently running zero stacks". The check below it does not: it
  logs and returns, and the result has no error. The commands do fail, because the
  renderer has refused the name before (section 2, `StepExecutor`). `experiment` has
  no `--stack`.
* `docs/standup.md:265` says of ImagePullBackOff and the like "Fails immediately".
  While a pod the budget was spent on is not Ready, the policy holds the wait open
  and such a pod does not fail it (`policy.py:239-247`).
* `_compress_on_pvc`'s "False leaves it untouched" (section 2, `Collection`).

## 5. Proofs

`StepExecutorProofs`, `RestartBudgetProofs`, `TreatmentsProofs`,
`WaitForPodsProofs`, `ExperimentProofs`, `CollectionProofs`, `DeploymentProofs`
and `SessionProofs` prove every safety and action property of their modules that
the passing runs check, and the refinements of `Phase`, `Allowance`, `Trials` and
`ResultStore`, for all values of the constants, from the `ASSUME`s in the modules
(`StepAssumption`: the list is sorted by number; `StackAssumption`: finitely many
stacks, a positive `--parallel`; `BudgetAssumption`, `PodAssumption`: natural
numbers, finitely many pods, bare ones among the initial; `TreatmentAssumption`,
`SetupAssumption`: at least one of each; `WaitAssumption`: two disjoint finite
sets of pods; `CollectionAssumption`: keepers lie at the top, names differ;
`DeploymentAssumption`: finitely many stacks, `*` is none of them). In each, an
invariant (`IInv`, `DInv`, `SInv`) is shown to hold initially and to
survive every action, and the properties follow from it. The leaves are kept small
(`tlapm --stretch 0.2` still proves every module), so that the proofs do not depend
on a fast machine.

*StepExecutor.* None of the properties is inductive alone. The inductive
invariant adds, for each phase, what may already have happened: global steps of
the tail are untouched before the phase `post`; a stack that is idle or queued has
touched nothing; a walk's results are a prefix of passed steps, then at most
one that runs or failed, then untouched ones; what was collected has ended; and
no more futures run than the pool allows. `PreparationFirst` and
`NoTailBeforeStacksEnd` then follow from the phase, `ResultIsComplete` from the
prefix form, the collected set, and the check of the names: past it there is no
`typo`. One lemma per action keeps the proof of a step local to what it changes.

The refinement of `Phase` (`ExecutorKeepsItsPromise`) needs two facts more: a
stack is at work only while the phase is at its stacks (`IActive`), and the global
walk stands at the step that runs, with everything before it passed (`IWalk`). It
also rests on an inline stack's exception leaving `execute()` in the step that
raises it, with nothing collected afterwards. `PhaseOnlyMovesForward`: no step is
run twice and no place of `execute()` is come back to. `FailedStacksRest`: a failed
stack is not touched again. `BoundaryIsTrueWithoutTies`: with no global step numbered like a per-stack
one the sentence of `executor/README.md:90` is true, so that the tie is the whole
of the disagreement. `StacksAreRunToTheirEnd` is what `PhaseEnds` says of the stacks,
as an invariant.

*RestartBudget.* The difficulty is that a grant is in one of three places, and
that the waits may hold each other's. The inductive invariant says that the
grants in `fresh`, `pending` and `held` are claimed, pairwise disjoint, and not
yet deleted (`IGrants`), which is what makes a second delete impossible even
when they are swapped; that `used` is the number of claimed pods and within
`Limit`, none of them bare (`ICharged`); that a wait's deadline plus the extension it is owed
is its timeout plus the grace of the claims on its own pods, exactly (`IPaid`),
and owed only between claim and extension (`IOwed`); at which places a wait has
grants in hand (`IHands`); that the clock it read at its poll has not passed
the deadline (`IClock`); and what a stored snapshot can still say (`ISnap`,
`IJudged`).

`BudgetIsAnAllowance` is the refinement: `ObserveGrants` is the purchase, `Delete`
the restart, everything else a stutter by `IPaid`. `BudgetBoundsTheWait` follows:
no wait outlasts twice its timeout and the grace of the whole budget by more than
a poll. The clock itself is not monotone, because of the reset; `before` bounds
what it showed at the reset, and `reset` that there is only one. `NoWaitGoesRound`
orders the places of an iteration, with a reset as progress of its own kind, so
that each step of a wait brings it nearer its next poll or its end. `OnlyOverwritingLoses` finds the
only cause of `restart_race`: a behaviour without a `Store` over grants not yet
taken deletes, or has in hand, every pod charged; `SoleWaitLosesNothing` applies it
to a command with a single wait, where no such `Store` is possible.

*Treatments.* `LoopInv` says which treatments are still before the loop: those
of later batches are idle, those of earlier ones have ended, and only members
of the current batch are at work. It rests on `Batches`: batches are numbered
in order and without going past the last, which the definition of `BatchOf` by
counting heads makes a fact about finite cardinalities, so that any grouping is
covered. `TaskInv` ties pods, directories and records to the place of a thread;
a step of one thread keeps the others' (`OthersKept`). `ErrorInv` says that a
failure not yet taken in can only be of the current batch. `ColdInv` is what
`RequiredMeansCold` adds: until a member of the batch has deployed or retried,
the required reset stands.

`StepKeepsItsPromise` is the refinement of `Trials`. What a thread does between
two trials is a stutter (`QuietStep`); the barrier comes from `LoopInv`; and that
the verdict "ok" is told exactly when every treatment is is
`SuccessAlwaysMeansAllRecorded`, which is why that invariant is no longer a
property of the run by itself.

*WaitForPods.* The Deployment's status may be out of date by any amount. The
invariant `StatusInv` says that it counts the live pods `L` of some earlier
moment, and that since then no new pod has gone and no old one come. At success
`updated` is at least the number of new pods and `replicas` at most `updated`;
so `L` is exactly the new pods, and nothing old is live now. `ClockInv` makes
`since` and `elapsed` equal from the first pod seen to start.

*Experiment.* `LoopInv` counts results against cycles at each place of the
loop, `StopInv` allows a failed phase only in the last result under
`--stop-on-error`, `UpInv` says whose stacks can be up. `AbortsUnlessTeardownFails`
is about the finding `stop_on_error_doc`: in every behaviour whose teardowns work,
the documented promise holds, so that no other way out of a cycle breaks it. Its
hypothesis is temporal (`[]TeardownsWork`), a fact about the environment.

*Collection.* `NothingLost` is not inductive: that the sweep of a directory is
harmless rests on nobody writing while a script runs (`WaitsOK`: a script has been
started only behind an undisturbed wait, which saw both writers end), and on the
archive holding all that was not a keeper when it was packed (`ArchiveOK`).
`WholeIsWhole` needs to know, in the middle of a stream, that each file asked for
is here or still ahead in the listing (`CopyOK`). The refinement is one lemma
with a step per action, each a step of the store or a stutter: `DeleteMember` and
`Sweep` leave `Held` alone by the same invariant, and `CopyEnds` may say "whole"
because of `CopyOK`. `ArchiveIsAllButReports` proves what `archive.py` calls "THE
INVARIANT": for any number of starts and deaths of the script, an archive that
verifies holds everything but the reports, which is what entitles a later start to
leave it alone. It needs that what the script has put in its temporary file is
all but the reports from the moment it is packed (`PackedOK`), and that nobody
writes then.

*Deployment.* `DInv` says what is true in the middle of a command. `BetweenOK`:
outside commands Secret, intent and cluster agree on every key not in doubt.
`StandupOK` and `UpdateOK`: during one, each component runs with what it should
or its step is still to come, and the command's flags are the intent for each key
that is not in doubt. `OwnedOK`: a component shows no key it does not read.
`ScopeOK` and `StageOK`: what steps are left lie in the scope of the command.
All of them are up to the exceptions named above, and nothing is claimed of what
they leave out.
`NoSilentRevert` then follows because an update applies `Rendered(cmd.flags)`,
and that is the intent.

*Session.* The theorems of both components are carried over to `SessionSpec`:
each of its steps is a step of the one or of the other, or the start of the run,
which leads from an initial state of the collection to another one.

*That everything runs out.* Liveness needs fairness and ENABLED, which these
provers do not handle, so `PhaseEnds`, `WaitsEnd`, `WaitEnds`, `StepEnds` and
`CollectionEnds` are only model-checked. What is proved is the part of each that
is safety, for every value of the constants: a measure on a finite range which
each step of the program moves one way and no step of anybody else moves back
(`WaitRunsOut`, `StepRunsOut`, `LoopRunsOut`, `CollectionRunsOut`,
`CommandsRunOut`; `PhaseOnlyMovesForward`, and `NoWaitGoesRound` with
`BudgetBoundsTheWait`). What is missing from liveness is then that a step can be
taken. Where threads could wait for each other this is proved too, as a statement
about the guards of the next-state relation, spelled out because ENABLED cannot be
used. `PhaseIsNeverStuck`: a walk over steps that is not through stands at one of
them (`WalkStands`, by a least element), and a queued stack finds a free worker or
workers that can go on. `StepIsNeverStuck`: of the group's queued members the first
finds a thread, or the threads are at work, and none of them waits for its pods to
end. `WaitsAreNeverStuck`: a claim always has an answer, because the charge is
within the limit and a set has a subset of every smaller size (`SubsetOfSize`). It
would have none from an overdrawn budget. For the readiness wait and
the collection only TLC checks that a step can be taken, as part of `WaitEnds` and
`CollectionEnds`; and nowhere is it proved that fairness turns the two halves into
liveness.

## 6. Not modelled, and why

*Whole components.* Rendering of plans, scoring, analysis, report conversion and
discovery are functions of data with no protocol; together with the smoketest
probes, harness scripts and cloning of guides (I/O, seen as outcomes of a step)
they are most of the repository's lines, which is why the map covers a small share
of it: what is modelled is the control that holds the rest together.

*In modelled components.* A step's internals are not composed with the executor:
their composition is by outcome. Names of pods are not modelled: a pod is its uid,
so a delete by name that reaches a replacement of the same name (StatefulSets) is a
hazard no property covers. Wall-clock time is counted in poll intervals, and
commands take none of it; `_run_with_retries` is part of an outcome.
`wait_for_job`, `wait_for_daemonset` and `wait_for_pvc` are the readiness wait's
loop with fewer outcomes.

*Collection.* One directory, one script at a time: a second driver on the same
directory needs two runs with one experiment id. `--no-pvc`, where there is no
PVC. Step 09, which returns at once when the results directory is not empty, as it
is after step 07 (`step_07:1593` creates the directory before it copies).

*Deployment.* The standalone, kustomize, fma and nok8s methods; steps other than
04, 07 and 08; `--component`; keys whose class is `DANGEROUS` by themselves (the
gate modelled is the one by the component reached); two updates at once, of which
the later write of the Secret wins; a wedged release that standup does not clear
(teardown does); teardown `--deep` and the steps after 02, which leave what is
modelled alone otherwise.

*Results store.* `staged.json` under two commands at once is a hazard on the
list; a run of its own for it was left out in favour of the results and the
recorded flags, which are lost for good if they go wrong.

## 7. Plan

Done, in the order of importance: the phase runner, the restart budget, the
readiness wait, treatments, the experiment; then the collection of results with
its abstract store, the commands with their recorded flags, and the session made
of both; then `Phase`, `Allowance` and `Trials`, each refined by its component.
All safety properties that are checked are proved.

Left, in this order: `ResultStaging` (`staged.json` under two commands);
`Experiment` and the steps of a command composed with `Phase` instead of with
outcomes; pod names beside uids; the other waits as instances of one bounded wait.

----------------------------- MODULE Experiment -----------------------------
(***************************************************************************)
(* The experiment command (cli.py, _execute_experiment): one cycle of      *)
(* render, standup, smoketest, run and teardown for each setup treatment,  *)
(* on one cluster.                                                         *)
(*                                                                         *)
(* A phase either returns, or raises PhaseError, or raises something else; *)
(* what it did to the cluster until then is kept as the set of treatments  *)
(* of whose stacks something is up.                                        *)
(***************************************************************************)
EXTENDS Integers, Sequences

CONSTANT NumSetup       \* len(experiment_plan.setup_treatments), at least 1

Setups == 1..NumSetup

ASSUME SetupAssumption == NumSetup \in Nat \ {0}

VARIABLES
    opt,        \* --stop-on-error and --skip-teardown
    at,         \* what _execute_experiment does next
    i,          \* the setup treatment it is at
    workspace,  \* config.workspace: a treatment's directory, or Base
    failure,    \* the phase the cycle failed in, or "none"
    torn,       \* no teardown of this cycle failed
    up,         \* the treatments with something left on the cluster
    results,    \* summary.results
    written     \* experiment-summary.yaml is on disk

vars == <<opt, at, i, workspace, failure, torn, up, results, written>>

Base == 0

Phases == {"render", "standup", "smoketest", "run"}

Status == {"success", "teardown"} \cup Phases

TypeOK ==
    /\ opt \in [stopOnError : BOOLEAN, skipTeardown : BOOLEAN]
    /\ at \in Phases \cup {"next", "teardown", "record", "finish", "done", "raised"}
    /\ i \in 0..NumSetup
    /\ workspace \in {Base} \cup Setups
    /\ failure \in {"none"} \cup Phases
    /\ torn \in BOOLEAN
    /\ up \in SUBSET Setups
    /\ results \in Seq([setup : Setups, status : Status]) /\ Len(results) <= NumSetup
    /\ written \in BOOLEAN

Init ==
    /\ opt \in [stopOnError : BOOLEAN, skipTeardown : BOOLEAN]
    /\ at = "next" /\ i = 0
    /\ workspace = Base
    /\ failure = "none" /\ torn = TRUE
    /\ up = {}
    /\ results = <<>>
    /\ written = FALSE

-----------------------------------------------------------------------------
(* The loop over the setup treatments.                                     *)

\* A cycle too many.
RegressedBeginCycle ==
    /\ at = "next" /\ i <= NumSetup
    /\ i' = i + 1
    /\ workspace' = i + 1
    /\ failure' = "none" /\ torn' = TRUE
    /\ at' = "render"
    /\ UNCHANGED <<opt, up, results, written>>

BeginCycle ==
    /\ at = "next" /\ i < NumSetup
    /\ i' = i + 1
    /\ workspace' = i + 1
    /\ failure' = "none" /\ torn' = TRUE
    /\ at' = "render"
    /\ UNCHANGED <<opt, up, results, written>>

Exhausted ==
    /\ at = "next" /\ i = NumSetup
    /\ at' = "finish"
    /\ UNCHANGED <<opt, i, workspace, failure, torn, up, results, written>>

After(phase) ==
    CASE phase = "render"    -> "standup"
      [] phase = "standup"   -> "smoketest"
      [] phase = "smoketest" -> "run"
      [] phase = "run"       -> "teardown"

\* A standup may come to grief with nothing, or something, deployed.
Deploys(phase, outcome) ==
    IF phase # "standup" THEN {up}
    ELSE {up \cup {i}} \cup (IF outcome = "ok" THEN {} ELSE {up})

PhaseReturns(phase) ==
    /\ at = phase
    /\ up' \in Deploys(phase, "ok")
    /\ at' = After(phase)
    /\ UNCHANGED <<opt, i, workspace, failure, torn, results, written>>

\* A smoketest that failed, recorded with its stack still up.
RegressedPhaseFails(phase) ==
    /\ at = phase
    /\ up' \in Deploys(phase, "failed")
    /\ failure' = phase
    /\ at' = IF phase \in {"render", "smoketest"} THEN "record" ELSE "teardown"
    /\ UNCHANGED <<opt, i, workspace, torn, results, written>>

\* PhaseError (a render: any Exception).  Only a failed render needs no
\* teardown; the one after a failed run is the cycle's own.
PhaseFails(phase) ==
    /\ at = phase
    /\ up' \in Deploys(phase, "failed")
    /\ failure' = phase
    /\ at' = IF phase = "render" THEN "record" ELSE "teardown"
    /\ UNCHANGED <<opt, i, workspace, torn, results, written>>

\* Anything but PhaseError leaves _execute_experiment.
PhaseRaises(phase) ==
    /\ at = phase /\ phase # "render"
    /\ up' \in Deploys(phase, "raised")
    /\ at' = "raised"
    /\ UNCHANGED <<opt, i, workspace, failure, torn, results, written>>

\* Teardown uninstalls what this treatment's plan names; stacks of earlier
\* ones go with it where the names are the same.  One that fails may have
\* removed some of it.
Teardown ==
    /\ at = "teardown"
    /\ \/ /\ opt.skipTeardown
          /\ at' = "record" /\ UNCHANGED <<up, torn>>
       \/ /\ ~opt.skipTeardown
          /\ up' \in SUBSET (up \ {i})
          /\ at' = "record" /\ UNCHANGED torn
       \/ /\ ~opt.skipTeardown
          /\ up' \in SUBSET up
          /\ \/ at' = "record" /\ torn' = FALSE
             \/ at' = "raised" /\ UNCHANGED torn
    /\ UNCHANGED <<opt, i, workspace, failure, results, written>>

\* What the summary says of the cycle: a failed phase hides a failed teardown.
Outcome ==
    IF failure # "none" THEN failure
    ELSE IF torn THEN "success" ELSE "teardown"

\* Only a failed setup stops the experiment.
RegressedStops == opt.stopOnError /\ failure \in {"render", "standup", "smoketest"}

\* A failed teardown alone does not.
Stops == opt.stopOnError /\ failure # "none"

\* The loop left by a return, past the end of the function.
RegressedRecord ==
    /\ at = "record"
    /\ results' = Append(results, [setup |-> i, status |-> Outcome])
    /\ at' = IF Stops THEN "done" ELSE "next"
    /\ UNCHANGED <<opt, i, workspace, failure, torn, up, written>>

Record ==
    /\ at = "record"
    /\ results' = Append(results, [setup |-> i, status |-> Outcome])
    /\ at' = IF Stops THEN "finish" ELSE "next"
    /\ UNCHANGED <<opt, i, workspace, failure, torn, up, written>>

Finish ==
    /\ at = "finish"
    /\ workspace' = Base
    /\ written' = TRUE
    /\ at' = "done"
    /\ UNCHANGED <<opt, i, failure, torn, up, results>>

Next ==
    \/ BeginCycle \/ Exhausted
    \/ \E phase \in Phases :
          PhaseReturns(phase) \/ PhaseFails(phase) \/ PhaseRaises(phase)
    \/ Teardown \/ Record \/ Finish

Spec == Init /\ [][Next]_vars

-----------------------------------------------------------------------------
(* Properties.                                                             *)

StatusOf(t) == {r.status : r \in {results[k] : k \in {j \in DOMAIN results :
                                                          results[j].setup = t}}}

\* The summary has one result for each treatment that was begun, in order;
\* it is written, and config.workspace handed back, on every way out but an
\* exception that is no PhaseError.
SummaryIsComplete ==
    /\ \A k \in DOMAIN results : results[k].setup = k
    /\ at = "next" => Len(results) = i
    /\ at = "done" =>
          /\ written /\ workspace = Base
          /\ Len(results) = i
          /\ i < NumSetup => opt.stopOnError /\ results[i].status # "success"

\* "Attempt teardown to clean up any partially deployed resources": when a
\* cycle is over, its stack is still up only because of --skip-teardown, or
\* of a teardown that failed, and then the summary calls it a success only
\* under --skip-teardown.
NothingLeftBehind ==
    [][\A t \in Setups :
          (at = "record" /\ i = t /\ t \in up /\ results' # results)
              => \/ opt.skipTeardown
                 \/ ~torn /\ "success" \notin StatusOf(t)']_vars

\* With --stop-on-error nothing is rendered or stood up after a treatment
\* whose setup or run failed, and its failure is the last result.
StopsAfterFailure ==
    opt.stopOnError =>
        \A k \in DOMAIN results :
            results[k].status \in Phases => i = k /\ k = Len(results)

\* experiment/README.md:247, "the experiment aborts on the first failed setup
\* treatment", failed_teardown being a failed status of the summary.
AbortsOnFirstFailure ==
    opt.stopOnError =>
        \A k \in DOMAIN results : results[k].status # "success" => i = k
=============================================================================

------------------------------ MODULE Session ------------------------------
(***************************************************************************)
(* A user's session on one scenario: standup, update and teardown commands *)
(* one after the other (Deployment), and a run against what they have      *)
(* deployed, of which one treatment's collection is followed (Collection). *)
(* The commands do not overlap: the run is the last of them, a bound.      *)
(***************************************************************************)
EXTENDS Deployment, Collection

VARIABLE phase          \* "manage" or "run"

sessionVars == <<deployVars, collectVars, phase>>

SessionTypeOK == DeploymentTypeOK /\ CollectionTypeOK /\ phase \in {"manage", "run"}

\* The controls come with the run command.
NoControls == [compress |-> FALSE, wait |-> FALSE, summary |-> FALSE, collect |-> "skip"]

SessionInit ==
    /\ DeployInit
    /\ CollectInit /\ want = NoControls
    /\ phase = "manage"

\* A run looks for the endpoint of every stack and fails without one; step
\* 04 asks it for the model.
Deployed == \A s \in Stacks : Releases \subseteq installed[s]

\* The run is of the scenario as the first command has deployed it, without
\* flags, which the collection knows nothing of: a bound.
StartRun ==
    /\ phase = "manage" /\ stage = "idle"
    /\ Deployed
    /\ commands = 1 /\ intent = NoFlags /\ unsure = {} /\ ~told /\ ~astray
    /\ phase' = "run"
    /\ want' \in Controls /\ writer' = Started(want')
    /\ UNCHANGED <<deployVars, written, pvcVars, scriptVars, driverVars, copyVars>>

Manage == phase = "manage" /\ DeployNext /\ UNCHANGED <<collectVars, phase>>

RunStep(A) == phase = "run" /\ A /\ UNCHANGED <<deployVars, phase>>

SessionNext == StartRun \/ Manage \/ RunStep(CollectNext)

\* The driver's thread runs on, and so does the script until it dies; no
\* user has to type a command.
SessionSpec ==
    /\ SessionInit /\ [][SessionNext]_sessionVars
    /\ WF_sessionVars(RunStep(Collect)) /\ WF_sessionVars(RunStep(ScriptStep))

\* A run that has started comes to the end of its collection, whatever pods,
\* streams and the remote script do: no wait of the driver is for ever.
CollectionEnds == phase = "run" ~> driver = "over"
=============================================================================

----------------------------- MODULE Deployment -----------------------------
(***************************************************************************)
(* What a sequence of standup, update and teardown commands does to the    *)
(* stacks of one scenario in one namespace (cli.py, update/, utilities/    *)
(* standup_parameters.py and the steps of standup and teardown): the flags *)
(* each component was last applied with, and the Secret in which they are  *)
(* recorded for the next update to reuse.                                  *)
(*                                                                         *)
(* A flag is a --set pair, a selector with a key; an option such as --wva  *)
(* is a pair of the global selector.  Kept are the modelservice components *)
(* and step 04, which prepares the namespace for all stacks.  Step 06 only *)
(* writes the files 07 and 08 apply: a -s that has these two is taken to   *)
(* have it as well.  Commands do not overlap.                              *)
(***************************************************************************)
EXTENDS Integers, FiniteSets

CONSTANTS Stacks,
          Keys,         \* top-level config keys, none of class DANGEROUS
          Owners,       \* KEY_COMPONENTS: the components a key reaches
          MaxValue,     \* the values given on the command line are 1..MaxValue
          Pairs,        \* the pairs tried, one at most in a command: a bound
          Filters,      \* the --stack options tried, {} being none: a bound
          Overrides,    \* the -s options tried, {} being none: a bound
          MaxCommands   \* commands in one session, a bound

Components == {"namespace", "epp", "vllm"}
Releases == {"epp", "vllm"}             \* {label}-router and {label}-ms
Selectors == Stacks \cup {"*"}
Values == 0..MaxValue                   \* 0: no flag, the scenario's own value

ASSUME DeploymentAssumption ==
    /\ IsFiniteSet(Stacks) /\ Stacks # {} /\ "*" \notin Stacks
    /\ Owners \in [Keys -> SUBSET Components]
    /\ MaxValue \in Nat \ {0} /\ MaxCommands \in Nat
    /\ Pairs \subseteq (Stacks \cup {"*"}) \X Keys
    /\ Filters \subseteq SUBSET Stacks /\ Overrides \subseteq SUBSET {4, 7, 8}

Flags == [Selectors -> [Keys -> Values]]

NoFlags == [sel \in Selectors |-> [k \in Keys |-> 0]]

VARIABLES
    installed,  \* stack -> the components it has
    runs,       \* stack, component -> key -> the value it was applied with
    secret,     \* the recorded flags, and the --stack they were given with
    stage,      \* where the command is
    cmd,        \* the command
    todo,       \* stack -> the per-stack steps it has still to run
    broken,     \* a step of the command has failed
    commands,   \* how many commands were accepted
    intent,     \* history: the flags as the user last typed them
    unsure,     \* history: the flags some failed command was to change
    told,       \* history: a warning, or an option, has said that flags are
                \* reverted or not kept, or that -s leaves out steps that the
                \* change needs
    astray      \* history: a standup left steps out, or recorded nothing,
                \* without such a warning

clusterState == <<installed, runs, secret>>
commandState == <<stage, cmd, todo, broken, commands>>
history == <<intent, unsure, told, astray>>
deployVars == <<clusterState, commandState, history>>

Secrets == [there : BOOLEAN, flags : Flags, stacks : SUBSET Stacks]

NoSecret == [there |-> FALSE, flags |-> NoFlags, stacks |-> {}]

Commands ==
    [kind : {"none", "standup", "update", "teardown"}, flags : Flags,
     filter : SUBSET Stacks, whole : BOOLEAN, force : BOOLEAN, record : BOOLEAN,
     warned : BOOLEAN, stake : SUBSET (Selectors \X Keys)]

NoCommand ==
    [kind |-> "none", flags |-> NoFlags, filter |-> {}, whole |-> FALSE,
     force |-> FALSE, record |-> FALSE, warned |-> FALSE, stake |-> {}]

DeploymentTypeOK ==
    /\ installed \in [Stacks -> SUBSET Components]
    /\ runs \in [Stacks -> [Components -> [Keys -> Values]]]
    /\ secret \in Secrets
    /\ stage \in {"idle", "namespace", "stacks", "helm", "harness"}
    /\ cmd \in Commands
    /\ todo \in [Stacks -> SUBSET {7, 8}]
    /\ broken \in BOOLEAN
    /\ commands \in 0..MaxCommands
    /\ intent \in Flags
    /\ unsure \in SUBSET (Selectors \X Keys)
    /\ told \in BOOLEAN /\ astray \in BOOLEAN

Unset == [k \in Keys |-> 0]

DeployInit ==
    /\ installed = [s \in Stacks |-> {}]
    /\ runs = [s \in Stacks |-> [c \in Components |-> Unset]]
    /\ secret = NoSecret
    /\ stage = "idle" /\ cmd = NoCommand
    /\ todo = [s \in Stacks |-> {}] /\ broken = FALSE /\ commands = 0
    /\ intent = NoFlags /\ unsure = {} /\ told = FALSE /\ astray = FALSE

-----------------------------------------------------------------------------
(* Rendering and scope.                                                    *)

Given(flags) == {p \in Selectors \X Keys : flags[p[1]][p[2]] # 0}

Typed == {f \in Flags : Given(f) \subseteq Pairs /\ Cardinality(Given(f)) <= 1}

\* A pair for the stack beats one for all of them.
Effective(flags, s, k) == IF flags[s][k] # 0 THEN flags[s][k] ELSE flags["*"][k]

\* What the component of a stack is rendered with; it reads no other keys.
Rendered(flags, s, c) ==
    [k \in Keys |-> IF c \in Owners[k] THEN Effective(flags, s, k) ELSE 0]

\* "Stored pairs go first: the later pair wins."
Over(typed, stored) ==
    [sel \in Selectors |-> [k \in Keys |->
        IF typed[sel][k] # 0 THEN typed[sel][k] ELSE stored[sel][k]]]

\* --stack, {} being no filter.
Scope(filter) == IF filter = {} THEN Stacks ELSE filter

COMPONENT_STEPS == [namespace |-> 4, epp |-> 7, vllm |-> 8]

StepsOf(pairs) == {COMPONENT_STEPS[c] : c \in UNION {Owners[p[2]] : p \in pairs}}

\* The steps of the components in DANGEROUS_COMPONENTS.
DangerousSteps == {4}

\* What is in doubt if the command fails: the pairs an update is to change;
\* all of them after a standup, which has recorded what it may not have
\* applied.
Stake(kind) ==
    {p \in Selectors \X Keys :
        kind = "standup" \/ intent'[p[1]][p[2]] # intent[p[1]][p[2]]}

Begin(kind, flags, filter, steps, force, record, warned) ==
    /\ cmd' = [kind |-> kind, flags |-> flags, filter |-> filter,
               whole |-> steps = {4, 7, 8}, force |-> force, record |-> record,
               warned |-> warned, stake |-> Stake(kind)]
    /\ stage' = IF 4 \in steps THEN "namespace" ELSE "stacks"
    /\ todo' = [s \in Stacks |-> IF s \in Scope(filter) THEN steps \cap {7, 8} ELSE {}]
    /\ broken' = FALSE
    /\ commands' = commands + 1

-----------------------------------------------------------------------------
(* The commands.                                                           *)

\* All the steps, or those of -s.
Standup(typed, filter, override) ==
    /\ intent' = typed
    /\ Begin("standup", typed, filter, IF override = {} THEN {4, 7, 8} ELSE override,
             FALSE, TRUE, FALSE)
    /\ UNCHANGED <<clusterState, unsure, told, astray>>

\* Whether the stored flags describe the stacks of this update.
Covered(filter) ==
    secret.stacks = {} \/ (filter # {} /\ filter \subseteq secret.stacks)

\* The stored flags tell what has changed, and are not rendered with.
RegressedReuse(typed, filter, reuse) ==
    [flags   |-> typed,
     changed |-> {p \in Given(typed) : typed[p[1]][p[2]] # secret.flags[p[1]][p[2]]},
     record  |-> ~secret.there \/ filter = secret.stacks,
     warned  |-> ~reuse \/ ~secret.there \/ filter # secret.stacks]

\* reuse_invocation: what the update renders from, the pairs that differ
\* from the stored ones, whether it is recorded, whether it has warned.
Reuse(typed, filter, reuse) ==
    IF ~secret.there
       THEN [flags |-> typed, changed |-> Given(typed), record |-> TRUE, warned |-> TRUE]
    ELSE IF ~Covered(filter)
       THEN [flags |-> typed, changed |-> Given(typed), record |-> FALSE, warned |-> TRUE]
    ELSE [flags   |-> IF reuse THEN Over(typed, secret.flags) ELSE typed,
          changed |-> {p \in Given(typed) : typed[p[1]][p[2]] # secret.flags[p[1]][p[2]]},
          record  |-> filter = secret.stacks,
          warned  |-> ~reuse \/ filter # secret.stacks]

\* The read failed: under --no-reuse-invocation the update goes on without.
Unread(typed) ==
    [flags |-> typed, changed |-> Given(typed), record |-> TRUE, warned |-> TRUE]

\* resolve_scope: something is to change, and nothing for a stack left out.
InScope(changed, filter, override) ==
    /\ changed # {} \/ override # {}
    /\ filter # {} => \A p \in changed : p[1] \in filter \cup {"*"}

\* The check looks at the keys and not at -s.
RegressedForced(changed, override, force) ==
    StepsOf(changed) \cap DangerousSteps # {} => force

\* resolve_scope and step_spec: no spelling of a change gets past --force.
Forced(changed, override, force) ==
    (StepsOf(changed) \cup override) \cap DangerousSteps # {} => force

\* missing_stacks: no stack in scope without a release, unless helm cannot
\* list them and the check is skipped.
NoneMissing(filter) == \A s \in Scope(filter) : installed[s] \cap Releases # {}

Update(typed, filter, reuse, override, force) ==
    /\ intent' = Over(typed, intent)
    /\ \E r \in {Reuse(typed, filter, reuse)}
                  \cup {u \in {Unread(typed)} : ~reuse},
          listed \in BOOLEAN :
          LET steps == IF override = {} THEN StepsOf(r.changed) ELSE override
          IN  /\ InScope(r.changed, filter, override)
              /\ Forced(r.changed, override, force)
              /\ (listed /\ steps # {}) => NoneMissing(filter)
              /\ Begin("update", r.flags, filter, steps, force, r.record,
                       r.warned \/ ~listed \/ ~(StepsOf(r.changed) \subseteq steps))
    /\ UNCHANGED <<clusterState, unsure, told, astray>>

\* Steps 01 and 02, or the one of -s.
Teardown(filter, steps) ==
    /\ cmd' = [NoCommand EXCEPT !.kind = "teardown", !.filter = filter,
                                !.whole = (steps = {1, 2})]
    /\ stage' = IF 1 \in steps THEN "helm" ELSE "harness"
    /\ commands' = commands + 1
    /\ UNCHANGED <<clusterState, todo, broken, history>>

-----------------------------------------------------------------------------
(* The steps of standup and update.                                        *)

Apply(s, c) == runs' = [runs EXCEPT ![s][c] = Rendered(cmd.flags, s, c)]

Install(s, c) == installed' = [installed EXCEPT ![s] = @ \cup {c}]

\* Step 04 prepares every rendered stack, whatever --stack says; a failure
\* may come before or after the resources were applied, and ends the phase.
ModelNamespace ==
    /\ stage = "namespace"
    /\ \E applied, ok \in BOOLEAN :
          /\ ok => applied
          /\ IF applied
                THEN /\ runs' = [s \in Stacks |->
                           [runs[s] EXCEPT !["namespace"] = Rendered(cmd.flags, s, "namespace")]]
                     /\ installed' = [s \in Stacks |-> installed[s] \cup {"namespace"}]
                ELSE UNCHANGED <<runs, installed>>
          /\ broken' = ~ok
          /\ todo' = IF ok THEN todo ELSE [s \in Stacks |-> {}]
    /\ stage' = "stacks"
    /\ UNCHANGED <<secret, cmd, commands, history>>

Finish(s, step, ok) ==
    /\ broken' = (broken \/ ~ok)
    /\ todo' = [todo EXCEPT ![s] = IF ok THEN @ \ {step} ELSE {}]

\* Step 07 in one stack.
DeployRouter(s) ==
    /\ stage = "stacks" /\ 7 \in todo[s]
    /\ \E applied, ok \in BOOLEAN :
          /\ ok => applied
          /\ IF applied THEN Apply(s, "epp") /\ Install(s, "epp")
                        ELSE UNCHANGED <<runs, installed>>
          /\ Finish(s, 7, ok)
    /\ UNCHANGED <<secret, stage, cmd, commands, history>>

\* invocation_params, or the stored flags when the update is not recorded.
Recorded ==
    IF cmd.record THEN [there |-> TRUE, flags |-> cmd.flags, stacks |-> cmd.filter]
                  ELSE secret

\* A write that fails is warned about.  When the ConfigMap before it fails the
\* Secret is not written either, and the warning is about benchmark reports.
WriteSecret ==
    \/ secret' = Recorded /\ UNCHANGED cmd
    \/ UNCHANGED secret /\ cmd' = [cmd EXCEPT !.warned = TRUE]
    \/ UNCHANGED <<secret, cmd>>

\* Step 08 in one stack: it writes the Secret whether the deployment has
\* worked or not, unless its checks stop it before or an exception ends it,
\* which looks like a ConfigMap that failed.
DeployModelservice(s) ==
    /\ stage = "stacks" /\ 8 \in todo[s] /\ 7 \notin todo[s]
    /\ \E applied, ok \in BOOLEAN :
          /\ ok => applied
          /\ IF applied THEN Apply(s, "vllm") /\ Install(s, "vllm")
                        ELSE UNCHANGED <<runs, installed>>
          /\ Finish(s, 8, ok)
    /\ WriteSecret
    /\ UNCHANGED <<stage, commands, history>>

\* _check_priority_class.
RefuseModelservice(s) ==
    /\ stage = "stacks" /\ 8 \in todo[s] /\ 7 \notin todo[s]
    /\ Finish(s, 8, FALSE)
    /\ UNCHANGED <<clusterState, stage, cmd, commands, history>>

StepsOver == stage = "stacks" /\ \A s \in Stacks : todo[s] = {}

Idle == stage' = "idle" /\ cmd' = NoCommand /\ UNCHANGED <<todo, broken, commands, installed, runs>>

\* has_errors: nothing is recorded beyond what step 08 has written.
Fail ==
    /\ StepsOver /\ broken
    /\ unsure' = unsure \cup cmd.stake
    /\ told' = (told \/ cmd.warned)
    /\ Idle
    /\ UNCHANGED <<secret, intent, astray>>

\* A whole standup of all stacks that is recorded puts right whatever was
\* wrong before it.
StandupEnds ==
    /\ StepsOver /\ ~broken /\ cmd.kind = "standup"
    /\ LET kept == cmd.whole /\ secret = Recorded
       IN  IF kept /\ cmd.filter = {}
              THEN told' = cmd.warned /\ unsure' = {} /\ astray' = FALSE
              ELSE /\ told' = (told \/ cmd.warned)
                   /\ astray' = (astray \/ ~(kept \/ cmd.warned))
                   /\ UNCHANGED unsure
    /\ Idle
    /\ UNCHANGED <<secret, intent>>

\* The flags of an update are left for step 08 to record.
RegressedUpdateEnds ==
    /\ StepsOver /\ ~broken /\ cmd.kind = "update"
    /\ told' = (told \/ cmd.warned)
    /\ Idle
    /\ UNCHANGED <<secret, intent, unsure, astray>>

\* _record_update, which only warns when it cannot write.
UpdateEnds ==
    /\ StepsOver /\ ~broken /\ cmd.kind = "update"
    /\ \/ secret' = Recorded /\ told' = (told \/ cmd.warned)
       \/ cmd.record /\ UNCHANGED secret /\ told' = TRUE
    /\ Idle
    /\ UNCHANGED <<intent, unsure, astray>>

-----------------------------------------------------------------------------
(* The steps of teardown.                                                  *)

\* Step 01: the releases of every rendered stack, --stack or not, and those
\* known by their chart; whatever fails, be it the listing, ends the phase,
\* and so may -s.
UninstallHelm ==
    /\ stage = "helm"
    /\ \E left \in [Stacks -> SUBSET Releases] :
          /\ \A s \in Stacks : left[s] \subseteq installed[s]
          /\ installed' = [s \in Stacks |-> (installed[s] \ Releases) \cup left[s]]
          /\ runs' = [s \in Stacks |-> [c \in Components |->
                        IF c \in installed'[s] THEN runs[s][c] ELSE Unset]]
          /\ \/ left = [s \in Stacks |-> {}] /\ cmd.whole
                /\ stage' = "harness" /\ UNCHANGED cmd
             \/ stage' = "idle" /\ cmd' = NoCommand
    /\ UNCHANGED <<secret, todo, broken, commands, history>>

\* Step 02: the Secret goes; that its deletion failed is not noticed.  The
\* steps after it, without --deep, leave what step 04 of standup prepared.
CleanHarness ==
    /\ stage = "harness"
    /\ secret' \in {secret, NoSecret}
    /\ stage' = "idle" /\ cmd' = NoCommand
    /\ UNCHANGED <<installed, runs, todo, broken, commands, history>>

-----------------------------------------------------------------------------

\* One at a time.
Command ==
    /\ stage = "idle" /\ commands < MaxCommands
    /\ \E filter \in Filters :
          \/ \E typed \in Typed, override \in Overrides : Standup(typed, filter, override)
          \/ \E typed \in Typed, reuse, force \in BOOLEAN, override \in Overrides :
                Update(typed, filter, reuse, override, force)
          \/ \E steps \in {{1, 2}, {1}, {2}} : Teardown(filter, steps)

Step ==
    \/ ModelNamespace
    \/ \E s \in Stacks : DeployRouter(s) \/ DeployModelservice(s) \/ RefuseModelservice(s)
    \/ Fail \/ StandupEnds \/ UpdateEnds
    \/ UninstallHelm \/ CleanHarness

DeployNext == Command \/ Step

DeploySpec == DeployInit /\ [][DeployNext]_deployVars

-----------------------------------------------------------------------------
(* Properties.                                                             *)

Unsure(k) == \E sel \in Selectors : <<sel, k>> \in unsure

\* "A flag the original standup passed and this invocation omits would
\* therefore revert that knob" (update/README.md:108): what an update changes
\* in a component, it changes to what the user last asked for, in whatever
\* command.  Three things set a key, or all of them, apart: a failed command
\* that was to change it, a warning that says so, and a standup that -s or a
\* ConfigMap that failed kept from applying and recording one and the same;
\* a whole standup of all stacks puts an end to each.
NoSilentRevert ==
    [][\A s \in Stacks, c \in Components, k \in Keys :
          (/\ cmd.kind = "update" /\ ~told /\ ~cmd.warned /\ ~astray /\ ~Unsure(k)
           /\ runs'[s][c][k] # runs[s][c][k])
              => runs'[s][c][k] = Effective(intent, s, k)]_deployVars

\* The Secret tells how the stacks run: between commands, what a component
\* runs with is what the recorded flags render, with the same exceptions.
SecretTellsTheTruth ==
    (stage = "idle" /\ secret.there /\ ~told /\ ~astray) =>
        \A s \in Scope(secret.stacks), k \in Keys :
            \A c \in installed[s] :
                (c \in Owners[k] /\ ~Unsure(k)) =>
                    runs[s][c][k] = Effective(secret.flags, s, k)

\* update/README.md:110, "To avoid that, standup records its render-affecting
\* flags in the in-cluster llm-d-benchmark-standup-invocation Secret": what
\* NoSilentRevert promises, of every standup that has succeeded.
StandupsAreRecorded ==
    [][\A s \in Stacks, c \in Components, k \in Keys :
          (/\ cmd.kind = "update" /\ ~told /\ ~cmd.warned /\ ~Unsure(k)
           /\ runs'[s][c][k] # runs[s][c][k])
              => runs'[s][c][k] = Effective(intent, s, k)]_deployVars

\* "--stack is the stronger of the two: it stops the sibling's releases from
\* being re-applied at all", and "no spelling of a change gets past"
\* --force: what an update changes without it is a release of a stack in
\* scope; and it does not half-create a stack that was never stood up.
UpdateStaysInScope ==
    [][\A s \in Stacks :
          cmd.kind = "update" =>
              /\ \A c \in Components : runs'[s][c] # runs[s][c] =>
                    cmd.force \/ (s \in Scope(cmd.filter) /\ c # "namespace")
              /\ (installed[s] \cap Releases = {} /\ ~cmd.warned) =>
                    installed'[s] \cap Releases = {}]_deployVars

\* README.md:492, "Restrict teardown to the named subset. Useful for
\* removing one pool from a multi-stack scenario while leaving siblings in
\* place": a teardown with --stack uninstalls no other stack's releases.
TeardownSparesSiblings ==
    [][\A s \in Stacks :
          (stage = "helm" /\ cmd.filter # {} /\ s \notin cmd.filter) =>
              installed'[s] = installed[s]]_deployVars

=============================================================================

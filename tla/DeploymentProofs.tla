-------------------------- MODULE DeploymentProofs --------------------------
(***************************************************************************)
(* Proofs about Deployment, for every set of stacks and keys, every table  *)
(* of owners and every session of commands.                                *)
(***************************************************************************)
EXTENDS Deployment, TLAPS

\* The component is still to be applied by the command.
Pending(s, c) ==
    \/ c = "namespace" /\ stage = "namespace"
    \/ c = "epp" /\ 7 \in todo[s]
    \/ c = "vllm" /\ 8 \in todo[s]

Same(f, g, k) == \A sel \in Selectors : f[sel][k] = g[sel][k]

Staked(k) == \E sel \in Selectors : <<sel, k>> \in cmd.stake

Reaches(s, c, k) == c \in installed[s] /\ c \in Owners[k]

AsTyped(s, c, k) == runs[s][c][k] = Effective(intent, s, k)

StageOK ==
    /\ stage = "idle" <=> cmd.kind = "none"
    /\ stage \in {"helm", "harness"} <=> cmd.kind = "teardown"
    /\ \A s \in Stacks : todo[s] # {} =>
          s \in Scope(cmd.filter) /\ stage \in {"namespace", "stacks"}
    /\ stage = "namespace" => ~broken

ScopeOK ==
    cmd.kind = "update" =>
        /\ stage = "namespace" => cmd.force
        /\ ~cmd.warned => \A s \in Stacks :
              todo[s] # {} => installed[s] \cap Releases # {}

OwnedOK ==
    \A s \in Stacks, c \in Components, k \in Keys :
        c \notin Owners[k] => runs[s][c][k] = 0

\* Between commands, and during a teardown.
BetweenOK ==
    (cmd.kind \in {"none", "teardown"} /\ secret.there /\ ~told /\ ~astray) =>
        \A k \in Keys : ~Unsure(k) =>
            /\ Same(secret.flags, intent, k)
            /\ \A s \in Scope(secret.stacks), c \in Components :
                  Reaches(s, c, k) => AsTyped(s, c, k)

StandupOK ==
    cmd.kind = "standup" =>
        /\ cmd.flags = intent /\ cmd.record /\ cmd.stake = Selectors \X Keys
        /\ (cmd.whole /\ ~broken) =>
              \A s \in Scope(cmd.filter), c \in Components, k \in Keys :
                  (c \in Owners[k] /\ ~Pending(s, c)) => AsTyped(s, c, k)

\* An update that has not warned: what it is to change has been applied, is
\* still to be, or has failed.
UpdateOK ==
    (cmd.kind = "update" /\ ~told /\ ~cmd.warned /\ ~astray) =>
        /\ secret.there /\ cmd.record /\ cmd.filter = secret.stacks
        /\ \A k \in Keys : ~Unsure(k) =>
              /\ Same(cmd.flags, intent, k)
              /\ ~Staked(k) => Same(secret.flags, intent, k)
              /\ \A s \in Scope(cmd.filter), c \in Components :
                    Reaches(s, c, k) =>
                        AsTyped(s, c, k) \/ (Staked(k) /\ (broken \/ Pending(s, c)))

DInv ==
    /\ DeploymentTypeOK
    /\ StageOK /\ ScopeOK /\ OwnedOK /\ BetweenOK /\ StandupOK /\ UpdateOK

-----------------------------------------------------------------------------
(* Types.                                                                  *)

LEMMA TypedFlags == \A f \in Typed : f \in Flags
  BY DEF Typed

LEMMA ZeroIsValue == 0 \in Values
  BY DeploymentAssumption DEF DeploymentAssumption, Values

LEMMA NoFlagsType == NoFlags \in Flags
  BY ZeroIsValue DEF NoFlags, Flags

LEMMA OverType ==
  ASSUME NEW f \in Flags, NEW g \in Flags
  PROVE  Over(f, g) \in Flags
  BY DEF Over, Flags

LEMMA EffectiveType ==
  ASSUME NEW f \in Flags, NEW s \in Stacks, NEW k \in Keys
  PROVE  Effective(f, s, k) \in Values
  BY DEF Effective, Flags, Selectors

LEMMA RenderedType ==
  ASSUME NEW f \in Flags, NEW s \in Stacks, NEW c \in Components
  PROVE  Rendered(f, s, c) \in [Keys -> Values]
  BY EffectiveType, ZeroIsValue DEF Rendered

LEMMA StepsOfType ==
  ASSUME NEW pairs \in SUBSET (Selectors \X Keys)
  PROVE  StepsOf(pairs) \in SUBSET {4, 7, 8}
<1>1. UNION {Owners[p[2]] : p \in pairs} \subseteq Components
  BY DeploymentAssumption DEF DeploymentAssumption
<1> QED
  BY <1>1 DEF StepsOf, COMPONENT_STEPS, Components

LEMMA GivenType == \A f : Given(f) \in SUBSET (Selectors \X Keys)
  BY DEF Given

Changed(typed) == {p \in Given(typed) : typed[p[1]][p[2]] # secret.flags[p[1]][p[2]]}

\* What the flags of an update can be, and what one without a warning is.
LEMMA ReuseFacts ==
  ASSUME DeploymentTypeOK, NEW typed \in Flags, NEW filter \in SUBSET Stacks,
         NEW reuse \in BOOLEAN,
         NEW r \in {Reuse(typed, filter, reuse)} \cup {u \in {Unread(typed)} : ~reuse}
  PROVE  /\ r.flags \in Flags /\ r.changed \in SUBSET (Selectors \X Keys)
         /\ r.record \in BOOLEAN /\ r.warned \in BOOLEAN
         /\ ~r.warned =>
               /\ secret.there /\ filter = secret.stacks /\ r.record
               /\ r.flags = Over(typed, secret.flags)
               /\ r.changed = Changed(typed)
<1> USE DEF Reuse, Changed
<1>1. secret.flags \in Flags /\ Over(typed, secret.flags) \in Flags
  BY OverType DEF DeploymentTypeOK, Secrets
<1>2. Given(typed) \in SUBSET (Selectors \X Keys)
  BY GivenType
<1>3. CASE r = Unread(typed)
  BY <1>2, <1>3 DEF Unread
<1>4. CASE r = Reuse(typed, filter, reuse) /\ ~secret.there
  BY <1>2, <1>4
<1>5. CASE r = Reuse(typed, filter, reuse) /\ secret.there /\ ~Covered(filter)
  BY <1>2, <1>5
<1>6. CASE r = Reuse(typed, filter, reuse) /\ secret.there /\ Covered(filter)
  <2>1. /\ r.flags = (IF reuse THEN Over(typed, secret.flags) ELSE typed)
        /\ r.changed = Changed(typed)
        /\ r.record = (filter = secret.stacks)
        /\ r.warned = (~reuse \/ filter # secret.stacks)
    BY <1>6
  <2>2. r.flags \in Flags /\ r.changed \in SUBSET (Selectors \X Keys)
    BY <1>1, <1>2, <2>1
  <2>3. r.record \in BOOLEAN /\ r.warned \in BOOLEAN
    BY <2>1, Zenon
  <2>4. ASSUME ~r.warned
        PROVE  reuse /\ filter = secret.stacks
    BY <2>1, <2>4, Zenon
  <2> QED BY <1>6, <2>1, <2>2, <2>3, <2>4
<1> QED
  BY <1>3, <1>4, <1>5, <1>6

UpdateBegun(typed, filter, steps) ==
    /\ intent' = Over(typed, intent)
    /\ cmd' \in Commands
    /\ cmd'.kind = "update" /\ cmd'.filter = filter /\ cmd'.stake = Stake("update")
    /\ 4 \in steps => cmd'.force
    /\ stage' = IF 4 \in steps THEN "namespace" ELSE "stacks"
    /\ todo' = [s \in Stacks |-> IF s \in Scope(filter) THEN steps \cap {7, 8} ELSE {}]
    /\ broken' = FALSE /\ commands' = commands + 1
    /\ ~cmd'.warned =>
          /\ secret.there /\ filter = secret.stacks /\ cmd'.record
          /\ cmd'.flags = Over(typed, secret.flags)
          /\ StepsOf(Changed(typed)) \subseteq steps
          /\ steps # {} => NoneMissing(filter)
    /\ UNCHANGED <<clusterState, unsure, told, astray>>

LEMMA StakeType == \A kind : Stake(kind) \in SUBSET (Selectors \X Keys)
  BY DEF Stake

LEMMA UpdateFacts ==
  ASSUME DeploymentTypeOK, NEW typed \in Flags, NEW filter \in SUBSET Stacks,
         NEW reuse \in BOOLEAN, NEW override \in SUBSET {4, 7, 8}, NEW force \in BOOLEAN,
         Update(typed, filter, reuse, override, force)
  PROVE  \E steps \in SUBSET {4, 7, 8} : UpdateBegun(typed, filter, steps)
<1>1. PICK r \in {Reuse(typed, filter, reuse)} \cup {u \in {Unread(typed)} : ~reuse},
           listed \in BOOLEAN :
        LET steps == IF override = {} THEN StepsOf(r.changed) ELSE override
        IN  /\ InScope(r.changed, filter, override)
            /\ Forced(r.changed, override, force)
            /\ (listed /\ steps # {}) => NoneMissing(filter)
            /\ Begin("update", r.flags, filter, steps, force, r.record,
                     r.warned \/ ~listed \/ ~(StepsOf(r.changed) \subseteq steps))
  BY DEF Update
<1> DEFINE steps == IF override = {} THEN StepsOf(r.changed) ELSE override
           warned == r.warned \/ ~listed \/ ~(StepsOf(r.changed) \subseteq steps)
<1>2. /\ r.flags \in Flags /\ r.changed \in SUBSET (Selectors \X Keys)
      /\ r.record \in BOOLEAN /\ r.warned \in BOOLEAN
      /\ ~r.warned =>
            /\ secret.there /\ filter = secret.stacks /\ r.record
            /\ r.flags = Over(typed, secret.flags)
            /\ r.changed = Changed(typed)
  BY ReuseFacts
<1>3. steps \in SUBSET {4, 7, 8}
  BY <1>2, StepsOfType
<1>4. 4 \in steps => force
  BY <1>1 DEF Forced, DangerousSteps
<1>5. warned \in BOOLEAN
  BY <1>2, Zenon
<1>6. Begin("update", r.flags, filter, steps, force, r.record, warned)
  BY <1>1
<1>7. (listed /\ steps # {}) => NoneMissing(filter)
  BY <1>1
<1> HIDE DEF steps, warned
<1>8. cmd' = [kind |-> "update", flags |-> r.flags, filter |-> filter,
              whole |-> steps = {4, 7, 8}, force |-> force, record |-> r.record,
              warned |-> warned, stake |-> Stake("update")]
  BY <1>6 DEF Begin
<1>9. cmd' \in Commands
  BY <1>2, <1>5, <1>8, StakeType DEF Commands
<1>10. ~warned => ~r.warned /\ listed /\ StepsOf(r.changed) \subseteq steps
  BY DEF warned
<1>11. UpdateBegun(typed, filter, steps)
  <2>1. /\ intent' = Over(typed, intent)
        /\ UNCHANGED <<clusterState, unsure, told, astray>>
    BY DEF Update
  <2>2. /\ stage' = IF 4 \in steps THEN "namespace" ELSE "stacks"
        /\ todo' = [s \in Stacks |-> IF s \in Scope(filter) THEN steps \cap {7, 8} ELSE {}]
        /\ broken' = FALSE /\ commands' = commands + 1
    BY <1>6 DEF Begin
  <2>3. /\ cmd'.kind = "update" /\ cmd'.filter = filter /\ cmd'.stake = Stake("update")
        /\ cmd'.force = force /\ cmd'.warned = warned /\ cmd'.flags = r.flags
        /\ cmd'.record = r.record
    BY <1>8
  <2>4. ~cmd'.warned =>
          /\ secret.there /\ filter = secret.stacks /\ cmd'.record
          /\ cmd'.flags = Over(typed, secret.flags)
          /\ StepsOf(Changed(typed)) \subseteq steps
          /\ steps # {} => NoneMissing(filter)
    BY <1>2, <1>7, <1>10, <2>3
  <2> QED BY <1>4, <1>9, <2>1, <2>2, <2>3, <2>4 DEF UpdateBegun
<1> QED
  BY <1>3, <1>11

StandupBegun(typed, filter, steps) ==
    /\ intent' = typed
    /\ cmd' \in Commands
    /\ cmd'.kind = "standup" /\ cmd'.filter = filter /\ cmd'.flags = typed
    /\ cmd'.stake = Selectors \X Keys /\ cmd'.record = TRUE
    /\ cmd'.whole => steps = {4, 7, 8}
    /\ stage' = IF 4 \in steps THEN "namespace" ELSE "stacks"
    /\ todo' = [s \in Stacks |-> IF s \in Scope(filter) THEN steps \cap {7, 8} ELSE {}]
    /\ broken' = FALSE /\ commands' = commands + 1
    /\ UNCHANGED <<clusterState, unsure, told, astray>>

LEMMA StandupFacts ==
  ASSUME NEW typed \in Flags, NEW filter \in SUBSET Stacks, NEW override \in SUBSET {4, 7, 8},
         Standup(typed, filter, override)
  PROVE  \E steps \in SUBSET {4, 7, 8} : StandupBegun(typed, filter, steps)
<1> DEFINE steps == IF override = {} THEN {4, 7, 8} ELSE override
<1>1. Stake("standup") = Selectors \X Keys
  BY DEF Stake
<1>2. /\ Begin("standup", typed, filter, steps, FALSE, TRUE, FALSE)
      /\ steps \in SUBSET {4, 7, 8}
  BY DEF Standup
<1>3. intent' = typed /\ UNCHANGED <<clusterState, unsure, told, astray>>
  BY DEF Standup
<1> HIDE DEF steps
<1>4. cmd' = [kind |-> "standup", flags |-> typed, filter |-> filter,
              whole |-> steps = {4, 7, 8}, force |-> FALSE, record |-> TRUE,
              warned |-> FALSE, stake |-> Selectors \X Keys]
  BY <1>1, <1>2 DEF Begin
<1>5. cmd' \in Commands
  BY <1>4 DEF Commands
<1>6. /\ cmd'.kind = "standup" /\ cmd'.filter = filter /\ cmd'.flags = typed
      /\ cmd'.stake = Selectors \X Keys /\ cmd'.record = TRUE
      /\ cmd'.whole => steps = {4, 7, 8}
  BY <1>4
<1>7. /\ stage' = IF 4 \in steps THEN "namespace" ELSE "stacks"
      /\ todo' = [s \in Stacks |-> IF s \in Scope(filter) THEN steps \cap {7, 8} ELSE {}]
      /\ broken' = FALSE /\ commands' = commands + 1
  BY <1>2 DEF Begin
<1>8. StandupBegun(typed, filter, steps)
  BY <1>3, <1>5, <1>6, <1>7 DEF StandupBegun
<1> QED
  BY <1>2, <1>8

LEMMA NoCommandType == NoCommand \in Commands
  BY NoFlagsType DEF NoCommand, Commands

\* The runs of a stack with one component applied anew.
LEMMA ApplyType ==
  ASSUME DeploymentTypeOK, NEW s \in Stacks, NEW c \in Components, Apply(s, c), Install(s, c)
  PROVE  /\ installed' \in [Stacks -> SUBSET Components]
         /\ runs' \in [Stacks -> [Components -> [Keys -> Values]]]
<1>1. cmd.flags \in Flags
  BY DEF DeploymentTypeOK, Commands
<1>2. Rendered(cmd.flags, s, c) \in [Keys -> Values]
  BY <1>1, RenderedType
<1> HIDE DEF Components, Values
<1> QED
  BY <1>2 DEF DeploymentTypeOK, Apply, Install

LEMMA RecordedType ==
  ASSUME DeploymentTypeOK
  PROVE  Recorded \in Secrets
  BY DEF DeploymentTypeOK, Recorded, Secrets, Commands

LEMMA TypeInit == DeployInit => DeploymentTypeOK
<1> SUFFICES ASSUME DeployInit
             PROVE  DeploymentTypeOK
  OBVIOUS
<1>1. runs \in [Stacks -> [Components -> [Keys -> Values]]]
  BY ZeroIsValue DEF DeployInit, Unset
<1>2. secret \in Secrets
  BY NoFlagsType DEF DeployInit, NoSecret, Secrets
<1>3. 0 \in 0..MaxCommands
  BY DeploymentAssumption DEF DeploymentAssumption
<1> QED
  BY <1>1, <1>2, <1>3, NoCommandType, NoFlagsType DEF DeployInit, DeploymentTypeOK

LEMMA TypeStep ==
  ASSUME DeploymentTypeOK, [DeployNext]_deployVars
  PROVE  DeploymentTypeOK'
<1> USE DEF deployVars, clusterState, commandState, history
<1>1. CASE Command
  <2>1. PICK filter \in Filters :
           \/ \E typed \in Typed, override \in Overrides : Standup(typed, filter, override)
           \/ \E typed \in Typed, reuse, force \in BOOLEAN, override \in Overrides :
                 Update(typed, filter, reuse, override, force)
           \/ \E steps \in {{1, 2}, {1}, {2}} : Teardown(filter, steps)
    BY <1>1 DEF Command
  <2>2. filter \in SUBSET Stacks
    BY DeploymentAssumption DEF DeploymentAssumption
  <2>3. commands + 1 \in 0..MaxCommands
    BY <1>1, DeploymentAssumption DEF DeploymentAssumption, Command, DeploymentTypeOK
  <2>4. ASSUME NEW typed \in Typed, NEW override \in Overrides,
               Standup(typed, filter, override)
        PROVE  DeploymentTypeOK'
    <3>1. typed \in Flags /\ override \in SUBSET {4, 7, 8}
      BY TypedFlags, DeploymentAssumption DEF DeploymentAssumption
    <3>2. PICK steps \in SUBSET {4, 7, 8} : StandupBegun(typed, filter, steps)
      BY <2>2, <2>4, <3>1, StandupFacts
    <3> QED BY <2>3, <3>1, <3>2 DEF DeploymentTypeOK, StandupBegun
  <2>5. ASSUME NEW typed \in Typed, NEW reuse \in BOOLEAN, NEW force \in BOOLEAN,
               NEW override \in Overrides, Update(typed, filter, reuse, override, force)
        PROVE  DeploymentTypeOK'
    <3>1. typed \in Flags /\ override \in SUBSET {4, 7, 8}
      BY TypedFlags, DeploymentAssumption DEF DeploymentAssumption
    <3>2. PICK steps \in SUBSET {4, 7, 8} : UpdateBegun(typed, filter, steps)
      BY <2>2, <2>5, <3>1, UpdateFacts
    <3>3. Over(typed, intent) \in Flags
      BY <3>1, OverType DEF DeploymentTypeOK
    <3> QED BY <2>3, <3>2, <3>3 DEF DeploymentTypeOK, UpdateBegun
  <2>6. ASSUME NEW steps \in {{1, 2}, {1}, {2}}, Teardown(filter, steps)
        PROVE  DeploymentTypeOK'
    <3>1. cmd' \in Commands
      BY <2>2, <2>6, NoCommandType DEF Teardown, Commands
    <3> QED BY <2>3, <2>6, <3>1 DEF DeploymentTypeOK, Teardown
  <2> QED BY <2>1, <2>4, <2>5, <2>6
<1>2. CASE ModelNamespace
  <2>1. cmd.flags \in Flags
    BY DEF DeploymentTypeOK, Commands
  <2>2. \A s \in Stacks : Rendered(cmd.flags, s, "namespace") \in [Keys -> Values]
    BY <2>1, RenderedType DEF Components
  <2>3. installed' \in [Stacks -> SUBSET Components]
    BY <1>2 DEF ModelNamespace, DeploymentTypeOK, Components
  <2>4. runs' \in [Stacks -> [Components -> [Keys -> Values]]]
    <3>1. CASE runs' = runs
      BY <3>1 DEF DeploymentTypeOK
    <3>2. CASE runs' = [s \in Stacks |->
                   [runs[s] EXCEPT !["namespace"] = Rendered(cmd.flags, s, "namespace")]]
      <4>1. ASSUME NEW s \in Stacks
            PROVE  [runs[s] EXCEPT !["namespace"] = Rendered(cmd.flags, s, "namespace")]
                      \in [Components -> [Keys -> Values]]
        BY <2>2 DEF DeploymentTypeOK
      <4> QED BY <3>2, <4>1
    <3> QED BY <1>2, <3>1, <3>2 DEF ModelNamespace
  <2>5. todo' \in [Stacks -> SUBSET {7, 8}]
    BY <1>2 DEF ModelNamespace, DeploymentTypeOK
  <2>6. broken' \in BOOLEAN
    BY <1>2, Zenon DEF ModelNamespace
  <2> QED BY <1>2, <2>3, <2>4, <2>5, <2>6 DEF ModelNamespace, DeploymentTypeOK
<1>3. ASSUME NEW s \in Stacks, DeployRouter(s) \/ DeployModelservice(s) \/ RefuseModelservice(s)
      PROVE  DeploymentTypeOK'
  <2>1. PICK step \in {7, 8}, ok \in BOOLEAN : Finish(s, step, ok)
    BY <1>3 DEF DeployRouter, DeployModelservice, RefuseModelservice
  <2>2. todo' \in [Stacks -> SUBSET {7, 8}]
    BY <2>1 DEF Finish, DeploymentTypeOK
  <2>3. broken' \in BOOLEAN
    BY <2>1, Zenon DEF Finish
  <2>4. /\ installed' \in [Stacks -> SUBSET Components]
        /\ runs' \in [Stacks -> [Components -> [Keys -> Values]]]
    <3>1. CASE UNCHANGED <<runs, installed>>
      BY <3>1 DEF DeploymentTypeOK
    <3>2. CASE \E c \in Components : Apply(s, c) /\ Install(s, c)
      BY <3>2, ApplyType
    <3> QED
      BY <1>3, <3>1, <3>2
         DEF DeployRouter, DeployModelservice, RefuseModelservice, Components
  <2>5. secret' \in Secrets /\ cmd' \in Commands
    <3>1. secret' = secret \/ secret' = Recorded
      BY <1>3 DEF DeployRouter, DeployModelservice, RefuseModelservice, WriteSecret
    <3>2. cmd' = cmd \/ cmd' = [cmd EXCEPT !.warned = TRUE]
      BY <1>3 DEF DeployRouter, DeployModelservice, RefuseModelservice, WriteSecret
    <3> QED BY <3>1, <3>2, RecordedType DEF DeploymentTypeOK, Commands
  <2>6. UNCHANGED <<stage, commands, history>>
    BY <1>3 DEF DeployRouter, DeployModelservice, RefuseModelservice
  <2> QED BY <2>2, <2>3, <2>4, <2>5, <2>6 DEF DeploymentTypeOK
<1>4. CASE Fail \/ StandupEnds \/ UpdateEnds
  <2>1. /\ stage' = "idle" /\ cmd' \in Commands
        /\ UNCHANGED <<todo, broken, commands, installed, runs, intent>>
    BY <1>4, NoCommandType DEF Fail, StandupEnds, UpdateEnds, Idle
  <2>2. secret' \in Secrets
    BY <1>4, RecordedType DEF Fail, StandupEnds, UpdateEnds, DeploymentTypeOK
  <2>3. unsure' \in SUBSET (Selectors \X Keys)
    BY <1>4 DEF Fail, StandupEnds, UpdateEnds, DeploymentTypeOK, Commands
  <2>4. told' \in BOOLEAN
    <3>1. told \in BOOLEAN /\ cmd.warned \in BOOLEAN
      BY DEF DeploymentTypeOK, Commands
    <3>2. told' = (told \/ cmd.warned) \/ told' = cmd.warned \/ told' = TRUE
      BY <1>4 DEF Fail, StandupEnds, UpdateEnds
    <3> QED BY <3>1, <3>2, Zenon
  <2>5. astray' \in BOOLEAN
    <3> DEFINE kept == cmd.whole /\ secret = Recorded
    <3>1. astray' = astray \/ astray' = FALSE \/ astray' = (astray \/ ~(kept \/ cmd.warned))
      BY <1>4 DEF Fail, StandupEnds, UpdateEnds
    <3>2. astray \in BOOLEAN
      BY DEF DeploymentTypeOK
    <3> HIDE DEF kept
    <3> QED BY <3>1, <3>2, Zenon
  <2> QED BY <2>1, <2>2, <2>3, <2>4, <2>5 DEF DeploymentTypeOK
<1>5. CASE UninstallHelm
  <2>1. PICK left \in [Stacks -> SUBSET Releases] :
           /\ installed' = [s \in Stacks |-> (installed[s] \ Releases) \cup left[s]]
           /\ runs' = [s \in Stacks |-> [c \in Components |->
                         IF c \in installed'[s] THEN runs[s][c] ELSE Unset]]
           /\ stage' \in {"harness", "idle"} /\ cmd' \in {cmd, NoCommand}
    BY <1>5 DEF UninstallHelm
  <2>2. installed' \in [Stacks -> SUBSET Components]
    BY <2>1 DEF DeploymentTypeOK, Releases, Components
  <2>3. Unset \in [Keys -> Values]
    BY ZeroIsValue DEF Unset
  <2>4. runs' \in [Stacks -> [Components -> [Keys -> Values]]]
    BY <2>1, <2>3 DEF DeploymentTypeOK
  <2>5. cmd' \in Commands
    BY <2>1, NoCommandType DEF DeploymentTypeOK
  <2>6. UNCHANGED <<secret, todo, broken, commands, history>>
    BY <1>5 DEF UninstallHelm
  <2> QED
    BY <2>1, <2>2, <2>4, <2>5, <2>6 DEF DeploymentTypeOK
<1>6. CASE CleanHarness
  <2>1. NoSecret \in Secrets
    BY NoFlagsType DEF NoSecret, Secrets
  <2> QED BY <1>6, <2>1, NoCommandType DEF CleanHarness, DeploymentTypeOK
<1>7. CASE UNCHANGED deployVars
  BY <1>7 DEF DeploymentTypeOK
<1> QED
  BY <1>1, <1>2, <1>3, <1>4, <1>5, <1>6, <1>7 DEF DeployNext, Step

\* Every variable keeps its type, the count of commands among them.
THEOREM DeploymentTypeCorrect == DeploySpec => []DeploymentTypeOK
<1>1. DeploymentTypeOK /\ [DeployNext]_deployVars => DeploymentTypeOK'
  BY TypeStep
<1> QED
  BY <1>1, TypeInit, PTL DEF DeploySpec

-----------------------------------------------------------------------------
(* The invariant, action by action.                                        *)

LEMMA SameEffective ==
  ASSUME NEW f, NEW g, NEW k, NEW s \in Stacks, Same(f, g, k)
  PROVE  Effective(f, s, k) = Effective(g, s, k)
  BY DEF Same, Effective, Selectors

\* What a component is rendered with, key by key.
LEMMA RenderedAt ==
  ASSUME NEW f, NEW s \in Stacks, NEW c \in Components, NEW k \in Keys
  PROVE  Rendered(f, s, c)[k] = IF c \in Owners[k] THEN Effective(f, s, k) ELSE 0
  BY DEF Rendered

LEMMA ScopeType ==
  ASSUME NEW filter \in SUBSET Stacks
  PROVE  Scope(filter) \subseteq Stacks /\ Scope(filter) # {}
  BY DeploymentAssumption DEF DeploymentAssumption, Scope

LEMMA DInvInit == DeployInit => DInv
<1> SUFFICES ASSUME DeployInit
             PROVE  DInv
  OBVIOUS
<1>1. cmd.kind = "none" /\ secret.there = FALSE
  BY DEF DeployInit, NoCommand, NoSecret
<1>2. StageOK /\ ScopeOK /\ BetweenOK /\ StandupOK /\ UpdateOK
  BY <1>1 DEF DeployInit, StageOK, ScopeOK, BetweenOK, StandupOK, UpdateOK
<1>3. OwnedOK
  BY DEF DeployInit, OwnedOK, Unset
<1> QED
  BY <1>2, <1>3, TypeInit DEF DInv

LEMMA StandupKeeps ==
  ASSUME DInv, stage = "idle", NEW typed \in Flags, NEW filter \in SUBSET Stacks,
         NEW steps \in SUBSET {4, 7, 8}, StandupBegun(typed, filter, steps)
  PROVE  StageOK' /\ ScopeOK' /\ OwnedOK' /\ BetweenOK' /\ StandupOK' /\ UpdateOK'
<1> USE DEF StandupBegun, clusterState
<1>1. StageOK'
  BY DEF StageOK
<1>2. ScopeOK' /\ BetweenOK' /\ UpdateOK'
  BY DEF ScopeOK, BetweenOK, UpdateOK
<1>3. OwnedOK'
  BY DEF DInv, OwnedOK
<1>4. StandupOK'
  <2>1. \A s \in Scope(filter) : todo'[s] = steps \cap {7, 8}
    BY ScopeType
  <2>2. ASSUME cmd'.whole, NEW s \in Scope(filter), NEW c \in Components
        PROVE  Pending(s, c)'
    <3>1. steps = {4, 7, 8} /\ stage' = "namespace"
      BY <2>2
    <3>2. {4, 7, 8} \cap {7, 8} = {7, 8}
      OBVIOUS
    <3> QED BY <2>1, <3>1, <3>2 DEF Pending, Components
  <2> QED BY <2>2 DEF StandupOK
<1> QED
  BY <1>1, <1>2, <1>3, <1>4

LEMMA UpdateKeeps ==
  ASSUME DInv, stage = "idle", NEW typed \in Flags, NEW filter \in SUBSET Stacks,
         NEW steps \in SUBSET {4, 7, 8}, UpdateBegun(typed, filter, steps)
  PROVE  StageOK' /\ ScopeOK' /\ OwnedOK' /\ BetweenOK' /\ StandupOK' /\ UpdateOK'
<1> USE DEF UpdateBegun, clusterState
<1>1. StageOK'
  BY DEF StageOK
<1>2. BetweenOK' /\ StandupOK'
  BY DEF BetweenOK, StandupOK
<1>3. OwnedOK'
  BY DEF DInv, OwnedOK
<1>4. ScopeOK'
  <2>1. ASSUME ~cmd'.warned, NEW s \in Stacks, todo'[s] # {}
        PROVE  installed'[s] \cap Releases # {}
    <3>1. s \in Scope(filter) /\ steps # {}
      BY <2>1
    <3> QED BY <2>1, <3>1 DEF NoneMissing
  <2> QED BY <2>1 DEF ScopeOK
<1>5. UpdateOK'
  <2> SUFFICES ASSUME ~told, ~cmd'.warned, ~astray
               PROVE  UpdateOK'
    BY DEF UpdateOK
  <2>1. /\ secret.there /\ filter = secret.stacks /\ cmd'.record
        /\ cmd'.flags = Over(typed, secret.flags)
        /\ StepsOf(Changed(typed)) \subseteq steps
    OBVIOUS
  <2>2. ASSUME NEW k \in Keys, ~Unsure(k)
        PROVE  /\ Same(secret.flags, intent, k)
               /\ \A s \in Scope(filter), c \in Components :
                     Reaches(s, c, k) => AsTyped(s, c, k)
    BY <2>1, <2>2 DEF DInv, BetweenOK, StageOK
  <2>3. ASSUME NEW k \in Keys, ~Unsure(k)
        PROVE  Same(cmd'.flags, intent', k)
    BY <2>1, <2>2, <2>3 DEF Same, Over
  <2>4. ASSUME NEW k \in Keys, ~Unsure(k), ~Staked(k)'
        PROVE  Same(intent, intent', k)
    <3>1. \A sel \in Selectors : <<sel, k>> \notin Stake("update")
      BY <2>4 DEF Staked
    <3> QED BY <3>1 DEF Stake, Same
  <2>5. ASSUME NEW k \in Keys, ~Unsure(k), Staked(k)',
               NEW s \in Scope(filter), NEW c \in Components, c \in Owners[k]
        PROVE  Pending(s, c)'
    <3>1. PICK sel \in Selectors : <<sel, k>> \in Stake("update")
      BY <2>5 DEF Staked
    <3>2. intent'[sel][k] # intent[sel][k]
      BY <3>1 DEF Stake
    <3>3. typed[sel][k] # 0 /\ typed[sel][k] # intent[sel][k]
      BY <3>2 DEF Over
    <3>4. secret.flags[sel][k] = intent[sel][k]
      BY <2>2, <2>5 DEF Same
    <3>5. <<sel, k>> \in Changed(typed)
      BY <3>3, <3>4 DEF Changed, Given
    <3>6. COMPONENT_STEPS[c] \in steps
      <4>1. c \in UNION {Owners[p[2]] : p \in Changed(typed)}
        BY <2>5, <3>5
      <4>2. COMPONENT_STEPS[c] \in StepsOf(Changed(typed))
        BY <4>1 DEF StepsOf
      <4> QED BY <2>1, <4>2
    <3>7. s \in Stacks /\ todo'[s] = steps \cap {7, 8}
      BY ScopeType
    <3>8. c = "namespace" \/ c = "epp" \/ c = "vllm"
      BY DEF Components
    <3> QED BY <3>6, <3>7, <3>8 DEF Pending, COMPONENT_STEPS
  <2>6. ASSUME NEW k \in Keys, ~Unsure(k), ~Staked(k)',
               NEW s \in Scope(filter), NEW c \in Components, Reaches(s, c, k)
        PROVE  AsTyped(s, c, k)'
    <3>1. AsTyped(s, c, k)
      BY <2>2, <2>6
    <3>2. Effective(intent, s, k) = Effective(intent', s, k)
      BY <2>4, <2>6, SameEffective, ScopeType
    <3> QED BY <3>1, <3>2 DEF AsTyped
  <2>7. ASSUME NEW k \in Keys, ~Unsure(k), ~Staked(k)'
        PROVE  Same(secret.flags, intent', k)
    BY <2>2, <2>4, <2>7 DEF Same
  <2>8. \A k \in Keys : Unsure(k)' <=> Unsure(k)
    BY DEF Unsure
  <2>9. \A s \in Scope(filter), c \in Components, k \in Keys :
           Reaches(s, c, k)' <=> Reaches(s, c, k)
    BY DEF Reaches
  <2>10. ASSUME NEW k \in Keys, ~Unsure(k)', NEW s \in Scope(filter), NEW c \in Components,
                Reaches(s, c, k)'
         PROVE  AsTyped(s, c, k)' \/ (Staked(k)' /\ Pending(s, c)')
    BY <2>5, <2>6, <2>8, <2>9, <2>10 DEF Reaches
  <2> QED
    BY <2>1, <2>3, <2>7, <2>8, <2>10 DEF UpdateOK
<1> QED
  BY <1>1, <1>2, <1>3, <1>4, <1>5

LEMMA TeardownKeeps ==
  ASSUME DInv, stage = "idle", NEW filter \in SUBSET Stacks,
         NEW steps \in {{1, 2}, {1}, {2}}, Teardown(filter, steps)
  PROVE  StageOK' /\ ScopeOK' /\ OwnedOK' /\ BetweenOK' /\ StandupOK' /\ UpdateOK'
<1> USE DEF Teardown, clusterState, history
<1>1. cmd'.kind = "teardown" /\ cmd.kind = "none"
  BY DEF NoCommand, DInv, StageOK
<1>2. StageOK'
  BY <1>1 DEF DInv, StageOK
<1>3. ScopeOK' /\ StandupOK' /\ UpdateOK'
  BY <1>1 DEF ScopeOK, StandupOK, UpdateOK
<1>4. OwnedOK' /\ BetweenOK'
  BY <1>1 DEF DInv, OwnedOK, BetweenOK, Unsure, Reaches, AsTyped
<1> QED
  BY <1>2, <1>3, <1>4

LEMMA NamespaceKeeps ==
  ASSUME DInv, ModelNamespace
  PROVE  StageOK' /\ ScopeOK' /\ OwnedOK' /\ BetweenOK' /\ StandupOK' /\ UpdateOK'
<1> USE DEF history
<1>0. /\ DeploymentTypeOK /\ StageOK /\ ScopeOK /\ OwnedOK /\ StandupOK /\ UpdateOK
      /\ stage = "namespace" /\ stage' = "stacks" /\ ~broken
      /\ UNCHANGED <<secret, cmd, commands, history>>
  BY DEF DInv, StageOK, ModelNamespace
<1>1. PICK applied \in BOOLEAN, ok \in BOOLEAN :
        /\ ok => applied
        /\ IF applied
              THEN /\ runs' = [s \in Stacks |->
                         [runs[s] EXCEPT !["namespace"] = Rendered(cmd.flags, s, "namespace")]]
                   /\ installed' = [s \in Stacks |-> installed[s] \cup {"namespace"}]
              ELSE UNCHANGED <<runs, installed>>
        /\ broken' = ~ok
        /\ todo' = IF ok THEN todo ELSE [s \in Stacks |-> {}]
  BY DEF ModelNamespace
<1>2. cmd.kind \in {"standup", "update"}
  BY <1>0 DEF StageOK, DeploymentTypeOK, Commands
<1>3. \A s \in Stacks : todo'[s] \subseteq todo[s] /\ (broken' \/ todo'[s] = todo[s])
  BY <1>1
<1>4. \A s \in Stacks : /\ installed[s] \subseteq installed'[s]
                        /\ installed'[s] \subseteq installed[s] \cup {"namespace"}
  BY <1>1
<1>5. \A s \in Stacks, c \in Components \ {"namespace"} : runs'[s][c] = runs[s][c]
  BY <1>0, <1>1 DEF DeploymentTypeOK
<1>6. \/ applied /\ \A s \in Stacks : runs'[s]["namespace"] = Rendered(cmd.flags, s, "namespace")
      \/ broken' /\ UNCHANGED <<runs, installed>>
  <2>1. CASE applied
    BY <1>0, <1>1, <2>1 DEF DeploymentTypeOK, Components
  <2>2. CASE ~applied
    BY <1>1, <2>2
  <2> QED BY <2>1, <2>2
<1>7. StageOK'
  BY <1>0, <1>2, <1>3 DEF StageOK
<1>8. ScopeOK'
  BY <1>0, <1>3, <1>4 DEF ScopeOK
<1>9. OwnedOK'
  <2> SUFFICES ASSUME NEW s \in Stacks, NEW c \in Components, NEW k \in Keys, c \notin Owners[k]
               PROVE  runs'[s][c][k] = 0
    BY DEF OwnedOK
  <2>1. runs'[s][c] = runs[s][c] \/ runs'[s][c] = Rendered(cmd.flags, s, c)
    BY <1>5, <1>6
  <2> QED BY <1>0, <2>1, RenderedAt DEF OwnedOK
<1>10. BetweenOK'
  BY <1>0, <1>2 DEF BetweenOK
<1>11. ASSUME NEW s \in Stacks, NEW k \in Keys, "namespace" \in Owners[k], ~broken'
       PROVE  runs'[s]["namespace"][k] = Effective(cmd.flags, s, k)
  BY <1>6, <1>11, RenderedAt DEF Components
<1>12. StandupOK'
  <2> SUFFICES ASSUME cmd.kind = "standup"
               PROVE  StandupOK'
    BY <1>0 DEF StandupOK
  <2>1. /\ cmd.flags = intent /\ cmd.record /\ cmd.stake = Selectors \X Keys
        /\ cmd.whole =>
              \A s \in Scope(cmd.filter), c \in Components, k \in Keys :
                  (c \in Owners[k] /\ ~Pending(s, c)) => AsTyped(s, c, k)
    BY <1>0 DEF StandupOK
  <2>2. Scope(cmd.filter) \subseteq Stacks
    BY <1>0, ScopeType DEF DeploymentTypeOK, Commands
  <2>3. ASSUME cmd.whole, ~broken', NEW s \in Scope(cmd.filter), NEW c \in Components, NEW k \in Keys,
               c \in Owners[k], ~Pending(s, c)'
        PROVE  AsTyped(s, c, k)'
    <3>1. CASE c = "namespace"
      BY <1>0, <1>11, <2>1, <2>2, <2>3, <3>1 DEF AsTyped
    <3>2. CASE c # "namespace"
      <4>1. ~Pending(s, c)
        BY <1>3, <2>2, <2>3, <3>2 DEF Pending
      <4> QED BY <1>0, <1>5, <2>1, <2>2, <2>3, <3>2, <4>1 DEF AsTyped
    <3> QED BY <3>1, <3>2
  <2> QED BY <1>0, <2>1, <2>3 DEF StandupOK
<1>13. UpdateOK'
  <2> SUFFICES ASSUME cmd.kind = "update", ~told, ~cmd.warned, ~astray
               PROVE  UpdateOK'
    BY <1>0 DEF UpdateOK
  <2>1. /\ secret.there /\ cmd.record /\ cmd.filter = secret.stacks
        /\ \A k \in Keys : ~Unsure(k) =>
              /\ Same(cmd.flags, intent, k)
              /\ ~Staked(k) => Same(secret.flags, intent, k)
              /\ \A s \in Scope(cmd.filter), c \in Components :
                    Reaches(s, c, k) =>
                        AsTyped(s, c, k) \/ (Staked(k) /\ (broken \/ Pending(s, c)))
    BY <1>0 DEF UpdateOK
  <2>2. Scope(cmd.filter) \subseteq Stacks
    BY <1>0, ScopeType DEF DeploymentTypeOK, Commands
  <2>3. \A k \in Keys : (Unsure(k)' <=> Unsure(k)) /\ (Staked(k)' <=> Staked(k))
    BY <1>0 DEF Unsure, Staked
  <2>4. ASSUME NEW k \in Keys, ~Unsure(k), NEW s \in Scope(cmd.filter), NEW c \in Components,
               Reaches(s, c, k)'
        PROVE  AsTyped(s, c, k)' \/ (Staked(k) /\ (broken' \/ Pending(s, c)'))
    <3>1. CASE c = "namespace"
      <4>1. CASE UNCHANGED <<runs, installed>> /\ broken'
        BY <1>0, <2>1, <2>4, <4>1 DEF AsTyped, Reaches
      <4>2. CASE runs'[s]["namespace"] = Rendered(cmd.flags, s, "namespace")
        <5>1. runs'[s][c][k] = Effective(cmd.flags, s, k)
          BY <2>2, <2>4, <3>1, <4>2, RenderedAt DEF Reaches
        <5>2. Effective(cmd.flags, s, k) = Effective(intent, s, k)
          BY <2>1, <2>2, <2>4, SameEffective
        <5> QED BY <1>0, <5>1, <5>2 DEF AsTyped
      <4> QED BY <1>6, <2>2, <4>1, <4>2
    <3>2. CASE c # "namespace"
      <4>1. Reaches(s, c, k)
        BY <1>4, <2>2, <2>4, <3>2 DEF Reaches
      <4>2. AsTyped(s, c, k)' <=> AsTyped(s, c, k)
        BY <1>0, <1>5, <2>2, <3>2 DEF AsTyped
      <4>3. Pending(s, c) => broken' \/ Pending(s, c)'
        BY <1>3, <2>2, <3>2 DEF Pending
      <4> QED BY <1>0, <2>1, <2>4, <4>1, <4>2, <4>3
    <3> QED BY <3>1, <3>2
  <2> QED BY <1>0, <2>1, <2>3, <2>4 DEF UpdateOK, Same
<1> QED
  BY <1>7, <1>8, <1>9, <1>10, <1>12, <1>13

\* What step 07 or 08 does in one stack, whether it has worked (ok) or not.
StackStep(s, c, ok) ==
    /\ stage = "stacks" /\ stage' = stage
    /\ c \in Releases /\ Pending(s, c)
    /\ ok => broken' = broken
    /\ ~ok => broken'
    /\ \A t \in Stacks : todo'[t] \subseteq todo[t]
    /\ ok => \A t \in Stacks, d \in Releases :
                <<t, d>> # <<s, c>> => (COMPONENT_STEPS[d] \in todo'[t] <=> COMPONENT_STEPS[d] \in todo[t])
    /\ \A t \in Stacks, d \in Components : <<t, d>> # <<s, c>> =>
          runs'[t][d] = runs[t][d] /\ (d \in installed'[t] <=> d \in installed[t])
    /\ \/ runs'[s][c] = Rendered(cmd.flags, s, c) /\ c \in installed'[s]
       \/ runs'[s][c] = runs[s][c] /\ (c \in installed'[s] <=> c \in installed[s]) /\ ~ok
    /\ secret' = secret \/ secret' = Recorded
    /\ cmd' = cmd \/ (cmd' = [cmd EXCEPT !.warned = TRUE])
    /\ UNCHANGED <<commands, history>>

LEMMA FinishFacts ==
  ASSUME DeploymentTypeOK, NEW s \in Stacks, NEW c \in Releases, NEW ok \in BOOLEAN,
         Finish(s, COMPONENT_STEPS[c], ok)
  PROVE  /\ ok => broken' = broken
         /\ ~ok => broken'
         /\ \A t \in Stacks : todo'[t] \subseteq todo[t]
         /\ ok => \A t \in Stacks, d \in Releases :
                <<t, d>> # <<s, c>> => (COMPONENT_STEPS[d] \in todo'[t] <=> COMPONENT_STEPS[d] \in todo[t])
<1>1. /\ ok => broken' = broken
      /\ ~ok => broken'
  <2>1. broken \in BOOLEAN /\ broken' = (broken \/ ~ok)
    BY DEF DeploymentTypeOK, Finish
  <2> QED BY <2>1, Zenon
<1>2. /\ todo'[s] = IF ok THEN todo[s] \ {COMPONENT_STEPS[c]} ELSE {}
      /\ \A t \in Stacks \ {s} : todo'[t] = todo[t]
  BY DEF DeploymentTypeOK, Finish
<1>3. \A t \in Stacks : todo'[t] \subseteq todo[t]
  BY <1>2
<1>4. \A d \in Releases : d # c => COMPONENT_STEPS[d] # COMPONENT_STEPS[c]
  BY DEF Releases, COMPONENT_STEPS
<1>5. ASSUME ok, NEW t \in Stacks, NEW d \in Releases, <<t, d>> # <<s, c>>
      PROVE  COMPONENT_STEPS[d] \in todo'[t] <=> COMPONENT_STEPS[d] \in todo[t]
  BY <1>2, <1>4, <1>5
<1> QED
  BY <1>1, <1>3, <1>5

LEMMA AppliedFacts ==
  ASSUME DeploymentTypeOK, NEW s \in Stacks, NEW c \in Releases, NEW applied \in BOOLEAN,
         IF applied THEN Apply(s, c) /\ Install(s, c) ELSE UNCHANGED <<runs, installed>>
  PROVE  /\ \A t \in Stacks, d \in Components : <<t, d>> # <<s, c>> =>
               runs'[t][d] = runs[t][d] /\ (d \in installed'[t] <=> d \in installed[t])
         /\ IF applied THEN runs'[s][c] = Rendered(cmd.flags, s, c) /\ c \in installed'[s]
                       ELSE runs'[s][c] = runs[s][c] /\ (c \in installed'[s] <=> c \in installed[s])
<1>1. CASE ~applied
  BY <1>1
<1>2. CASE applied
  <2>1. c \in Components
    BY DEF Releases, Components
  <2>2. /\ runs' = [runs EXCEPT ![s][c] = Rendered(cmd.flags, s, c)]
        /\ installed' = [installed EXCEPT ![s] = @ \cup {c}]
    BY <1>2 DEF Apply, Install
  <2>3. \A t \in Stacks : runs[t] \in [Components -> [Keys -> Values]]
    BY DEF DeploymentTypeOK
  <2>4. runs'[s] = [runs[s] EXCEPT ![c] = Rendered(cmd.flags, s, c)]
    BY <2>2 DEF DeploymentTypeOK
  <2>5. runs'[s][c] = Rendered(cmd.flags, s, c)
    BY <2>1, <2>3, <2>4
  <2>6. \A d \in Components : d # c => runs'[s][d] = runs[s][d]
    BY <2>3, <2>4
  <2>7. \A t \in Stacks : t # s => runs'[t] = runs[t] /\ installed'[t] = installed[t]
    BY <2>2 DEF DeploymentTypeOK
  <2>8. installed'[s] = installed[s] \cup {c}
    BY <2>2 DEF DeploymentTypeOK
  <2> QED BY <1>2, <2>5, <2>6, <2>7, <2>8
<1> QED
  BY <1>1, <1>2

LEMMA StackFacts ==
  ASSUME DeploymentTypeOK, NEW s \in Stacks,
         DeployRouter(s) \/ DeployModelservice(s) \/ RefuseModelservice(s)
  PROVE  \E c \in Releases, ok \in BOOLEAN : StackStep(s, c, ok)
<1>1. CASE DeployRouter(s)
  <2>1. PICK applied \in BOOLEAN, ok \in BOOLEAN :
          /\ ok => applied
          /\ IF applied THEN Apply(s, "epp") /\ Install(s, "epp") ELSE UNCHANGED <<runs, installed>>
          /\ Finish(s, 7, ok)
    BY <1>1 DEF DeployRouter
  <2>2. "epp" \in Releases /\ COMPONENT_STEPS["epp"] = 7 /\ 7 \in todo[s]
    BY <1>1 DEF Releases, COMPONENT_STEPS, DeployRouter
  <2>3. StackStep(s, "epp", ok)
    BY <1>1, <2>1, <2>2, FinishFacts, AppliedFacts DEF StackStep, DeployRouter, Pending
  <2> QED BY <2>2, <2>3
<1>2. CASE DeployModelservice(s)
  <2>1. PICK applied \in BOOLEAN, ok \in BOOLEAN :
          /\ ok => applied
          /\ IF applied THEN Apply(s, "vllm") /\ Install(s, "vllm") ELSE UNCHANGED <<runs, installed>>
          /\ Finish(s, 8, ok)
    BY <1>2 DEF DeployModelservice
  <2>2. "vllm" \in Releases /\ COMPONENT_STEPS["vllm"] = 8 /\ 8 \in todo[s]
    BY <1>2 DEF Releases, COMPONENT_STEPS, DeployModelservice
  <2>3. \/ secret' = Recorded /\ cmd' = cmd
        \/ secret' = secret /\ cmd' = [cmd EXCEPT !.warned = TRUE]
        \/ secret' = secret /\ cmd' = cmd
    BY <1>2 DEF DeployModelservice, WriteSecret
  <2>4. StackStep(s, "vllm", ok)
    BY <1>2, <2>1, <2>2, <2>3, FinishFacts, AppliedFacts
       DEF StackStep, DeployModelservice, Pending
  <2> QED BY <2>2, <2>4
<1>3. CASE RefuseModelservice(s)
  <2>1. "vllm" \in Releases /\ COMPONENT_STEPS["vllm"] = 8 /\ 8 \in todo[s]
    BY <1>3 DEF Releases, COMPONENT_STEPS, RefuseModelservice
  <2>2. Finish(s, COMPONENT_STEPS["vllm"], FALSE)
    BY <1>3, <2>1 DEF RefuseModelservice
  <2>3. StackStep(s, "vllm", FALSE)
    BY <1>3, <2>1, <2>2, FinishFacts DEF StackStep, RefuseModelservice, Pending, clusterState
  <2> QED BY <2>1, <2>3
<1> QED
  BY <1>1, <1>2, <1>3

LEMMA StackKeeps ==
  ASSUME DInv, NEW s \in Stacks, NEW c \in Releases, NEW ok \in BOOLEAN, StackStep(s, c, ok)
  PROVE  StageOK' /\ ScopeOK' /\ OwnedOK' /\ BetweenOK' /\ StandupOK' /\ UpdateOK'
<1> USE DEF history
<1>1. /\ DeploymentTypeOK /\ StageOK /\ ScopeOK /\ OwnedOK /\ StandupOK /\ UpdateOK
      /\ stage = "stacks" /\ stage' = "stacks" /\ c \in Components
      /\ UNCHANGED <<intent, unsure, told, astray>>
      /\ \A t \in Stacks : todo'[t] \subseteq todo[t]
  BY DEF DInv, StackStep, Releases, Components
<1>2. /\ cmd'.kind = cmd.kind /\ cmd'.flags = cmd.flags /\ cmd'.filter = cmd.filter
      /\ cmd'.force = cmd.force /\ cmd'.whole = cmd.whole /\ cmd'.record = cmd.record /\ cmd'.stake = cmd.stake
      /\ ~cmd'.warned => cmd' = cmd /\ ~cmd.warned
      /\ cmd.warned => cmd'.warned
  <2>1. cmd \in Commands /\ (cmd' = cmd \/ cmd' = [cmd EXCEPT !.warned = TRUE])
    BY <1>1 DEF DeploymentTypeOK, StackStep
  <2>2. CASE cmd' = cmd
    BY <2>2
  <2>3. CASE cmd' = [cmd EXCEPT !.warned = TRUE]
    BY <2>1, <2>3 DEF Commands
  <2> QED BY <2>1, <2>2, <2>3
<1>3. cmd.kind \in {"standup", "update"}
  BY <1>1 DEF StageOK, DeploymentTypeOK, Commands
<1>4. Scope(cmd.filter) \subseteq Stacks
  BY <1>1, ScopeType DEF DeploymentTypeOK, Commands
<1>5. \A t \in Stacks, d \in Components : <<t, d>> # <<s, c>> =>
         runs'[t][d] = runs[t][d] /\ (d \in installed'[t] <=> d \in installed[t])
  BY DEF StackStep
<1>6. /\ \/ runs'[s][c] = Rendered(cmd.flags, s, c) /\ c \in installed'[s]
         \/ runs'[s][c] = runs[s][c] /\ (c \in installed'[s] <=> c \in installed[s]) /\ ~ok
      /\ ok => broken' = broken
      /\ ~ok => broken'
  BY DEF StackStep
<1>7. ASSUME ~broken', NEW t \in Stacks, NEW d \in Components, <<t, d>> # <<s, c>>, ~Pending(t, d)'
      PROVE  ~Pending(t, d)
  <2>1. ok /\ \A e \in Releases : <<t, e>> # <<s, c>> =>
                  (COMPONENT_STEPS[e] \in todo'[t] <=> COMPONENT_STEPS[e] \in todo[t])
    BY <1>6, <1>7 DEF StackStep
  <2>2. d = "namespace" \/ d \in Releases
    BY DEF Components, Releases
  <2>3. CASE d = "namespace"
    BY <1>1, <2>3 DEF Pending
  <2>4. CASE d \in Releases
    BY <1>7, <2>1, <2>4 DEF Pending, Releases, COMPONENT_STEPS
  <2> QED BY <2>2, <2>3, <2>4
<1>8. StageOK'
  BY <1>1, <1>2, <1>3 DEF StageOK
<1>9. ScopeOK'
  <2>1. ASSUME cmd.kind = "update", ~cmd'.warned, NEW t \in Stacks, todo'[t] # {}
        PROVE  installed'[t] \cap Releases # {}
    <3>1. todo[t] # {} /\ ~cmd.warned
      BY <1>1, <1>2, <2>1
    <3>2. PICK e \in Releases : e \in installed[t]
      BY <1>1, <2>1, <3>1 DEF ScopeOK
    <3>3. e \in installed'[t]
      BY <1>5, <1>6, <3>2 DEF Components, Releases
    <3> QED BY <3>3
  <2> QED BY <1>1, <1>2, <2>1 DEF ScopeOK
<1>10. OwnedOK'
  <2> SUFFICES ASSUME NEW t \in Stacks, NEW d \in Components, NEW k \in Keys, d \notin Owners[k]
               PROVE  runs'[t][d][k] = 0
    BY DEF OwnedOK
  <2>1. runs'[t][d] = runs[t][d] \/ runs'[t][d] = Rendered(cmd.flags, t, d)
    BY <1>5, <1>6
  <2> QED BY <1>1, <2>1, RenderedAt DEF OwnedOK
<1>11. BetweenOK'
  BY <1>2, <1>3 DEF BetweenOK
<1>12. StandupOK'
  <2> SUFFICES ASSUME cmd.kind = "standup"
               PROVE  StandupOK'
    BY <1>2 DEF StandupOK
  <2>1. /\ cmd.flags = intent /\ cmd.record /\ cmd.stake = Selectors \X Keys
        /\ (cmd.whole /\ ~broken) =>
              \A t \in Scope(cmd.filter), d \in Components, k \in Keys :
                  (d \in Owners[k] /\ ~Pending(t, d)) => AsTyped(t, d, k)
    BY <1>1 DEF StandupOK
  <2>2. ASSUME cmd.whole, ~broken', NEW t \in Scope(cmd.filter), NEW d \in Components, NEW k \in Keys,
               d \in Owners[k], ~Pending(t, d)'
        PROVE  AsTyped(t, d, k)'
    <3>1. CASE <<t, d>> = <<s, c>>
      <4>1. runs'[t][d][k] = Effective(cmd.flags, t, k)
        BY <1>4, <1>6, <2>2, <3>1, RenderedAt
      <4> QED BY <1>1, <2>1, <4>1 DEF AsTyped
    <3>2. CASE <<t, d>> # <<s, c>>
      <4>1. ~Pending(t, d) /\ ~broken
        BY <1>4, <1>6, <1>7, <2>2, <3>2
      <4>2. runs'[t][d] = runs[t][d]
        BY <1>4, <1>5, <3>2
      <4> QED BY <1>1, <2>1, <2>2, <4>1, <4>2 DEF AsTyped
    <3> QED BY <3>1, <3>2
  <2>3. cmd'.flags = intent' /\ cmd'.record /\ cmd'.stake = Selectors \X Keys
    BY <1>1, <1>2, <2>1
  <2> QED BY <1>2, <2>2, <2>3 DEF StandupOK
<1>13. UpdateOK'
  <2> SUFFICES ASSUME cmd.kind = "update", ~told, ~cmd'.warned, ~astray
               PROVE  UpdateOK'
    BY <1>1, <1>2 DEF UpdateOK
  <2>0. cmd' = cmd /\ ~cmd.warned
    BY <1>2
  <2>1. /\ secret.there /\ cmd.record /\ cmd.filter = secret.stacks
        /\ \A k \in Keys : ~Unsure(k) =>
              /\ Same(cmd.flags, intent, k)
              /\ ~Staked(k) => Same(secret.flags, intent, k)
              /\ \A t \in Scope(cmd.filter), d \in Components :
                    Reaches(t, d, k) =>
                        AsTyped(t, d, k) \/ (Staked(k) /\ (broken \/ Pending(t, d)))
    BY <1>1, <2>0 DEF UpdateOK
  <2>2. \A k \in Keys : (Unsure(k)' <=> Unsure(k)) /\ (Staked(k)' <=> Staked(k))
    BY <1>1, <2>0 DEF Unsure, Staked
  <2>3. /\ secret'.there /\ cmd'.filter = secret'.stacks /\ cmd'.record
        /\ secret'.flags = secret.flags \/ secret'.flags = cmd.flags
    <3>1. CASE secret' = secret
      BY <2>0, <2>1, <3>1
    <3>2. CASE secret' = Recorded
      BY <2>0, <2>1, <3>2 DEF Recorded
    <3> QED BY <3>1, <3>2 DEF StackStep
  <2>4. ASSUME NEW k \in Keys, ~Unsure(k), NEW t \in Scope(cmd.filter), NEW d \in Components,
               Reaches(t, d, k)'
        PROVE  AsTyped(t, d, k)' \/ (Staked(k) /\ (broken' \/ Pending(t, d)'))
    <3>1. CASE <<t, d>> = <<s, c>> /\ runs'[s][c] = Rendered(cmd.flags, s, c)
      <4>1. runs'[t][d][k] = Effective(cmd.flags, t, k)
        BY <1>1, <2>4, <3>1, RenderedAt DEF Reaches
      <4>2. Effective(cmd.flags, t, k) = Effective(intent, t, k)
        BY <1>4, <2>1, <2>4, SameEffective
      <4> QED BY <1>1, <4>1, <4>2 DEF AsTyped
    <3>2. CASE runs'[t][d] = runs[t][d] /\ (d \in installed'[t] <=> d \in installed[t])
               /\ (broken' \/ <<t, d>> # <<s, c>>)
      <4>1. Reaches(t, d, k)
        BY <2>4, <3>2 DEF Reaches
      <4>2. AsTyped(t, d, k)' <=> AsTyped(t, d, k)
        BY <1>1, <3>2 DEF AsTyped
      <4>3. broken \/ Pending(t, d) => broken' \/ Pending(t, d)'
        BY <1>4, <1>6, <1>7, <3>2
      <4> QED BY <2>1, <2>4, <4>1, <4>2, <4>3
    <3>3. \/ <<t, d>> = <<s, c>> /\ runs'[s][c] = Rendered(cmd.flags, s, c)
          \/ /\ runs'[t][d] = runs[t][d] /\ (d \in installed'[t] <=> d \in installed[t])
             /\ (broken' \/ <<t, d>> # <<s, c>>)
      BY <1>4, <1>5, <1>6
    <3> QED BY <3>1, <3>2, <3>3
  <2>5. ASSUME NEW k \in Keys, ~Unsure(k)
        PROVE  Same(cmd.flags, intent, k)' /\ (~Staked(k) => Same(secret.flags, intent, k)')
    BY <1>1, <2>0, <2>1, <2>3, <2>5 DEF Same
  <2> QED BY <1>1, <2>0, <2>2, <2>3, <2>4, <2>5 DEF UpdateOK
<1> QED
  BY <1>8, <1>9, <1>10, <1>11, <1>12, <1>13

LEMMA EndKeeps ==
  ASSUME DInv, Fail \/ StandupEnds \/ UpdateEnds
  PROVE  StageOK' /\ ScopeOK' /\ OwnedOK' /\ BetweenOK' /\ StandupOK' /\ UpdateOK'
<1>1. /\ DeploymentTypeOK /\ StageOK /\ OwnedOK /\ StandupOK /\ UpdateOK
      /\ stage = "stacks" /\ \A s \in Stacks : todo[s] = {}
      /\ stage' = "idle" /\ cmd' = NoCommand
      /\ UNCHANGED <<todo, broken, commands, installed, runs, intent>>
  BY DEF DInv, Fail, StandupEnds, UpdateEnds, Idle, StepsOver
<1>2. cmd.kind \in {"standup", "update"} /\ cmd'.kind = "none"
  BY <1>1 DEF StageOK, DeploymentTypeOK, Commands, NoCommand
<1>3. Scope(cmd.filter) \subseteq Stacks /\ Scope(cmd.filter) # {}
  BY <1>1, ScopeType DEF DeploymentTypeOK, Commands
<1>4. \A s \in Stacks, c \in Components : ~Pending(s, c)
  BY <1>1 DEF Pending
<1>5. StageOK' /\ ScopeOK' /\ StandupOK' /\ UpdateOK'
  BY <1>1, <1>2 DEF StageOK, ScopeOK, StandupOK, UpdateOK
<1>6. OwnedOK'
  BY <1>1 DEF OwnedOK
<1>7. BetweenOK'
  <2> SUFFICES ASSUME secret'.there, ~told', ~astray', NEW k \in Keys, ~Unsure(k)'
               PROVE  /\ Same(secret'.flags, intent, k)
                      /\ \A s \in Scope(secret'.stacks), c \in Components :
                            Reaches(s, c, k) => AsTyped(s, c, k)
    BY <1>1 DEF BetweenOK, Same, Reaches, AsTyped
  <2>1. CASE Fail
    <3>1. /\ ~told /\ ~astray /\ ~cmd.warned /\ ~Unsure(k) /\ ~Staked(k) /\ secret' = secret
      BY <2>1 DEF Fail, Unsure, Staked
    <3>2. cmd.kind # "standup"
      BY <1>1, <3>1 DEF StandupOK, Staked, Selectors
    <3> QED BY <1>1, <1>2, <3>1, <3>2 DEF UpdateOK
  <2>2. CASE StandupEnds
    <3>1. cmd.kind = "standup" /\ ~broken /\ ~cmd.warned /\ secret' = secret
      BY <2>2 DEF StandupEnds
    <3>2. cmd.whole /\ secret = Recorded
      BY <2>2, <3>1 DEF StandupEnds
    <3>3. secret'.flags = intent /\ secret'.stacks = cmd.filter
      BY <1>1, <3>1, <3>2 DEF Recorded, StandupOK
    <3> QED BY <1>1, <1>3, <1>4, <3>1, <3>2, <3>3 DEF StandupOK, Same, Reaches
  <2>3. CASE UpdateEnds
    <3>1. /\ cmd.kind = "update" /\ ~broken /\ ~cmd.warned /\ ~told /\ ~astray /\ ~Unsure(k)
          /\ secret' = Recorded
      BY <2>3 DEF UpdateEnds, Unsure
    <3>2. /\ cmd.record /\ Same(cmd.flags, intent, k)
          /\ \A s \in Scope(cmd.filter), c \in Components :
                Reaches(s, c, k) => AsTyped(s, c, k) \/ Pending(s, c)
      BY <1>1, <3>1 DEF UpdateOK
    <3>3. secret'.flags = cmd.flags /\ secret'.stacks = cmd.filter
      BY <3>1, <3>2 DEF Recorded
    <3> QED BY <1>3, <1>4, <3>2, <3>3
  <2> QED BY <2>1, <2>2, <2>3
<1> QED
  BY <1>5, <1>6, <1>7

LEMMA HelmKeeps ==
  ASSUME DInv, UninstallHelm \/ CleanHarness
  PROVE  StageOK' /\ ScopeOK' /\ OwnedOK' /\ BetweenOK' /\ StandupOK' /\ UpdateOK'
<1> USE DEF history
<1>1. /\ DeploymentTypeOK /\ StageOK /\ OwnedOK /\ BetweenOK
      /\ stage \in {"helm", "harness"} /\ cmd.kind = "teardown"
      /\ UNCHANGED <<todo, broken, commands, intent, unsure, told, astray>>
      /\ secret' = secret \/ secret' = NoSecret
      /\ \/ stage' = "harness" /\ cmd' = cmd
         \/ stage' = "idle" /\ cmd' = NoCommand
  BY DEF DInv, StageOK, UninstallHelm, CleanHarness
<1>2. cmd'.kind \in {"teardown", "none"} /\ (stage' = "idle" <=> cmd'.kind = "none")
  BY <1>1 DEF NoCommand
<1>3. \A s \in Stacks : todo'[s] = {}
  BY <1>1 DEF StageOK
<1>4. \A s \in Stacks, c \in Components :
         /\ c \in installed'[s] => c \in installed[s] /\ runs'[s][c] = runs[s][c]
         /\ runs'[s][c] = runs[s][c] \/ runs'[s][c] = Unset
  <2>1. CASE UninstallHelm
    <3>1. PICK left \in [Stacks -> SUBSET Releases] :
            /\ \A s \in Stacks : left[s] \subseteq installed[s]
            /\ installed' = [s \in Stacks |-> (installed[s] \ Releases) \cup left[s]]
            /\ runs' = [s \in Stacks |-> [c \in Components |->
                          IF c \in installed'[s] THEN runs[s][c] ELSE Unset]]
      BY <2>1 DEF UninstallHelm
    <3>2. \A s \in Stacks : installed'[s] \subseteq installed[s]
      BY <3>1
    <3>3. \A s \in Stacks, c \in Components :
             runs'[s][c] = IF c \in installed'[s] THEN runs[s][c] ELSE Unset
      BY <3>1
    <3> QED BY <3>2, <3>3
  <2>2. CASE CleanHarness
    BY <2>2 DEF CleanHarness
  <2> QED BY <2>1, <2>2
<1>5. StageOK'
  BY <1>1, <1>2, <1>3 DEF StageOK
<1>6. ScopeOK' /\ StandupOK' /\ UpdateOK'
  BY <1>2 DEF ScopeOK, StandupOK, UpdateOK
<1>7. OwnedOK'
  BY <1>1, <1>4 DEF OwnedOK, Unset
<1>8. BetweenOK'
  <2> SUFFICES ASSUME secret'.there, ~told', ~astray', NEW k \in Keys, ~Unsure(k)'
               PROVE  /\ Same(secret'.flags, intent', k)
                      /\ \A s \in Scope(secret'.stacks), c \in Components :
                            Reaches(s, c, k)' => AsTyped(s, c, k)'
    BY DEF BetweenOK, Same
  <2>1. secret' = secret
    BY <1>1 DEF NoSecret
  <2>2. /\ Same(secret.flags, intent, k)
        /\ \A s \in Scope(secret.stacks), c \in Components : Reaches(s, c, k) => AsTyped(s, c, k)
    BY <1>1, <2>1 DEF BetweenOK, Unsure
  <2>3. Scope(secret.stacks) \subseteq Stacks
    BY <1>1, ScopeType DEF DeploymentTypeOK, Secrets
  <2> QED BY <1>1, <1>4, <2>1, <2>2, <2>3 DEF Reaches, AsTyped
<1> QED
  BY <1>5, <1>6, <1>7, <1>8

LEMMA DInvStep ==
  ASSUME DInv, [DeployNext]_deployVars
  PROVE  DInv'
<1>1. DeploymentTypeOK'
  BY TypeStep DEF DInv
<1>2. CASE Command
  <2>1. PICK filter \in Filters :
           \/ \E typed \in Typed, override \in Overrides : Standup(typed, filter, override)
           \/ \E typed \in Typed, reuse, force \in BOOLEAN, override \in Overrides :
                 Update(typed, filter, reuse, override, force)
           \/ \E steps \in {{1, 2}, {1}, {2}} : Teardown(filter, steps)
    BY <1>2 DEF Command
  <2>2. filter \in SUBSET Stacks /\ stage = "idle"
    BY <1>2, DeploymentAssumption DEF DeploymentAssumption, Command
  <2>3. ASSUME NEW typed \in Typed, NEW override \in Overrides,
               Standup(typed, filter, override)
        PROVE  DInv'
    <3>1. typed \in Flags /\ override \in SUBSET {4, 7, 8}
      BY TypedFlags, DeploymentAssumption DEF DeploymentAssumption
    <3>2. PICK steps \in SUBSET {4, 7, 8} : StandupBegun(typed, filter, steps)
      BY <2>2, <2>3, <3>1, StandupFacts
    <3> QED BY <1>1, <2>2, <3>1, <3>2, StandupKeeps DEF DInv
  <2>4. ASSUME NEW typed \in Typed, NEW reuse \in BOOLEAN, NEW force \in BOOLEAN,
               NEW override \in Overrides, Update(typed, filter, reuse, override, force)
        PROVE  DInv'
    <3>1. typed \in Flags /\ override \in SUBSET {4, 7, 8} /\ DeploymentTypeOK
      BY TypedFlags, DeploymentAssumption DEF DeploymentAssumption, DInv
    <3>2. PICK steps \in SUBSET {4, 7, 8} : UpdateBegun(typed, filter, steps)
      BY <2>2, <2>4, <3>1, UpdateFacts
    <3> QED BY <1>1, <2>2, <3>1, <3>2, UpdateKeeps DEF DInv
  <2>5. ASSUME NEW steps \in {{1, 2}, {1}, {2}}, Teardown(filter, steps)
        PROVE  DInv'
    BY <1>1, <2>2, <2>5, TeardownKeeps DEF DInv
  <2> QED BY <2>1, <2>3, <2>4, <2>5
<1>3. CASE ModelNamespace
  BY <1>1, <1>3, NamespaceKeeps DEF DInv
<1>4. CASE \E s \in Stacks : DeployRouter(s) \/ DeployModelservice(s) \/ RefuseModelservice(s)
  BY <1>1, <1>4, StackFacts, StackKeeps DEF DInv
<1>5. CASE Fail \/ StandupEnds \/ UpdateEnds
  BY <1>1, <1>5, EndKeeps DEF DInv
<1>6. CASE UninstallHelm \/ CleanHarness
  BY <1>1, <1>6, HelmKeeps DEF DInv
<1>7. CASE UNCHANGED deployVars
  <2>1. /\ installed' = installed /\ runs' = runs /\ secret' = secret
        /\ stage' = stage /\ cmd' = cmd /\ todo' = todo /\ broken' = broken
        /\ intent' = intent /\ unsure' = unsure /\ told' = told /\ astray' = astray
    BY <1>7 DEF deployVars, clusterState, commandState, history
  <2>2. StageOK' /\ ScopeOK' /\ OwnedOK'
    BY <2>1 DEF DInv, StageOK, ScopeOK, OwnedOK
  <2>3. BetweenOK'
    BY <2>1 DEF DInv, BetweenOK, Unsure, Reaches, AsTyped, Same
  <2>4. StandupOK'
    BY <2>1 DEF DInv, StandupOK, Pending, AsTyped, Recorded
  <2>5. UpdateOK'
    <3>1. UpdateOK
      BY DEF DInv
    <3> QED BY <2>1, <3>1 DEF UpdateOK, Pending, AsTyped, Reaches, Staked, Unsure, Same
  <2> QED BY <1>1, <2>2, <2>3, <2>4, <2>5 DEF DInv
<1> QED
  BY <1>2, <1>3, <1>4, <1>5, <1>6, <1>7 DEF DeployNext, Step

LEMMA DInvAlways == DeploySpec => []DInv
<1>1. DInv /\ [DeployNext]_deployVars => DInv'
  BY DInvStep
<1> QED
  BY <1>1, DInvInit, PTL DEF DeploySpec

-----------------------------------------------------------------------------
(* The properties.                                                         *)

\* What a step of an update can do to a component.
LEMMA UpdateApplies ==
  ASSUME DInv, [DeployNext]_deployVars, cmd.kind = "update",
         NEW s \in Stacks, NEW c \in Components
  PROVE  /\ \/ runs'[s][c] = runs[s][c]
            \/ /\ runs'[s][c] = Rendered(cmd.flags, s, c)
               /\ IF c = "namespace" THEN stage = "namespace" ELSE todo[s] # {}
         /\ \/ installed'[s] \cap Releases = installed[s] \cap Releases
            \/ todo[s] # {}
<1> USE DEF deployVars, clusterState, commandState, history
<1>1. DeploymentTypeOK /\ StageOK
  BY DEF DInv
<1>2. CASE UNCHANGED <<runs, installed>>
  BY <1>2
<1>3. CASE Command
  BY <1>1, <1>3, <1>2 DEF Command, StageOK
<1>4. CASE ModelNamespace
  <2>1. PICK applied \in BOOLEAN :
          IF applied
             THEN /\ runs' = [t \in Stacks |->
                        [runs[t] EXCEPT !["namespace"] = Rendered(cmd.flags, t, "namespace")]]
                  /\ installed' = [t \in Stacks |-> installed[t] \cup {"namespace"}]
             ELSE UNCHANGED <<runs, installed>>
    BY <1>4 DEF ModelNamespace
  <2>2. ASSUME applied
        PROVE  /\ installed'[s] \cap Releases = installed[s] \cap Releases
               /\ c # "namespace" => runs'[s][c] = runs[s][c]
               /\ runs'[s]["namespace"] = Rendered(cmd.flags, s, "namespace")
    BY <1>1, <2>1, <2>2 DEF DeploymentTypeOK, Releases, Components
  <2>3. stage = "namespace"
    BY <1>4 DEF ModelNamespace
  <2> QED BY <1>2, <2>1, <2>2, <2>3
<1>5. CASE \E t \in Stacks : DeployRouter(t) \/ DeployModelservice(t) \/ RefuseModelservice(t)
  <2>1. PICK t \in Stacks, d \in Releases, ok \in BOOLEAN : StackStep(t, d, ok)
    BY <1>1, <1>5, StackFacts
  <2>2. CASE s = t
    <3>1. todo[s] # {}
      BY <2>1, <2>2 DEF StackStep, Pending, Releases
    <3>2. d \in Components /\ d # "namespace"
      BY DEF Releases, Components
    <3>3. runs'[s][c] = runs[s][c] \/ (c = d /\ runs'[s][c] = Rendered(cmd.flags, s, c))
      BY <2>1, <2>2 DEF StackStep
    <3> QED BY <3>1, <3>2, <3>3
  <2>3. CASE s # t
    <3>1. \A e \in Components :
             runs'[s][e] = runs[s][e] /\ (e \in installed'[s] <=> e \in installed[s])
      BY <2>1, <2>3 DEF StackStep
    <3>2. Releases \subseteq Components
      BY DEF Releases, Components
    <3>3. installed'[s] \cap Releases = installed[s] \cap Releases
      BY <3>1, <3>2
    <3> QED BY <3>1, <3>3
  <2> QED BY <2>2, <2>3
<1>6. CASE Fail \/ StandupEnds \/ UpdateEnds
  BY <1>2, <1>6 DEF Fail, StandupEnds, UpdateEnds, Idle
<1>7. CASE UninstallHelm \/ CleanHarness
  BY <1>1, <1>7 DEF StageOK, UninstallHelm, CleanHarness
<1> QED
  BY <1>2, <1>3, <1>4, <1>5, <1>6, <1>7 DEF DeployNext, Step

\* The invariant says so of any state.
LEMMA SecretIsTrue == DInv => SecretTellsTheTruth
<1> SUFFICES ASSUME DInv, stage = "idle", secret.there, ~told, ~astray,
                    NEW s \in Scope(secret.stacks), NEW k \in Keys,
                    NEW c \in installed[s], c \in Owners[k], ~Unsure(k)
             PROVE  runs[s][c][k] = Effective(secret.flags, s, k)
  BY DEF SecretTellsTheTruth
<1>1. s \in Stacks
  BY ScopeType DEF DInv, DeploymentTypeOK, Secrets
<1>2. c \in Components /\ Reaches(s, c, k)
  BY <1>1 DEF DInv, DeploymentTypeOK, Reaches
<1>3. Same(secret.flags, intent, k) /\ AsTyped(s, c, k)
  BY <1>2 DEF DInv, StageOK, BetweenOK
<1>4. Effective(secret.flags, s, k) = Effective(intent, s, k)
  BY <1>1, <1>3, SameEffective
<1> QED BY <1>3, <1>4 DEF AsTyped

\* The recorded flags are the ones the stacks run with, between commands, for
\* every key that no failed command was to change, and as long as no warning
\* said otherwise and no standup was cut short by -s or left unrecorded: the
\* next update that reuses them starts from the truth.
THEOREM TheSecretTellsTheTruth == DeploySpec => []SecretTellsTheTruth
BY SecretIsTrue, DInvAlways, PTL

\* One step of NoSilentRevert.
LEMMA RevertStep ==
    DInv /\ [DeployNext]_deployVars =>
        [\A s \in Stacks, c \in Components, k \in Keys :
          (/\ cmd.kind = "update" /\ ~told /\ ~cmd.warned /\ ~astray /\ ~Unsure(k)
           /\ runs'[s][c][k] # runs[s][c][k])
              => runs'[s][c][k] = Effective(intent, s, k)]_deployVars
<1> SUFFICES ASSUME DInv, [DeployNext]_deployVars,
                    NEW s \in Stacks, NEW c \in Components, NEW k \in Keys,
                    cmd.kind = "update", ~told, ~cmd.warned, ~astray, ~Unsure(k),
                    runs'[s][c][k] # runs[s][c][k]
             PROVE  runs'[s][c][k] = Effective(intent, s, k)
  OBVIOUS
<1>1. runs'[s][c] = Rendered(cmd.flags, s, c)
  BY UpdateApplies
<1>2. CASE c \notin Owners[k]
  BY <1>1, <1>2, RenderedAt DEF DInv, OwnedOK
<1>3. CASE c \in Owners[k]
  <2>1. runs'[s][c][k] = Effective(cmd.flags, s, k)
    BY <1>1, <1>3, RenderedAt
  <2>2. Same(cmd.flags, intent, k)
    BY DEF DInv, UpdateOK
  <2> QED BY <2>1, <2>2, SameEffective
<1> QED BY <1>2, <1>3

\* An update changes a component to what the user last typed, and to nothing
\* else, unless a warning was given, a failed command has left the key in
\* doubt, or a standup was cut short by -s or left unrecorded.
THEOREM UpdatesRevertNothing == DeploySpec => NoSilentRevert
BY RevertStep, DInvAlways, PTL DEF DeploySpec, NoSilentRevert

\* One step of UpdateStaysInScope.
LEMMA ScopeStep ==
    DInv /\ [DeployNext]_deployVars =>
        [\A s \in Stacks :
          cmd.kind = "update" =>
              /\ \A c \in Components : runs'[s][c] # runs[s][c] =>
                    cmd.force \/ (s \in Scope(cmd.filter) /\ c # "namespace")
              /\ (installed[s] \cap Releases = {} /\ ~cmd.warned) =>
                    installed'[s] \cap Releases = {}]_deployVars
<1> SUFFICES ASSUME DInv, [DeployNext]_deployVars, NEW s \in Stacks, cmd.kind = "update"
             PROVE  /\ \A c \in Components : runs'[s][c] # runs[s][c] =>
                          cmd.force \/ (s \in Scope(cmd.filter) /\ c # "namespace")
                    /\ (installed[s] \cap Releases = {} /\ ~cmd.warned) =>
                          installed'[s] \cap Releases = {}
  OBVIOUS
<1>1. ASSUME NEW c \in Components, runs'[s][c] # runs[s][c]
      PROVE  cmd.force \/ (s \in Scope(cmd.filter) /\ c # "namespace")
  <2>1. IF c = "namespace" THEN stage = "namespace" ELSE todo[s] # {}
    BY <1>1, UpdateApplies
  <2> QED BY <2>1 DEF DInv, StageOK, ScopeOK
<1>2. ASSUME installed[s] \cap Releases = {}, ~cmd.warned
      PROVE  installed'[s] \cap Releases = {}
  <2>1. todo[s] = {}
    BY <1>2 DEF DInv, ScopeOK
  <2>2. "epp" \in Components
    BY DEF Components
  <2>3. installed'[s] \cap Releases = installed[s] \cap Releases
    BY <2>1, <2>2, UpdateApplies
  <2> QED BY <1>2, <2>3
<1> QED BY <1>1, <1>2

\* An update without --force touches only the releases of the stacks in its
\* scope, and creates none where there was none unless it has warned.
THEOREM UpdatesStayInScope == DeploySpec => UpdateStaysInScope
BY ScopeStep, DInvAlways, PTL DEF DeploySpec, UpdateStaysInScope

-----------------------------------------------------------------------------
(* That commands come to an end.                                           *)

\* The stages a command has still before it.
StageAt ==
    CASE stage = "idle"                  -> 0
      [] stage \in {"stacks", "harness"} -> 1
      [] OTHER                           -> 2

OneStackLess ==
    \E s \in Stacks :
        /\ todo'[s] \subseteq todo[s] /\ todo'[s] # todo[s]
        /\ \A t \in Stacks \ {s} : todo'[t] = todo[t]

\* A step of a command ends a stage, or takes from one stack a step or all it
\* has left; only a new command gives them anything to do, and it is counted.
GetsOn ==
    /\ Step => /\ commands' = commands
               /\ StageAt' < StageAt \/ (stage' = stage /\ OneStackLess)
    /\ Command => commands' = commands + 1 /\ commands' <= MaxCommands

LEMMA FinishIsLess ==
  ASSUME DeploymentTypeOK, NEW s \in Stacks, NEW step \in {7, 8}, step \in todo[s],
         NEW ok \in BOOLEAN, Finish(s, step, ok)
  PROVE  OneStackLess
<1>1. todo \in [Stacks -> SUBSET {7, 8}]
  BY DEF DeploymentTypeOK
<1>2. todo'[s] \subseteq todo[s] /\ todo'[s] # todo[s]
  <2>1. CASE ok = TRUE
    BY <1>1, <2>1 DEF Finish
  <2>2. CASE ok = FALSE
    BY <1>1, <2>2 DEF Finish
  <2> QED BY <2>1, <2>2
<1>3. \A t \in Stacks \ {s} : todo'[t] = todo[t]
  BY <1>1 DEF Finish
<1> QED
  BY <1>2, <1>3 DEF OneStackLess

\* Whatever of helm, kubectl and the Secret fails, a command has finitely many
\* steps: a stage more than once, or a step of a stack twice, is no behaviour.
THEOREM CommandsRunOut == DeploySpec => [][GetsOn]_deployVars
<1>1. ASSUME DeploymentTypeOK, Step
      PROVE  commands' = commands /\ (StageAt' < StageAt \/ (stage' = stage /\ OneStackLess))
  <2>1. CASE ModelNamespace
    BY <2>1 DEF ModelNamespace, StageAt
  <2>2. ASSUME NEW s \in Stacks, DeployRouter(s)
        PROVE  commands' = commands /\ stage' = stage /\ OneStackLess
    BY <1>1, <2>2, FinishIsLess DEF DeployRouter
  <2>3. ASSUME NEW s \in Stacks, DeployModelservice(s)
        PROVE  commands' = commands /\ stage' = stage /\ OneStackLess
    BY <1>1, <2>3, FinishIsLess DEF DeployModelservice
  <2>4. ASSUME NEW s \in Stacks, RefuseModelservice(s)
        PROVE  commands' = commands /\ stage' = stage /\ OneStackLess
    BY <1>1, <2>4, FinishIsLess DEF RefuseModelservice, commandState
  <2>5. CASE Fail \/ StandupEnds \/ UpdateEnds
    BY <2>5 DEF Fail, StandupEnds, UpdateEnds, StepsOver, Idle, StageAt
  <2>6. CASE UninstallHelm \/ CleanHarness
    BY <2>6 DEF UninstallHelm, CleanHarness, StageAt
  <2> QED
    BY <1>1, <2>1, <2>2, <2>3, <2>4, <2>5, <2>6 DEF Step
<1>2. ASSUME DeploymentTypeOK, Command
      PROVE  commands' = commands + 1 /\ commands' <= MaxCommands
  <2>1. commands' = commands + 1
    BY <1>2 DEF Command, Standup, Update, Teardown, Begin
  <2>2. commands \in Nat /\ MaxCommands \in Nat /\ commands < MaxCommands
    BY <1>2, DeploymentAssumption DEF Command, DeploymentTypeOK, DeploymentAssumption
  <2> QED BY <2>1, <2>2
<1>3. DeploymentTypeOK /\ [DeployNext]_deployVars => [GetsOn]_deployVars
  <2>1. ASSUME DeploymentTypeOK, Command PROVE ~Step
    BY <2>1 DEF Command, Step, ModelNamespace, DeployRouter, DeployModelservice,
       RefuseModelservice, Fail, StandupEnds, UpdateEnds, StepsOver, UninstallHelm, CleanHarness
  <2> QED
    BY <1>1, <1>2, <2>1 DEF GetsOn, DeployNext
<1> QED
  BY <1>3, DeploymentTypeCorrect, PTL DEF DeploySpec
=============================================================================

--------------------------- MODULE SessionProofs ---------------------------
(***************************************************************************)
(* The theorems about the commands and about the collection hold of a      *)
(* session that is made of both: its steps are steps of the one or of the  *)
(* other, and the start of the run, which is neither, chooses the controls *)
(* of a collection in which nothing has happened yet.                      *)
(***************************************************************************)
EXTENDS Session, CollectionProofs, DeploymentProofs

\* Until the run starts the collection is in an initial state.
SInv ==
    /\ phase \in {"manage", "run"}
    /\ DInv
    /\ IInv
    /\ phase = "manage" => CollectInit

LEMMA SInvInit == SessionInit => SInv
BY DInvInit, InvInit DEF SessionInit, SInv

\* What a step of the session is to the collection.
LEMMA CollectionSteps ==
  ASSUME SInv, [SessionNext]_sessionVars
  PROVE  \/ [CollectNext]_collectVars
         \/ StartRun /\ CollectInit /\ CollectInit'
<1>1. CASE StartRun
  <2>1. CollectInit
    BY <1>1 DEF StartRun, SInv
  <2>2. CollectInit'
    BY <1>1, <2>1 DEF StartRun, CollectInit, pvcVars, scriptVars, driverVars, copyVars
  <2> QED BY <1>1, <2>1, <2>2
<1>2. CASE Manage
  BY <1>2 DEF Manage
<1>3. CASE RunStep(CollectNext)
  BY <1>3 DEF RunStep
<1>4. CASE UNCHANGED sessionVars
  BY <1>4 DEF sessionVars
<1> QED BY <1>1, <1>2, <1>3, <1>4 DEF SessionNext

\* What it is to the stacks and the Secret.
LEMMA DeploymentSteps == [SessionNext]_sessionVars => [DeployNext]_deployVars
BY DEF SessionNext, StartRun, Manage, RunStep, sessionVars

LEMMA SInvStep == SInv /\ [SessionNext]_sessionVars => SInv'
<1> SUFFICES ASSUME SInv, [SessionNext]_sessionVars
             PROVE  SInv'
  OBVIOUS
<1>1. DInv'
  BY DeploymentSteps, DInvStep DEF SInv
<1>2. IInv'
  <2>1. CASE [CollectNext]_collectVars
    BY <2>1, InvStep DEF SInv
  <2>2. CASE CollectInit'
    <3>1. (CollectInit => IInv)'
      BY InvInit, PTL
    <3> QED BY <2>2, <3>1
  <2> QED BY <2>1, <2>2, CollectionSteps
<1>3. phase' \in {"manage", "run"} /\ (phase' = "manage" => CollectInit')
  <2>1. CASE StartRun \/ RunStep(CollectNext)
    BY <2>1 DEF StartRun, RunStep, SInv
  <2>2. CASE Manage \/ UNCHANGED sessionVars
    BY <2>2 DEF Manage, sessionVars, SInv, CollectInit, collectVars, podVars,
                pvcVars, scriptVars, driverVars, copyVars
  <2> QED BY <2>1, <2>2 DEF SessionNext
<1> QED BY <1>1, <1>2, <1>3 DEF SInv

LEMMA SInvAlways == SessionSpec => []SInv
BY SInvInit, SInvStep, PTL DEF SessionSpec

-----------------------------------------------------------------------------

\* Every variable of the session has its type.
THEOREM SessionTypeCorrect == SessionSpec => []SessionTypeOK
<1>1. SInv => SessionTypeOK
  BY DEF SInv, DInv, IInv, WellTyped, SessionTypeOK
<1> QED BY <1>1, SInvAlways, PTL

\* Whatever commands preceded the run, no file of its results is lost, no
\* report is packed away, and a copy reported as whole is.
THEOREM SessionKeepsResults ==
    SessionSpec => [](NothingLost /\ KeepersStayPlain /\ WholeIsWhole)
<1>1. SInv => NothingLost /\ KeepersStayPlain /\ WholeIsWhole
  BY DEF SInv, IInv, FilesOK, CopyOK
<1> QED BY <1>1, SInvAlways, PTL

\* The Secret tells how the stacks run, through commands and run, with the
\* exceptions of TheSecretTellsTheTruth.
THEOREM SessionTellsTheTruth == SessionSpec => []SecretTellsTheTruth
<1>1. SInv => SecretTellsTheTruth
  BY SecretIsTrue DEF SInv
<1> QED BY <1>1, SInvAlways, PTL

\* No update of the session reverts what the user typed, with the exceptions
\* of UpdatesRevertNothing, or reaches out of its scope.
THEOREM SessionUpdatesSafely == SessionSpec => NoSilentRevert /\ UpdateStaysInScope
<1>1. SInv /\ [SessionNext]_sessionVars => DInv /\ [DeployNext]_deployVars
  BY DeploymentSteps DEF SInv
<1> QED
  BY <1>1, RevertStep, ScopeStep, SInvAlways, PTL
     DEF SessionSpec, NoSilentRevert, UpdateStaysInScope

-----------------------------------------------------------------------------

\* The start of the run asks the store for what the controls say.
LEMMA StartAsks ==
  ASSUME CollectInit, CollectInit'
  PROVE  Store!Ask
<1>1. (CollectInit => Store!StoreInit) /\ (CollectInit => Store!StoreInit)'
  BY StoreInitially, PTL
<1>2. Store!StoreInit /\ Store!StoreInit'
  BY <1>1
<1> QED
  BY <1>2 DEF Store!StoreInit, Store!Ask

\* A session implements the result store: the commands leave it alone.
THEOREM SessionImplementsStore == SessionSpec => CollectionImplementsStore
<1>1. SessionInit => Store!StoreInit
  BY StoreInitially DEF SessionInit
<1>2. SInv /\ SInv' /\ [SessionNext]_sessionVars => [Store!StoreNext]_(Store!storeVars)
  <2> SUFFICES ASSUME SInv, SInv', [SessionNext]_sessionVars
               PROVE  [Store!StoreNext]_(Store!storeVars)
    OBVIOUS
  <2>1. CASE [CollectNext]_collectVars
    BY <2>1, StoreStep DEF SInv
  <2>2. CASE CollectInit /\ CollectInit'
    BY <2>2, StartAsks DEF Store!StoreNext
  <2> QED BY <2>1, <2>2, CollectionSteps
<1> QED
  BY <1>1, <1>2, SInvAlways, PTL DEF SessionSpec, CollectionImplementsStore, Store!StoreSpec
=============================================================================

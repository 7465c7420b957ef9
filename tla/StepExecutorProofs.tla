------------------------- MODULE StepExecutorProofs -------------------------
(***************************************************************************)
(* The safety of StepExecutor for every registry of steps, every set of    *)
(* stacks and every --parallel: each invariant of its run, and the action  *)
(* property, as theorems of Spec.                                          *)
(*                                                                         *)
(* The properties speak of what has happened (a tail step ran, a result    *)
(* was returned) and not of where execute() is, so none is inductive.      *)
(* IInv ties the two together, and is proved action by action.             *)
(***************************************************************************)
EXTENDS StepExecutor, FiniteSetTheorems, WellFoundedInduction, TLAPS

\* A stack is stepped only once it has a worker.
IStart ==
    \A st \in Stacks :
        pool[st] \in {"idle", "queued"} => \A s \in Steps : sstat[st][s] = "todo"

\* Nothing is submitted before the global preparation has passed.
IPrepared ==
    /\ phase \in {"plan", "refused", "pre"} => \A st \in Stacks : pool[st] = "idle"
    /\ (phase \in {"stacks", "post"} \/ \E st \in Stacks : pool[st] # "idle")
          => AllPassed(PreGlobal, gstat)

\* A stack's steps are touched in order, each after the ones before passed.
IOrder ==
    \A st \in Stacks, s \in Steps :
        sstat[st][s] # "todo" =>
            /\ s \in PerStackSteps
            /\ \A r \in PerStackSteps : r < s => sstat[st][r] \in Passed

IRunning ==
    \A st \in Stacks, s \in Steps : sstat[st][s] = "running" => pool[st] = "running"

\* What a future that is over leaves behind.
IEnded ==
    \A st \in Stacks :
        /\ pool[st] = "returned" =>
              \/ AllPassed(PerStackSteps, sstat[st])
              \/ \E s \in Steps : sstat[st][s] = "failed"
        /\ pool[st] = "raised" => PerStackSteps # {}
        /\ st \in collected => pool[st] \in {"returned", "raised"}

StacksOver == targets = {} \/ PerStackSteps = {} \/ collected = targets

ITail ==
    (phase = "post" \/ \E g \in PostGlobal : gstat[g] # "todo") => StacksOver

IDone ==
    /\ errors => \E s \in Steps : gstat[s] = "failed"
    /\ phase = "done" =>
          \/ \E s \in Steps : gstat[s] = "failed"
          \/ AllPassed(PreGlobal, gstat) /\ AllPassed(PostGlobal, gstat) /\ StacksOver

\* execute() is called with names that are there, and nothing is done before.
ILoud ==
    IF phase \in {"plan", "refused"} THEN \A s \in Steps : gstat[s] = "todo" ELSE ~typo

IInv ==
    /\ TypeOK /\ IStart /\ IPrepared /\ IOrder /\ IRunning /\ IEnded /\ ITail /\ IDone
    /\ ILoud

-----------------------------------------------------------------------------
(* The partition depends on the selection only, and the selection is fixed *)

LEMMA PartitionIsFixed ==
    ASSUME allowed' = allowed
    PROVE  /\ PerStackSteps' = PerStackSteps
           /\ PreGlobal' = PreGlobal
           /\ PostGlobal' = PostGlobal
BY DEF PerStackSteps, PreGlobal, PostGlobal

LEMMA PartitionFacts ==
    ASSUME TypeOK
    PROVE  /\ PerStackSteps \subseteq Steps
           /\ PreGlobal \subseteq Steps
           /\ PostGlobal \subseteq Steps
           /\ PreGlobal \cap PostGlobal = {}
           /\ \A g \in allowed : ~PerStack[g] => g \in PreGlobal \cup PostGlobal
BY DEF TypeOK, PerStackSteps, PreGlobal, PostGlobal

\* Of one stack's steps at most one is under way or failed, and none follows
\* it; where the next one to begin stands, none is.
LEMMA OneFrontier ==
    ASSUME TypeOK, IOrder, NEW st \in Stacks, NEW s \in Steps,
           sstat[st][s] \in {"running", "failed"}
    PROVE  /\ ~AllPassed(PerStackSteps, sstat[st])
           /\ \A r \in Steps : ~CanBegin(st, r)
           /\ \A r \in Steps \ {s} : sstat[st][r] \notin {"running", "failed"}
<1>1. s \in PerStackSteps /\ sstat[st][s] \notin Passed /\ sstat[st][s] # "todo"
  BY DEF IOrder, Passed
<1>2. ~AllPassed(PerStackSteps, sstat[st])
  BY <1>1 DEF AllPassed
<1>3. ASSUME NEW r \in Steps, sstat[st][r] # "todo", r # s
      PROVE  r < s /\ sstat[st][r] \in Passed
  <2>1. r \in PerStackSteps
    BY <1>3 DEF IOrder
  <2>2. ~(s < r)
    BY <1>1, <1>3 DEF IOrder
  <2>3. r < s
    BY <1>3, <2>2, StepAssumption DEF Steps
  <2> QED
    BY <1>1, <2>1, <2>3 DEF IOrder
<1>4. ASSUME NEW r \in Steps, CanBegin(st, r)
      PROVE  FALSE
  <2>1. /\ r \in PerStackSteps /\ sstat[st][r] = "todo"
        /\ \A q \in PerStackSteps : q < r => sstat[st][q] \in Passed
    BY <1>4 DEF CanBegin, IsNextOf
  <2>2. r # s /\ ~(s < r)
    BY <1>1, <2>1
  <2>3. r < s
    BY <2>2, StepAssumption DEF Steps
  <2>4. sstat[st][r] \in Passed
    BY <1>1, <2>1, <2>3 DEF IOrder
  <2> QED
    BY <2>1, <2>4 DEF Passed
<1> QED
  BY <1>2, <1>3, <1>4 DEF Passed

-----------------------------------------------------------------------------
LEMMA InitIInv == Init => IInv
<1> SUFFICES ASSUME Init PROVE IInv
  OBVIOUS
<1>1. TypeOK
  BY DEF Init, TypeOK, Status
<1>2. IStart /\ IPrepared /\ IOrder /\ IRunning /\ IEnded
  BY DEF Init, IStart, IPrepared, IOrder, IRunning, IEnded
<1>3. ITail
  BY <1>1, PartitionFacts DEF Init, ITail
<1>4. IDone /\ ILoud
  BY DEF Init, IDone, ILoud
<1> QED
  BY <1>1, <1>2, <1>3, <1>4 DEF IInv

-----------------------------------------------------------------------------
(* The steps of execute() itself leave the stacks' steps alone, and the    *)
(* steps of a stack leave the global ones alone.                           *)

LEMMA TypeStep ==
    ASSUME TypeOK, [Next]_vars
    PROVE  TypeOK'
<1> USE DEF TypeOK, Status
<1>1. ASSUME NEW s \in Steps, GlobalStep(s) PROVE TypeOK'
  BY <1>1 DEF GlobalStep, SkipGlobal, SkipCheckRaises, BeginGlobal, EndGlobal, stackVars
<1>2. CASE SubmitStacks \/ CheckNames
  BY <1>2 DEF SubmitStacks, CheckNames, stackVars
<1>3. ASSUME NEW st \in Stacks, StackFuture(st) PROVE TypeOK'
  <2>1. CASE StartStack(st)
    BY <2>1 DEF StartStack
  <2>2. CASE StackRaises(st)
    BY <2>2 DEF StackRaises, CanBegin
  <2>3. CASE ReturnStack(st)
    BY <2>3 DEF ReturnStack
  <2>4. CASE CollectStack(st)
    BY <2>4 DEF CollectStack
  <2> QED
    BY <1>3, <2>1, <2>2, <2>3, <2>4 DEF StackFuture
<1>4. ASSUME NEW st \in Stacks, NEW s \in Steps, StackStep(st, s) PROVE TypeOK'
  <2>1. PICK r \in Status : SetStep(st, s, r)
    BY <1>4 DEF StackStep, SkipStackStep, BeginStackStep, EndStackStep
  <2> QED
    BY <2>1 DEF SetStep
<1>5. CASE LeavePool
  BY <1>5 DEF LeavePool, stackVars
<1>6. CASE Finish
  BY <1>6 DEF Finish, stackVars
<1>7. CASE UNCHANGED vars
  BY <1>7 DEF vars
<1> QED
  BY <1>1, <1>2, <1>3, <1>4, <1>5, <1>6, <1>7 DEF Next

\* A global step that has passed stays passed, and one that failed failed.
LEMMA GlobalsSettle ==
    ASSUME IInv, NEW s \in Steps, GlobalStep(s)
    PROVE  /\ UNCHANGED <<allowed, targets, typo, pool, sstat, collected>>
           /\ \A g \in Steps : gstat[g] \in Passed \cup {"failed"} => gstat'[g] = gstat[g]
           /\ \A g \in Steps : gstat'[g] # gstat[g] => g = s
           /\ gstat'[s] # gstat[s] => gstat[s] = "running" \/ s \in GlobalSteps
           /\ phase \notin {"plan", "refused"}
           /\ phase' = phase \/ phase' = "raised"
              \/ (phase' = "done" /\ gstat'[s] = "failed")
           /\ errors' => errors \/ gstat'[s] = "failed"
<1> USE DEF IInv, TypeOK, ILoud, Passed, stackVars
<1>1. CASE SkipGlobal(s)
  BY <1>1 DEF SkipGlobal, IsNextOf
<1>2. CASE SkipCheckRaises(s)
  BY <1>2 DEF SkipCheckRaises, IsNextOf
<1>3. CASE BeginGlobal(s)
  BY <1>3 DEF BeginGlobal, IsNextOf
<1>4. CASE EndGlobal(s)
  BY <1>4 DEF EndGlobal
<1> QED
  BY <1>1, <1>2, <1>3, <1>4 DEF GlobalStep

LEMMA GlobalStepIInv ==
    ASSUME IInv, NEW s \in Steps, GlobalStep(s)
    PROVE  IInv'
<1>1. TypeOK'
  BY TypeStep DEF IInv, Next
<1>2. /\ PerStackSteps' = PerStackSteps /\ PreGlobal' = PreGlobal
      /\ PostGlobal' = PostGlobal /\ StacksOver' = StacksOver
  BY PartitionIsFixed, GlobalsSettle DEF StacksOver
<1>3. ASSUME NEW G \in {PreGlobal, PostGlobal}, AllPassed(G, gstat)
      PROVE  AllPassed(G, gstat')
  BY <1>3, GlobalsSettle, PartitionFacts DEF AllPassed, IInv
<1>4. IStart' /\ IRunning' /\ IOrder' /\ IEnded'
  BY <1>2, GlobalsSettle DEF IInv, IStart, IRunning, IOrder, IEnded, AllPassed
<1>5. IPrepared'
  BY <1>2, <1>3, GlobalsSettle DEF IInv, IPrepared, AllPassed
<1>6. ITail'
  <2>1. ASSUME NEW g \in PostGlobal, gstat'[g] # "todo"
        PROVE  StacksOver
    <3>1. CASE gstat'[g] = gstat[g]
      BY <2>1, <3>1 DEF IInv, ITail
    <3>2. CASE gstat'[g] # gstat[g]
      <4>1. g = s /\ (gstat[s] = "running" \/ s \in GlobalSteps)
        BY <2>1, <3>2, GlobalsSettle, PartitionFacts DEF IInv
      <4>2. CASE gstat[s] = "running"
        BY <2>1, <4>1, <4>2 DEF IInv, ITail
      <4>3. CASE gstat[s] # "running" /\ s \in GlobalSteps
        <5>1. phase \in {"pre", "post"}
          BY <4>3 DEF GlobalStep, SkipGlobal, SkipCheckRaises, BeginGlobal, EndGlobal
        <5>2. phase = "post"
          BY <2>1, <4>1, <4>3, <5>1, PartitionFacts DEF GlobalSteps, IInv
        <5> QED
          BY <5>2 DEF IInv, ITail
      <4> QED
        BY <4>1, <4>2, <4>3
    <3> QED
      BY <3>1, <3>2
  <2>2. phase' = "post" => phase = "post"
    BY GlobalsSettle
  <2> QED
    BY <1>2, <2>1, <2>2 DEF IInv, ITail
<1>7. IDone'
  <2>1. \A g \in Steps : gstat[g] = "failed" => gstat'[g] = "failed"
    BY GlobalsSettle
  <2> QED
    BY <1>2, <1>3, <2>1, GlobalsSettle DEF IInv, IDone, AllPassed
<1>8. ILoud'
  BY GlobalsSettle DEF IInv, ILoud
<1> QED
  BY <1>1, <1>4, <1>5, <1>6, <1>7, <1>8 DEF IInv

-----------------------------------------------------------------------------
(* The check of --stack, and the three other steps of execute().           *)

LEMMA CheckNamesIInv ==
    ASSUME IInv, CheckNames
    PROVE  IInv'
<1>1. TypeOK'
  BY TypeStep DEF IInv, Next
<1>2. /\ UNCHANGED <<allowed, targets, typo, gstat, pool, sstat, collected, errors>>
      /\ phase = "plan" /\ phase' = IF typo THEN "refused" ELSE "pre"
  BY DEF CheckNames, stackVars
<1>3. /\ PerStackSteps' = PerStackSteps /\ PreGlobal' = PreGlobal
      /\ PostGlobal' = PostGlobal /\ StacksOver' = StacksOver
  BY <1>2, PartitionIsFixed DEF StacksOver
<1>4. IStart' /\ IRunning' /\ IOrder' /\ IEnded'
  BY <1>2, <1>3 DEF IInv, IStart, IRunning, IOrder, IEnded, AllPassed
<1>5. IPrepared' /\ ITail' /\ IDone'
  BY <1>2, <1>3 DEF IInv, IPrepared, ITail, IDone, AllPassed
<1>6. ILoud'
  BY <1>2 DEF IInv, ILoud, TypeOK
<1> QED
  BY <1>1, <1>4, <1>5, <1>6 DEF IInv

LEMMA ExecuteStepIInv ==
    ASSUME IInv, SubmitStacks \/ LeavePool \/ Finish
    PROVE  IInv'
<1>1. TypeOK'
  BY TypeStep DEF IInv, Next
<1>2. UNCHANGED <<allowed, targets, typo, gstat, sstat, collected, errors>>
  BY DEF SubmitStacks, LeavePool, Finish, stackVars
<1>3. /\ PerStackSteps' = PerStackSteps /\ PreGlobal' = PreGlobal
      /\ PostGlobal' = PostGlobal /\ StacksOver' = StacksOver
  BY <1>2, PartitionIsFixed DEF StacksOver
<1>4. CASE SubmitStacks
  <2>1. phase = "pre" /\ AllPassed(PreGlobal, gstat) /\ \A st \in Stacks : pool[st] = "idle"
    BY <1>4 DEF SubmitStacks, IInv, IPrepared
  <2>2. \A st \in Stacks, s \in Steps : sstat[st][s] = "todo"
    BY <2>1 DEF IInv, IStart
  <2>3. IStart' /\ IRunning' /\ IOrder'
    BY <1>2, <2>2 DEF IStart, IRunning, IOrder
  <2>4. IPrepared'
    BY <1>2, <1>3, <1>4, <2>1 DEF SubmitStacks, IPrepared, AllPassed
  <2>5. IEnded'
    BY <1>2, <1>3, <1>4, <2>1 DEF SubmitStacks, IInv, TypeOK, IEnded
  <2>6. ITail'
    <3>1. ~typo
      BY <2>1 DEF IInv, ILoud
    <3> QED
      BY <1>2, <1>3, <1>4, <2>1, <3>1 DEF SubmitStacks, NothingToSubmit, IInv, ITail, StacksOver
  <2>7. IDone' /\ ILoud'
    BY <1>2, <1>3, <1>4, <2>1 DEF SubmitStacks, IInv, IDone, ILoud, AllPassed
  <2> QED
    BY <1>1, <2>3, <2>4, <2>5, <2>6, <2>7 DEF IInv
<1>5. CASE LeavePool \/ Finish
  <2>1. pool' = pool /\ phase \in {"stacks", "post"}
    BY <1>5 DEF LeavePool, Finish, stackVars
  <2>2. IStart' /\ IRunning' /\ IOrder' /\ IEnded'
    BY <1>2, <1>3, <2>1 DEF IInv, IStart, IRunning, IOrder, IEnded, AllPassed
  <2>3. IPrepared'
    BY <1>2, <1>3, <1>5, <2>1 DEF LeavePool, Finish, IInv, IPrepared, AllPassed
  <2>4. ITail'
    BY <1>2, <1>3, <1>5 DEF LeavePool, Finish, IInv, ITail, StacksOver
  <2>5. IDone'
    <3>1. CASE LeavePool
      BY <1>2, <1>3, <3>1 DEF LeavePool, IInv, IDone, AllPassed
    <3>2. CASE Finish
      BY <1>2, <1>3, <3>2 DEF Finish, IInv, IPrepared, ITail, IDone, AllPassed
    <3> QED
      BY <1>5, <3>1, <3>2
  <2> QED
    BY <1>1, <1>2, <1>5, <2>1, <2>2, <2>3, <2>4, <2>5 DEF IInv, ILoud, LeavePool, Finish
<1> QED
  BY <1>4, <1>5

-----------------------------------------------------------------------------
(* What a stack does.                                                      *)

LEMMA StackStepIInv ==
    ASSUME IInv, NEW st \in Stacks, NEW s \in Steps, StackStep(st, s)
    PROVE  IInv'
<1>1. TypeOK'
  BY TypeStep DEF IInv, Next
<1>2. PICK r \in Status \ {"todo"} : SetStep(st, s, r)
  BY DEF StackStep, SkipStackStep, BeginStackStep, EndStackStep, Status
<1>3. UNCHANGED <<allowed, targets, typo, phase, gstat, pool, collected, errors>>
  BY <1>2 DEF SetStep
<1>4. /\ PerStackSteps' = PerStackSteps /\ PreGlobal' = PreGlobal
      /\ PostGlobal' = PostGlobal /\ StacksOver' = StacksOver
  BY <1>3, PartitionIsFixed DEF StacksOver
<1>5. /\ sstat'[st][s] = r
      /\ \A t \in Stacks, q \in Steps : t # st \/ q # s => sstat'[t][q] = sstat[t][q]
  BY <1>2 DEF SetStep, IInv, TypeOK
<1>6. pool[st] = "running" /\ sstat[st][s] \in {"todo", "running"}
  BY DEF StackStep, SkipStackStep, BeginStackStep, EndStackStep, CanBegin, IsNextOf,
         IInv, IRunning
<1>7. s \in PerStackSteps /\ \A q \in PerStackSteps : q < s => sstat[st][q] \in Passed
  BY DEF StackStep, SkipStackStep, BeginStackStep, EndStackStep, CanBegin, IsNextOf,
         IInv, IOrder
<1>8. IStart'
  BY <1>3, <1>5, <1>6 DEF IInv, IStart
<1>9. IPrepared'
  BY <1>3, <1>4 DEF IInv, IPrepared, AllPassed
<1>10. IOrder'
  <2> SUFFICES ASSUME NEW t \in Stacks, NEW p \in Steps, sstat'[t][p] # "todo"
               PROVE  /\ p \in PerStackSteps
                      /\ \A q \in PerStackSteps : q < p => sstat'[t][q] \in Passed
    BY <1>4 DEF IOrder
  <2>1. CASE t # st
    BY <1>5, <2>1, PartitionFacts DEF IInv, IOrder
  <2>2. CASE t = st /\ p = s
    BY <1>5, <1>7, <2>2, PartitionFacts, StepAssumption DEF IInv, Steps
  <2>3. CASE t = st /\ p # s
    <3>1. /\ p \in PerStackSteps
          /\ \A q \in PerStackSteps : q < p => sstat[st][q] \in Passed
      BY <1>5, <2>3 DEF IInv, IOrder
    <3>2. ~(s < p)
      BY <1>6, <1>7, <3>1 DEF Passed
    <3> QED
      BY <1>5, <2>3, <3>1, <3>2, PartitionFacts DEF IInv
  <2> QED
    BY <2>1, <2>2, <2>3
<1>11. IRunning'
  BY <1>3, <1>5, <1>6 DEF IInv, IRunning
<1>12. IEnded'
  BY <1>3, <1>4, <1>5, <1>6, PartitionFacts DEF IInv, IEnded, AllPassed
<1>13. ITail' /\ IDone' /\ ILoud'
  BY <1>3, <1>4 DEF IInv, ITail, IDone, ILoud, AllPassed
<1> QED
  BY <1>1, <1>8, <1>9, <1>10, <1>11, <1>12, <1>13 DEF IInv

LEMMA StackFutureIInv ==
    ASSUME IInv, NEW st \in Stacks, StackFuture(st)
    PROVE  IInv'
<1>1. TypeOK'
  BY TypeStep DEF IInv, Next
<1>2. UNCHANGED <<allowed, targets, typo, gstat, sstat, errors>>
  BY DEF StackFuture, StartStack, StackRaises, ReturnStack, CollectStack
<1>3. /\ PerStackSteps' = PerStackSteps /\ PreGlobal' = PreGlobal
      /\ PostGlobal' = PostGlobal
  BY <1>2, PartitionIsFixed
<1>4. IOrder' /\ phase' \in {phase, "raised"}
  BY <1>2, <1>3 DEF IInv, IOrder, StackFuture, StartStack, StackRaises, ReturnStack,
                    CollectStack
<1>5. /\ \A t \in Stacks : pool'[t] # pool[t] => t = st /\ pool[st] # "idle"
      /\ pool'[st] # pool[st] => pool'[st] \in {"running", "raised", "returned"}
      /\ pool[st] \in {"returned", "raised"} => pool'[st] = pool[st]
  BY DEF IInv, TypeOK, StackFuture, StartStack, StackRaises, ReturnStack, CollectStack,
         CanBegin
<1>6. IStart'
  <2>1. CASE StartStack(st)
    BY <1>2, <2>1 DEF StartStack, IInv, TypeOK, IStart
  <2>2. CASE StackRaises(st) \/ ReturnStack(st) \/ CollectStack(st)
    BY <1>2, <2>2 DEF StackRaises, ReturnStack, CollectStack, IInv, TypeOK, IStart
  <2> QED
    BY <2>1, <2>2 DEF StackFuture
<1>7. IPrepared'
  BY <1>2, <1>3, <1>4, <1>5 DEF IInv, TypeOK, IPrepared, AllPassed
<1>8. IRunning'
  <2> SUFFICES ASSUME NEW t \in Stacks, NEW s \in Steps, sstat[t][s] = "running"
               PROVE  pool'[t] = "running"
    BY <1>2 DEF IRunning
  <2>1. pool[t] = "running"
    BY DEF IInv, IRunning
  <2>2. t = st => ~StackRaises(st) /\ ~ReturnStack(st)
    <3>1. ASSUME t = st PROVE ~StackRaises(st)
      BY <3>1, OneFrontier DEF StackRaises, IInv
    <3>2. ASSUME t = st PROVE ~ReturnStack(st)
      <4>1. ~AllPassed(PerStackSteps, sstat[st])
        BY <3>2, OneFrontier DEF IInv
      <4>2. \A q \in Steps : sstat[st][q] # "failed"
        BY <3>2, OneFrontier DEF IInv
      <4> QED
        BY <4>1, <4>2 DEF ReturnStack
    <3> QED
      BY <3>1, <3>2
  <2> QED
    BY <2>1, <2>2 DEF StackFuture, StartStack, StackRaises, ReturnStack, CollectStack,
                      IInv, TypeOK
<1>9. IEnded'
  <2>1. CASE StartStack(st)
    BY <1>2, <1>3, <2>1 DEF StartStack, IInv, TypeOK, IEnded, AllPassed
  <2>2. CASE StackRaises(st)
    BY <1>2, <1>3, <2>2 DEF StackRaises, CanBegin, IsNextOf, IInv, TypeOK, IEnded, AllPassed
  <2>3. CASE ReturnStack(st)
    BY <1>2, <1>3, <2>3 DEF ReturnStack, IInv, TypeOK, IEnded, AllPassed
  <2>4. CASE CollectStack(st)
    BY <1>2, <1>3, <2>4 DEF CollectStack, IInv, TypeOK, IEnded, AllPassed
  <2> QED
    BY <2>1, <2>2, <2>3, <2>4 DEF StackFuture
<1>10. StacksOver => StacksOver'
  BY <1>2, <1>3 DEF StacksOver, StackFuture, StartStack, StackRaises, ReturnStack,
                    CollectStack, IInv, TypeOK
<1>11. ITail' /\ IDone'
  BY <1>2, <1>3, <1>4, <1>10 DEF IInv, ITail, IDone, AllPassed
<1>12. ILoud'
  <2>1. CASE StackRaises(st)
    <3>1. pool[st] = "running" /\ ~typo
      BY <2>1 DEF StackRaises, CanBegin, IInv, IPrepared, ILoud
    <3>2. phase \notin {"plan", "refused"}
      BY <3>1 DEF IInv, IPrepared
    <3> QED
      BY <1>2, <1>4, <3>1, <3>2 DEF ILoud
  <2>2. CASE StartStack(st) \/ ReturnStack(st) \/ CollectStack(st)
    BY <1>2, <2>2 DEF StartStack, ReturnStack, CollectStack, IInv, ILoud
  <2> QED
    BY <2>1, <2>2 DEF StackFuture
<1> QED
  BY <1>1, <1>4, <1>6, <1>7, <1>8, <1>9, <1>11, <1>12 DEF IInv

LEMMA NextIInv == IInv /\ [Next]_vars => IInv'
<1> SUFFICES ASSUME IInv, [Next]_vars PROVE IInv'
  OBVIOUS
<1>1. CASE UNCHANGED vars
  BY <1>1, PartitionIsFixed DEF vars, IInv, TypeOK, IStart, IPrepared, IOrder, IRunning,
     IEnded, ITail, IDone, ILoud, StacksOver, AllPassed
<1>2. CASE Next
  BY <1>2, CheckNamesIInv, GlobalStepIInv, ExecuteStepIInv, StackStepIInv, StackFutureIInv DEF Next
<1> QED
  BY <1>1, <1>2

THEOREM Invariance == Spec => []IInv
BY InitIInv, NextIInv, PTL DEF Spec

-----------------------------------------------------------------------------
(* The properties.                                                         *)

\* Every variable keeps its type, and no future is ever made for a stack
\* that --stack leaves out (execute, _execute_stacks_parallel).
THEOREM TypeCorrect == Spec => []TypeOK
BY Invariance, PTL DEF IInv

\* No stack's work starts before the whole global preparation has passed
\* (_partition_steps, execute).
THEOREM PreparationIsFirst == Spec => []PreparationFirst
<1>1. IInv => PreparationFirst
  <2> SUFFICES ASSUME IInv, NEW st \in Stacks, StackTouched(st), NEW g \in allowed,
                      ~PerStack[g] /\ \A s \in PerStackSteps : Number[g] <= Number[s]
               PROVE  gstat[g] \in Passed
    BY DEF PreparationFirst
  <2>1. pool[st] # "idle"
    BY DEF StackTouched, IInv, IStart
  <2>2. g \in PreGlobal
    BY DEF PreGlobal, PerStackSteps
  <2> QED
    BY <2>1, <2>2 DEF IInv, IPrepared, AllPassed
<1> QED
  BY <1>1, Invariance, PTL

\* No global step of the tail runs while a stack is at work or before its
\* result is in (_execute_stacks_parallel, as_completed).
THEOREM TailWaitsForStacks == Spec => []NoTailBeforeStacksEnd
<1>1. IInv => NoTailBeforeStacksEnd
  <2> SUFFICES ASSUME IInv, NEW g \in PostGlobal, gstat[g] # "todo", NEW st \in targets
               PROVE  /\ \A s \in Steps : sstat[st][s] # "running"
                      /\ PerStackSteps # {} => st \in collected
    BY DEF NoTailBeforeStacksEnd
  <2>1. PerStackSteps = {} \/ collected = targets
    BY DEF IInv, ITail, StacksOver
  <2>2. CASE PerStackSteps = {}
    BY <2>2 DEF IInv, TypeOK, IOrder
  <2>3. CASE collected = targets
    BY <2>3 DEF IInv, TypeOK, IEnded, IRunning
  <2> QED
    BY <2>1, <2>2, <2>3
<1> QED
  BY <1>1, Invariance, PTL

\* A stack's failure leaves its later steps untouched, its earlier ones
\* passed (_execute_stack).
THEOREM FailureStopsTheStack == Spec => []StopsAtFirstFailure
<1>1. IInv => StopsAtFirstFailure
  <2> SUFFICES ASSUME IInv, NEW st \in Stacks, NEW s \in Steps,
                      sstat[st][s] \in {"failed", "running"}, NEW r \in PerStackSteps
               PROVE  /\ r < s => sstat[st][r] \in Passed
                      /\ r > s => sstat[st][r] = "todo"
    BY DEF StopsAtFirstFailure
  <2>1. r < s => sstat[st][r] \in Passed
    BY DEF IInv, IOrder
  <2>2. ASSUME r > s PROVE sstat[st][r] = "todo"
    <3>1. s \in PerStackSteps /\ r \in Steps /\ s < r
      BY <2>2, PartitionFacts, StepAssumption DEF IInv, IOrder, Steps
    <3> QED
      BY <3>1 DEF IInv, IOrder, Passed
  <2> QED
    BY <2>1, <2>2
<1> QED
  BY <1>1, Invariance, PTL

\* The result returned by execute() says it has errors exactly when
\* something failed, and without errors everything asked for has passed, on
\* every stack that --stack names, none of them unknown
\* (ExecutionResult.has_errors, RenderPlans.eval).
THEOREM ResultTellsAll == Spec => []ResultIsComplete
<1>1. IInv => ResultIsComplete
  <2> SUFFICES ASSUME IInv, phase = "done", \A s \in Steps : gstat[s] # "failed"
               PROVE  /\ HasErrors <=> \E st \in Stacks : StackFailed(st)
                      /\ ~HasErrors =>
                            /\ ~typo
                            /\ \A g \in allowed : ~PerStack[g] => gstat[g] \in Passed
                            /\ \A st \in targets : AllPassed(PerStackSteps, sstat[st])
    BY DEF ResultIsComplete, HasErrors
  <2>1. /\ ~errors /\ StacksOver
        /\ AllPassed(PreGlobal, gstat) /\ AllPassed(PostGlobal, gstat)
    BY DEF IInv, IDone
  <2>2. HasErrors <=> \E st \in collected : StackFailed(st)
    BY <2>1 DEF HasErrors
  <2>3. ASSUME NEW st \in Stacks, StackFailed(st)
        PROVE  st \in collected
    <3>1. pool[st] # "idle" /\ PerStackSteps # {}
      BY <2>3 DEF StackFailed, IInv, IStart, IOrder, IEnded
    <3>2. st \in targets
      BY <3>1 DEF IInv, TypeOK
    <3> QED
      BY <2>1, <3>1, <3>2 DEF StacksOver
  <2>4. HasErrors <=> \E st \in Stacks : StackFailed(st)
    BY <2>2, <2>3 DEF IInv, TypeOK
  <2>5. ~typo /\ \A g \in allowed : ~PerStack[g] => gstat[g] \in Passed
    BY <2>1, PartitionFacts DEF IInv, ILoud, AllPassed
  <2>6. ASSUME ~HasErrors, NEW st \in targets
        PROVE  AllPassed(PerStackSteps, sstat[st])
    <3>1. CASE PerStackSteps = {}
      BY <3>1 DEF AllPassed
    <3>2. CASE st \in collected
      <4>1. pool[st] = "returned" /\ \A s \in Steps : sstat[st][s] # "failed"
        BY <2>2, <2>6, <3>2 DEF StackFailed, IInv, IEnded, TypeOK
      <4> QED
        BY <4>1 DEF IInv, IEnded, TypeOK
    <3> QED
      BY <2>1, <3>1, <3>2 DEF StacksOver
  <2> QED
    BY <2>4, <2>5, <2>6
<1> QED
  BY <1>1, Invariance, PTL

\* Only the global steps of the selection are touched as global ones.
ISelected == \A s \in Steps : gstat[s] # "todo" => s \in PreGlobal \cup PostGlobal

LEMMA SelectedAlways == Spec => []ISelected
<1>1. Init => ISelected
  BY DEF Init, ISelected
<1>2. ASSUME IInv, ISelected, [Next]_vars PROVE ISelected'
  <2>1. ASSUME NEW s \in Steps, GlobalStep(s) PROVE ISelected'
    <3>1. gstat[s] = "running" \/ s \in GlobalSteps \/ gstat' = gstat
      BY <2>1 DEF GlobalStep, SkipGlobal, SkipCheckRaises, BeginGlobal, EndGlobal, IsNextOf
    <3> QED
      BY <1>2, <2>1, <3>1, GlobalsSettle, PartitionIsFixed DEF ISelected, GlobalSteps
  <2>2. (\A s \in Steps : ~GlobalStep(s)) => UNCHANGED <<allowed, gstat>>
    BY <1>2 DEF Next, CheckNames, SubmitStacks, StackFuture, StartStack, StackRaises,
           ReturnStack, CollectStack, StackStep, SkipStackStep, BeginStackStep, EndStackStep,
           SetStep, LeavePool, Finish, stackVars, vars
  <2> QED
    BY <1>2, <2>1, <2>2, PartitionIsFixed DEF ISelected
<1> QED
  BY <1>1, <1>2, Invariance, PTL DEF Spec

\* When execute() returns, every selected stack has been run to its own end
\* and its result is in, unless a step of the preparation failed: neither
\* another stack's failure nor a failure of the tail cuts a stack short.  It
\* is the safety half of PhaseEnds (_execute_stacks_parallel).
EndsWithAllStacks == phase = "done" => AllStacksEnded

THEOREM StacksAreRunToTheirEnd == Spec => []EndsWithAllStacks
<1>1. IInv /\ ISelected => EndsWithAllStacks
  <2> SUFFICES ASSUME IInv, ISelected, phase = "done", PerStackSteps # {},
                      \A g \in PreGlobal : gstat[g] # "failed", NEW st \in targets
               PROVE  StackEnded(st)
    BY DEF EndsWithAllStacks, AllStacksEnded
  <2>1. StacksOver
    <3>1. CASE \E s \in Steps : gstat[s] = "failed"
      <4>1. PICK s \in Steps : gstat[s] = "failed"
        BY <3>1
      <4> QED
        BY <4>1 DEF ISelected, IInv, ITail
    <3> QED
      BY <3>1 DEF IInv, IDone
  <2>2. st \in collected /\ st \in Stacks
    BY <2>1 DEF StacksOver, IInv, TypeOK
  <2> QED
    BY <2>2 DEF StackEnded, StackFailed, IInv, IEnded
<1> QED
  BY <1>1, Invariance, SelectedAlways, PTL

\* A failed stack is never stepped again, while the others go on
\* (_execute_stack's break, the future's exception).
FailureIsFinal ==
    [][\A st \in Stacks : StackFailed(st) => sstat'[st] = sstat[st]]_vars

THEOREM FailedStacksRest == Spec => FailureIsFinal
<1>1. ASSUME IInv, Next, NEW st \in Stacks, StackFailed(st)
      PROVE  sstat'[st] = sstat[st]
  <2>1. \A s \in Steps : ~CanBegin(st, s) /\ sstat[st][s] # "running"
    <3>1. CASE pool[st] = "raised"
      BY <1>1, <3>1 DEF CanBegin, IInv, IRunning
    <3>2. ASSUME NEW s \in Steps, sstat[st][s] = "failed"
          PROVE  \A r \in Steps : ~CanBegin(st, r) /\ sstat[st][r] # "running"
      BY <1>1, <3>2, OneFrontier DEF IInv
    <3> QED
      BY <1>1, <3>1, <3>2 DEF StackFailed
  <2>2. ASSUME NEW s \in Steps, GlobalStep(s) PROVE sstat' = sstat
    BY <1>1, <2>2, GlobalsSettle
  <2>3. ASSUME NEW t \in Stacks, NEW s \in Steps, StackStep(t, s)
        PROVE  sstat'[st] = sstat[st]
    <3>1. t # st
      BY <2>1, <2>3 DEF StackStep, SkipStackStep, BeginStackStep, EndStackStep
    <3>2. PICK r : SetStep(t, s, r)
      BY <2>3 DEF StackStep, SkipStackStep, BeginStackStep, EndStackStep
    <3> QED
      BY <1>1, <3>1, <3>2 DEF SetStep, IInv, TypeOK
  <2>4. ASSUME NEW t \in Stacks, StackFuture(t) PROVE sstat' = sstat
    BY <2>4 DEF StackFuture, StartStack, StackRaises, ReturnStack, CollectStack
  <2>5. CheckNames \/ SubmitStacks \/ LeavePool \/ Finish => sstat' = sstat
    BY DEF CheckNames, SubmitStacks, LeavePool, Finish, stackVars
  <2> QED
    BY <1>1, <2>2, <2>3, <2>4, <2>5 DEF Next
<1>2. IInv /\ [Next]_vars => [\A st \in Stacks : StackFailed(st) => sstat'[st] = sstat[st]]_vars
  BY <1>1
<1> QED
  BY <1>2, Invariance, PTL DEF Spec, FailureIsFinal

-----------------------------------------------------------------------------
(* The threads together implement the promise of execute().                *)

\* Work goes on in the pool only, and one stack's exception is the phase's.
IActive ==
    \A st \in Stacks :
        /\ pool[st] \in {"queued", "running"} => phase = "stacks"
        /\ pool[st] = "raised" /\ Cardinality(targets) = 1 => phase = "raised"

\* The walk over the global steps stands at the one that runs, and a failure
\* has ended it.
IWalk ==
    \A s \in Steps :
        /\ gstat[s] = "running" =>
              /\ phase \in {"pre", "post"} /\ s \in GlobalSteps
              /\ \A r \in GlobalSteps : r < s => gstat[r] \in Passed
        /\ gstat[s] = "failed" => phase = "done"

\* A target that is at work while it is the only one is all of them.
LEMMA OneTarget ==
    ASSUME TypeOK, Cardinality(targets) = 1, NEW st \in targets, NEW t \in Stacks \ {st}
    PROVE  pool[t] = "idle"
<1>1. IsFiniteSet(targets)
  BY FS_Subset, StackAssumption DEF TypeOK
<1>2. \E x : targets = {x}
  BY <1>1, FS_Singleton
<1> QED
  BY <1>2 DEF TypeOK

LEMMA ActiveStep ==
    ASSUME IInv, IActive, IWalk, [Next]_vars
    PROVE  IActive'
<1> USE DEF IActive
<1>1. ASSUME NEW s \in Steps, GlobalStep(s)
      PROVE  IActive'
  <2>1. phase \in {"pre", "post"} /\ UNCHANGED <<pool, targets>>
    BY <1>1 DEF GlobalStep, SkipGlobal, SkipCheckRaises, BeginGlobal, EndGlobal, IWalk, stackVars
  <2> QED
    BY <2>1
<1>2. CASE SubmitStacks \/ CheckNames
  BY <1>2 DEF SubmitStacks, CheckNames, stackVars, IInv, IPrepared
<1>3. ASSUME NEW st \in Stacks, StackFuture(st)
      PROVE  IActive'
  <2>1. CASE StartStack(st) \/ ReturnStack(st) \/ CollectStack(st)
    BY <2>1 DEF StartStack, ReturnStack, CollectStack, IInv, TypeOK
  <2>2. CASE StackRaises(st) /\ Cardinality(targets) # 1
    BY <2>2 DEF StackRaises, IInv, TypeOK
  <2>3. CASE StackRaises(st) /\ Cardinality(targets) = 1
    <3>1. st \in targets
      BY <2>3 DEF StackRaises, CanBegin, IInv, TypeOK
    <3>2. \A t \in Stacks \ {st} : pool[t] = "idle"
      BY <2>3, <3>1, OneTarget DEF IInv
    <3> QED
      BY <2>3, <3>2 DEF StackRaises, IInv, TypeOK
  <2> QED
    BY <1>3, <2>1, <2>2, <2>3 DEF StackFuture
<1>4. ASSUME NEW st \in Stacks, NEW s \in Steps, StackStep(st, s)
      PROVE  IActive'
  BY <1>4 DEF StackStep, SkipStackStep, BeginStackStep, EndStackStep, SetStep
<1>5. CASE LeavePool
  <2>1. \A st \in Stacks : pool[st] \notin {"queued", "running"}
    BY <1>5 DEF LeavePool, IInv, IEnded, TypeOK
  <2> QED
    BY <1>5, <2>1 DEF LeavePool, stackVars
<1>6. CASE Finish \/ UNCHANGED vars
  BY <1>6 DEF Finish, stackVars, vars
<1> QED
  BY <1>1, <1>2, <1>3, <1>4, <1>5, <1>6 DEF Next

LEMMA WalkStep ==
    ASSUME IInv, IActive, IWalk, [Next]_vars
    PROVE  IWalk'
<1>1. ASSUME NEW s \in Steps, GlobalStep(s)
      PROVE  IWalk'
  <2>1. /\ allowed' = allowed /\ phase \in {"pre", "post"} /\ s \in GlobalSteps
        /\ gstat[s] \in {"todo", "running"}
        /\ \A r \in GlobalSteps : r < s => gstat[r] \in Passed
    BY <1>1 DEF GlobalStep, SkipGlobal, SkipCheckRaises, BeginGlobal, EndGlobal, IsNextOf, IWalk
  <2>2. GlobalSteps \subseteq Steps
    BY PartitionFacts DEF IInv, GlobalSteps
  <2>3. \A r \in Steps \ {s} : gstat[r] \notin {"running", "failed"}
    <3> SUFFICES ASSUME NEW r \in Steps \ {s}, gstat[r] \in {"running", "failed"}
                 PROVE  FALSE
      OBVIOUS
    <3>1. gstat[r] = "running" /\ r \in GlobalSteps
             /\ \A q \in GlobalSteps : q < r => gstat[q] \in Passed
      BY <2>1 DEF IWalk
    <3>2. ~(r < s) /\ ~(s < r)
      BY <2>1, <3>1 DEF Passed
    <3> QED
      BY <3>2, StepAssumption DEF Steps
  <2>4. phase' = phase => GlobalSteps' = GlobalSteps
    BY <2>1, PartitionIsFixed DEF GlobalSteps
  <2>5. CASE SkipGlobal(s) \/ BeginGlobal(s)
    <3>1. phase' = phase /\ \A r \in Steps \ {s} : gstat'[r] = gstat[r]
      BY <2>5 DEF SkipGlobal, BeginGlobal, IInv, TypeOK
    <3>2. gstat'[s] \in {"skipped", "running"}
      BY <2>5 DEF SkipGlobal, BeginGlobal, IInv, TypeOK
    <3>3. \A r \in GlobalSteps : r < s => r # s
      BY StepAssumption DEF Steps
    <3> QED
      BY <2>1, <2>2, <2>3, <2>4, <3>1, <3>2, <3>3 DEF IWalk
  <2>6. CASE SkipCheckRaises(s)
    BY <2>1, <2>3, <2>6 DEF SkipCheckRaises, IsNextOf, IWalk
  <2>7. CASE EndGlobal(s)
    BY <2>1, <2>3, <2>4, <2>7 DEF EndGlobal, IWalk, IInv, TypeOK
  <2> QED
    BY <1>1, <2>5, <2>6, <2>7 DEF GlobalStep
<1>2. CASE CheckNames \/ SubmitStacks \/ LeavePool \/ Finish
  <2>1. \A s \in Steps : gstat[s] # "running" /\ gstat[s] # "failed"
    BY <1>2 DEF CheckNames, SubmitStacks, LeavePool, Finish, IWalk, AllPassed, GlobalSteps, Passed
  <2> QED
    BY <1>2, <2>1 DEF CheckNames, SubmitStacks, LeavePool, Finish, IWalk
<1>3. ASSUME NEW st \in Stacks, StackFuture(st)
      PROVE  IWalk'
  <2>1. CASE StackRaises(st)
    <3>1. allowed' = allowed /\ gstat' = gstat
      BY <2>1 DEF StackRaises
    <3>2. pool[st] = "running"
      BY <2>1 DEF StackRaises, CanBegin
    <3>3. \A s \in Steps : gstat[s] \notin {"running", "failed"}
      BY <3>2 DEF IActive, IWalk
    <3> QED
      BY <3>1, <3>3 DEF IWalk
  <2>2. CASE StartStack(st) \/ ReturnStack(st) \/ CollectStack(st)
    BY <2>2, PartitionIsFixed DEF StartStack, ReturnStack, CollectStack, IWalk, GlobalSteps
  <2> QED
    BY <1>3, <2>1, <2>2 DEF StackFuture
<1>4. ASSUME NEW st \in Stacks, NEW s \in Steps, StackStep(st, s)
      PROVE  IWalk'
  BY <1>4, PartitionIsFixed
     DEF StackStep, SkipStackStep, BeginStackStep, EndStackStep, SetStep, IWalk, GlobalSteps
<1>5. CASE UNCHANGED vars
  BY <1>5, PartitionIsFixed DEF vars, IWalk, GlobalSteps
<1> QED
  BY <1>1, <1>2, <1>3, <1>4, <1>5 DEF Next

-----------------------------------------------------------------------------
(* The promise, in the words of the executor.                              *)

LEMMA SameWork ==
    /\ Promise!StackWork = PerStackSteps
    /\ Promise!GlobalWork = allowed \ PerStackSteps
    /\ Promise!Preparation = PreGlobal
BY DEF Promise!StackWork, Promise!GlobalWork, Promise!Preparation, PerStackSteps, PreGlobal

LEMMA SameResults ==
    ASSUME TypeOK, NEW s \in Steps
    PROVE  /\ GlobalResults[s] = Result(gstat[s])
           /\ GlobalResults[s] = "passed" <=> gstat[s] \in Passed
           /\ GlobalResults[s] = "pending" <=> gstat[s] \in {"todo", "running"}
           /\ \A st \in Stacks :
                 /\ StackResults[st][s] = Result(sstat[st][s])
                 /\ StackResults[st][s] = "passed" <=> sstat[st][s] \in Passed
                 /\ StackResults[st][s] = "pending" <=> sstat[st][s] \in {"todo", "running"}
                 /\ StackResults[st][s] = "failed" <=> sstat[st][s] = "failed"
<1>1. \A x \in Status : /\ Result(x) = "passed" <=> x \in Passed
                        /\ Result(x) = "pending" <=> x \in {"todo", "running"}
                        /\ Result(x) = "failed" <=> x = "failed"
  BY DEF Result, Status, Passed
<1>2. gstat[s] \in Status /\ \A st \in Stacks : sstat[st][s] \in Status
  BY DEF TypeOK
<1> QED
  BY <1>1, <1>2 DEF GlobalResults, StackResults

StackSettled(st) ==
    \/ st \in GivenUp
    \/ \E s \in PerStackSteps : sstat[st][s] = "failed"
    \/ AllPassed(PerStackSteps, sstat[st])

LEMMA SameConditions ==
    ASSUME TypeOK
    PROVE  /\ Promise!Prepared <=> AllPassed(PreGlobal, gstat)
           /\ \A st \in Stacks : Promise!Settled(st) <=> StackSettled(st)
<1>1. Promise!Prepared <=> AllPassed(PreGlobal, gstat)
  BY SameWork, SameResults, PartitionFacts DEF Promise!Prepared, AllPassed
<1>2. ASSUME NEW st \in Stacks
      PROVE  Promise!Settled(st) <=> StackSettled(st)
  <2>1. \A s \in PerStackSteps :
           /\ StackResults[st][s] = "passed" <=> sstat[st][s] \in Passed
           /\ StackResults[st][s] = "failed" <=> sstat[st][s] = "failed"
    BY SameResults, PartitionFacts
  <2> QED
    BY <2>1, SameWork DEF Promise!Settled, StackSettled, AllPassed
<1> QED
  BY <1>1, <1>2

\* Before the tail is touched every target is settled.
LEMMA TailFindsAllSettled ==
    ASSUME IInv, IActive, phase = "post"
    PROVE  \A st \in targets : StackSettled(st)
<1> SUFFICES ASSUME NEW st \in targets PROVE StackSettled(st)
  OBVIOUS
<1>1. st \in Stacks
  BY DEF IInv, TypeOK
<1>2. CASE PerStackSteps = {}
  BY <1>2 DEF StackSettled, AllPassed
<1>3. CASE st \in collected
  <2>1. CASE pool[st] = "raised"
    BY <1>1, <2>1 DEF StackSettled, GivenUp, IActive
  <2>2. CASE pool[st] = "returned"
    BY <1>1, <2>2 DEF StackSettled, IInv, IEnded, IOrder
  <2> QED
    BY <1>1, <1>3, <2>1, <2>2 DEF IInv, IEnded
<1> QED
  BY <1>2, <1>3 DEF IInv, ITail, StacksOver

\* A stack whose worker has a step to take, or is taking one, is unsettled.
LEMMA WorkersAreUnsettled ==
    ASSUME IInv, NEW st \in Stacks, NEW s \in Steps, pool[st] = "running",
           CanBegin(st, s) \/ sstat[st][s] = "running"
    PROVE  /\ ~typo /\ st \in targets /\ ~Promise!Settled(st) /\ Promise!Prepared
           /\ s \in PerStackSteps /\ sstat[st][s] \in {"todo", "running"}
           /\ \A r \in PerStackSteps : r < s => sstat[st][r] \in Passed
<1>1. /\ s \in PerStackSteps /\ sstat[st][s] \in {"todo", "running"}
      /\ \A r \in PerStackSteps : r < s => sstat[st][r] \in Passed
  BY DEF CanBegin, IsNextOf, IInv, IOrder
<1>2. st \in targets /\ ~typo
  BY DEF IInv, TypeOK, IPrepared, ILoud
<1>3. st \notin GivenUp
  BY DEF GivenUp
<1>4. ~AllPassed(PerStackSteps, sstat[st])
  BY <1>1 DEF AllPassed, Passed
<1>5. \A r \in PerStackSteps : sstat[st][r] # "failed"
  <2>1. PerStackSteps \subseteq Steps
    BY PartitionFacts DEF IInv
  <2> QED
    BY <2>1, OneFrontier DEF IInv
<1>6. Promise!Prepared
  BY SameConditions DEF IInv, IPrepared
<1> QED
  BY <1>1, <1>2, <1>3, <1>4, <1>5, <1>6, SameConditions DEF StackSettled, IInv

-----------------------------------------------------------------------------
LEMMA ActiveAlways == Spec => [](IActive /\ IWalk)
<1>1. Init => IActive /\ IWalk
  BY DEF Init, IActive, IWalk
<1>2. IInv /\ IActive /\ IWalk /\ [Next]_vars => IActive' /\ IWalk'
  BY ActiveStep, WalkStep
<1> QED
  BY <1>1, <1>2, Invariance, PTL DEF Spec

LEMMA PromiseInit == Init => Promise!Init
<1> SUFFICES ASSUME Init PROVE Promise!Init
  OBVIOUS
<1>1. Result("todo") = "pending"
  BY DEF Result, Passed
<1>2. GlobalResults = [s \in Steps |-> "pending"]
  BY <1>1 DEF Init, GlobalResults
<1>3. StackResults = [st \in Stacks |-> [s \in Steps |-> "pending"]]
  BY <1>1 DEF Init, StackResults
<1>4. GivenUp = {} /\ Verdict = "none"
  BY DEF Init, GivenUp, Verdict
<1> QED
  BY <1>2, <1>3, <1>4 DEF Init, Promise!Init, Promise!Steps, Steps

\* A step of the executor that the caller cannot tell from standing still.
LEMMA Stutters ==
    ASSUME UNCHANGED <<allowed, targets, typo, GlobalResults, StackResults, GivenUp, Verdict>>
    PROVE  UNCHANGED Promise!vars
BY DEF Promise!vars

LEMMA GlobalStepPromise ==
    ASSUME IInv, IActive, IWalk, NEW s \in Steps, GlobalStep(s)
    PROVE  [Promise!Next]_(Promise!vars)
<1>1. /\ UNCHANGED <<allowed, targets, typo, stackVars>> /\ phase \in {"pre", "post"}
      /\ s \in GlobalSteps /\ gstat[s] \in {"todo", "running"} /\ ~typo
      /\ \A r \in GlobalSteps : r < s => gstat[r] \in Passed
  BY DEF GlobalStep, SkipGlobal, SkipCheckRaises, BeginGlobal, EndGlobal, IsNextOf, IWalk,
         IInv, ILoud
<1>2. UNCHANGED <<StackResults, GivenUp>> /\ Verdict = "none"
  BY <1>1 DEF StackResults, GivenUp, Verdict, stackVars
<1>3. CASE SkipCheckRaises(s)
  <2>1. Verdict' = "raised" /\ GlobalResults' = GlobalResults
    BY <1>3 DEF SkipCheckRaises, Verdict, GlobalResults
  <2> QED
    BY <1>1, <1>2, <2>1 DEF Promise!Next, Promise!Raise
<1>4. CASE BeginGlobal(s)
  <2>1. phase' = phase /\ gstat[s] = "todo"
    BY <1>4 DEF BeginGlobal, IsNextOf
  <2>2. GlobalResults' = GlobalResults
    BY <1>4, <2>1 DEF BeginGlobal, GlobalResults, Result, Passed, IInv, TypeOK
  <2>3. Verdict' = "none"
    BY <1>1, <2>1 DEF Verdict
  <2> QED
    BY <1>1, <1>2, <2>2, <2>3, Stutters
<1>5. ASSUME NEW r \in {"ok", "skipped", "failed"}, gstat' = [gstat EXCEPT ![s] = r],
             IF r = "failed" THEN phase' = "done" ELSE phase' = phase
      PROVE  Promise!Next
  <2> DEFINE x == Result(r)
  <2>1. x \in {"passed", "failed"} /\ (x = "failed" <=> r = "failed")
    BY <1>5 DEF Result, Passed
  <2>2. GlobalResults' = [GlobalResults EXCEPT ![s] = x]
    BY <1>5 DEF GlobalResults, IInv, TypeOK
  <2>3. Verdict' = IF x = "failed" THEN "errors" ELSE "none"
    <3>1. r = "failed" => gstat'[s] = "failed"
      BY <1>5 DEF IInv, TypeOK
    <3>2. r = "failed" => HasErrors'
      BY <3>1 DEF HasErrors
    <3> QED
      BY <1>1, <1>5, <2>1, <3>2 DEF Verdict
  <2>4. s \in allowed \ PerStackSteps /\ GlobalResults[s] = "pending"
    BY <1>1, SameResults DEF IInv, GlobalSteps, PreGlobal, PostGlobal
  <2>5. ASSUME NEW h \in allowed \ PerStackSteps, h < s
        PROVE  GlobalResults[h] = "passed"
    <3>1. h \in Steps
      BY DEF IInv, TypeOK
    <3>2. gstat[h] \in Passed
      <4>1. CASE h \in GlobalSteps
        BY <1>1, <2>5, <4>1
      <4>2. CASE h \notin GlobalSteps /\ phase = "post"
        <5>1. h \in PreGlobal
          BY <4>2 DEF GlobalSteps, PostGlobal
        <5> QED
          BY <4>2, <5>1 DEF IInv, IPrepared, AllPassed
      <4>3. CASE h \notin GlobalSteps /\ phase = "pre"
        <5>1. Number[h] <= Number[s] /\ Number[h] \in Nat /\ Number[s] \in Nat
          BY <2>5, <3>1, StepAssumption
        <5>2. \A p \in PerStackSteps : Number[s] <= Number[p] /\ Number[p] \in Nat
          <6>1. PerStackSteps \subseteq Steps
            BY PartitionFacts DEF IInv
          <6> QED
            BY <1>1, <4>3, <6>1, StepAssumption DEF GlobalSteps, PreGlobal
        <5>3. h \in PreGlobal
          BY <5>1, <5>2 DEF PreGlobal
        <5> QED
          BY <4>3, <5>3 DEF GlobalSteps
      <4> QED
        BY <1>1, <4>1, <4>2, <4>3
    <3> QED
      BY <3>1, <3>2, SameResults DEF IInv
  <2>6. s \notin PreGlobal => \A st \in targets : Promise!Settled(st)
    <3>1. s \notin PreGlobal => phase = "post"
      BY <1>1 DEF GlobalSteps
    <3>2. \A st \in targets : st \in Stacks
      BY DEF IInv, TypeOK
    <3> QED
      BY <3>1, <3>2, TailFindsAllSettled, SameConditions DEF IInv
  <2> HIDE DEF x
  <2>7. Promise!EndGlobal(s, x)
    BY <1>1, <1>2, <2>2, <2>3, <2>4, <2>5, <2>6, SameWork DEF Promise!EndGlobal
  <2> QED
    BY <2>1, <2>7 DEF Promise!Next, Promise!Steps, Steps
<1>6. SkipGlobal(s) => Promise!Next
  BY <1>5 DEF SkipGlobal
<1>7. EndGlobal(s) => Promise!Next
  BY <1>5 DEF EndGlobal
<1> QED
  BY <1>3, <1>4, <1>6, <1>7 DEF GlobalStep

LEMMA StackStepPromise ==
    ASSUME IInv, IActive, NEW st \in Stacks, NEW s \in Steps, StackStep(st, s)
    PROVE  [Promise!Next]_(Promise!vars)
<1>1. PICK r \in {"running", "ok", "skipped", "failed"} :
         SetStep(st, s, r) /\ (r = "running" => sstat[st][s] = "todo")
  BY DEF StackStep, SkipStackStep, BeginStackStep, EndStackStep, CanBegin, IsNextOf
<1>2. /\ UNCHANGED <<allowed, targets, typo, phase, gstat, pool, collected, errors>>
      /\ sstat' = [sstat EXCEPT ![st][s] = r]
  BY <1>1 DEF SetStep
<1>3. pool[st] = "running" /\ (CanBegin(st, s) \/ sstat[st][s] = "running")
  BY DEF StackStep, SkipStackStep, BeginStackStep, EndStackStep, CanBegin, IInv, IRunning
<1>4. /\ ~typo /\ st \in targets /\ ~Promise!Settled(st) /\ Promise!Prepared
      /\ s \in PerStackSteps /\ sstat[st][s] \in {"todo", "running"}
      /\ \A q \in PerStackSteps : q < s => sstat[st][q] \in Passed
  BY <1>3, WorkersAreUnsettled
<1>5. phase = "stacks"
  BY <1>3 DEF IActive
<1>6. UNCHANGED <<GlobalResults, GivenUp>> /\ Verdict = "none" /\ Verdict' = "none"
  BY <1>2, <1>5 DEF GlobalResults, GivenUp, Verdict
<1>7. StackResults' = [StackResults EXCEPT ![st][s] = Result(r)]
  BY <1>2 DEF StackResults, IInv, TypeOK
<1>8. StackResults[st][s] = "pending"
  BY <1>4, SameResults DEF IInv
<1>9. CASE r = "running"
  <2>1. Result(r) = "pending"
    BY <1>9 DEF Result, Passed
  <2>2. StackResults' = StackResults
    <3>1. Result(sstat[st][s]) = "pending"
      BY <1>8, SameResults DEF IInv
    <3>2. sstat'[st][s] = r
             /\ \A t \in Stacks, q \in Steps : t # st \/ q # s => sstat'[t][q] = sstat[t][q]
      BY <1>2 DEF IInv, TypeOK
    <3>3. \A t \in Stacks, q \in Steps : Result(sstat'[t][q]) = Result(sstat[t][q])
      BY <2>1, <3>1, <3>2
    <3> QED
      BY <3>3 DEF StackResults
  <2> QED
    BY <1>2, <1>6, <2>2, Stutters
<1>10. CASE r # "running"
  <2> DEFINE x == Result(r)
  <2>1. x \in {"passed", "failed"}
    BY <1>10 DEF Result, Passed
  <2>2. \A q \in PerStackSteps : q < s => StackResults[st][q] = "passed"
    BY <1>4, SameResults, PartitionFacts DEF IInv
  <2> HIDE DEF x
  <2>3. Promise!EndStackStep(st, s, x)
    BY <1>2, <1>4, <1>6, <1>7, <1>8, <2>2, SameWork DEF Promise!EndStackStep, x
  <2> QED
    BY <2>1, <2>3 DEF Promise!Next, Promise!Steps, Steps
<1> QED
  BY <1>9, <1>10

LEMMA StackFuturePromise ==
    ASSUME IInv, IActive, NEW st \in Stacks, StackFuture(st)
    PROVE  [Promise!Next]_(Promise!vars)
<1>1. UNCHANGED <<allowed, targets, typo, GlobalResults, StackResults>>
  BY DEF StackFuture, StartStack, StackRaises, ReturnStack, CollectStack, GlobalResults, StackResults
<1>2. CASE StartStack(st) \/ ReturnStack(st) \/ CollectStack(st)
  <2>1. phase = "stacks" /\ phase' = phase
    BY <1>2 DEF StartStack, ReturnStack, CollectStack, IActive
  <2>2. UNCHANGED <<GivenUp, Verdict>>
    BY <1>2, <2>1 DEF StartStack, ReturnStack, CollectStack, GivenUp, Verdict, IInv, TypeOK
  <2> QED
    BY <1>1, <2>2, Stutters
<1>3. CASE StackRaises(st)
  <2>1. PICK s \in Steps : pool[st] = "running" /\ CanBegin(st, s)
    BY <1>3 DEF StackRaises, CanBegin
  <2>2. ~typo /\ st \in targets /\ ~Promise!Settled(st) /\ Promise!Prepared
    BY <2>1, WorkersAreUnsettled
  <2>3. phase = "stacks" /\ Verdict = "none"
    BY <2>1 DEF IActive, Verdict
  <2>4. CASE Cardinality(targets) = 1
    <3>1. GivenUp' = GivenUp /\ Verdict' = "raised"
      BY <1>1, <1>3, <2>4 DEF StackRaises, GivenUp, Verdict
    <3> QED
      BY <1>1, <2>2, <2>3, <3>1 DEF Promise!Next, Promise!Raise
  <2>5. CASE Cardinality(targets) # 1
    <3>1. GivenUp' = GivenUp \cup {st}
      BY <1>1, <1>3, <2>5 DEF StackRaises, GivenUp, IInv, TypeOK
    <3>2. Verdict' = "none"
      BY <1>3, <2>3, <2>5 DEF StackRaises, Verdict
    <3>3. Promise!GiveUp(st)
      BY <1>1, <2>2, <2>3, <3>1, <3>2 DEF Promise!GiveUp
    <3> QED
      BY <3>3 DEF Promise!Next
  <2> QED
    BY <2>4, <2>5
<1> QED
  BY <1>2, <1>3 DEF StackFuture

LEMMA ReturnPromise ==
    ASSUME IInv, IActive, IWalk, Finish
    PROVE  Promise!Next
<1>1. /\ UNCHANGED <<allowed, targets, typo, gstat, stackVars, errors>>
      /\ phase = "post" /\ phase' = "done" /\ AllPassed(PostGlobal, gstat) /\ ~typo
  BY DEF Finish, IInv, ILoud
<1>2. /\ UNCHANGED <<GlobalResults, StackResults, GivenUp>> /\ Verdict = "none"
      /\ Verdict' = IF HasErrors THEN "errors" ELSE "ok"
  <2>1. HasErrors' = HasErrors
    BY <1>1 DEF HasErrors, StackFailed, stackVars
  <2> QED
    BY <1>1, <2>1 DEF GlobalResults, StackResults, GivenUp, Verdict, stackVars
<1>3. \A g \in allowed \ PerStackSteps : GlobalResults[g] = "passed"
  <2> SUFFICES ASSUME NEW g \in allowed \ PerStackSteps
               PROVE  g \in Steps /\ gstat[g] \in Passed
    BY SameResults DEF IInv
  <2>1. AllPassed(PreGlobal, gstat)
    BY <1>1 DEF IInv, IPrepared
  <2>2. g \in PreGlobal \/ g \in PostGlobal
    BY DEF PostGlobal
  <2> QED
    BY <1>1, <2>1, <2>2 DEF AllPassed, IInv, TypeOK
<1>4. \A st \in targets : Promise!Settled(st)
  <2>1. \A st \in targets : st \in Stacks
    BY DEF IInv, TypeOK
  <2> QED
    BY <1>1, <2>1, TailFindsAllSettled, SameConditions DEF IInv
<1> DEFINE Clean(st) == st \notin GivenUp /\ \A s \in PerStackSteps : StackResults[st][s] = "passed"
<1>5. \A st \in targets : Clean(st) <=> pool[st] # "raised" /\ AllPassed(PerStackSteps, sstat[st])
  <2> SUFFICES ASSUME NEW st \in targets
               PROVE  Clean(st) <=> pool[st] # "raised" /\ AllPassed(PerStackSteps, sstat[st])
    OBVIOUS
  <2>1. st \in Stacks
    BY DEF IInv, TypeOK
  <2>2. st \in GivenUp <=> pool[st] = "raised"
    BY <1>1, <2>1 DEF GivenUp, IActive
  <2>3. \A s \in PerStackSteps : StackResults[st][s] = "passed" <=> sstat[st][s] \in Passed
    BY <2>1, SameResults, PartitionFacts DEF IInv
  <2> QED
    BY <2>2, <2>3 DEF AllPassed
<1>6. ~HasErrors <=> \A st \in targets : Clean(st)
  <2>1. ~errors /\ \A s \in Steps : gstat[s] # "failed"
    BY <1>1 DEF IWalk, IInv, IDone
  <2>2. ASSUME ~HasErrors, NEW st \in targets
        PROVE  pool[st] # "raised" /\ AllPassed(PerStackSteps, sstat[st])
    <3>1. st \in Stacks
      BY DEF IInv, TypeOK
    <3>2. CASE PerStackSteps = {}
      BY <3>1, <3>2 DEF AllPassed, IInv, IEnded
    <3>3. CASE st \in collected
      BY <2>2, <3>1, <3>3 DEF HasErrors, StackFailed, IInv, IEnded
    <3> QED
      BY <1>1, <3>2, <3>3 DEF IInv, ITail, StacksOver
  <2>3. ASSUME NEW st \in collected, StackFailed(st)
        PROVE  \E t \in targets : ~(pool[t] # "raised" /\ AllPassed(PerStackSteps, sstat[t]))
    <3>1. st \in targets /\ st \in Stacks
      BY DEF IInv, TypeOK
    <3>2. pool[st] = "raised" \/ ~AllPassed(PerStackSteps, sstat[st])
      BY <2>3, <3>1 DEF StackFailed, IInv, IOrder, AllPassed, Passed
    <3> QED
      BY <3>1, <3>2
  <2> HIDE DEF Clean
  <2> QED
    BY <1>5, <2>1, <2>2, <2>3 DEF HasErrors
<1>7. Promise!Return
  <2>1. Verdict' = IF \A st \in targets : Clean(st) THEN "ok" ELSE "errors"
    BY <1>2, <1>6
  <2> QED
    BY <1>1, <1>2, <1>3, <1>4, <2>1, SameWork DEF Promise!Return
<1> QED
  BY <1>7 DEF Promise!Next

LEMMA PromiseStep ==
    ASSUME IInv, IActive, IWalk, [Next]_vars
    PROVE  [Promise!Next]_(Promise!vars)
<1>1. CASE SubmitStacks \/ LeavePool
  <2>1. UNCHANGED <<allowed, targets, typo, GlobalResults, StackResults>>
    BY <1>1 DEF SubmitStacks, LeavePool, GlobalResults, StackResults, stackVars
  <2>2. UNCHANGED <<GivenUp, Verdict>>
    BY <1>1 DEF SubmitStacks, LeavePool, GivenUp, Verdict, stackVars, IInv, IPrepared
  <2> QED
    BY <2>1, <2>2, Stutters
<1>2. CASE UNCHANGED vars
  <2>1. HasErrors' = HasErrors
    BY <1>2 DEF vars, HasErrors, StackFailed
  <2>2. UNCHANGED <<allowed, targets, typo, GlobalResults, StackResults, GivenUp, Verdict>>
    BY <1>2, <2>1 DEF vars, GlobalResults, StackResults, GivenUp, Verdict
  <2> QED
    BY <2>2, Stutters
<1>3. CASE CheckNames
  <2>1. /\ UNCHANGED <<allowed, targets, typo, gstat, sstat, pool>> /\ phase = "plan"
        /\ phase' = IF typo THEN "refused" ELSE "pre"
    BY <1>3 DEF CheckNames, stackVars
  <2>2. UNCHANGED <<GlobalResults, StackResults, GivenUp>> /\ Verdict = "none"
    BY <2>1 DEF GlobalResults, StackResults, GivenUp, Verdict
  <2>3. CASE typo
    <3>1. Verdict' = "refused"
      BY <2>1, <2>3 DEF Verdict
    <3> QED
      BY <2>1, <2>2, <2>3, <3>1 DEF Promise!Next, Promise!Refuse
  <2>4. CASE ~typo
    <3>1. Verdict' = "none"
      BY <2>1, <2>4 DEF Verdict
    <3> QED
      BY <2>1, <2>2, <3>1, Stutters
  <2> QED
    BY <2>3, <2>4
<1> QED
  BY <1>1, <1>2, <1>3, GlobalStepPromise, StackStepPromise, StackFuturePromise, ReturnPromise DEF Next

\* However the pool's threads interleave, a call of execute() is one the
\* atomic, threadless Phase allows: preparation, stacks and tail in their
\* order, each failure ending its own walk only, and a verdict that is right
\* (execute, _execute_per_stack_steps).
THEOREM ExecutorKeepsItsPromise == Spec => ImplementsPhase
<1>1. IInv /\ IActive /\ IWalk /\ [Next]_vars => [Promise!Next]_(Promise!vars)
  BY PromiseStep
<1> QED
  BY <1>1, PromiseInit, ActiveAlways, Invariance, PTL DEF Spec, ImplementsPhase, Promise!Spec

-----------------------------------------------------------------------------
(* The phase ends: nothing in it ever goes back.                           *)

StatusOrder == {<<"todo", "skipped">>, <<"todo", "running">>, <<"running", "ok">>,
                <<"running", "failed">>}
PoolOrder == {<<"idle", "queued">>, <<"queued", "running">>, <<"running", "returned">>,
              <<"running", "raised">>}
PhaseOrder == {<<"plan", "refused">>, <<"plan", "pre">>, <<"pre", "stacks">>, <<"pre", "post">>, <<"stacks", "post">>}
                 \cup {"pre", "stacks", "post"} \X {"done", "raised"}

OnlyForward ==
    /\ UNCHANGED <<allowed, targets, typo>> /\ collected \subseteq collected'
    /\ phase' = phase \/ <<phase, phase'>> \in PhaseOrder
    /\ \A s \in Steps : gstat'[s] = gstat[s] \/ <<gstat[s], gstat'[s]>> \in StatusOrder
    /\ \A st \in Stacks :
          /\ pool'[st] = pool[st] \/ <<pool[st], pool'[st]>> \in PoolOrder
          /\ \A s \in Steps :
                sstat'[st][s] = sstat[st][s] \/ <<sstat[st][s], sstat'[st][s]>> \in StatusOrder

\* No step is run twice, no stack submitted twice, and no place of execute()
\* is come back to: each step of the phase takes something forward along an
\* order that ends, so the phase has finitely many of them (execute,
\* _execute_global_steps, _execute_stack).
NothingIsRedone == [][OnlyForward]_vars

THEOREM PhaseOnlyMovesForward == Spec => NothingIsRedone
<1>1. ASSUME IInv, IActive, IWalk, [Next]_vars
      PROVE  OnlyForward
  <2> USE DEF OnlyForward
  <2>1. ASSUME NEW s \in Steps, GlobalStep(s)
        PROVE  OnlyForward
    <3>1. /\ UNCHANGED <<allowed, targets, typo, stackVars>> /\ phase \in {"pre", "post"}
          /\ phase' \in {phase, "done", "raised"}
      BY <1>1, <2>1 DEF GlobalStep, SkipGlobal, SkipCheckRaises, BeginGlobal, EndGlobal, IWalk
    <3>2. \/ gstat' = gstat
          \/ \E r : gstat' = [gstat EXCEPT ![s] = r] /\ <<gstat[s], r>> \in StatusOrder
      BY <2>1 DEF GlobalStep, SkipGlobal, SkipCheckRaises, BeginGlobal, EndGlobal, IsNextOf,
                  StatusOrder
    <3> QED
      BY <1>1, <3>1, <3>2 DEF stackVars, PhaseOrder, IInv, TypeOK
  <2>2. CASE SubmitStacks
    <3>1. \A st \in Stacks : pool[st] = "idle"
      BY <1>1, <2>2 DEF SubmitStacks, IInv, IPrepared
    <3> QED
      BY <2>2, <3>1 DEF SubmitStacks, PhaseOrder, PoolOrder
  <2>3. CASE CheckNames \/ LeavePool \/ Finish
    BY <2>3 DEF CheckNames, LeavePool, Finish, stackVars, PhaseOrder
  <2>4. ASSUME NEW st \in Stacks, StackFuture(st)
        PROVE  OnlyForward
    <3>1. CASE StackRaises(st)
      <4>1. phase = "stacks" /\ pool[st] = "running"
        BY <1>1, <3>1 DEF StackRaises, CanBegin, IActive
      <4> QED
        BY <1>1, <3>1, <4>1 DEF StackRaises, PoolOrder, PhaseOrder, IInv, TypeOK
    <3>2. CASE StartStack(st) \/ ReturnStack(st) \/ CollectStack(st)
      BY <1>1, <3>2 DEF StartStack, ReturnStack, CollectStack, PoolOrder, IInv, TypeOK
    <3> QED
      BY <2>4, <3>1, <3>2 DEF StackFuture
  <2>5. ASSUME NEW st \in Stacks, NEW s \in Steps, StackStep(st, s)
        PROVE  OnlyForward
    <3>1. PICK r : SetStep(st, s, r) /\ <<sstat[st][s], r>> \in StatusOrder
      BY <2>5 DEF StackStep, SkipStackStep, BeginStackStep, EndStackStep, CanBegin, IsNextOf,
                  StatusOrder
    <3> QED
      BY <1>1, <3>1 DEF SetStep, IInv, TypeOK
  <2>6. CASE UNCHANGED vars
    BY <2>6 DEF vars
  <2> QED
    BY <1>1, <2>1, <2>2, <2>3, <2>4, <2>5, <2>6 DEF Next
<1> QED
  BY <1>1, ActiveAlways, Invariance, PTL DEF Spec, NothingIsRedone

-----------------------------------------------------------------------------
(* The boundary of the preparation.                                        *)

\* executor/README.md:90 is right about registries in which no global step
\* has the number of a per-stack one; it is wrong only about such a tie
\* (_partition_steps).
THEOREM BoundaryIsTrueWithoutTies ==
    ASSUME \A g, s \in Steps : ~PerStack[g] /\ PerStack[s] => Number[g] # Number[s]
    PROVE  Spec => []BoundaryRunsAfter
<1> DEFINE TailUntouched == phase \in {"plan", "pre"} => \A g \in PostGlobal : gstat[g] = "todo"
<1>1. ASSUME Init PROVE TailUntouched
  BY <1>1, PartitionFacts, InitIInv DEF Init, IInv
<1>2. ASSUME IInv, TailUntouched, [Next]_vars
      PROVE  TailUntouched'
  <2> SUFFICES ASSUME phase' \in {"plan", "pre"}, NEW g \in PostGlobal'
               PROVE  gstat'[g] = "todo"
    OBVIOUS
  <2>1. allowed' = allowed /\ phase \in {"plan", "pre"}
    BY <1>2
       DEF Next, CheckNames, GlobalStep, SkipGlobal, SkipCheckRaises, BeginGlobal, EndGlobal, SubmitStacks,
           StackFuture, StartStack, StackRaises, ReturnStack, CollectStack, StackStep,
           SkipStackStep, BeginStackStep, EndStackStep, SetStep, LeavePool, Finish, vars
  <2>2. g \in PostGlobal /\ g \in Steps /\ g \notin PreGlobal /\ gstat[g] = "todo"
    BY <1>2, <2>1, PartitionIsFixed, PartitionFacts DEF IInv
  <2>3. ASSUME NEW s \in Steps, GlobalStep(s)
        PROVE  gstat'[g] = "todo"
    <3>1. s # g
      BY <1>2, <2>1, <2>2, <2>3 DEF GlobalStep, SkipGlobal, SkipCheckRaises, BeginGlobal, EndGlobal,
                              IsNextOf, GlobalSteps
    <3> QED
      BY <1>2, <2>2, <2>3, <3>1
         DEF GlobalStep, SkipGlobal, SkipCheckRaises, BeginGlobal, EndGlobal, IInv, TypeOK
  <2>4. (\A s \in Steps : ~GlobalStep(s)) => gstat' = gstat
    BY <1>2 DEF Next, CheckNames, SubmitStacks, StackFuture, StartStack, StackRaises, ReturnStack,
           CollectStack, StackStep, SkipStackStep, BeginStackStep, EndStackStep, SetStep,
           LeavePool, Finish, vars
  <2> QED
    BY <2>2, <2>3, <2>4
<1>3. IInv /\ TailUntouched => BoundaryRunsAfter
  <2> SUFFICES ASSUME IInv, TailUntouched, NEW g \in allowed, ~PerStack[g],
                      gstat[g] = "ok", phase = "pre", NEW s \in PerStackSteps
               PROVE  Number[g] < Number[s]
    BY DEF BoundaryRunsAfter
  <2>1. g \in PreGlobal /\ g \in Steps /\ s \in Steps /\ PerStack[s]
    BY PartitionFacts DEF IInv, TypeOK, PerStackSteps
  <2>2. Number[g] <= Number[s] /\ Number[g] # Number[s]
    BY <2>1 DEF PreGlobal
  <2> QED
    BY <2>1, <2>2, StepAssumption
<1> HIDE DEF TailUntouched
<1> QED
  BY <1>1, <1>2, <1>3, Invariance, PTL DEF Spec

-----------------------------------------------------------------------------
(* Nobody waits for nobody.                                                *)

LEMMA LeastElement ==
    ASSUME NEW T \in SUBSET Nat, T # {}
    PROVE  \E m \in T : \A k \in T : m <= k
<1> DEFINE R == {p \in Nat \X Nat : p[1] < p[2]}
<1>1. IsWellFoundedOn(R, Nat)
  BY NatLessThanWellFounded DEF OpToRel
<1>2. ASSUME NEW x \in Nat, NEW y \in Nat, <<y, x>> \notin R PROVE x <= y
  BY <1>2
<1> HIDE DEF R
<1>3. PICK m \in T : \A k \in T : <<k, m>> \notin R
  BY <1>1, WFMin
<1> QED
  BY <1>2, <1>3

\* A sequential walk that has not passed all its steps stands at one of them.
LEMMA WalkStands ==
    ASSUME NEW list \in SUBSET Steps, NEW stat \in [Steps -> Status],
           ~AllPassed(list, stat)
    PROVE  \E s \in list : IsNextOf(list, stat, s) \/ stat[s] \in {"running", "failed"}
<1> DEFINE T == {s \in list : stat[s] \notin Passed}
<1>1. T \in SUBSET Nat /\ T # {}
  <2>1. Steps \in SUBSET Nat
    BY StepAssumption DEF Steps
  <2>2. \E s \in list : stat[s] \notin Passed
    BY DEF AllPassed
  <2> QED
    BY <2>1, <2>2
<1>2. PICK m \in T : \A k \in T : m <= k
  BY <1>1, LeastElement
<1>3. \A r \in list : r < m => stat[r] \in Passed
  <2> SUFFICES ASSUME NEW r \in list, r < m, stat[r] \notin Passed PROVE FALSE
    OBVIOUS
  <2>1. r \in Nat /\ m \in Nat /\ m <= r
    BY <1>1, <1>2
  <2> QED
    BY <2>1
<1> QED
  BY <1>2, <1>3 DEF IsNextOf, Status, Passed

\* Submission leaves no target behind.
ISubmitted == phase = "stacks" => \A st \in targets : pool[st] # "idle"

LEMMA SubmittedAlways == Spec => []ISubmitted
<1>1. Init => ISubmitted
  BY DEF Init, ISubmitted
<1>2. ASSUME IInv, ISubmitted, [Next]_vars PROVE ISubmitted'
  <2> USE DEF ISubmitted, IInv, TypeOK
  <2>1. ASSUME NEW s \in Steps, GlobalStep(s) PROVE ISubmitted'
    BY <1>2, <2>1 DEF GlobalStep, SkipGlobal, SkipCheckRaises, BeginGlobal, EndGlobal, stackVars
  <2>2. CASE SubmitStacks \/ CheckNames
    BY <1>2, <2>2 DEF SubmitStacks, NothingToSubmit, CheckNames, stackVars
  <2>3. ASSUME NEW st \in Stacks, StackFuture(st) PROVE ISubmitted'
    BY <1>2, <2>3 DEF StackFuture, StartStack, StackRaises, ReturnStack, CollectStack
  <2>4. ASSUME NEW st \in Stacks, NEW s \in Steps, StackStep(st, s) PROVE ISubmitted'
    BY <1>2, <2>4 DEF StackStep, SkipStackStep, BeginStackStep, EndStackStep, SetStep
  <2>5. CASE LeavePool \/ Finish
    BY <1>2, <2>5 DEF LeavePool, Finish
  <2>6. CASE UNCHANGED vars
    BY <1>2, <2>6 DEF vars
  <2> QED
    BY <1>2, <2>1, <2>2, <2>3, <2>4, <2>5, <2>6 DEF Next
<1> QED
  BY <1>1, <1>2, Invariance, PTL DEF Spec
\* What the guards of Next ask of execute(), and of one stack.
ExecuteCanStep ==
    \/ phase = "plan"
    \/ \E s \in Steps : gstat[s] = "running"
    \/ phase \in {"pre", "post"} /\ \E s \in Steps : IsNextOf(GlobalSteps, gstat, s)
    \/ phase = "pre" /\ AllPassed(PreGlobal, gstat)
    \/ phase = "post" /\ AllPassed(PostGlobal, gstat)
    \/ phase = "stacks" /\ collected = targets

StackCanStep(st) ==
    \/ \E s \in Steps : CanBegin(st, s) \/ sstat[st][s] = "running"
    \/ /\ pool[st] = "running"
       /\ AllPassed(PerStackSteps, sstat[st]) \/ \E s \in Steps : sstat[st][s] = "failed"
    \/ /\ phase = "stacks" /\ pool[st] = "queued"
       /\ Cardinality(Busy) < MaxParallel /\ Cardinality(Busy) < Cardinality(targets)
    \/ phase = "stacks" /\ pool[st] \in {"returned", "raised"} /\ st \notin collected

\* execute() is over or can go on: a queued stack finds a worker or one of
\* the workers is held by a stack that can go on, and a walk that is not
\* through has a next step.
NeverStuck ==
    phase \notin {"refused", "done", "raised"} => ExecuteCanStep \/ \E st \in Stacks : StackCanStep(st)

LEMMA WorkersGoOn ==
    ASSUME IInv, NEW st \in Stacks, pool[st] = "running"
    PROVE  StackCanStep(st)
<1>1. PerStackSteps \in SUBSET Steps /\ sstat[st] \in [Steps -> Status]
  BY PartitionFacts DEF IInv, TypeOK
<1>2. CASE AllPassed(PerStackSteps, sstat[st])
  BY <1>2 DEF StackCanStep
<1>3. CASE ~AllPassed(PerStackSteps, sstat[st])
  <2>1. PICK s \in PerStackSteps :
            IsNextOf(PerStackSteps, sstat[st], s) \/ sstat[st][s] \in {"running", "failed"}
    BY <1>1, <1>3, WalkStands
  <2> QED
    BY <1>1, <2>1 DEF StackCanStep, CanBegin
<1> QED
  BY <1>2, <1>3

LEMMA QueueGoesOn ==
    ASSUME IInv, phase = "stacks", NEW st \in targets, pool[st] = "queued"
    PROVE  \E t \in Stacks : StackCanStep(t)
<1>1. st \in Stacks
  BY DEF IInv, TypeOK
<1>2. CASE Busy = {}
  <2>1. Cardinality(Busy) = 0
    BY <1>2, FS_EmptySet
  <2>2. Cardinality(targets) \in Nat \ {0}
    <3>1. IsFiniteSet(targets)
      BY FS_Subset, StackAssumption DEF IInv, TypeOK
    <3> QED
      BY <3>1, FS_EmptySet, FS_CardinalityType
  <2> QED
    BY <1>1, <2>1, <2>2, StackAssumption DEF StackCanStep
<1>3. CASE Busy # {}
  BY <1>3, WorkersGoOn DEF Busy
<1> QED
  BY <1>2, <1>3

\* Nothing in the phase waits for what never comes: in every state before the
\* end some step can be taken, with any number of stacks, of workers and of
\* steps.  With PhaseOnlyMovesForward this is what TLC checks as PhaseEnds,
\* but for its fairness (execute, _execute_stacks_parallel).
THEOREM PhaseIsNeverStuck == Spec => []NeverStuck
<1>1. ASSUME IInv, IWalk, ISubmitted PROVE NeverStuck
  <2> SUFFICES ASSUME phase \notin {"refused", "done", "raised"}
               PROVE  ExecuteCanStep \/ \E st \in Stacks : StackCanStep(st)
    BY DEF NeverStuck
  <2>1. CASE phase \in {"pre", "post"}
    <3>1. GlobalSteps \in SUBSET Steps /\ gstat \in [Steps -> Status]
      BY <1>1, PartitionFacts DEF GlobalSteps, IInv, TypeOK
    <3>2. CASE AllPassed(GlobalSteps, gstat)
      BY <2>1, <3>2 DEF ExecuteCanStep, GlobalSteps
    <3>3. CASE ~AllPassed(GlobalSteps, gstat)
      <4>1. PICK s \in GlobalSteps :
                IsNextOf(GlobalSteps, gstat, s) \/ gstat[s] \in {"running", "failed"}
        BY <3>1, <3>3, WalkStands
      <4>2. gstat[s] # "failed"
        BY <1>1, <2>1, <3>1, <4>1 DEF IWalk
      <4> QED
        BY <2>1, <3>1, <4>1, <4>2 DEF ExecuteCanStep
    <3> QED
      BY <3>2, <3>3
  <2>2. CASE phase = "stacks"
    <3>1. CASE collected = targets
      BY <2>2, <3>1 DEF ExecuteCanStep
    <3>2. ASSUME NEW st \in targets, st \notin collected
          PROVE  \E t \in Stacks : StackCanStep(t)
      <4>1. st \in Stacks /\ pool[st] \in {"queued", "running", "returned", "raised"}
        BY <1>1, <2>2, <3>2 DEF ISubmitted, IInv, TypeOK
      <4>2. CASE pool[st] \in {"returned", "raised"}
        BY <2>2, <3>2, <4>1, <4>2 DEF StackCanStep
      <4> QED
        BY <1>1, <2>2, <4>1, <4>2, WorkersGoOn, QueueGoesOn
    <3>3. collected \in SUBSET targets
      BY <1>1 DEF IInv, TypeOK
    <3> QED
      BY <3>1, <3>2, <3>3
  <2>3. phase \in {"plan", "pre", "stacks", "post"}
    BY <1>1 DEF IInv, TypeOK
  <2> QED
    BY <2>1, <2>2, <2>3 DEF ExecuteCanStep
<1> QED
  BY <1>1, Invariance, ActiveAlways, SubmittedAlways, PTL
=============================================================================

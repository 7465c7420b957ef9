-------------------------- MODULE ExperimentProofs --------------------------
(***************************************************************************)
(* What the experiment loop guarantees for any number of setup treatments. *)
(*                                                                         *)
(* The inductive invariant adds to the type what the summary holds at each *)
(* place of the loop: one result for each cycle that is over, and, until   *)
(* the last one, no failed phase among them under --stop-on-error; and     *)
(* whose stacks can be up by then.                                         *)
(***************************************************************************)
EXTENDS Experiment, SequenceTheorems, TLAPS

\* In a cycle its own result is still to come; everywhere else there is one
\* for each cycle that was begun, and nothing is written before the end.
LoopInv ==
    /\ \A k \in DOMAIN results : results[k].setup = k
    /\ at \in Phases \cup {"teardown", "record"} => i > 0 /\ Len(results) = i - 1
    /\ at \in {"next", "finish", "done"} => Len(results) = i
    /\ at = "raised" => i > 0 /\ Len(results) = i - 1
    /\ at = "done" => written /\ workspace = Base
    /\ at \in {"finish", "done"} /\ i < NumSetup =>
          i > 0 /\ opt.stopOnError /\ results[i].status # "success"

\* Only the result the loop stopped at may name a phase.
StopInv ==
    opt.stopOnError =>
        \A k \in DOMAIN results :
            results[k].status \in Phases => k = i /\ at \in {"finish", "done"}

\* Only treatments already begun have anything up, and the present one has
\* nothing before its standup, nor after a teardown that was done and worked.
UpInv ==
    /\ up \subseteq 1..i
    /\ at \in {"render", "standup"} => i \notin up
    /\ at = "record" /\ i \in up => opt.skipTeardown \/ ~torn

IInv == TypeOK /\ LoopInv /\ StopInv /\ UpInv

-----------------------------------------------------------------------------

LEMMA InitIInv == Init => IInv
<1>. SUFFICES ASSUME Init PROVE IInv
  OBVIOUS
<1>. USE SetupAssumption DEF Init
<1>1. TypeOK
  <2>1. results \in Seq([setup : Setups, status : Status]) /\ Len(results) = 0
    OBVIOUS
  <2>2. 0 \in 0..NumSetup /\ 0 <= NumSetup
    BY DEF SetupAssumption
  <2>. QED
    BY <2>1, <2>2 DEF TypeOK, Base, Phases
<1>2. LoopInv /\ StopInv /\ UpInv
  BY DEF LoopInv, StopInv, UpInv, Phases
<1>. QED
  BY <1>1, <1>2 DEF IInv

\* What a cycle's end adds to the summary: its own result, after the others.
LEMMA OutcomeType == ASSUME TypeOK PROVE Outcome \in Status
  BY DEF TypeOK, Outcome, Status, Phases

LEMMA RecordIInv == ASSUME IInv, Record PROVE IInv'
<1>. DEFINE r == [setup |-> i, status |-> Outcome]
<1>1. /\ i \in 1..NumSetup /\ Len(results) = i - 1
      /\ results \in Seq([setup : Setups, status : Status])
  BY SetupAssumption DEF IInv, LoopInv, TypeOK, Record, Phases
<1>2. r \in [setup : Setups, status : Status]
  BY <1>1, OutcomeType DEF IInv, Setups
<1>3. /\ results' = Append(results, r)
      /\ results' \in Seq([setup : Setups, status : Status])
      /\ Len(results') = i /\ DOMAIN results' = 1..i /\ DOMAIN results = 1..(i - 1)
      /\ results'[i] = r
      /\ \A k \in 1..(i - 1) : results'[k] = results[k]
  <2>. HIDE DEF r
  <2>1. results' = Append(results, r)
    BY DEF Record, r
  <2>. QED
    BY <1>1, <1>2, <2>1
<1>4. TypeOK'
  BY <1>1, <1>3 DEF IInv, TypeOK, Record, Phases
<1>5. LoopInv'
  <2>1. \A k \in DOMAIN results' : results'[k].setup = k
    BY <1>1, <1>3 DEF IInv, LoopInv
  <2>2. at' = "finish" => opt'.stopOnError /\ results'[i'].status # "success"
    BY <1>1, <1>3 DEF Record, Stops, Outcome, IInv, TypeOK, Phases
  <2>. QED
    BY <1>1, <1>3, <2>1, <2>2 DEF LoopInv, Record, Phases
<1>6. StopInv'
  <2>1. ASSUME opt'.stopOnError, NEW k \in DOMAIN results', results'[k].status \in Phases
        PROVE  k = i' /\ at' \in {"finish", "done"}
    <3>1. opt.stopOnError /\ i' = i
      BY <2>1 DEF Record
    <3>2. k = i
      BY <1>1, <1>3, <2>1, <3>1 DEF IInv, StopInv, Record
    <3>3. failure # "none"
      BY <1>3, <2>1, <3>2 DEF Outcome, Phases
    <3>. QED
      BY <3>1, <3>2, <3>3 DEF Record, Stops
  <2>. QED
    BY <2>1 DEF StopInv
<1>7. UpInv'
  BY DEF Record, IInv, UpInv
<1>. QED
  BY <1>4, <1>5, <1>6, <1>7 DEF IInv

\* A phase that is no standup deploys nothing, and a standup only its own.
LEMMA DeploysOwn ==
    ASSUME NEW phase, NEW outcome, at = phase, up' \in Deploys(phase, outcome)
    PROVE  up' = up \/ (at = "standup" /\ up' = up \cup {i})
  BY DEF Deploys

LEMMA NextIInv == IInv /\ [Next]_vars => IInv'
<1>. SUFFICES ASSUME IInv, [Next]_vars PROVE IInv'
  OBVIOUS
<1>. USE SetupAssumption DEF SetupAssumption, IInv, TypeOK, LoopInv, StopInv, UpInv, Phases, Status, Setups, Base
<1>1. CASE BeginCycle
  BY <1>1 DEF BeginCycle
<1>2. CASE Exhausted
  BY <1>2 DEF Exhausted
<1>3. ASSUME NEW phase \in Phases, PhaseReturns(phase) PROVE IInv'
  <2>1. up' = up \/ (at = "standup" /\ up' = up \cup {i})
    BY <1>3, DeploysOwn DEF PhaseReturns
  <2>2. UpInv'
    BY <1>3, <2>1 DEF PhaseReturns, After
  <2>3. TypeOK'
    BY <1>3, <2>1 DEF PhaseReturns, After
  <2>. QED
    BY <1>3, <2>2, <2>3 DEF PhaseReturns, After
<1>4. ASSUME NEW phase \in Phases, PhaseFails(phase) PROVE IInv'
  <2>1. up' = up \/ (at = "standup" /\ up' = up \cup {i})
    BY <1>4, DeploysOwn DEF PhaseFails
  <2>2. up' \subseteq 1..i /\ (at # "standup" => up' = up)
    <3>1. i \in 1..i
      BY <1>4 DEF PhaseFails
    <3>. QED
      BY <2>1, <3>1
  <2>3. UpInv' /\ TypeOK'
    BY <1>4, <2>2 DEF PhaseFails
  <2>. QED
    BY <1>4, <2>3 DEF PhaseFails
<1>5. ASSUME NEW phase \in Phases, PhaseRaises(phase) PROVE IInv'
  <2>1. up' = up \/ (at = "standup" /\ up' = up \cup {i})
    BY <1>5, DeploysOwn DEF PhaseRaises
  <2>2. up' \subseteq 1..i /\ (at # "standup" => up' = up)
    <3>1. i \in 1..i
      BY <1>5 DEF PhaseRaises
    <3>. QED
      BY <2>1, <3>1
  <2>3. UpInv' /\ TypeOK'
    BY <1>5, <2>2 DEF PhaseRaises
  <2>. QED
    BY <1>5, <2>3 DEF PhaseRaises
<1>6. CASE Teardown
  <2>1. up' \in SUBSET up
    BY <1>6 DEF Teardown
  <2>2. UNCHANGED <<opt, i, workspace, failure, results, written>>
    BY <1>6 DEF Teardown
  <2>3. at = "teardown" /\ at' \in {"record", "raised"} /\ torn' \in {torn, FALSE}
    BY <1>6 DEF Teardown
  <2>4. TypeOK'
    BY <2>1, <2>2, <2>3
  <2>5. LoopInv' /\ StopInv'
    BY <2>2, <2>3
  <2>6. UpInv'
    BY <1>6, <2>1 DEF Teardown
  <2>. QED
    BY <2>4, <2>5, <2>6
<1>7. CASE Record
  BY <1>7, RecordIInv
<1>8. CASE Finish
  BY <1>8 DEF Finish
<1>9. CASE UNCHANGED vars
  BY <1>9 DEF vars
<1>. QED
  BY <1>1, <1>2, <1>3, <1>4, <1>5, <1>6, <1>7, <1>8, <1>9 DEF Next

LEMMA IInvAlways == Spec => []IInv
  BY InitIInv, NextIInv, PTL DEF Spec

-----------------------------------------------------------------------------

\* The types of the loop's state.
THEOREM TypeCorrect == Spec => []TypeOK
  BY IInvAlways, PTL DEF IInv

\* However many treatments there are and whatever their phases do, the
\* summary has one result for each begun, in order, and is written on every
\* way out but an unforeseen exception.
THEOREM SummaryAlwaysComplete == Spec => []SummaryIsComplete
<1>1. IInv => SummaryIsComplete
  BY DEF IInv, LoopInv, SummaryIsComplete
<1>. QED
  BY <1>1, IInvAlways, PTL

\* With --stop-on-error nothing comes after a treatment whose setup or run
\* failed.
THEOREM AlwaysStopsAfterFailure == Spec => []StopsAfterFailure
<1>1. IInv => StopsAfterFailure
  BY DEF IInv, LoopInv, StopInv, StopsAfterFailure
<1>. QED
  BY <1>1, IInvAlways, PTL

\* However often a stack was left up before, a cycle that ends leaves its own
\* up only under --skip-teardown or after a teardown that failed, and then it
\* is no success.
THEOREM NothingEverLeftBehind == Spec => NothingLeftBehind
<1>. DEFINE A == \A t \in Setups :
          (at = "record" /\ i = t /\ t \in up /\ results' # results)
              => \/ opt.skipTeardown
                 \/ ~torn /\ "success" \notin StatusOf(t)'
<1>1. ASSUME IInv, [Next]_vars, NEW t \in Setups,
             at = "record", i = t, t \in up, results' # results, ~opt.skipTeardown
      PROVE  ~torn /\ "success" \notin StatusOf(t)'
  <2>1. Record
    BY <1>1 DEF Next, vars, BeginCycle, Exhausted, PhaseReturns, PhaseFails, PhaseRaises,
       Teardown, Finish
  <2>2. ~torn /\ Outcome # "success"
    BY <1>1 DEF IInv, UpInv, TypeOK, Outcome, Phases
  <2>3. /\ results' = Append(results, [setup |-> t, status |-> Outcome])
        /\ t \in Nat /\ Len(results) = t - 1
        /\ \A k \in DOMAIN results : results[k].setup = k
        /\ results \in Seq([setup : Setups, status : Status])
    BY <1>1, <2>1 DEF Record, IInv, LoopInv, TypeOK
  <2>4. ASSUME NEW k \in DOMAIN results', results'[k].setup = t
        PROVE  results'[k].status = Outcome
    BY <2>3, <2>4
  <2>. QED
    BY <2>2, <2>4 DEF StatusOf
<1>2. IInv /\ [Next]_vars => [A]_vars
  BY <1>1
<1>. QED
  BY <1>2, IInvAlways, PTL DEF Spec, NothingLeftBehind

-----------------------------------------------------------------------------
(* How far the documents are right, and that the loop ends.                *)

\* Without a teardown that fails no result says "teardown".
NoTeardownInv == \A k \in DOMAIN results : results[k].status # "teardown"

TeardownsWork == torn = TRUE

\* experiment/README.md:247 is right about experiments in which no teardown
\* fails: that alone is what stop_on_error_doc needs (_execute_experiment).
THEOREM AbortsUnlessTeardownFails == Spec /\ []TeardownsWork => []AbortsOnFirstFailure
<1>1. Init => NoTeardownInv
  BY DEF Init, NoTeardownInv
<1>2. ASSUME IInv, TeardownsWork, NoTeardownInv, [Next]_vars
      PROVE  NoTeardownInv'
  <2>1. CASE Record
    <3>1. results' = Append(results, [setup |-> i, status |-> Outcome])
          /\ results \in Seq([setup : Setups, status : Status])
      BY <1>2, <2>1 DEF Record, IInv, TypeOK
    <3>2. Outcome # "teardown"
      BY <1>2 DEF TeardownsWork, Outcome, IInv, TypeOK, Phases
    <3>3. ASSUME NEW k \in DOMAIN results' PROVE results'[k].status # "teardown"
      BY <1>2, <3>1, <3>2, <3>3 DEF NoTeardownInv
    <3>. QED
      BY <1>2, <2>1, <3>3 DEF NoTeardownInv
  <2>2. CASE results' = results
    BY <1>2, <2>2 DEF NoTeardownInv
  <2>3. Record \/ results' = results
    BY <1>2 DEF Next, BeginCycle, Exhausted, PhaseReturns, PhaseFails, PhaseRaises,
                Teardown, Finish, vars
  <2>. QED
    BY <2>1, <2>2, <2>3
<1>3. IInv /\ NoTeardownInv => AbortsOnFirstFailure
  <2>. SUFFICES ASSUME IInv, NoTeardownInv, opt.stopOnError, NEW k \in DOMAIN results,
                       results[k].status # "success"
                PROVE  i = k
    BY DEF AbortsOnFirstFailure
  <2>1. results[k].status \in Phases
    <3>1. results \in Seq([setup : Setups, status : Status])
      BY DEF IInv, TypeOK
    <3>2. results[k].status \in Status
      <4>1. results[k] \in [setup : Setups, status : Status]
        BY <3>1, ElementOfSeq, LenProperties
      <4>. QED
        BY <4>1
    <3>3. results[k].status # "teardown"
      BY DEF NoTeardownInv
    <3>. QED
      BY <3>2, <3>3 DEF Status
  <2>. QED
    BY <2>1 DEF IInv, StopInv
<1>. QED
  BY <1>1, <1>2, <1>3, IInvAlways, PTL DEF Spec

Place ==
    CASE at = "next"      -> 0
      [] at = "render"    -> 1
      [] at = "standup"   -> 2
      [] at = "smoketest" -> 3
      [] at = "run"       -> 4
      [] at = "teardown"  -> 5
      [] at = "record"    -> 6
      [] at = "finish"    -> 8
      [] OTHER            -> 9

\* Seven places for each cycle that was begun, and the way out.
Position == IF at = "next" THEN 7 * i ELSE 7 * (i - 1) + Place

\* However the phases end, the loop only goes forward: no treatment is taken
\* up again, none is skipped, and the command is over after seven steps for
\* each and two more.
THEOREM LoopRunsOut ==
    Spec => /\ [][Position' > Position /\ i' \in {i, i + 1}]_vars
            /\ [](Position \in 0..(7 * NumSetup + 2))
<1>. DEFINE Forward == Position' > Position /\ i' \in {i, i + 1}
            Bounded == Position \in 0..(7 * NumSetup + 2)
<1>. USE SetupAssumption DEF SetupAssumption, Setups
<1>0. ASSUME IInv PROVE i \in Nat /\ (at # "next" => i > 0) /\ i <= NumSetup
  BY <1>0 DEF IInv, TypeOK, LoopInv, Phases
<1>1. IInv => Bounded
  BY <1>0 DEF Position, Place
<1>2. ASSUME IInv, Next PROVE Forward
  <2>1. CASE BeginCycle \/ Exhausted
    BY <1>0, <1>2, <2>1 DEF BeginCycle, Exhausted, Position, Place
  <2>2. ASSUME NEW phase \in Phases,
               PhaseReturns(phase) \/ PhaseFails(phase) \/ PhaseRaises(phase)
        PROVE  Forward
    BY <1>0, <1>2, <2>2
       DEF PhaseReturns, PhaseFails, PhaseRaises, After, Phases, Position, Place
  <2>3. CASE Teardown \/ Record \/ Finish
    BY <1>0, <1>2, <2>3 DEF Teardown, Record, Finish, Position, Place
  <2>. QED
    BY <1>2, <2>1, <2>2, <2>3 DEF Next
<1>3. IInv /\ [Next]_vars => [Forward]_vars
  BY <1>2
<1>. HIDE DEF Bounded
<1>. QED
  BY <1>1, <1>3, IInvAlways, PTL DEF Spec, Bounded
=============================================================================

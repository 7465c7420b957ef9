-------------------------- MODULE CollectionProofs --------------------------
(***************************************************************************)
(* Proofs about Collection, for every set of files, every layout of them   *)
(* and every number of attempts: its invariants, and that it implements    *)
(* ResultStore.                                                            *)
(***************************************************************************)
EXTENDS Collection, TLAPS

Ended == \A w \in Writers : writer[w] = "ended"

Early == {"wait", "summary", "gate"}

Verified == {"list", "delete", "sweep"}

Idle3 == {"off", "ok", "failed"}

\* The type invariant, made inductive: the first start of the script counts
\* from 0.
WellTyped == CollectionTypeOK /\ (driver \in Early => starts = 0)

\* The waits: what an undisturbed wait has seen holds, and no script runs
\* before it.
WaitsOK ==
    /\ ~want.summary => writer["summary"] = "ended"
    /\ (settled /\ want.wait /\ ~misread) =>
          /\ driver # "wait" => writer["harness"] = "ended"
          /\ driver \notin {"wait", "summary"} => writer["summary"] = "ended"
    /\ driver \in Early => script = "off"
    /\ script # "off" => Settled
    /\ copied # "no" => driver = "over"

\* The archive, and what the script has packed of a set nobody writes to.
ArchiveOK ==
    /\ archive # "good" => packed = {}
    /\ script = "off" => archive = "none"
    /\ script \in {"pack", "zip"} => archive = "none"
    /\ script = "zipping" => archive = "bad"
    /\ script \in Verified => archive = "good"
    /\ script \in {"zip", "zipping"} => tar \subseteq plain
    /\ tar \cap Keepers = {} /\ packed \cap Keepers = {}
    /\ ~misread =>
          /\ script \in {"zip", "zipping"} => plain \ Keepers \subseteq tar
          /\ script \in Verified => plain \ Keepers \subseteq packed

\* Everything seen anywhere was written, and what was written is there.
FilesOK ==
    /\ plain \subseteq written /\ packed \subseteq written
    /\ \A f \in plain : Top[f] \in Dirs => Top[f] \in dirs
    /\ KeepersStayPlain
    /\ NothingLost

Sure == Settled /\ ~misread /\ ~dropped

\* Still to be read in the stream under way.
Ahead(f) ==
    \/ f \in plain /\ Top[f] \in listing
    \/ archive = "good" /\ f \in packed /\ "archive" \in listing

\* The copy: in an undisturbed one every file asked for is either there or
\* ahead in the stream.
CopyOK ==
    /\ driver # "over" => got \subseteq packed
    /\ (driver # "over" /\ script = "check") => archive = "none"
    /\ (Sure /\ driver \in {"list", "copy"}) => script \in Idle3
    /\ (Sure /\ driver = "copy") => \A f \in Wanted : f \in local \cup got \/ Ahead(f)
    /\ WholeIsWhole

IInv == WellTyped /\ WaitsOK /\ ArchiveOK /\ FilesOK /\ CopyOK

-----------------------------------------------------------------------------

LEMMA TypedInit == CollectInit => WellTyped
<1> SUFFICES ASSUME CollectInit
             PROVE  WellTyped
  OBVIOUS
<1>1. writer \in [Writers -> {"running", "ended"}]
  BY DEF CollectInit, Started
<1>2. 0 \in 0..MaxScripts /\ 1 \in 1..MaxStreams
  BY CollectionAssumption DEF CollectionAssumption
<1>3. {} \in SUBSET Files /\ {} \in SUBSET Dirs /\ {} \in SUBSET Entries
  OBVIOUS
<1> QED BY <1>1, <1>2, <1>3 DEF CollectInit, CollectionTypeOK, WellTyped

LEMMA TypedStep == WellTyped /\ [CollectNext]_collectVars => WellTyped'
<1> SUFFICES ASSUME WellTyped, [CollectNext]_collectVars
             PROVE  WellTyped'
  OBVIOUS
<1> USE CollectionAssumption
<1> USE DEF CollectionAssumption, CollectionTypeOK, WellTyped, Early, collectVars, scriptVars, pvcVars,
        podVars, copyVars, driverVars, Running
<1>1. CASE ScriptStep
  BY <1>1 DEF ScriptStep, Check, Pack, Zip, ZipEnds, Verify, DeleteMember, DeleteEnds,
     Sweep, Tops
<1>2. CASE ScriptFails \/ Rerun
  BY <1>2 DEF ScriptFails, ScriptDies, Rerun
<1>3. CASE Wait
  <2>1. driver \in {"wait", "summary"} /\ driver' \in {"summary", "gate"}
    BY <1>3 DEF Wait, NoWait, SeesEnd, TimesOut, Misreads, AfterWait, Waiting
  <2>2. settled' \in BOOLEAN
    BY <1>3 DEF Wait, NoWait, SeesEnd, TimesOut, Misreads
  <2>3. misread' \in BOOLEAN /\ UNCHANGED dropped
    BY <1>3 DEF Wait, NoWait, SeesEnd, TimesOut, Misreads
  <2> QED BY <1>3, <2>1, <2>2, <2>3 DEF Wait
<1>4. CASE Gate
  <2>1. driver = "gate" /\ starts = 0
    BY <1>4 DEF Gate
  <2>2. starts' \in 0..MaxScripts
    <3>1. starts' = 0 \/ starts' = 1
      BY <1>4, <2>1 DEF Gate
    <3> QED BY <3>1
  <2>3. driver' \in {"compress", "over", "list"} /\ script' \in {"check", script}
    BY <1>4 DEF Gate, AfterCompress
  <2>4. UNCHANGED <<want, podVars, pvcVars, tar, settled, misread, dropped, copyVars>>
    BY <1>4 DEF Gate
  <2>5. CollectionTypeOK'
    BY <2>2, <2>3, <2>4
  <2>6. driver' \notin Early
    BY <2>3
  <2> QED BY <2>5, <2>6
<1>5. CASE Exec
  <2>1. UNCHANGED <<want, podVars, pvcVars, scriptVars, settled, misread, copyVars>>
    BY <1>5 DEF Exec, ExecReturns, ExecDrops
  <2>2. driver' \in {"over", "list"} /\ dropped' \in BOOLEAN
    BY <1>5 DEF Exec, ExecReturns, ExecDrops, AfterCompress
  <2> QED BY <2>1, <2>2
<1>6. CASE Copy
  <2>1. CASE List
    <3>1. Present \in SUBSET Entries
      BY DEF Present, Entries
    <3> QED BY <1>6, <2>1, <3>1 DEF Copy, List, Entries
  <2>2. CASE Read
    BY <1>6, <2>2 DEF Copy, Read, ReadPlain, ReadOther
  <2>3. CASE StreamFails \/ CopyEnds
    BY <1>6, <2>3 DEF Copy, StreamFails, CopyEnds
  <2> QED BY <1>6, <2>1, <2>2, <2>3 DEF Copy
<1>7. CASE \E f \in Files : Write(f)
  BY <1>7 DEF Write
<1>8. CASE \E w \in Writers : WriterEnds(w)
  BY <1>8 DEF WriterEnds
<1>9. CASE UNCHANGED collectVars
  BY <1>9
<1> QED
  BY <1>1, <1>2, <1>3, <1>4, <1>5, <1>6, <1>7, <1>8, <1>9 DEF CollectNext, Collect
\* Every variable keeps its type: no script is started nor any stream opened
\* once too often.
THEOREM CollectionTypeCorrect == CollectSpec => []CollectionTypeOK
<1>1. WellTyped => CollectionTypeOK
  BY DEF WellTyped
<1> QED
  BY <1>1, TypedInit, TypedStep, PTL DEF CollectSpec

-----------------------------------------------------------------------------
(* The invariant, part by part.                                            *)

LEMMA WaitsStep ==
  ASSUME WellTyped, WaitsOK, [CollectNext]_collectVars
  PROVE  WaitsOK'
<1> USE DEF collectVars, scriptVars, pvcVars, podVars, copyVars, driverVars, Running,
        Early, Settled, WaitsOK
<1>1. CASE ScriptStep
  BY <1>1 DEF ScriptStep, Check, Pack, Zip, ZipEnds, Verify, DeleteMember, DeleteEnds, Sweep
<1>2. CASE ScriptFails \/ Rerun
  BY <1>2 DEF ScriptFails, ScriptDies, Rerun
<1>3. CASE Wait
  <2>1. CASE NoWait
    BY <1>3, <2>1 DEF Wait, NoWait, WellTyped, CollectionTypeOK
  <2>2. ASSUME NEW w \in Writers, SeesEnd(w)
        PROVE  WaitsOK'
    BY <1>3, <2>2 DEF Wait, SeesEnd, AfterWait, Waiting, WellTyped, CollectionTypeOK, Writers
  <2>3. ASSUME NEW w \in Writers, TimesOut(w)
        PROVE  WaitsOK'
    BY <1>3, <2>3 DEF Wait, TimesOut, AfterWait, Waiting
  <2>4. ASSUME NEW w \in Writers, Misreads(w)
        PROVE  WaitsOK'
    BY <1>3, <2>4 DEF Wait, Misreads, AfterWait, Waiting
  <2> QED BY <1>3, <2>1, <2>2, <2>3, <2>4 DEF Wait
<1>4. CASE Gate
  BY <1>4 DEF Gate, AfterCompress
<1>5. CASE Exec
  BY <1>5 DEF Exec, ExecReturns, ExecDrops, AfterCompress
<1>6. CASE Copy
  BY <1>6 DEF Copy, List, Read, StreamFails, CopyEnds
<1>7. CASE \E f \in Files : Write(f)
  BY <1>7 DEF Write
<1>8. CASE \E w \in Writers : WriterEnds(w)
  BY <1>8 DEF WriterEnds, WellTyped, CollectionTypeOK, Writers
<1>9. CASE UNCHANGED collectVars
  BY <1>9
<1> QED
  BY <1>1, <1>2, <1>3, <1>4, <1>5, <1>6, <1>7, <1>8, <1>9 DEF CollectNext, Collect

\* While a script runs, and no pod was taken for ended that is not, nothing
\* is written.
LEMMA NobodyWrites ==
  ASSUME WellTyped, WaitsOK, script # "off", ~misread
  PROVE  \A f \in Files : ~Write(f)
  BY CollectionAssumption DEF CollectionAssumption, WellTyped, CollectionTypeOK, WaitsOK, Early, Write, Settled,
     Writers

LEMMA ArchiveStep ==
  ASSUME WellTyped, WaitsOK, ArchiveOK, [CollectNext]_collectVars
  PROVE  ArchiveOK'
<1> USE DEF collectVars, scriptVars, pvcVars, podVars, copyVars, driverVars, Running,
        Verified, ArchiveOK
<1>1. CASE ScriptStep
  <2>1. CASE Check
    BY <1>1, <2>1 DEF ScriptStep, Check
  <2>2. CASE Pack
    BY <1>1, <2>2 DEF ScriptStep, Pack
  <2>3. CASE Zip
    BY <1>1, <2>3 DEF ScriptStep, Zip
  <2>4. CASE ZipEnds
    BY <1>1, <2>4 DEF ScriptStep, ZipEnds
  <2>5. CASE Verify \/ DeleteMember \/ DeleteEnds
    BY <1>1, <2>5 DEF ScriptStep, Verify, DeleteMember, DeleteEnds
  <2>6. CASE Sweep
    BY <1>1, <2>6 DEF ScriptStep, Sweep
  <2> QED BY <1>1, <2>1, <2>2, <2>3, <2>4, <2>5, <2>6 DEF ScriptStep
<1>2. CASE ScriptFails \/ Rerun
  BY <1>2 DEF ScriptFails, ScriptDies, Rerun
<1>3. CASE Wait
  <2>1. script = "off" /\ UNCHANGED <<pvcVars, scriptVars>>
    BY <1>3 DEF Wait, WaitsOK, Early, NoWait, SeesEnd, TimesOut, Misreads, Waiting
  <2> QED BY <2>1
<1>4. CASE Gate
  BY <1>4 DEF Gate, AfterCompress, WaitsOK, Early
<1>5. CASE Exec
  BY <1>5 DEF Exec, ExecReturns, ExecDrops
<1>6. CASE Copy
  BY <1>6 DEF Copy, List, Read, StreamFails, CopyEnds
<1>7. ASSUME NEW f \in Files, Write(f)
      PROVE  ArchiveOK'
  BY <1>7, NobodyWrites DEF Write
<1>8. CASE \E w \in Writers : WriterEnds(w)
  BY <1>8 DEF WriterEnds
<1>9. CASE UNCHANGED collectVars
  BY <1>9
<1> QED
  BY <1>1, <1>2, <1>3, <1>4, <1>5, <1>6, <1>7, <1>8, <1>9 DEF CollectNext, Collect

\* What the sweep removes was packed, or came behind a misread wait.
LEMMA SweepSparesKeepers ==
  ASSUME WellTyped, ArchiveOK, NEW f \in Files, Top[f] \in Tops, f \in Keepers
  PROVE  FALSE
<1>1. PICK g \in packed : Top[g] = Top[f]
  BY DEF Tops
<1>2. g \in Files /\ Top[f] = f
  BY <1>1, CollectionAssumption DEF CollectionAssumption, WellTyped, CollectionTypeOK
<1>3. Top[g] \in Dirs \cup {g}
  BY <1>2, CollectionAssumption DEF CollectionAssumption
<1>4. g = f
  BY <1>1, <1>2, <1>3, CollectionAssumption DEF CollectionAssumption
<1> QED
  BY <1>4 DEF ArchiveOK

LEMMA FilesStep ==
  ASSUME WellTyped, WaitsOK, ArchiveOK, FilesOK, [CollectNext]_collectVars
  PROVE  FilesOK'
<1> USE DEF collectVars, scriptVars, pvcVars, podVars, copyVars, driverVars,
        FilesOK, NothingLost, KeepersStayPlain, Held
<1>1. CASE ScriptStep
  <2>1. CASE Check
    BY <1>1, <2>1 DEF ScriptStep, Check, ArchiveOK
  <2>2. CASE Pack
    BY <1>1, <2>2 DEF ScriptStep, Pack
  <2>3. CASE Zip
    BY <1>1, <2>3 DEF ScriptStep, Zip, ArchiveOK
  <2>4. CASE ZipEnds
    BY <1>1, <2>4 DEF ScriptStep, ZipEnds, ArchiveOK
  <2>5. CASE Verify \/ DeleteEnds
    BY <1>1, <2>5 DEF ScriptStep, Verify, DeleteEnds
  <2>6. CASE DeleteMember
    BY <1>1, <2>6 DEF ScriptStep, DeleteMember, ArchiveOK, Verified
  <2>7. CASE Sweep
    <3>1. plain \cap Keepers \subseteq plain'
      BY <1>1, <2>7, SweepSparesKeepers DEF ScriptStep, Sweep, WellTyped, CollectionTypeOK
    <3>2. \A f \in plain' : Top[f] \in Dirs => Top[f] \in dirs'
      BY <1>1, <2>7 DEF ScriptStep, Sweep
    <3> QED BY <1>1, <2>7, <3>1, <3>2 DEF ScriptStep, Sweep, ArchiveOK, Verified
  <2> QED BY <1>1, <2>1, <2>2, <2>3, <2>4, <2>5, <2>6, <2>7 DEF ScriptStep
<1>2. CASE ScriptFails \/ Rerun
  BY <1>2 DEF ScriptFails, ScriptDies, Rerun
<1>3. CASE Wait
  BY <1>3 DEF Wait, NoWait, SeesEnd, TimesOut, Misreads
<1>4. CASE Gate
  BY <1>4 DEF Gate
<1>5. CASE Exec
  BY <1>5 DEF Exec, ExecReturns, ExecDrops
<1>6. CASE Copy
  BY <1>6 DEF Copy, List, Read, StreamFails, CopyEnds
<1>7. CASE \E f \in Files : Write(f)
  BY <1>7, CollectionAssumption DEF CollectionAssumption, Write
<1>8. CASE \E w \in Writers : WriterEnds(w)
  BY <1>8 DEF WriterEnds
<1>9. CASE UNCHANGED collectVars
  BY <1>9
<1> QED
  BY <1>1, <1>2, <1>3, <1>4, <1>5, <1>6, <1>7, <1>8, <1>9 DEF CollectNext, Collect

\* A stream that begins has everything ahead of it.
LEMMA AllAhead ==
  ASSUME WellTyped, WaitsOK, FilesOK, List, Sure, script \in Idle3, UNCHANGED pvcVars
  PROVE  \A f \in Wanted : Ahead(f)'
<1> USE DEF FilesOK, KeepersStayPlain, NothingLost, Held, Sure, pvcVars
<1>1. CASE want.collect = "results"
  <2> SUFFICES ASSUME NEW f \in written \cap Keepers
               PROVE  Ahead(f)'
    BY <1>1 DEF Wanted
  <2>1. f \in plain \cap Keepers /\ Top[f] = f
    BY CollectionAssumption DEF CollectionAssumption
  <2>2. f \in listing'
    BY <1>1, <2>1 DEF List, Present
  <2> QED BY <2>1, <2>2 DEF Ahead
<1>2. CASE want.collect # "results"
  <2> SUFFICES ASSUME NEW f \in written
               PROVE  Ahead(f)'
    BY <1>2 DEF Wanted
  <2>1. CASE f \in plain
    <3>1. Top[f] \in Dirs \cup {f}
      BY <2>1, CollectionAssumption DEF CollectionAssumption, WellTyped, CollectionTypeOK
    <3>2. Top[f] \in listing'
      BY <1>2, <2>1, <3>1 DEF List, Present
    <3> QED BY <2>1, <3>2 DEF Ahead
  <2>2. CASE archive = "good" /\ f \in packed
    <3>1. "archive" \in listing'
      BY <1>2, <2>2 DEF List, Present
    <3> QED BY <2>2, <3>1 DEF Ahead
  <2> QED BY <2>1, <2>2
<1> QED BY <1>1, <1>2

LEMMA CopyStep ==
  ASSUME IInv, [CollectNext]_collectVars
  PROVE  CopyOK'
<1> USE DEF collectVars, scriptVars, pvcVars, podVars, copyVars, driverVars,
        CopyOK, Sure, Settled, WholeIsWhole, IInv
<1>1. CASE ScriptStep
  <2>1. script \notin Idle3 /\ script # "off"
    BY <1>1 DEF ScriptStep, Check, Pack, Zip, ZipEnds, Verify, DeleteMember, DeleteEnds,
       Sweep, Idle3
  <2>2. UNCHANGED <<want, podVars, driverVars, copyVars>>
    BY <1>1 DEF ScriptStep
  <2>3. driver # "over" => got \subseteq packed'
    BY <1>1, <2>1 DEF ScriptStep, Check, Pack, Zip, ZipEnds, Verify, DeleteMember, DeleteEnds,
       Sweep, ArchiveOK
  <2>4. script' # "check"
    BY <1>1 DEF ScriptStep, Check, Pack, Zip, ZipEnds, Verify, DeleteMember, DeleteEnds,
       Sweep
  <2> QED BY <2>1, <2>2, <2>3, <2>4 DEF Wanted
<1>2. CASE ScriptFails \/ Rerun
  BY <1>2 DEF ScriptFails, ScriptDies, Rerun, Running, Idle3, Wanted, Ahead
<1>3. CASE Wait
  <2>1. driver \in {"wait", "summary"} /\ driver' \in {"summary", "gate"}
    BY <1>3 DEF Wait, NoWait, SeesEnd, TimesOut, Misreads, AfterWait, Waiting
  <2>2. UNCHANGED <<want, podVars, pvcVars, scriptVars, copyVars>>
    BY <1>3 DEF Wait
  <2>3. copied = "no"
    BY <2>1 DEF WaitsOK, WellTyped, CollectionTypeOK
  <2> QED BY <2>1, <2>2, <2>3
<1>4. CASE Gate
  <2>1. script = "off" /\ archive = "none" /\ copied = "no"
    BY <1>4 DEF Gate, WaitsOK, ArchiveOK, Early
  <2> QED BY <1>4, <2>1 DEF Gate, AfterCompress, Idle3
<1>5. CASE Exec
  <2>1. copied = "no" /\ UNCHANGED copied
    BY <1>5 DEF Exec, ExecReturns, ExecDrops, WaitsOK
  <2> QED BY <1>5, <2>1 DEF Exec, ExecReturns, ExecDrops, AfterCompress, Idle3
<1>6. CASE Copy
  <2>1. CASE List
    BY <1>6, <2>1, AllAhead DEF Copy, List, WaitsOK, Wanted
  <2>2. CASE Read
    <3>1. PICK e \in listing : (ReadPlain(e) \/ ReadOther(e)) /\ listing' = listing \ {e}
      BY <2>2 DEF Read
    <3>2. got' \subseteq packed
      BY <2>2, <3>1 DEF Read, ReadPlain, ReadOther
    <3>3. ASSUME Sure, NEW f \in Wanted
          PROVE  f \in local' \cup got' \/ Ahead(f)'
      <4>1. f \in local \cup got \/ Ahead(f)
        BY <2>2, <3>3 DEF Read
      <4>2. got \subseteq got' /\ local \subseteq local'
        BY <2>2, <3>1 DEF Read, ReadPlain, ReadOther
      <4>3. script \in Idle3 /\ UNCHANGED <<plain, archive, packed>>
        BY <1>6, <2>2, <3>3 DEF Copy, Read
      <4>4. e # "temp" \/ ReadPlain(e)
        BY <3>1, <4>3 DEF ReadOther, HasTemp, Running, Idle3
      <4>5. CASE f \in plain /\ Top[f] \in listing
        <5>1. CASE Top[f] = e /\ ReadPlain(e)
          BY <4>5, <5>1 DEF ReadPlain
        <5>2. CASE Top[f] = e /\ ReadOther(e)
          BY <4>4, <4>5, <5>2, CollectionAssumption
             DEF CollectionAssumption, ReadOther, ReadPlain, WellTyped, CollectionTypeOK
        <5>3. CASE Top[f] # e
          BY <3>1, <4>3, <4>5, <5>3 DEF Ahead
        <5> QED BY <3>1, <5>1, <5>2, <5>3
      <4>6. CASE archive = "good" /\ f \in packed /\ "archive" \in listing
        <5>1. CASE e = "archive" /\ ReadOther(e)
          BY <4>6, <5>1 DEF ReadOther
        <5>2. CASE e = "archive" /\ ReadPlain(e)
          BY <5>2, CollectionAssumption
             DEF CollectionAssumption, ReadPlain, WellTyped, CollectionTypeOK
        <5>3. CASE e # "archive"
          BY <3>1, <4>3, <4>6, <5>3 DEF Ahead
        <5> QED BY <3>1, <5>1, <5>2, <5>3
      <4> QED BY <4>1, <4>2, <4>5, <4>6 DEF Ahead
    <3>4. UNCHANGED <<want, podVars, pvcVars, scriptVars, driverVars, copied>>
      BY <1>6, <2>2 DEF Copy, Read
    <3>5. copied = "no" /\ driver = "copy"
      BY <2>2 DEF Read, WaitsOK
    <3> QED BY <3>2, <3>3, <3>4, <3>5 DEF Wanted
  <2>3. CASE StreamFails
    BY <1>6, <2>3 DEF Copy, StreamFails, WaitsOK
  <2>4. CASE CopyEnds
    BY <1>6, <2>4 DEF Copy, CopyEnds, Ahead, Wanted
  <2> QED BY <1>6, <2>1, <2>2, <2>3, <2>4 DEF Copy
<1>7. ASSUME NEW f \in Files, Write(f)
      PROVE  CopyOK'
  <2>1. driver \in Early \/ ~(settled /\ want.wait /\ ~misread)
    BY <1>7, CollectionAssumption DEF CollectionAssumption, Write, WaitsOK, Early, Writers
  <2>2. UNCHANGED <<want, archive, packed, scriptVars, driverVars, copyVars>>
    BY <1>7 DEF Write
  <2>3. driver \in Early => copied = "no"
    BY DEF WaitsOK, Early
  <2> QED BY <2>1, <2>2, <2>3 DEF Early
<1>8. CASE \E w \in Writers : WriterEnds(w)
  BY <1>8 DEF WriterEnds, Wanted, Ahead
<1>9. CASE UNCHANGED collectVars
  BY <1>9 DEF Wanted, Ahead
<1> QED
  BY <1>1, <1>2, <1>3, <1>4, <1>5, <1>6, <1>7, <1>8, <1>9 DEF CollectNext, Collect

-----------------------------------------------------------------------------

LEMMA InvInit == CollectInit => IInv
<1> SUFFICES ASSUME CollectInit
             PROVE  IInv
  OBVIOUS
<1>1. writer["summary"] = IF ~want.summary THEN "ended" ELSE "running"
  BY DEF CollectInit, Started, Writers
<1>2. WaitsOK
  BY <1>1 DEF CollectInit, WaitsOK, Early
<1>3. ArchiveOK
  BY DEF CollectInit, ArchiveOK, Verified
<1>4. FilesOK
  BY DEF CollectInit, FilesOK, KeepersStayPlain, NothingLost, Held
<1>5. CopyOK
  BY DEF CollectInit, CopyOK, WholeIsWhole
<1> QED
  BY <1>2, <1>3, <1>4, <1>5, TypedInit DEF IInv

LEMMA InvStep == IInv /\ [CollectNext]_collectVars => IInv'
  BY TypedStep, WaitsStep, ArchiveStep, FilesStep, CopyStep DEF IInv

LEMMA InvAlways == CollectSpec => []IInv
  BY InvInit, InvStep, PTL DEF CollectSpec

\* The archive step of a result set loses nothing, for any set of files and
\* wherever the script dies: NothingLost holds of every state.
THEOREM NothingIsLost == CollectSpec => []NothingLost
<1>1. IInv => NothingLost
  BY DEF IInv, FilesOK
<1> QED BY <1>1, InvAlways, PTL

\* The reports stay readable as files.
THEOREM KeepersAreKept == CollectSpec => []KeepersStayPlain
<1>1. IInv => KeepersStayPlain
  BY DEF IInv, FilesOK
<1> QED BY <1>1, InvAlways, PTL

\* A copy reported as whole is whole, after any number of broken streams.
THEOREM CopiesAreWhole == CollectSpec => []WholeIsWhole
<1>1. IInv => WholeIsWhole
  BY DEF IInv, CopyOK
<1> QED BY <1>1, InvAlways, PTL

-----------------------------------------------------------------------------
(* The refinement.                                                         *)

doubtOf == IF misread THEN "loss"
           ELSE IF dropped \/ ~Settled THEN "report" ELSE "none"

verdictOf == IF copied = "no" THEN "none" ELSE copied

askedOf == IF want.collect = "results" THEN Keepers ELSE Files

abstractVars == <<Held, askedOf, local \cup got, verdictOf, doubtOf>>

LEMMA StoreInitially == CollectInit => Store!StoreInit
<1> SUFFICES ASSUME CollectInit
             PROVE  Store!StoreInit
  OBVIOUS
<1>1. Held = {} /\ local \cup got = {} /\ verdictOf = "none"
  BY DEF CollectInit, Held, verdictOf
<1>2. askedOf \in SUBSET Files
  BY CollectionAssumption DEF CollectionAssumption, askedOf
<1>3. doubtOf \in {"none", "report"}
  BY DEF CollectInit, doubtOf
<1> QED
  BY <1>1, <1>2, <1>3 DEF Store!StoreInit, askedOf, doubtOf, verdictOf

\* What a step of the script does to the store: nothing, unless a pod that
\* runs was taken for ended.
LEMMA ScriptHolds ==
  ASSUME IInv, ScriptStep
  PROVE  Held' = Held \/ (misread /\ Held' \subseteq Held)
<1> USE DEF Held, IInv, ArchiveOK, scriptVars, pvcVars, driverVars, Verified
<1>1. CASE Check
  BY <1>1 DEF ScriptStep, Check
<1>2. CASE Pack \/ Verify \/ DeleteEnds
  BY <1>2 DEF ScriptStep, Pack, Verify, DeleteEnds
<1>3. CASE Zip
  BY <1>3 DEF ScriptStep, Zip
<1>4. CASE ZipEnds
  BY <1>4 DEF ScriptStep, ZipEnds
<1>5. CASE DeleteMember
  BY <1>5 DEF ScriptStep, DeleteMember
<1>6. CASE Sweep
  <2>1. plain' \subseteq plain /\ archive' = archive /\ packed' = packed /\ archive = "good"
    BY <1>6 DEF ScriptStep, Sweep
  <2>2. CASE misread
    BY <2>1, <2>2
  <2>3. CASE ~misread
    <3>1. plain \subseteq Keepers \cup packed
      BY <1>6, <2>3 DEF Sweep
    <3>2. plain \cap Keepers \subseteq plain'
      BY <1>6, SweepSparesKeepers DEF Sweep, WellTyped, CollectionTypeOK
    <3> QED BY <2>1, <3>1, <3>2
  <2> QED BY <2>2, <2>3
<1> QED
  BY <1>1, <1>2, <1>3, <1>4, <1>5, <1>6 DEF ScriptStep

LEMMA StoreStep ==
  ASSUME IInv, IInv', [CollectNext]_collectVars
  PROVE  [Store!StoreNext]_(Store!storeVars)
<1> USE DEF collectVars, scriptVars, pvcVars, podVars, copyVars, driverVars
<1>0. /\ Store!storeVars = abstractVars
      /\ (Store!storeVars)' = abstractVars'
  BY DEF Store!storeVars, abstractVars, askedOf, verdictOf, doubtOf
<1>a. ASSUME UNCHANGED abstractVars
      PROVE  [Store!StoreNext]_(Store!storeVars)
  BY <1>0, <1>a
<1>1. CASE ScriptStep
  <2>1. UNCHANGED <<askedOf, local, got, verdictOf, doubtOf>>
    BY <1>1 DEF ScriptStep, askedOf, verdictOf, doubtOf, Settled
  <2>2. CASE Held' = Held
    BY <1>a, <2>1, <2>2 DEF abstractVars
  <2>3. CASE misread /\ Held' \subseteq Held
    BY <2>1, <2>3 DEF Store!StoreNext, Store!Lose, askedOf, verdictOf, doubtOf
  <2> QED BY <1>1, <2>2, <2>3, ScriptHolds
<1>2. CASE ScriptFails \/ Rerun
  BY <1>2, <1>a DEF ScriptFails, ScriptDies, Rerun, abstractVars, askedOf, verdictOf, doubtOf,
     Settled, Held
<1>3. CASE Wait
  <2>1. UNCHANGED <<Held, askedOf, local, got, verdictOf>>
    BY <1>3 DEF Wait, Held, askedOf, verdictOf
  <2>2. doubtOf = "loss" => doubtOf' = "loss"
    BY <1>3 DEF Wait, NoWait, SeesEnd, TimesOut, Misreads, doubtOf
  <2>3. doubtOf' = doubtOf \/ doubtOf' \in {"report", "loss"}
    <3>1. UNCHANGED <<want, dropped>> /\ (misread => misread') /\ (settled' => settled)
      <4>1. UNCHANGED <<want, dropped>>
        BY <1>3 DEF Wait, NoWait, SeesEnd, TimesOut, Misreads
      <4>2. misread' = misread \/ misread' = TRUE
        BY <1>3 DEF Wait, NoWait, SeesEnd, TimesOut, Misreads
      <4>3. misread \in BOOLEAN
        BY DEF IInv, WellTyped, CollectionTypeOK
      <4>4. settled' => settled
        BY <1>3, Zenon DEF Wait, NoWait, SeesEnd, TimesOut, Misreads
      <4> QED BY <4>1, <4>2, <4>3, <4>4
    <3>2. CASE misread'
      BY <3>2 DEF doubtOf
    <3>3. CASE ~misread' /\ (dropped \/ ~settled' \/ ~want.wait)
      BY <3>1, <3>3 DEF doubtOf, Settled
    <3>4. CASE ~misread' /\ ~dropped /\ settled' /\ want.wait
      BY <3>1, <3>4 DEF doubtOf, Settled
    <3> QED BY <3>2, <3>3, <3>4
  <2>4. CASE doubtOf' = doubtOf
    BY <1>a, <2>1, <2>4 DEF abstractVars
  <2>5. CASE doubtOf # "loss" /\ doubtOf' \in {"report", "loss"}
    BY <2>1, <2>5 DEF Store!StoreNext, Store!Doubt, askedOf, verdictOf, doubtOf
  <2> QED BY <2>2, <2>3, <2>4, <2>5
<1>4. CASE Gate
  BY <1>4, <1>a DEF Gate, abstractVars, askedOf, verdictOf, doubtOf, Settled, Held
<1>5. CASE Exec
  <2>1. UNCHANGED <<Held, askedOf, local, got, verdictOf>>
    BY <1>5 DEF Exec, ExecReturns, ExecDrops, Held, askedOf, verdictOf
  <2>2. doubtOf' = doubtOf \/ (doubtOf = "none" /\ doubtOf' = "report")
    BY <1>5 DEF Exec, ExecReturns, ExecDrops, doubtOf, Settled
  <2>3. CASE doubtOf' = doubtOf
    BY <1>a, <2>1, <2>3 DEF abstractVars
  <2>4. CASE doubtOf = "none" /\ doubtOf' = "report"
    BY <2>1, <2>4 DEF Store!StoreNext, Store!Doubt, askedOf, verdictOf, doubtOf
  <2> QED BY <2>2, <2>3, <2>4
<1>6. CASE Copy
  <2>1. UNCHANGED <<Held, askedOf, doubtOf>>
    BY <1>6 DEF Copy, List, Read, StreamFails, CopyEnds, Held, askedOf, doubtOf, Settled
  <2>2. copied = "no"
    BY <1>6 DEF Copy, List, Read, StreamFails, CopyEnds, IInv, WaitsOK
  <2>3. CASE List
    BY <1>a, <2>1, <2>3 DEF List, abstractVars, verdictOf
  <2>4. CASE Read
    <3>1. /\ got \subseteq packed /\ got' \subseteq local' \cup got'
          /\ got' = got \/ (archive = "good" /\ got' = packed)
      BY <2>4 DEF Read, ReadPlain, ReadOther, IInv, CopyOK
    <3>2. local \subseteq local' /\ local' \subseteq local \cup plain
      BY <2>4 DEF Read, ReadPlain, ReadOther
    <3> DEFINE part == (local' \ local) \cup (IF got' = got THEN {} ELSE packed)
    <3>3. part \in SUBSET Held
      BY <3>1, <3>2 DEF Held
    <3>4. local' \cup got' = (local \cup got) \cup part
      BY <3>1, <3>2
    <3>5. copied' = copied
      BY <2>4 DEF Read
    <3>6. verdictOf = "none" /\ verdictOf' = verdictOf
      BY <2>2, <3>5 DEF verdictOf
    <3>7. \E x \in SUBSET Held : (local \cup got)' = (local \cup got) \cup x
      BY <3>3, <3>4
    <3> QED
      BY <2>1, <3>6, <3>7 DEF Store!StoreNext, Store!Take, askedOf, verdictOf, doubtOf
  <2>5. CASE StreamFails \/ CopyEnds
    <3>1. UNCHANGED <<local, got>> /\ copied' \in {"no", "failed", "whole"}
      BY <2>2, <2>5 DEF StreamFails, CopyEnds
    <3>2. CASE copied' = "no"
      BY <1>a, <2>1, <2>2, <3>1, <3>2 DEF abstractVars, verdictOf
    <3>3. CASE copied' = "failed"
      <4>1. verdictOf = "none" /\ verdictOf' = "failed"
        BY <2>2, <3>3 DEF verdictOf
      <4> QED
        BY <2>1, <3>1, <4>1 DEF Store!StoreNext, Store!Report, askedOf, verdictOf, doubtOf
    <3>4. CASE copied' = "whole"
      <4>1. verdictOf = "none" /\ verdictOf' = "whole"
        BY <2>2, <3>4 DEF verdictOf
      <4>2. doubtOf = "none" => Held \cap askedOf \subseteq local \cup got
        <5>1. Held \subseteq written /\ written \subseteq Files
          BY DEF IInv, WellTyped, CollectionTypeOK, FilesOK, Held
        <5>2. UNCHANGED <<want, settled, misread, dropped, written>>
          BY <1>6, <2>5 DEF Copy, StreamFails, CopyEnds
        <5>3. doubtOf = "none" => Wanted \subseteq local \cup got
          BY <3>1, <3>4, <5>2 DEF IInv, CopyOK, WholeIsWhole, Wanted, doubtOf, Settled
        <5> QED BY <5>1, <5>3 DEF Wanted, askedOf
      <4> QED
        BY <2>1, <3>1, <4>1, <4>2 DEF Store!StoreNext, Store!Report, askedOf, verdictOf, doubtOf
    <3> QED BY <3>1, <3>2, <3>3, <3>4
  <2> QED BY <1>6, <2>3, <2>4, <2>5 DEF Copy
<1>7. ASSUME NEW f \in Files, Write(f)
      PROVE  [Store!StoreNext]_(Store!storeVars)
  <2>1. UNCHANGED <<askedOf, local, got, verdictOf, doubtOf>>
    BY <1>7 DEF Write, askedOf, verdictOf, doubtOf, Settled
  <2>2. Held' = Held \cup {f}
    BY <1>7 DEF Write, Held
  <2>3. verdictOf = "whole" => doubtOf # "none"
    <3>1. driver \in {"wait", "summary"} \/ ~(settled /\ want.wait /\ ~misread)
      BY <1>7, CollectionAssumption DEF CollectionAssumption, Write, IInv, WaitsOK, Writers
    <3> QED BY <3>1 DEF IInv, WaitsOK, verdictOf, doubtOf, Settled
  <2> QED
    BY <2>1, <2>2, <2>3 DEF Store!StoreNext, Store!Arrive, askedOf, verdictOf, doubtOf
<1>8. CASE \E w \in Writers : WriterEnds(w)
  BY <1>8, <1>a DEF WriterEnds, abstractVars, askedOf, verdictOf, doubtOf, Settled, Held
<1>9. CASE UNCHANGED collectVars
  BY <1>9, <1>a DEF abstractVars, askedOf, verdictOf, doubtOf, Settled, Held
<1> QED
  BY <1>1, <1>2, <1>3, <1>4, <1>5, <1>6, <1>7, <1>8, <1>9 DEF CollectNext, Collect

\* Seen from the user, packing, deleting and copying are the store of
\* ResultStore: nothing held is given up, and no report says too much, but
\* for the incidents recorded as doubt.
THEOREM Refinement == CollectSpec => CollectionImplementsStore
<1>1. CollectInit => Store!StoreInit
  BY StoreInitially
<1>2. IInv /\ IInv' /\ [CollectNext]_collectVars => [Store!StoreNext]_(Store!storeVars)
  BY StoreStep
<1> QED
  BY <1>1, <1>2, InvAlways, PTL DEF CollectSpec, CollectionImplementsStore, Store!StoreSpec

-----------------------------------------------------------------------------
(* What a script that says ok has done, however often it was started.      *)

\* A good archive, an earlier start's too, has all that may be deleted.
PackedOK ==
    ~misread =>
        /\ archive = "good" => plain \ Keepers \subseteq packed
        /\ script = "ok" => archive = "good" \/ plain \subseteq Keepers

LEMMA PackedStep ==
  ASSUME IInv, PackedOK, [CollectNext]_collectVars
  PROVE  PackedOK'
<1> USE DEF collectVars, scriptVars, pvcVars, podVars, copyVars, driverVars, PackedOK, IInv
<1>1. CASE ScriptStep
  BY <1>1 DEF ScriptStep, Check, Pack, Zip, ZipEnds, Verify, DeleteMember, DeleteEnds, Sweep,
     ArchiveOK, Verified
<1>2. CASE ScriptFails \/ Rerun
  BY <1>2 DEF ScriptFails, ScriptDies, Rerun
<1>3. CASE Wait
  BY <1>3 DEF Wait, NoWait, SeesEnd, TimesOut, Misreads
<1>4. CASE Gate \/ Exec \/ Copy
  BY <1>4 DEF Gate, Exec, ExecReturns, ExecDrops, Copy, List, Read, StreamFails, CopyEnds
<1>5. ASSUME NEW f \in Files, Write(f)
      PROVE  PackedOK'
  BY <1>5, NobodyWrites DEF Write, ArchiveOK
<1>6. CASE (\E w \in Writers : WriterEnds(w)) \/ UNCHANGED collectVars
  BY <1>6 DEF WriterEnds
<1> QED
  BY <1>1, <1>2, <1>3, <1>4, <1>5, <1>6 DEF CollectNext, Collect

\* "THE INVARIANT every guard below serves: the set tar is told to pack must
\* equal the set the delete loop removes" (archive.py): an archive that
\* verifies holds exactly what is no report, so that a start which finds one
\* and leaves it at that is right; and only a set of reports is ok without.
AllButReports ==
    ~misread =>
        /\ archive = "good" => packed = written \ Keepers
        /\ script = "ok" => archive = "good" \/ written \subseteq Keepers

\* However many files, deaths of the script and starts there are, the archive
\* is everything but the reports, or there is none (_REMOTE_SCRIPT).
THEOREM ArchiveIsAllButReports == CollectSpec => []AllButReports
<1>1. CollectInit => PackedOK
  BY DEF CollectInit, PackedOK
<1>2. IInv /\ PackedOK => AllButReports
  BY DEF IInv, FilesOK, NothingLost, Held, ArchiveOK, PackedOK, AllButReports
<1> QED
  BY <1>1, <1>2, PackedStep, InvAlways, PTL DEF CollectSpec

-----------------------------------------------------------------------------
(* That driver and script come to an end.                                  *)

\* How far the driver has come, over all its streams.
DriverAt ==
    CASE driver = "wait"     -> 0
      [] driver = "summary"  -> 1
      [] driver = "gate"     -> 2
      [] driver = "compress" -> 3
      [] driver = "list"     -> 2 * streams + 2
      [] driver = "copy"     -> 2 * streams + 3
      [] OTHER               -> 2 * MaxStreams + 4

\* How far the script has come, over all its starts.
ScriptAt ==
    9 * starts +
    CASE script = "off"     -> 0
      [] script = "check"   -> 1
      [] script = "pack"    -> 2
      [] script = "zip"     -> 3
      [] script = "zipping" -> 4
      [] script = "list"    -> 5
      [] script = "delete"  -> 6
      [] script = "sweep"   -> 7
      [] OTHER              -> 8

\* A step of the driver takes it further or reads one more entry of a stream;
\* a step of the script takes it further or deletes one more file; and no
\* step of anybody takes either of them back.
Gains ==
    /\ DriverAt' >= DriverAt /\ ScriptAt' >= ScriptAt
    /\ Collect => \/ DriverAt' > DriverAt
                  \/ listing' \subseteq listing /\ listing' # listing
    /\ ScriptStep => \/ ScriptAt' > ScriptAt
                     \/ plain' \subseteq plain /\ plain' # plain

Finite ==
    /\ DriverAt \in 0..(2 * MaxStreams + 4)
    /\ ScriptAt \in 0..(9 * MaxScripts + 8)

LEMMA CollectionIsFinite == WellTyped => Finite
<1> SUFFICES ASSUME WellTyped PROVE Finite
  OBVIOUS
<1> USE CollectionAssumption DEF CollectionAssumption, WellTyped, CollectionTypeOK
<1>1. DriverAt \in 0..(2 * MaxStreams + 4)
  BY DEF DriverAt
<1>2. ScriptAt \in 0..(9 * MaxScripts + 8)
  BY DEF ScriptAt
<1> QED
  BY <1>1, <1>2 DEF Finite

LEMMA DriverGains ==
  ASSUME WellTyped, Collect
  PROVE  \/ DriverAt' > DriverAt
         \/ DriverAt' = DriverAt /\ listing' \subseteq listing /\ listing' # listing
<1> USE CollectionAssumption
    DEF CollectionAssumption, WellTyped, CollectionTypeOK, DriverAt, copyVars
<1>1. CASE Wait
  <2>1. ASSUME NEW w \in Writers, SeesEnd(w) \/ TimesOut(w) \/ Misreads(w)
        PROVE  /\ driver \in {"wait", "summary"} /\ driver' \in {"summary", "gate"}
               /\ driver = "summary" => driver' = "gate"
    BY <2>1 DEF SeesEnd, TimesOut, Misreads, Waiting, AfterWait
  <2> QED
    BY <1>1, <2>1 DEF Wait, NoWait
<1>2. CASE Gate
  BY <1>2 DEF Gate, AfterCompress
<1>3. CASE Exec
  BY <1>3 DEF Exec, ExecReturns, ExecDrops, AfterCompress
<1>4. CASE Copy
  <2>1. CASE List
    BY <2>1 DEF List
  <2>2. CASE Read
    BY <2>2 DEF Read, driverVars
  <2>3. CASE StreamFails \/ CopyEnds
    BY <2>3 DEF StreamFails, CopyEnds
  <2> QED BY <1>4, <2>1, <2>2, <2>3 DEF Copy
<1> QED
  BY <1>1, <1>2, <1>3, <1>4 DEF Collect

LEMMA ScriptGains ==
  ASSUME WellTyped, ScriptStep \/ ScriptFails \/ Rerun
  PROVE  \/ ScriptAt' > ScriptAt
         \/ ScriptAt' = ScriptAt /\ ScriptStep /\ plain' \subseteq plain /\ plain' # plain
<1> USE CollectionAssumption
    DEF CollectionAssumption, WellTyped, CollectionTypeOK, ScriptAt, scriptVars
<1>1. CASE ScriptStep /\ ~DeleteMember
  BY <1>1 DEF ScriptStep, Check, Pack, Zip, ZipEnds, Verify, DeleteEnds, Sweep
<1>2. CASE ScriptStep /\ DeleteMember
  BY <1>2 DEF DeleteMember
<1>3. CASE ScriptFails \/ Rerun
  BY <1>3 DEF ScriptFails, ScriptDies, Running, Rerun
<1> QED
  BY <1>1, <1>2, <1>3

\* What TLC checks as CollectionEnds, without its fairness: whatever pods,
\* streams and queries do, driver and script go one way, and a finite one,
\* the files of a stream and those to delete being finitely many.
THEOREM CollectionRunsOut == CollectSpec => [][Gains]_collectVars /\ []Finite
<1>1. ASSUME WellTyped, WellTyped', CollectNext PROVE Gains
  <2>1. DriverAt \in Int /\ DriverAt' \in Int /\ ScriptAt \in Int /\ ScriptAt' \in Int
    <3>1. WellTyped' => Finite'
      BY CollectionIsFinite, PTL
    <3> QED
      BY <1>1, <3>1, CollectionIsFinite DEF Finite
  <2>2. CASE Collect
    <3>1. ScriptAt' >= ScriptAt
      <4>1. CASE UNCHANGED <<script, starts>>
        BY <2>1, <4>1 DEF ScriptAt
      <4>2. CASE script' = "check" /\ starts' = starts + 1
        BY <1>1, <4>2, CollectionAssumption
           DEF ScriptAt, CollectionAssumption, WellTyped, CollectionTypeOK
      <4> QED
        BY <2>2, <4>1, <4>2 DEF Collect, Wait, Gate, Exec, Copy, scriptVars
    <3> QED
      BY <1>1, <2>1, <2>2, <3>1, DriverGains, ScriptGains DEF Gains
  <2>3. CASE ScriptStep \/ ScriptFails \/ Rerun
    <3>1. DriverAt' = DriverAt
      BY <2>3 DEF ScriptStep, ScriptFails, Rerun, driverVars, copyVars, DriverAt
    <3> QED
      BY <1>1, <2>1, <2>3, <3>1, DriverGains, ScriptGains DEF Gains
  <2>4. CASE (\E f \in Files : Write(f)) \/ (\E w \in Writers : WriterEnds(w))
    <3>1. DriverAt' = DriverAt /\ ScriptAt' = ScriptAt
      BY <2>4 DEF Write, WriterEnds, driverVars, copyVars, scriptVars, DriverAt, ScriptAt
    <3> QED
      BY <1>1, <2>1, <3>1, DriverGains, ScriptGains DEF Gains
  <2> QED
    BY <1>1, <2>2, <2>3, <2>4 DEF CollectNext
<1>2. IInv /\ IInv' /\ [CollectNext]_collectVars => [Gains]_collectVars
  BY <1>1 DEF IInv
<1>3. IInv => Finite
  BY CollectionIsFinite DEF IInv
<1> QED
  BY <1>2, <1>3, InvAlways, PTL DEF CollectSpec
=============================================================================

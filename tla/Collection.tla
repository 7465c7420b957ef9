----------------------------- MODULE Collection -----------------------------
(***************************************************************************)
(* The results of one treatment attempt, from the harness that writes them *)
(* on the PVC to the driver's results directory: the wait for the writers, *)
(* the compression in place by a script run in the data-access pod         *)
(* (utilities/archive.py, _REMOTE_SCRIPT), which deletes the only copy of  *)
(* what it has packed, and the copy of whatever is then in the directory   *)
(* (run/steps/step_07_deploy_harness.py).                                  *)
(*                                                                         *)
(* The exec stream the driver watches the script through may drop while    *)
(* the script runs on; the script may die anywhere.  A file is written     *)
(* whole in one step; a directory is known by the files below it.          *)
(***************************************************************************)
EXTENDS Integers, FiniteSets

CONSTANTS Files,
          Keepers,      \* the files whose names match KEEP_PLAIN
          Dirs,         \* the directories at the top of the result set
          Top,          \* a file's directory, or the file itself at the top
          WrittenBy,    \* the pod that writes it: "harness" or "summary"
          MaxStreams,   \* max_attempts of one copy
          MaxScripts    \* times the script is started, a bound

Writers == {"harness", "summary"}

ASSUME CollectionAssumption ==
    /\ IsFiniteSet(Files) /\ Keepers \subseteq Files
    /\ Dirs \cap Files = {} /\ {"archive", "temp"} \cap (Files \cup Dirs) = {}
    /\ Top \in [Files -> Dirs \cup Files]
    /\ \A f \in Files : Top[f] \in Dirs \cup {f}
    /\ \A f \in Keepers : Top[f] = f
    /\ WrittenBy \in [Files -> Writers]
    /\ MaxStreams \in Nat \ {0} /\ MaxScripts \in Nat \ {0}

VARIABLES
    want,       \* the run's controls
    writer,     \* the pods that write to the PVC
    written,    \* history: the files they have written
    plain,      \* the files in the result directory, as files
    dirs,       \* its directories
    archive,    \* workspace.tar.zst: absent, or whether zstd -t would pass
    packed,     \* the members of an archive that passes
    script,     \* where the remote script is
    tar,        \* what its temporary .pack file holds
    starts,     \* how often the script was started
    driver,     \* where _run_treatment is
    settled,    \* harness_settled: no error so far, and summary_done
    misread,    \* history: a phase query that failed ended a wait
    dropped,    \* history: the driver left the script running
    listing,    \* the entries a copy has still to read
    streams,    \* cp_attempt
    local,      \* the files in the driver's local directory
    got,        \* the members of the archive in it
    copied      \* the result of the copy

scriptVars == <<script, tar, starts>>
pvcVars == <<plain, dirs, archive, packed>>
podVars == <<writer, written>>
copyVars == <<listing, streams, local, got, copied>>
driverVars == <<driver, settled, misread, dropped>>
collectVars == <<want, podVars, pvcVars, scriptVars, driverVars, copyVars>>

Entries == Files \cup Dirs \cup {"archive", "temp"}

Running == {"check", "pack", "zip", "zipping", "list", "delete", "sweep"}

Controls == [compress : BOOLEAN, wait : BOOLEAN, summary : BOOLEAN,
             collect : {"all", "results", "skip"}]

Started(controls) ==
    [w \in Writers |-> IF w = "summary" /\ ~controls.summary THEN "ended" ELSE "running"]

CollectionTypeOK ==
    /\ want \in Controls
    /\ writer \in [Writers -> {"running", "ended"}]
    /\ written \in SUBSET Files
    /\ plain \in SUBSET Files /\ dirs \in SUBSET Dirs
    /\ archive \in {"none", "bad", "good"} /\ packed \in SUBSET Files
    /\ script \in {"off", "ok", "failed"} \cup Running
    /\ tar \in SUBSET Files
    /\ starts \in 0..MaxScripts
    /\ driver \in {"wait", "summary", "gate", "compress", "list", "copy", "over"}
    /\ settled \in BOOLEAN /\ misread \in BOOLEAN /\ dropped \in BOOLEAN
    /\ listing \in SUBSET Entries
    /\ streams \in 1..MaxStreams
    /\ local \in SUBSET Files /\ got \in SUBSET Files
    /\ copied \in {"no", "failed", "whole"}

CollectInit ==
    /\ want \in Controls
    /\ writer = Started(want)
    /\ written = {} /\ plain = {} /\ dirs = {}
    /\ archive = "none" /\ packed = {}
    /\ script = "off" /\ tar = {} /\ starts = 0
    /\ driver = "wait" /\ settled = TRUE /\ misread = FALSE /\ dropped = FALSE
    /\ listing = {} /\ streams = 1 /\ local = {} /\ got = {} /\ copied = "no"

-----------------------------------------------------------------------------
(* The pods that write (external).                                         *)

Write(f) ==
    /\ writer[WrittenBy[f]] = "running" /\ f \notin written
    /\ written' = written \cup {f}
    /\ plain' = plain \cup {f}
    /\ dirs' = dirs \cup ({Top[f]} \cap Dirs)
    /\ UNCHANGED <<want, writer, archive, packed, scriptVars, driverVars, copyVars>>

WriterEnds(w) ==
    /\ writer[w] = "running"
    /\ writer' = [writer EXCEPT ![w] = "ended"]
    /\ UNCHANGED <<want, written, pvcVars, scriptVars, driverVars, copyVars>>

-----------------------------------------------------------------------------
(* _REMOTE_SCRIPT.                                                         *)

\* "A crashed attempt can leave a corrupt archive; trust it only if it
\* verifies."  A set of keepers alone is left as it is; a name that holds a
\* newline or a backslash is refused.
Check ==
    /\ script = "check"
    /\ IF archive = "good"
          THEN script' = "ok" /\ UNCHANGED <<archive, packed>>
          ELSE /\ archive' = "none" /\ packed' = {}
               /\ IF plain \subseteq Keepers
                     THEN script' = "ok"
                     ELSE script' \in {"pack", "failed"}
    /\ UNCHANGED <<plain, dirs, tar, starts>>

\* The skip list left empty: the keepers go the way of the rest.
RegressedPack ==
    /\ script = "pack"
    /\ tar' = plain
    /\ script' = "zip"
    /\ UNCHANGED <<pvcVars, starts>>

Pack ==
    /\ script = "pack"
    /\ tar' = plain \ Keepers
    /\ script' = "zip"
    /\ UNCHANGED <<pvcVars, starts>>

\* zstd -f -o has truncated the archive and writes it.
Zip ==
    /\ script = "zip"
    /\ archive' = "bad" /\ packed' = {}
    /\ script' = "zipping"
    /\ UNCHANGED <<plain, dirs, tar, starts>>

\* Without set -e and zstd -t: an archive cut short is taken for a whole one.
RegressedZipEnds ==
    /\ script = "zipping"
    /\ archive' \in {"bad", "good"}
    /\ packed' = tar
    /\ script' = "list"
    /\ UNCHANGED <<plain, dirs, tar, starts>>

ZipEnds ==
    /\ script = "zipping"
    /\ archive' = "good" /\ packed' = tar
    /\ script' = "list"
    /\ UNCHANGED <<plain, dirs, tar, starts>>

\* zstd -t, then the member list, which must be readable and not empty.
Verify ==
    /\ script = "list"
    /\ script' = "delete"
    /\ UNCHANGED <<pvcVars, tar, starts>>

DeleteMember ==
    /\ script = "delete"
    /\ \E f \in packed \cap plain : plain' = plain \ {f}
    /\ UNCHANGED <<dirs, archive, packed, scriptVars>>

DeleteEnds ==
    /\ script = "delete" /\ packed \cap plain = {}
    /\ script' = "sweep"
    /\ UNCHANGED <<pvcVars, tar, starts>>

Tops == {Top[f] : f \in packed}

\* rm -rf of every top-level entry, whatever has come to be below it.
Sweep ==
    /\ script = "sweep"
    /\ plain' = {f \in plain : Top[f] \notin Tops}
    /\ dirs' = dirs \ Tops
    /\ script' = "ok"
    /\ UNCHANGED <<archive, packed, tar, starts>>

\* A command of the script fails (set -e), or the pod is killed.
ScriptDies ==
    /\ script \in Running
    /\ script' = "failed"
    /\ UNCHANGED <<pvcVars, tar, starts>>

ScriptStep ==
    /\ \/ Check \/ Pack \/ Zip \/ ZipEnds \/ Verify
       \/ DeleteMember \/ DeleteEnds \/ Sweep
    /\ UNCHANGED <<want, podVars, driverVars, copyVars>>

ScriptFails ==
    /\ ScriptDies
    /\ UNCHANGED <<want, podVars, driverVars, copyVars>>

-----------------------------------------------------------------------------
(* The driver: wait_for_pods_by_selector, on the harness and then on the   *)
(* summary pod, which is waited for whatever came of the harness.          *)

Waiting(w) ==
    \/ w = "harness" /\ driver = "wait"
    \/ w = "summary" /\ driver = "summary"

AfterWait == driver' = IF driver = "wait" /\ want.summary THEN "summary" ELSE "gate"

\* "If not ph or all(p in TERMINAL)": the pods are done, or gone.
SeesEnd(w) ==
    /\ Waiting(w) /\ want.wait
    /\ writer[w] = "ended"
    /\ \E crashed \in BOOLEAN : settled' = (settled /\ ~crashed)
    /\ AfterWait
    /\ UNCHANGED <<misread, dropped>>

TimesOut(w) ==
    /\ Waiting(w) /\ want.wait
    /\ settled' = FALSE
    /\ AfterWait
    /\ UNCHANGED <<misread, dropped>>

\* _phases() answers [] when its query fails, which is how the end looks.
Misreads(w) ==
    /\ Waiting(w) /\ want.wait
    /\ writer[w] = "running"
    /\ misread' = TRUE
    /\ AfterWait
    /\ UNCHANGED <<settled, dropped>>

\* A wait timeout of 0: nothing is waited for.
NoWait ==
    /\ driver = "wait" /\ ~want.wait
    /\ driver' = "gate"
    /\ UNCHANGED <<settled, misread, dropped>>

Wait ==
    /\ NoWait \/ \E w \in Writers : SeesEnd(w) \/ TimesOut(w) \/ Misreads(w)
    /\ UNCHANGED <<want, podVars, pvcVars, scriptVars, copyVars>>

-----------------------------------------------------------------------------
(* The driver: _discover_pvc_results and _compress_on_pvc.                 *)

AfterCompress == driver' = IF want.collect = "skip" THEN "over" ELSE "list"

\* The wait's errors are not looked at.
RegressedSettled == want.wait

\* _pvc_settled
Settled == settled /\ want.wait

\* The pod has zstd, or has not: probed last.
Gate ==
    /\ driver = "gate"
    /\ \/ /\ want.compress /\ Settled
          /\ script' = "check" /\ starts' = starts + 1
          /\ driver' = "compress"
       \/ AfterCompress /\ UNCHANGED <<script, starts>>
    /\ UNCHANGED <<want, podVars, pvcVars, tar, settled, misread, dropped, copyVars>>

\* The exec returns with the script's own result.
ExecReturns ==
    /\ driver = "compress" /\ script \in {"ok", "failed"}
    /\ AfterCompress
    /\ UNCHANGED <<settled, misread, dropped>>

\* A non-zero exit of kubectl, read as a compression that failed.
ExecDrops ==
    /\ driver = "compress" /\ script \in Running
    /\ dropped' = TRUE
    /\ AfterCompress
    /\ UNCHANGED <<settled, misread>>

Exec ==
    /\ ExecReturns \/ ExecDrops
    /\ UNCHANGED <<want, podVars, pvcVars, scriptVars, copyVars>>

\* The script started again by hand on a set that an earlier start left.
Rerun ==
    /\ driver = "over" /\ script = "failed" /\ starts < MaxScripts
    /\ script' = "check" /\ starts' = starts + 1
    /\ UNCHANGED <<want, podVars, pvcVars, tar, driverVars, copyVars>>

-----------------------------------------------------------------------------
(* The driver: _copy_dir_from_pod, one tar stream per attempt.             *)

HasTemp == script \in Running \ {"check", "pack"}

\* What tar finds at the top of the directory; or the keepers alone.
Present ==
    IF want.collect = "results"
       THEN plain \cap Keepers
       ELSE {f \in plain : Top[f] = f} \cup dirs
            \cup {e \in {"archive"} : archive # "none"}
            \cup {e \in {"temp"} : HasTemp}

List ==
    /\ driver = "list"
    /\ listing' = Present
    /\ driver' = "copy"
    /\ UNCHANGED <<settled, misread, dropped, streams, local, got, copied>>

\* A file or a directory, with what is below it now.
ReadPlain(e) ==
    /\ e \in (plain \cup dirs)
    /\ local' = local \cup {f \in plain : Top[f] = e}
    /\ UNCHANGED got

ReadOther(e) ==
    /\ \/ e = "archive" /\ archive # "none"
       \/ e = "temp" /\ HasTemp
    /\ got' = IF e = "archive" /\ archive = "good" THEN packed ELSE got
    /\ UNCHANGED local

Read ==
    /\ driver = "copy"
    /\ \E e \in listing :
          /\ ReadPlain(e) \/ ReadOther(e)
          /\ listing' = listing \ {e}
    /\ UNCHANGED <<driverVars, streams, copied>>

\* A broken stream taken for a complete one.
RegressedStreamFails ==
    /\ driver = "copy"
    /\ driver' = "over" /\ copied' = "whole"
    /\ UNCHANGED <<settled, misread, dropped, listing, streams, local, got>>

\* One attempt too many, and attempts without end.
RegressedAttempts ==
    /\ driver = "copy"
    /\ IF streams <= MaxStreams
          THEN driver' = "list" /\ streams' = streams + 1 /\ UNCHANGED copied
          ELSE driver' = "over" /\ copied' = "failed" /\ UNCHANGED streams
    /\ UNCHANGED <<settled, misread, dropped, listing, local, got>>

RegressedEndless ==
    /\ driver = "copy"
    /\ driver' = "list"
    /\ UNCHANGED <<settled, misread, dropped, streams, listing, local, got, copied>>

\* The stream breaks, or tar exits 1: a file removed before it was read.
StreamFails ==
    /\ driver = "copy"
    /\ IF streams < MaxStreams
          THEN driver' = "list" /\ streams' = streams + 1 /\ UNCHANGED copied
          ELSE driver' = "over" /\ copied' = "failed" /\ UNCHANGED streams
    /\ UNCHANGED <<settled, misread, dropped, listing, local, got>>

CopyEnds ==
    /\ driver = "copy" /\ listing = {}
    /\ driver' = "over" /\ copied' = "whole"
    /\ UNCHANGED <<settled, misread, dropped, listing, streams, local, got>>

Copy ==
    /\ List \/ Read \/ StreamFails \/ CopyEnds
    /\ UNCHANGED <<want, podVars, pvcVars, scriptVars>>

-----------------------------------------------------------------------------

Collect == Wait \/ Gate \/ Exec \/ Copy

CollectNext ==
    \/ Collect
    \/ ScriptStep \/ ScriptFails \/ Rerun
    \/ \E f \in Files : Write(f)
    \/ \E w \in Writers : WriterEnds(w)

CollectSpec == CollectInit /\ [][CollectNext]_collectVars

-----------------------------------------------------------------------------
(* Properties.                                                             *)

Held == plain \cup (IF archive = "good" THEN packed ELSE {})

\* "This deletes the only copy of a result set" (archive.py): every file the
\* pods have written can be read from the PVC, as a file or from an archive
\* that verifies, wherever a script dies and whatever the driver believes of
\* it; unless a failed query was taken for the end of a pod that still writes.
NothingLost == ~misread => written \subseteq Held

\* "Left plain at the top of a result set": a report is a file for as long
\* as the set is there, for the readers that glob for it.
KeepersStayPlain == written \cap Keepers \subseteq plain

Wanted == IF want.collect = "results" THEN written \cap Keepers ELSE written

\* A copy reported as a success holds all that was asked for, as files or in
\* the archive, when no pod and no script was left running behind the driver.
WholeIsWhole ==
    (copied = "whole" /\ Settled /\ ~misread /\ ~dropped) =>
        Wanted \subseteq local \cup got

\* The collection as its user sees it: every step of the detailed one is a
\* step of ResultStore or changes nothing there.  So files move into the
\* archive, out of the directory and through broken streams without one
\* going missing in between, and only an incident that is recorded as doubt
\* can make a report of success say too much.
Store == INSTANCE ResultStore WITH
    held    <- Held,
    asked   <- IF want.collect = "results" THEN Keepers ELSE Files,
    taken   <- local \cup got,
    verdict <- IF copied = "no" THEN "none" ELSE copied,
    doubt   <- IF misread THEN "loss"
               ELSE IF dropped \/ ~Settled THEN "report" ELSE "none"

CollectionImplementsStore == Store!StoreSpec
=============================================================================

---------------------------- MODULE ResultStore ----------------------------
(***************************************************************************)
(* What the collection of one treatment's results promises the user: the   *)
(* results that have arrived are held until they are taken, and a report   *)
(* of success means that all that was asked for was taken.  Both promises  *)
(* rest on the wait for the pods, and the doubt an incident of the wait or *)
(* of the exec stream leaves weakens them: the first is given up only when *)
(* a running pod was taken for one that has ended.  How the results are    *)
(* held, as files or in an archive, is not seen here.                      *)
(***************************************************************************)
CONSTANT Files

VARIABLES
    held,       \* the results that can be read
    asked,      \* the results to be taken
    taken,      \* the results in the user's directory
    verdict,    \* what the user was told
    doubt       \* what the verdict and the store are worth

storeVars == <<held, asked, taken, verdict, doubt>>

StoreInit ==
    /\ held = {} /\ taken = {} /\ verdict = "none"
    /\ asked \in SUBSET Files
    /\ doubt \in {"none", "report"}

\* The options of the command: what to take, and whether to wait at all.
Ask ==
    /\ held = {} /\ taken = {} /\ verdict = "none"
    /\ asked' \in SUBSET Files
    /\ doubt' \in {"none", "report"}
    /\ UNCHANGED <<held, taken, verdict>>

\* Nothing arrives behind a report that is not in doubt.
Arrive ==
    /\ verdict = "whole" => doubt # "none"
    /\ \E f \in Files : held' = held \cup {f}
    /\ UNCHANGED <<asked, taken, verdict, doubt>>

Take ==
    /\ verdict = "none"
    /\ \E part \in SUBSET held : taken' = taken \cup part
    /\ UNCHANGED <<held, asked, verdict, doubt>>

Report ==
    /\ verdict = "none"
    /\ \/ verdict' = "failed"
       \/ verdict' = "whole" /\ (doubt = "none" => held \cap asked \subseteq taken)
    /\ UNCHANGED <<held, asked, taken, doubt>>

Doubt ==
    /\ doubt # "loss" /\ doubt' \in {"report", "loss"}
    /\ UNCHANGED <<held, asked, taken, verdict>>

Lose ==
    /\ doubt = "loss"
    /\ held' \in SUBSET held
    /\ UNCHANGED <<asked, taken, verdict, doubt>>

StoreNext == Ask \/ Arrive \/ Take \/ Report \/ Doubt \/ Lose

StoreSpec == StoreInit /\ [][StoreNext]_storeVars
=============================================================================

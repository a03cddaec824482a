----------------------------- MODULE MCSnapshots -----------------------------
(***************************************************************************)
(* TLC instance of the two sides of a query snapshot.  A behaviour is      *)
(* either about the spool, with its slots, files and timers, or about the  *)
(* rows and pages of one capture; the two meet only in the names of their  *)
(* steps (SpoolFails is SpoolRefuses seen from the spool, ServeDamaged is  *)
(* ServeTooLarge), so one product of their states would repeat both.       *)
(***************************************************************************)
EXTENDS SnapshotSpool, SnapshotPages

VARIABLE side \* what the behaviour is about

MCvars == <<side, spoolVars, pageVars>>

MCInit ==
  /\ side \in {"spool", "pages"}
  /\ SpoolInit
  /\ PagesInit
  \* the capture is of no account to the spool
  /\ side = "spool" => /\ pageSize = CHOOSE n \in PageSizes : TRUE
                       /\ reserved = CHOOSE n \in Metadata : TRUE

\* A capture that is refused, removed or read to its end has no next step.
Ended ==
  /\ side = "pages"
  /\ phase \in {"refused", "removed", "finished"}
  /\ UNCHANGED MCvars

MCNext ==
  \/ side = "spool" /\ SpoolNext /\ UNCHANGED <<side, pageVars>>
  \/ side = "pages" /\ PagesNext /\ UNCHANGED <<side, spoolVars>>
  \/ Ended

MCSpec == MCInit /\ [][MCNext]_MCvars /\ SpoolFairness
=============================================================================

---------------------------- MODULE MCPagedQueries ----------------------------
(***************************************************************************)
(* PagedQueries on one id that two instances serve one after the other.    *)
(***************************************************************************)
EXTENDS PagedQueries

CONSTANTS a, d1, d2

MCInstance == {d1, d2}
MCIdOf == [d \in MCInstance |-> a]
MCStartup == [i \in {a} |-> d1]
=============================================================================

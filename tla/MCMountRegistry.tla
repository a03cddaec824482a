--------------------------- MODULE MCMountRegistry ---------------------------
(***************************************************************************)
(* MountRegistry on a server that starts with one profiled instance, p,    *)
(* under two aliases.  It is then given a plain instance, q, and another   *)
(* instance with p's id, s, which inherits p's profile.                    *)
(***************************************************************************)
EXTENDS MountRegistry

CONSTANTS p, q, s, alias, pid, qid

MCId == {alias, pid, qid}
MCInstance == {p, q, s}
MCIdOf == [d \in MCInstance |-> IF d = q THEN qid ELSE pid]
MCStartup == [i \in MCId |-> IF i = qid THEN NoDB ELSE p]
MCReadProfile == {alias}
=============================================================================

----------------------------- MODULE DatabaseLife -----------------------------
(***************************************************************************)
(* What a server promises about each database instance it is given,        *)
(* without ids, aliases, profiles, WaitGroups or goroutines: an instance   *)
(* is served once, for one stretch of time, requests begin to use it only  *)
(* then, and it is closed once, after it is served no more and the last    *)
(* request that uses it has ended.  MountRegistry implements this.         *)
(***************************************************************************)
CONSTANTS
  Instance, \* *core.Database values
  Request   \* requests being handled

VARIABLES
  status, \* of each instance: with its owner, served, retired or closed
  users   \* the requests that use each instance

lifeVars == <<status, users>>

\* The server starts with some of the instances.
LifeInit ==
  /\ \E given \in SUBSET Instance :
       status = [d \in Instance |-> IF d \in given THEN "served" ELSE "away"]
  /\ users = [d \in Instance |-> {}]

Serve(d) ==
  /\ status[d] = "away"
  /\ status' = [status EXCEPT ![d] = "served"]
  /\ UNCHANGED users

Use(r, d) ==
  /\ status[d] = "served"
  /\ users' = [users EXCEPT ![d] = @ \cup {r}]
  /\ UNCHANGED status

\* A request ends and with it every use it made.
Leave(r) ==
  /\ users' = [d \in Instance |-> users[d] \ {r}]
  /\ UNCHANGED status

Retire(d) ==
  /\ status[d] = "served"
  /\ status' = [status EXCEPT ![d] = "retired"]
  /\ UNCHANGED users

CloseForGood(d) ==
  /\ status[d] = "retired"
  /\ users[d] = {}
  /\ status' = [status EXCEPT ![d] = "closed"]
  /\ UNCHANGED users

LifeNext ==
  \/ \E d \in Instance : Serve(d) \/ Retire(d) \/ CloseForGood(d)
  \/ \E r \in Request, d \in Instance : Use(r, d)
  \/ \E r \in Request : Leave(r)

LifeSpec == LifeInit /\ [][LifeNext]_lifeVars
=============================================================================

--------------------------- MODULE PolicyController ---------------------------
(***************************************************************************)
(* pkg/policystore/controller.go and lease.go on top of PolicyStore: a     *)
(* serving process has one Controller, which admits one generation, and    *)
(* workers whose storage transactions run under a policy lease on it.  The *)
(* other processes administer the store directly, with Store.Activate.     *)
(*                                                                         *)
(* Controller.mu is a sync.RWMutex: Reload and Activate hold it as writer  *)
(* over the store operation and the load that follows, a lease holds it as *)
(* reader until it is released, and TryRLock fails as soon as a writer     *)
(* waits.                                                                  *)
(***************************************************************************)
EXTENDS PolicyStore

CONSTANTS
  Worker,   \* goroutines that run protected transactions
  Serving,  \* processes with a Controller
  HomeOf    \* the process of each worker

ASSUME ControllerAssumption ==
  /\ Serving \subseteq Proc
  /\ HomeOf \in [Worker -> Serving]

VARIABLES
  ctl,      \* where each process's Activate or Reload is.  wantActivate and
            \* wantReload: queued on mu as writer; publishing: mu held,
            \* Store.Activate running; loading: mu held, Store.Load to run
  active,   \* Controller.active; None is nil
  lease,    \* the revision each worker's lease pins; None without a lease
  outdated  \* another process published since this one loaded what it admits

ctlVars == <<ctl, active, lease, outdated>>
vars == <<storeVars, ctlVars>>

CtlInit ==
  /\ Init
  /\ ctl = [p \in Serving |-> "idle"]
  /\ active = [p \in Serving |-> None]
  /\ lease = [w \in Worker |-> None]
  /\ outdated = [p \in Serving |-> FALSE]

Leased(p) == \E w \in Worker : HomeOf[w] = p /\ lease[w] # None
-----------------------------------------------------------------------------
\* Activate or Reload (NewController's included) calls mu.Lock.
Want(p) ==
  /\ ctl[p] = "idle"
  /\ \E c \in {"wantActivate", "wantReload"} : ctl' = [ctl EXCEPT ![p] = c]
  /\ UNCHANGED <<storeVars, active, lease, outdated>>

\* Activate gets mu once the leases are released and calls Store.Activate.
StartActivate(p) ==
  /\ ctl[p] = "wantActivate"
  /\ ~ Leased(p)
  /\ ctl' = [ctl EXCEPT ![p] = "publishing"]
  /\ Begin(p)
  /\ UNCHANGED <<active, lease, outdated>>

\* Fault: Reload does not wait for the leases.
ReloadUnderLease(p) ==
  /\ ctl[p] = "wantReload"
  /\ ctl' = [ctl EXCEPT ![p] = "loading"]
  /\ UNCHANGED <<storeVars, active, lease, outdated>>

\* Reload gets mu.
StartReload(p) ==
  /\ ctl[p] = "wantReload"
  /\ ~ Leased(p)
  /\ ctl' = [ctl EXCEPT ![p] = "loading"]
  /\ UNCHANGED <<storeVars, active, lease, outdated>>

\* A store step of p may move the pointer the other processes loaded.
MarkOutdated(p) ==
  outdated' = IF log' = log THEN outdated
              ELSE [q \in Serving |->
                      outdated[q] \/ (q # p /\ active[q] # None)]

\* Store.Activate runs.
StoreStep(p) ==
  /\ ctl[p] = "publishing"
  /\ Lock(p) \/ ActivateStep(p)
  /\ MarkOutdated(p)
  /\ UNCHANGED <<ctl, active, lease>>

\* A process without a Controller publishes.
AdminStep(p) ==
  /\ Begin(p) \/ Lock(p) \/ ActivateStep(p) \/ Kill(p)
  /\ MarkOutdated(p)
  /\ UNCHANGED <<ctl, active, lease>>

\* Store.Activate has returned; Activate goes on to Load whatever it returned.
EndPublish(p) ==
  /\ ctl[p] = "publishing"
  /\ pc[p] = "idle"
  /\ ctl' = [ctl EXCEPT ![p] = "loading"]
  /\ UNCHANGED <<storeVars, active, lease, outdated>>

\* Load succeeds: its generation is admitted and mu is released.
LoadActive(p) ==
  /\ ctl[p] = "loading"
  /\ Loads
  /\ active' = [active EXCEPT ![p] = Pointer]
  /\ outdated' = [outdated EXCEPT ![p] = FALSE]
  /\ ctl' = [ctl EXCEPT ![p] = "idle"]
  /\ UNCHANGED <<storeVars, lease>>

\* Fault: a failed load leaves the old generation admitted.
LoadFailsOpen(p) ==
  /\ ctl[p] = "loading"
  /\ ctl' = [ctl EXCEPT ![p] = "idle"]
  /\ UNCHANGED <<storeVars, active, lease, outdated>>

\* Load fails, for what it finds or because its context ended: nothing is
\* admitted.
LoadActiveFails(p) ==
  /\ ctl[p] = "loading"
  /\ active' = [active EXCEPT ![p] = None]
  /\ outdated' = [outdated EXCEPT ![p] = FALSE]
  /\ ctl' = [ctl EXCEPT ![p] = "idle"]
  /\ UNCHANGED <<storeVars, lease>>

\* Fault: readers pass a writer that waits.
AcquireBarging(w) ==
  /\ lease[w] = None
  /\ ctl[HomeOf[w]] \notin {"publishing", "loading"}
  /\ active[HomeOf[w]] # None
  /\ lease' = [lease EXCEPT ![w] = active[HomeOf[w]]]
  /\ UNCHANGED <<storeVars, ctl, active, outdated>>

\* AcquirePolicyLease: TryRLock succeeds while no writer holds or awaits mu.
AcquireLease(w) ==
  /\ lease[w] = None
  /\ ctl[HomeOf[w]] = "idle"
  /\ active[HomeOf[w]] # None
  /\ lease' = [lease EXCEPT ![w] = active[HomeOf[w]]]
  /\ UNCHANGED <<storeVars, ctl, active, outdated>>

\* The transaction committed or rolled back; Release runs once.
ReleaseLease(w) ==
  /\ lease[w] # None
  /\ lease' = [lease EXCEPT ![w] = None]
  /\ UNCHANGED <<storeVars, ctl, active, outdated>>

\* The process dies and starts again: it serves nothing until it loads.
RestartProcess(p) ==
  /\ IF pc[p] = "idle" THEN UNCHANGED storeVars ELSE Kill(p)
  /\ ctl' = [ctl EXCEPT ![p] = "idle"]
  /\ active' = [active EXCEPT ![p] = None]
  /\ lease' = [w \in Worker |-> IF HomeOf[w] = p THEN None ELSE lease[w]]
  /\ outdated' = [outdated EXCEPT ![p] = FALSE]

\* The machine loses power: every process starts again, on what the disk kept.
PowerFails ==
  /\ PowerLoss
  /\ ctl' = [p \in Serving |-> "idle"]
  /\ active' = [p \in Serving |-> None]
  /\ lease' = [w \in Worker |-> None]
  /\ outdated' = [p \in Serving |-> FALSE]

CtlNext ==
  \/ \E p \in Serving : Want(p)
  \/ \E p \in Serving : StartActivate(p)
  \/ \E p \in Serving : StartReload(p)
  \/ \E p \in Serving : StoreStep(p)
  \/ \E p \in Proc \ Serving : AdminStep(p)
  \/ \E p \in Serving : EndPublish(p)
  \/ \E p \in Serving : LoadActive(p)
  \/ \E p \in Serving : LoadActiveFails(p)
  \/ \E w \in Worker : AcquireLease(w)
  \/ \E w \in Worker : ReleaseLease(w)
  \/ \E p \in Serving : RestartProcess(p)
  \/ PowerFails

CtlSpec == CtlInit /\ [][CtlNext]_vars

\* Transactions end and release their lease; a running Activate or Reload goes
\* on, and the context its caller gave it ends if the file lock stays taken.
\* Nobody is obliged to publish, and workers may keep coming.
CtlFairSpec ==
  /\ CtlSpec
  /\ \A w \in Worker : WF_vars(ReleaseLease(w))
  /\ \A p \in Serving : WF_vars(\/ StartActivate(p)
                                \/ StartReload(p)
                                \/ StoreStep(p)
                                \/ EndPublish(p)
                                \/ LoadActive(p)
                                \/ LoadActiveFails(p))
-----------------------------------------------------------------------------
\* A transaction runs to its end under the generation it was admitted with:
\* while a lease is out, its process admits no other one, and no store
\* operation of its process is under way.
LeasePinsActive ==
  \A w \in Worker : lease[w] # None =>
    /\ lease[w] = active[HomeOf[w]]
    /\ ctl[HomeOf[w]] \notin {"publishing", "loading"}

\* A process whose own Activate returned, in success, failure or uncertainty,
\* admits what the pointer now names or nothing: only another process's
\* publication can leave it behind.
AdmitsPointerOrNothing ==
  \A p \in Serving :
    \/ ctl[p] \in {"publishing", "loading"}
    \/ active[p] \in {None, Pointer}
    \/ outdated[p]

\* Publication and reload are not starved by a stream of leases.
ControllerReturns == \A p \in Serving : ctl[p] # "idle" ~> ctl[p] = "idle"
=============================================================================

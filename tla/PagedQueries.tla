----------------------------- MODULE PagedQueries -----------------------------
(***************************************************************************)
(* Paged TugQL queries on the mounted databases: MountRegistry and         *)
(* SnapshotSpool composed the way handlePagedTugQL and UnmountContext      *)
(* compose them.  A capture runs inside a request that leases its          *)
(* database; it registers its snapshot under Server.mu, where it looks     *)
(* again whether the database is still the mounted one; and UnmountContext *)
(* sweeps the snapshots of a database after it unrouted it, outside        *)
(* Server.mu.                                                              *)
(*                                                                         *)
(* Databases with a read or provider profile refuse the paging headers     *)
(* (prepareImmutableQuery, guardRetentionRead): only the plain ones, which *)
(* have no aliases, are captured and paged.                                *)
(***************************************************************************)
EXTENDS MountRegistry, SnapshotSpool

CONSTANT NoRequest

VARIABLE owner    \* the database a snapshot captures, and the handler doing it

vars == <<regVars, spoolVars, owner>>

Init ==
  /\ RegistryInit
  /\ SpoolInit
  /\ owner = [k \in Snap |-> [db |-> NoDB, req |-> NoRequest]]

Leases(r, d) == \E l \in lease[r] : l[1] = d

\* The databases that take the paging headers.
Pageable == Instance \ Profiled

InHandler(r) == {k \in Snap : owner[k].req = r /\ pc[k] \in Capturing}
-----------------------------------------------------------------------------
\* handlePagedTugQL takes a slot for a first page.
StartCapture(r, d, k) ==
  /\ Leases(r, d) /\ d \in Pageable
  /\ InHandler(r) = {}
  /\ Reserve(k)
  /\ owner' = [owner EXCEPT ![k] = [db |-> d, req |-> r]]
  /\ UNCHANGED regVars

\* The steps of the handler before registration, and its failures.
CaptureProceeds(k) ==
  /\ \/ Abandon(k)
     \/ CreateFile(k)
     \/ SpoolFails(k)
     \/ Spooled(k)
     \/ Drop(k)
     \/ ReleaseSlot(k)
  /\ UNCHANGED <<regVars, owner>>

\* Fault: the handler does not look again whether its database is mounted.
PublishUnchecked(k) ==
  /\ Register(k)
  /\ UNCHANGED <<regVars, owner>>

\* handlePagedTugQL registers the snapshot, holding Server.mu.RLock: only
\* while its database is the one its id routes to.  Otherwise it drops it.
Publish(k) ==
  /\ pc[k] = "spooled"
  /\ dbs[IdOf[owner[k].db]] = owner[k].db
  /\ Register(k)
  /\ UNCHANGED <<regVars, owner>>

\* A request on the same database closes the snapshot or finds it unusable; a
\* request on any database finds it expired, which is looked at first.
ClientRemoves(r, k) ==
  /\ InHandler(r) = {}
  /\ \/ Leases(r, owner[k].db) /\ CloseSnapshot(k)
     \/ Leases(r, owner[k].db) /\ ServeDamaged(k)
     \/ (\E d \in Pageable : Leases(r, d)) /\ ServeLapsed(k)
  /\ UNCHANGED <<regVars, owner>>

\* The clock and the expiry timer.
Expiry(k) ==
  /\ \/ Lapse(k)
     \/ TimerFires(k)
     \/ ExpireSnapshot(k)
  /\ UNCHANGED <<regVars, owner>>

\* UnmountContext sweeps the snapshots of the database it removed.
UnmountSweeps(u) ==
  /\ SweepSnapshots(u)
  /\ ExpireSnapshots({k \in Registered : owner[k].db = call[u].db})
  /\ UNCHANGED owner

\* The handler returns once its capture is over.
HandlerReturns(r) ==
  /\ InHandler(r) = {}
  /\ Release(r)
  /\ UNCHANGED <<spoolVars, owner>>

\* Every other step of the registry.
RegistryStep ==
  /\ \/ \E d \in Instance : Mount(d)
     \/ \E u \in Unmounter, i \in Id : UnmountAlias(u, i) \/ UnmountFinal(u, i)
     \/ \E u \in Unmounter : StartDrain(u)
     \/ \E x \in drains : Drained(x)
     \/ \E x \in drains : CloseDB(x)
     \/ \E u \in Unmounter : ReturnClosed(u)
     \/ \E u \in Unmounter : ReturnCtxErr(u)
     \/ \E r \in Request, i \in Id : InHandler(r) = {} /\ Acquire(r, i)
  /\ UNCHANGED <<spoolVars, owner>>

Next ==
  \/ \E r \in Request, d \in Instance, k \in Snap : StartCapture(r, d, k)
  \/ \E k \in Snap : CaptureProceeds(k)
  \/ \E k \in Snap : Publish(k)
  \/ \E r \in Request, k \in Snap : ClientRemoves(r, k)
  \/ \E k \in Snap : Expiry(k)
  \/ \E u \in Unmounter : UnmountSweeps(u)
  \/ \E r \in Request : HandlerReturns(r)
  \/ RegistryStep

Spec == Init /\ [][Next]_vars

\* The fairness of the two components: handlers finish their capture and
\* return, the goroutines of an unmount run, clocks and timers advance.
Fairness ==
  /\ \A k \in Snap : WF_vars(CaptureProceeds(k) \/ Publish(k)) /\ WF_vars(Expiry(k))
  /\ \A r \in Request : WF_vars(HandlerReturns(r))
  /\ \A u \in Unmounter : WF_vars(UnmountSweeps(u))
  /\ WF_vars(/\ \/ \E u \in Unmounter : StartDrain(u) \/ ReturnClosed(u)
                \/ \E x \in drains : Drained(x) \/ CloseDB(x)
             /\ UNCHANGED <<spoolVars, owner>>)

FairSpec == Spec /\ Fairness
-----------------------------------------------------------------------------
\* The sweep is final: once an unmount has swept a database's snapshots, no
\* capture that was under way registers another one.
SweptForGood ==
  \A k \in Registered :
    /\ \A x \in drains : x.db # owner[k].db
    /\ \A u \in Unmounter : call[u].pc \in {"swept", "waiting"}
                            => call[u].db # owner[k].db

\* Every snapshot file of a removed database is gone in the end, and the
\* database is closed.
RemovedIsCleaned ==
  \A d \in Instance :
    (\E u \in Unmounter : call[u].pc = "removed" /\ call[u].db = d)
      ~> (d \in closed /\ \A k \in files \ orphans : owner[k].db # d)
=============================================================================

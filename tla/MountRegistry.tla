---------------------------- MODULE MountRegistry ----------------------------
(***************************************************************************)
(* The registry of mounted databases of pkg/server/server.go: Mount,       *)
(* UnmountContext, the request leases (acquire, inflightFor, release) and  *)
(* the drain goroutine that closes a database once its last request ends.  *)
(*                                                                         *)
(* Every critical section of Server.mu is one action.  UnmountContext      *)
(* leaves its critical section before it sweeps the query snapshots and    *)
(* starts the drain goroutine, so requests, mounts and other unmounts      *)
(* interleave with the rest of it.                                         *)
(*                                                                         *)
(* A WaitGroup is identified by its instance and its epoch: inflightFor    *)
(* creates one on the first lease of an instance, and UnmountContext takes *)
(* it out of the inflight map, after which a lease would count on a new    *)
(* one.  A request gives up all its leases at once, when its handler       *)
(* returns, so the set of WaitGroups a request holds says whether Wait can *)
(* return.                                                                 *)
(***************************************************************************)
EXTENDS Naturals

CONSTANTS
  Id,               \* ids a route can name
  Instance,         \* *core.Database values
  Request,          \* requests being handled
  Unmounter,        \* callers of UnmountContext
  NoDB,             \* a missing entry of the dbs map
  IdOf,             \* Database.ID() of each instance
  Startup,          \* the dbs map given to New
  ReadProfile,      \* ids of WithDatabaseReadProfiles
  ProviderProfiled, \* instances bound by validateProviderProfiles
  Inadmissible      \* instances Mount refuses whatever the state: retention
                    \* cache, provider profile, IANA profile, unverified keys
                    \* of a profiled id, licence without a rights server

\* What New and its callers guarantee about the startup map.  Only a profiled
\* instance is shared by aliases (docs/architecture.md, read profiles): the
\* map is otherwise "keyed by database id".
ASSUME RegistryAssumption ==
  /\ NoDB \notin Instance
  /\ IdOf \in [Instance -> Id]
  /\ Startup \in [Id -> Instance \cup {NoDB}]
  /\ ReadProfile \subseteq Id
  /\ ProviderProfiled \subseteq Instance
  /\ \A i \in ReadProfile : Startup[i] # NoDB
  /\ \A i, j \in Id :
       /\ i # j
       /\ Startup[i] = Startup[j]
       /\ Startup[i] # NoDB
       => \/ Startup[i] \in ProviderProfiled
          \/ \E k \in ReadProfile : Startup[k] = Startup[i]

VARIABLES
  dbs,              \* Server.dbs: the instance each id routes to
  readProfilesByDB, \* instances bound to a read profile
  retiring,         \* Server.retiringProfileDBs
  owned,            \* instances handed to the server so far
  epoch,            \* WaitGroup of Server.inflight an instance's leases count on
  lease,            \* WaitGroups each request holds: <<instance, epoch>>
  call,             \* state of each UnmountContext call
  drains,           \* drain goroutines
  closed            \* instances whose Close has run

regVars == <<dbs, readProfilesByDB, retiring, owned, epoch, lease, call, drains,
             closed>>

Calling == {"removed", "swept", "waiting"}
Returned == {"idle", "aliasRemoved", "closedOK", "ctxErr"}
Call == [pc : Calling \cup Returned, db : Instance \cup {NoDB}, wg : Nat]
Drain == [db : Instance, wg : Nat, pc : {"waiting", "drained", "closed"}]

RegistryTypeOK ==
  /\ dbs \in [Id -> Instance \cup {NoDB}]
  /\ readProfilesByDB \subseteq Instance
  /\ retiring \subseteq Instance
  /\ owned \subseteq Instance
  /\ epoch \in [Instance -> Nat]
  /\ lease \in [Request -> SUBSET (Instance \X Nat)]
  /\ call \in [Unmounter -> Call]
  /\ drains \subseteq Drain
  /\ closed \subseteq Instance
-----------------------------------------------------------------------------
\* The instances validateReadProfiles binds at startup, and the ids whose
\* later mounts inherit the profile: readProfiles and readProfileRemounts.
StartupProfiled == {Startup[i] : i \in ReadProfile}

ProfileIds == ReadProfile \cup {IdOf[d] : d \in StartupProfiled}

Profiled == readProfilesByDB \cup ProviderProfiled

RegistryInit ==
  /\ dbs = Startup
  /\ readProfilesByDB = StartupProfiled
  /\ retiring = {}
  /\ owned = {d \in Instance : \E i \in Id : Startup[i] = d}
  /\ epoch = [d \in Instance |-> 0]
  /\ lease = [r \in Request |-> {}]
  /\ call = [u \in Unmounter |-> [pc |-> "idle", db |-> NoDB, wg |-> 0]]
  /\ drains = {}
  /\ closed = {}

\* Fault: a profiled instance may be offered again while its drain runs.
MountRetiring(d) ==
  /\ d \in owned => d \in Profiled
  /\ d \notin Inadmissible
  /\ dbs[IdOf[d]] = NoDB
  /\ dbs' = [dbs EXCEPT ![IdOf[d]] = d]
  /\ readProfilesByDB' = IF IdOf[d] \in ProfileIds
                         THEN readProfilesByDB \cup {d}
                         ELSE readProfilesByDB
  /\ owned' = owned \cup {d}
  /\ UNCHANGED <<retiring, epoch, lease, call, drains, closed>>

\* Mount.  The caller gives an instance away ("the server owns db once Mount
\* succeeds"), so it offers an owned instance again only when a profile binds
\* it: that case Mount itself decides, with retiringProfileDBs.
Mount(d) ==
  /\ d \in owned => d \in Profiled
  /\ d \notin Inadmissible
  /\ dbs[IdOf[d]] = NoDB
  /\ d \notin retiring
  /\ dbs' = [dbs EXCEPT ![IdOf[d]] = d]
  /\ readProfilesByDB' = IF IdOf[d] \in ProfileIds
                         THEN readProfilesByDB \cup {d}
                         ELSE readProfilesByDB
  /\ owned' = owned \cup {d}
  /\ UNCHANGED <<retiring, epoch, lease, call, drains, closed>>

\* UnmountContext, the critical section of a nonfinal alias of a profiled
\* instance: only the route goes.
UnmountAlias(u, i) ==
  /\ call[u].pc \in Returned
  /\ dbs[i] # NoDB
  /\ dbs[i] \in Profiled
  /\ \E j \in Id \ {i} : dbs[j] = dbs[i]
  /\ dbs' = [dbs EXCEPT ![i] = NoDB]
  /\ call' = [call EXCEPT ![u] = [pc |-> "aliasRemoved", db |-> dbs[i], wg |-> 0]]
  /\ UNCHANGED <<readProfilesByDB, retiring, owned, epoch, lease, drains, closed>>

\* UnmountContext, the critical section of every other removal: the route
\* goes, a profiled instance starts retiring, and the WaitGroup leaves the
\* inflight map.
UnmountFinal(u, i) ==
  /\ call[u].pc \in Returned
  /\ dbs[i] # NoDB
  /\ dbs[i] \in Profiled => ~ \E j \in Id \ {i} : dbs[j] = dbs[i]
  /\ dbs' = [dbs EXCEPT ![i] = NoDB]
  /\ retiring' = IF dbs[i] \in Profiled THEN retiring \cup {dbs[i]} ELSE retiring
  /\ epoch' = [epoch EXCEPT ![dbs[i]] = @ + 1]
  /\ call' = [call EXCEPT ![u] =
                [pc |-> "removed", db |-> dbs[i], wg |-> epoch[dbs[i]]]]
  /\ UNCHANGED <<readProfilesByDB, owned, lease, drains, closed>>

\* UnmountContext calls expireSnapshotsForDB (see PagedQueries).
SweepSnapshots(u) ==
  /\ call[u].pc = "removed"
  /\ call' = [call EXCEPT ![u].pc = "swept"]
  /\ UNCHANGED <<dbs, readProfilesByDB, retiring, owned, epoch, lease, drains, closed>>

\* Fault: the drain goroutine is started only where a request is in flight.
StartDrainIfLeased(u) ==
  /\ call[u].pc = "swept"
  /\ call' = [call EXCEPT ![u].pc = "waiting"]
  /\ drains' = IF \E r \in Request : <<call[u].db, call[u].wg>> \in lease[r]
               THEN drains \cup {[db |-> call[u].db, wg |-> call[u].wg, pc |-> "waiting"]}
               ELSE drains
  /\ UNCHANGED <<dbs, readProfilesByDB, retiring, owned, epoch, lease, closed>>

\* UnmountContext starts the drain goroutine and reaches its select.
StartDrain(u) ==
  /\ call[u].pc = "swept"
  /\ call' = [call EXCEPT ![u].pc = "waiting"]
  /\ drains' = drains \cup {[db |-> call[u].db, wg |-> call[u].wg, pc |-> "waiting"]}
  /\ UNCHANGED <<dbs, readProfilesByDB, retiring, owned, epoch, lease, closed>>

\* Fault: the goroutine does not wait for the requests in flight.
DrainedAtOnce(x) ==
  /\ x.pc = "waiting"
  /\ drains' = (drains \ {x}) \cup {[x EXCEPT !.pc = "drained"]}
  /\ UNCHANGED <<dbs, readProfilesByDB, retiring, owned, epoch, lease, call, closed>>

\* The drain goroutine: wg.Wait returns and the drained channel is closed.
Drained(x) ==
  /\ x.pc = "waiting"
  /\ \A r \in Request : <<x.db, x.wg>> \notin lease[r]
  /\ drains' = (drains \ {x}) \cup {[x EXCEPT !.pc = "drained"]}
  /\ UNCHANGED <<dbs, readProfilesByDB, retiring, owned, epoch, lease, call, closed>>

\* The drain goroutine runs db.Close and sends its error.
CloseDB(x) ==
  /\ x.pc = "drained"
  /\ drains' = (drains \ {x}) \cup {[x EXCEPT !.pc = "closed"]}
  /\ closed' = closed \cup {x.db}
  /\ UNCHANGED <<dbs, readProfilesByDB, retiring, owned, epoch, lease, call>>

\* The call returns <-closeErr: it saw drained, in either select.
ReturnClosed(u) ==
  /\ call[u].pc = "waiting"
  /\ \E x \in drains : x.db = call[u].db /\ x.wg = call[u].wg /\ x.pc = "closed"
  /\ call' = [call EXCEPT ![u].pc = "closedOK"]
  /\ UNCHANGED <<dbs, readProfilesByDB, retiring, owned, epoch, lease, drains, closed>>

\* Fault: a caller that gives up takes the drain goroutine with it.
ReturnAbandonsDrain(u) ==
  /\ call[u].pc = "waiting"
  /\ \E x \in drains : /\ x.db = call[u].db /\ x.wg = call[u].wg /\ x.pc = "waiting"
                       /\ drains' = drains \ {x}
  /\ call' = [call EXCEPT ![u].pc = "ctxErr"]
  /\ UNCHANGED <<dbs, readProfilesByDB, retiring, owned, epoch, lease, closed>>

\* The call returns ctx.Err(): its context ended and drained is still open.
ReturnCtxErr(u) ==
  /\ call[u].pc = "waiting"
  /\ \E x \in drains : x.db = call[u].db /\ x.wg = call[u].wg /\ x.pc = "waiting"
  /\ call' = [call EXCEPT ![u].pc = "ctxErr"]
  /\ UNCHANGED <<dbs, readProfilesByDB, retiring, owned, epoch, lease, drains, closed>>

\* acquire: lookup and lease in one read-locked section.
Acquire(r, i) ==
  /\ dbs[i] # NoDB
  /\ lease' = [lease EXCEPT ![r] = @ \cup {<<dbs[i], epoch[dbs[i]]>>}]
  /\ UNCHANGED <<dbs, readProfilesByDB, retiring, owned, epoch, call, drains, closed>>

\* leases.release: the handler of the request returned.
Release(r) ==
  /\ lease[r] # {}
  /\ lease' = [lease EXCEPT ![r] = {}]
  /\ UNCHANGED <<dbs, readProfilesByDB, retiring, owned, epoch, call, drains, closed>>

RegistryNext ==
  \/ \E d \in Instance : Mount(d)
  \/ \E u \in Unmounter, i \in Id : UnmountAlias(u, i)
  \/ \E u \in Unmounter, i \in Id : UnmountFinal(u, i)
  \/ \E u \in Unmounter : SweepSnapshots(u)
  \/ \E u \in Unmounter : StartDrain(u)
  \/ \E x \in drains : Drained(x)
  \/ \E x \in drains : CloseDB(x)
  \/ \E u \in Unmounter : ReturnClosed(u)
  \/ \E u \in Unmounter : ReturnCtxErr(u)
  \/ \E r \in Request, i \in Id : Acquire(r, i)
  \/ \E r \in Request : Release(r)

RegistrySpec == RegistryInit /\ [][RegistryNext]_regVars

\* The Go scheduler runs every runnable goroutine: the code of an unmount call
\* and of its drain goroutine, and the handlers, which end because every
\* handler bounds its work with a context.  Callers are not obliged to mount,
\* unmount or send requests.
RegistryFairness ==
  /\ \A u \in Unmounter : WF_regVars(SweepSnapshots(u)) /\ WF_regVars(StartDrain(u))
                          /\ WF_regVars(ReturnClosed(u))
  /\ WF_regVars(\E x \in drains : Drained(x) \/ CloseDB(x))
  /\ \A r \in Request : WF_regVars(Release(r))

RegistryFairSpec == RegistrySpec /\ RegistryFairness
-----------------------------------------------------------------------------
\* No request holds a lease on an instance that was closed: a handler never
\* runs on a closed database, whatever order mounts, unmounts of aliases,
\* leases and drains take.
NoUseAfterClose ==
  \A r \in Request : \A l \in lease[r] : l[1] \notin closed

\* A routed instance is neither closed nor about to be: removing one alias of
\* a profiled instance never drains what another alias still serves, and a
\* retiring instance is never routed again.
RoutedIsLive ==
  \A i \in Id : dbs[i] # NoDB =>
    /\ dbs[i] \notin closed
    /\ \A x \in drains : x.db # dbs[i]
    /\ \A u \in Unmounter : call[u].pc \in Calling => call[u].db # dbs[i]

\* Close runs at most once per instance: one drain goroutine per instance.
OneDrainPerInstance ==
  \A x, y \in drains : x.db = y.db => x = y

\* UnmountContext returns the Close error only once Close has run.
ReturnAfterClose ==
  \A u \in Unmounter : call[u].pc = "closedOK" => call[u].db \in closed

\* A removed database is closed in the end, whether the caller of
\* UnmountContext waited or gave up.
RemovedIsClosed ==
  \A d \in Instance :
    (\E u \in Unmounter : call[u].pc \in Calling /\ call[u].db = d) ~> d \in closed

\* What an instance is to the server's callers, and the requests that use it.
Status ==
  [d \in Instance |-> IF \E i \in Id : dbs[i] = d THEN "served"
                     ELSE IF d \in closed THEN "closed"
                     ELSE IF d \in owned THEN "retired"
                     ELSE "away"]

Users == [d \in Instance |-> {r \in Request : \E l \in lease[r] : l[1] = d}]

Life == INSTANCE DatabaseLife WITH status <- Status, users <- Users

\* The registry implements DatabaseLife: whatever order Mount, UnmountContext
\* of aliases and of last routes, leases and drain goroutines take, an instance
\* is served for one stretch of time, which ends with its last alias and not
\* before, no request begins to use it after that, it is not served again
\* while its drain runs, and Close runs once, when no request uses it.
ImplementsLife == Life!LifeSpec
=============================================================================

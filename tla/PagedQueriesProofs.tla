-------------------------- MODULE PagedQueriesProofs --------------------------
(***************************************************************************)
(* Proofs about the mount registry, for any ids, instances, requests,      *)
(* unmounting callers and profiles; about the snapshot spool, for any      *)
(* finite set of captures, any positive number of slots, and with or       *)
(* without crashes and failing removals; about their composition; and      *)
(* about the pages of one result, for rows, limits and page sizes of any   *)
(* length.                                                                 *)
(***************************************************************************)
EXTENDS PagedQueries, SnapshotPages, TLAPS

-----------------------------------------------------------------------------
(* The mount registry. *)

\* An instance's WaitGroup leaves the inflight map at most once, and from then
\* on nothing routes to the instance or may mount it again.
RetiredOnce ==
  \A d \in Instance :
    /\ epoch[d] \in {0, 1}
    /\ epoch[d] = 1 => /\ d \in owned
                       /\ d \in Profiled => d \in retiring
                       /\ \A i \in Id : dbs[i] # d

\* Routed instances are owned, and only profiled ones have several routes.
RoutesOwned ==
  /\ \A i \in Id : dbs[i] # NoDB => dbs[i] \in owned
  /\ \A i, j \in Id : i # j /\ dbs[i] # NoDB /\ dbs[i] = dbs[j]
                      => dbs[i] \in Profiled

\* Every lease was taken before its instance retired.
LeaseEpoch == \A r \in Request : \A l \in lease[r] : l[2] = 0

\* Calls and drain goroutines work on retired instances and wait for the one
\* WaitGroup those had.
CallsRetired ==
  \A u \in Unmounter : call[u].pc \in Calling =>
    call[u].db \in Instance /\ call[u].wg = 0 /\ epoch[call[u].db] = 1

DrainsRetired == \A x \in drains : x.wg = 0 /\ epoch[x.db] = 1

\* A retired instance has one call on its way to the drain, or one drain.
Exclusive ==
  /\ \A u, v \in Unmounter :
       /\ call[u].pc \in {"removed", "swept"}
       /\ call[v].pc \in {"removed", "swept"}
       /\ call[u].db = call[v].db
       => u = v
  /\ \A u \in Unmounter, x \in drains :
       call[u].pc \in {"removed", "swept"} => x.db # call[u].db
  /\ OneDrainPerInstance

\* Past wg.Wait no lease is left, and the closed instances are exactly those
\* whose drain reached Close.
DrainedUnleased ==
  \A x \in drains : x.pc # "waiting" =>
    \A r \in Request : \A l \in lease[r] : l[1] # x.db

ClosedByDrain ==
  /\ \A d \in closed : \E x \in drains : x.db = d /\ x.pc = "closed"
  /\ \A x \in drains : x.pc = "closed" => x.db \in closed

RegInv ==
  /\ RegistryTypeOK
  /\ RetiredOnce
  /\ RoutesOwned
  /\ LeaseEpoch
  /\ CallsRetired
  /\ DrainsRetired
  /\ Exclusive
  /\ DrainedUnleased
  /\ ClosedByDrain
  /\ ReturnAfterClose
-----------------------------------------------------------------------------
\* Mount keeps the invariant: a retired instance is owned, so only its profile
\* would let it back, and then it is retiring.
LEMMA MountStep ==
  ASSUME RegInv, NEW d \in Instance, Mount(d)
  PROVE  RegInv'
<1>1. RegistryTypeOK'
  BY RegistryAssumption, Zenon DEF RegInv, Mount, RegistryTypeOK, Call, Drain,
     Calling, Returned
<1>2. RetiredOnce'
  BY RegistryAssumption DEF RegInv, Mount, RetiredOnce, RoutesOwned,
     Profiled, RegistryTypeOK
<1>3. RoutesOwned'
  BY RegistryAssumption DEF RegInv, Mount, RoutesOwned, Profiled, RegistryTypeOK
<1>4. LeaseEpoch'
  BY RegistryAssumption, Zenon DEF RegInv, Mount, LeaseEpoch, RetiredOnce, RegistryTypeOK
<1>5. CallsRetired'
  BY RegistryAssumption, Zenon DEF RegInv, Mount, CallsRetired, Calling,
     Returned, RegistryTypeOK, RetiredOnce
<1>6. DrainsRetired'
  BY RegistryAssumption, Zenon DEF RegInv, Mount, DrainsRetired, CallsRetired,
     Calling, RegistryTypeOK, Drain, RetiredOnce
<1>7. Exclusive'
  BY RegistryAssumption, Zenon DEF RegInv, Mount, Exclusive, OneDrainPerInstance,
     CallsRetired, DrainsRetired, Calling, RegistryTypeOK, Drain, Call
<1>8. DrainedUnleased'
  BY RegistryAssumption, Zenon DEF RegInv, Mount, DrainedUnleased, DrainsRetired,
     LeaseEpoch, RetiredOnce, RegistryTypeOK, Drain
<1>9. ClosedByDrain'
  BY RegistryAssumption, Zenon DEF RegInv, Mount, ClosedByDrain, RegistryTypeOK, Drain
<1>10. ReturnAfterClose'
  BY RegistryAssumption, Zenon DEF RegInv, Mount, ReturnAfterClose, Returned,
     RegistryTypeOK, ClosedByDrain
<1> QED  BY <1>1, <1>2, <1>3, <1>4, <1>5, <1>6, <1>7, <1>8, <1>9, <1>10 DEF RegInv

\* Removing a nonfinal alias leaves the instance routed and unretired.
LEMMA UnmountAliasStep ==
  ASSUME RegInv, NEW u \in Unmounter, NEW i \in Id, UnmountAlias(u, i)
  PROVE  RegInv'
<1>1. RegistryTypeOK'
  BY RegistryAssumption, Zenon DEF RegInv, UnmountAlias, RegistryTypeOK, Call,
     Drain, Calling, Returned
<1>2. RetiredOnce'
  BY RegistryAssumption DEF RegInv, UnmountAlias, RetiredOnce, RoutesOwned,
     Profiled, RegistryTypeOK
<1>3. RoutesOwned'
  BY RegistryAssumption, Zenon DEF RegInv, UnmountAlias, RoutesOwned, Profiled,
     RegistryTypeOK
<1>4. LeaseEpoch'
  BY RegistryAssumption, Zenon DEF RegInv, UnmountAlias, LeaseEpoch, RetiredOnce,
     RegistryTypeOK
<1>5. CallsRetired'
  BY RegistryAssumption DEF RegInv, UnmountAlias, CallsRetired, Calling,
     Returned, RegistryTypeOK, RetiredOnce
<1>6. DrainsRetired'
  BY RegistryAssumption, Zenon DEF RegInv, UnmountAlias, DrainsRetired, CallsRetired,
     Calling, RegistryTypeOK, Drain, RetiredOnce
<1>7. Exclusive'
  BY RegistryAssumption DEF RegInv, UnmountAlias, Exclusive,
     OneDrainPerInstance, CallsRetired, DrainsRetired, Calling, RegistryTypeOK, Drain,
     Call
<1>8. DrainedUnleased'
  BY RegistryAssumption, Zenon DEF RegInv, UnmountAlias, DrainedUnleased, DrainsRetired,
     LeaseEpoch, RetiredOnce, RegistryTypeOK, Drain
<1>9. ClosedByDrain'
  BY RegistryAssumption, Zenon DEF RegInv, UnmountAlias, ClosedByDrain, RegistryTypeOK,
     Drain
<1>10. ReturnAfterClose'
  BY RegistryAssumption, Zenon DEF RegInv, UnmountAlias, ReturnAfterClose,
     Returned, RegistryTypeOK, ClosedByDrain
<1> QED  BY <1>1, <1>2, <1>3, <1>4, <1>5, <1>6, <1>7, <1>8, <1>9, <1>10 DEF RegInv

\* The final removal retires an instance that was routed, hence not retired.
LEMMA UnmountFinalStep ==
  ASSUME RegInv, NEW u \in Unmounter, NEW i \in Id, UnmountFinal(u, i)
  PROVE  RegInv'
<1>1. RegistryTypeOK'
  BY RegistryAssumption DEF RegInv, UnmountFinal, RegistryTypeOK, Call,
     Drain, Calling, Returned
<1>2. RetiredOnce'
  BY RegistryAssumption DEF RegInv, UnmountFinal, RetiredOnce, RoutesOwned,
     Profiled, RegistryTypeOK
<1>3. RoutesOwned'
  BY RegistryAssumption, Zenon DEF RegInv, UnmountFinal, RoutesOwned, Profiled,
     RegistryTypeOK
<1>4. LeaseEpoch'
  BY RegistryAssumption, Zenon DEF RegInv, UnmountFinal, LeaseEpoch, RetiredOnce,
     RegistryTypeOK
<1>5. CallsRetired'
  BY RegistryAssumption DEF RegInv, UnmountFinal, CallsRetired, Calling,
     Returned, RegistryTypeOK, RetiredOnce
<1>6. DrainsRetired'
  BY RegistryAssumption DEF RegInv, UnmountFinal, DrainsRetired, CallsRetired,
     Calling, RegistryTypeOK, Drain, RetiredOnce
<1>7. Exclusive'
  BY RegistryAssumption DEF RegInv, UnmountFinal, Exclusive,
     OneDrainPerInstance, RetiredOnce, CallsRetired, DrainsRetired, Calling, RegistryTypeOK,
     Drain, Call
<1>8. DrainedUnleased'
  BY RegistryAssumption, Zenon DEF RegInv, UnmountFinal, DrainedUnleased, DrainsRetired,
     LeaseEpoch, RetiredOnce, RegistryTypeOK, Drain
<1>9. ClosedByDrain'
  BY RegistryAssumption, Zenon DEF RegInv, UnmountFinal, ClosedByDrain, RegistryTypeOK,
     Drain
<1>10. ReturnAfterClose'
  BY RegistryAssumption, Zenon DEF RegInv, UnmountFinal, ReturnAfterClose,
     Returned, RegistryTypeOK, ClosedByDrain
<1> QED  BY <1>1, <1>2, <1>3, <1>4, <1>5, <1>6, <1>7, <1>8, <1>9, <1>10 DEF RegInv

\* The snapshot sweep only moves the call.
LEMMA SweepSnapshotsStep ==
  ASSUME RegInv, NEW u \in Unmounter, SweepSnapshots(u)
  PROVE  RegInv'
<1>1. RegistryTypeOK'
  BY RegistryAssumption DEF RegInv, SweepSnapshots, RegistryTypeOK, Call,
     Drain, Calling, Returned
<1>2. RetiredOnce'
  BY RegistryAssumption, Zenon DEF RegInv, SweepSnapshots, RetiredOnce, RoutesOwned,
     Profiled, RegistryTypeOK
<1>3. RoutesOwned'
  BY RegistryAssumption, Zenon DEF RegInv, SweepSnapshots, RoutesOwned, Profiled,
     RegistryTypeOK
<1>4. LeaseEpoch'
  BY RegistryAssumption, Zenon DEF RegInv, SweepSnapshots, LeaseEpoch, RetiredOnce,
     RegistryTypeOK
<1>5. CallsRetired'
  BY RegistryAssumption DEF RegInv, SweepSnapshots, CallsRetired, Calling,
     Returned, RegistryTypeOK, RetiredOnce
<1>6. DrainsRetired'
  BY RegistryAssumption, Zenon DEF RegInv, SweepSnapshots, DrainsRetired, CallsRetired,
     Calling, RegistryTypeOK, Drain, RetiredOnce
<1>7. Exclusive'
  BY RegistryAssumption DEF RegInv, SweepSnapshots, Exclusive,
     OneDrainPerInstance, CallsRetired, DrainsRetired, Calling, RegistryTypeOK, Drain,
     Call
<1>8. DrainedUnleased'
  BY RegistryAssumption, Zenon DEF RegInv, SweepSnapshots, DrainedUnleased,
     DrainsRetired, LeaseEpoch, RetiredOnce, RegistryTypeOK, Drain
<1>9. ClosedByDrain'
  BY RegistryAssumption, Zenon DEF RegInv, SweepSnapshots, ClosedByDrain, RegistryTypeOK,
     Drain
<1>10. ReturnAfterClose'
  BY RegistryAssumption DEF RegInv, SweepSnapshots, ReturnAfterClose,
     Returned, RegistryTypeOK, ClosedByDrain
<1> QED  BY <1>1, <1>2, <1>3, <1>4, <1>5, <1>6, <1>7, <1>8, <1>9, <1>10 DEF RegInv

\* The call hands its instance over to the drain goroutine.
LEMMA StartDrainStep ==
  ASSUME RegInv, NEW u \in Unmounter, StartDrain(u)
  PROVE  RegInv'
<1>1. RegistryTypeOK'
  BY RegistryAssumption DEF RegInv, StartDrain, CallsRetired, RegistryTypeOK,
     Call, Drain, Calling, Returned
<1>2. RetiredOnce'
  BY RegistryAssumption, Zenon DEF RegInv, StartDrain, RetiredOnce, RoutesOwned,
     Profiled, RegistryTypeOK
<1>3. RoutesOwned'
  BY RegistryAssumption, Zenon DEF RegInv, StartDrain, RoutesOwned, Profiled,
     RegistryTypeOK
<1>4. LeaseEpoch'
  BY RegistryAssumption, Zenon DEF RegInv, StartDrain, LeaseEpoch, RetiredOnce,
     RegistryTypeOK
<1>5. CallsRetired'
  BY RegistryAssumption DEF RegInv, StartDrain, CallsRetired, Calling,
     Returned, RegistryTypeOK, RetiredOnce
<1>6. DrainsRetired'
  BY RegistryAssumption DEF RegInv, StartDrain, DrainsRetired, CallsRetired,
     Calling, RegistryTypeOK, Drain, RetiredOnce
<1>7. Exclusive'
  BY RegistryAssumption DEF RegInv, StartDrain, Exclusive,
     OneDrainPerInstance, CallsRetired, DrainsRetired, Calling, RegistryTypeOK, Drain,
     Call
<1>8. DrainedUnleased'
  BY RegistryAssumption DEF RegInv, StartDrain, DrainedUnleased, DrainsRetired,
     LeaseEpoch, RetiredOnce, RegistryTypeOK, Drain
<1>9. ClosedByDrain'
  BY RegistryAssumption DEF RegInv, StartDrain, ClosedByDrain, RegistryTypeOK,
     Drain
<1>10. ReturnAfterClose'
  BY RegistryAssumption DEF RegInv, StartDrain, ReturnAfterClose,
     Returned, RegistryTypeOK, ClosedByDrain
<1> QED  BY <1>1, <1>2, <1>3, <1>4, <1>5, <1>6, <1>7, <1>8, <1>9, <1>10 DEF RegInv

\* wg.Wait returns only when no request holds the instance's one WaitGroup.
LEMMA DrainedStep ==
  ASSUME RegInv, NEW x \in drains, Drained(x)
  PROVE  RegInv'
<1>1. RegistryTypeOK'
  BY RegistryAssumption, Zenon DEF RegInv, Drained, RegistryTypeOK, Call, Drain,
     Calling, Returned
<1>2. RetiredOnce'
  BY RegistryAssumption, Zenon DEF RegInv, Drained, RetiredOnce, RoutesOwned,
     Profiled, RegistryTypeOK
<1>3. RoutesOwned'
  BY RegistryAssumption, Zenon DEF RegInv, Drained, RoutesOwned, Profiled,
     RegistryTypeOK
<1>4. LeaseEpoch'
  BY RegistryAssumption, Zenon DEF RegInv, Drained, LeaseEpoch, RetiredOnce, RegistryTypeOK
<1>5. CallsRetired'
  BY RegistryAssumption, Zenon DEF RegInv, Drained, CallsRetired, Calling,
     Returned, RegistryTypeOK, RetiredOnce
<1>6. DrainsRetired'
  BY RegistryAssumption DEF RegInv, Drained, DrainsRetired, CallsRetired,
     Calling, RegistryTypeOK, Drain, RetiredOnce
<1>7. Exclusive'
  BY RegistryAssumption DEF RegInv, Drained, Exclusive, OneDrainPerInstance,
     CallsRetired, DrainsRetired, Calling, RegistryTypeOK, Drain, Call
<1>8. DrainedUnleased'
  BY RegistryAssumption DEF RegInv, Drained, DrainedUnleased, DrainsRetired,
     LeaseEpoch, RetiredOnce, RegistryTypeOK, Drain
<1>9. ClosedByDrain'
  BY RegistryAssumption DEF RegInv, Drained, ClosedByDrain, RegistryTypeOK, Drain
<1>10. ReturnAfterClose'
  BY RegistryAssumption, Zenon DEF RegInv, Drained, ReturnAfterClose, Returned,
     RegistryTypeOK, ClosedByDrain
<1> QED  BY <1>1, <1>2, <1>3, <1>4, <1>5, <1>6, <1>7, <1>8, <1>9, <1>10 DEF RegInv

\* Close runs for an instance nothing leases.
LEMMA CloseDBStep ==
  ASSUME RegInv, NEW x \in drains, CloseDB(x)
  PROVE  RegInv'
<1>1. RegistryTypeOK'
  BY RegistryAssumption DEF RegInv, CloseDB, RegistryTypeOK, Call, Drain,
     Calling, Returned
<1>2. RetiredOnce'
  BY RegistryAssumption, Zenon DEF RegInv, CloseDB, RetiredOnce, RoutesOwned,
     Profiled, RegistryTypeOK
<1>3. RoutesOwned'
  BY RegistryAssumption, Zenon DEF RegInv, CloseDB, RoutesOwned, Profiled,
     RegistryTypeOK
<1>4. LeaseEpoch'
  BY RegistryAssumption, Zenon DEF RegInv, CloseDB, LeaseEpoch, RetiredOnce, RegistryTypeOK
<1>5. CallsRetired'
  BY RegistryAssumption, Zenon DEF RegInv, CloseDB, CallsRetired, Calling,
     Returned, RegistryTypeOK, RetiredOnce
<1>6. DrainsRetired'
  BY RegistryAssumption DEF RegInv, CloseDB, DrainsRetired, CallsRetired,
     Calling, RegistryTypeOK, Drain, RetiredOnce
<1>7. Exclusive'
  BY RegistryAssumption DEF RegInv, CloseDB, Exclusive, OneDrainPerInstance,
     CallsRetired, DrainsRetired, Calling, RegistryTypeOK, Drain, Call
<1>8. DrainedUnleased'
  BY RegistryAssumption DEF RegInv, CloseDB, DrainedUnleased, DrainsRetired,
     LeaseEpoch, RetiredOnce, RegistryTypeOK, Drain
<1>9. ClosedByDrain'
  <2> DEFINE y == [x EXCEPT !.pc = "closed"]
  <2>1. y.db = x.db /\ y.pc = "closed"
    BY DEF RegInv, RegistryTypeOK, Drain
  <2>2. \A d \in closed' : \E z \in drains' : z.db = d /\ z.pc = "closed"
    BY <2>1, Zenon DEF RegInv, CloseDB, ClosedByDrain
  <2>3. \A z \in drains' : z.pc = "closed" => z.db \in closed'
    BY <2>1, Zenon DEF RegInv, CloseDB, ClosedByDrain
  <2> QED  BY <2>2, <2>3 DEF ClosedByDrain
<1>10. ReturnAfterClose'
  BY RegistryAssumption, Zenon DEF RegInv, CloseDB, ReturnAfterClose, Returned,
     RegistryTypeOK, ClosedByDrain
<1> QED  BY <1>1, <1>2, <1>3, <1>4, <1>5, <1>6, <1>7, <1>8, <1>9, <1>10 DEF RegInv

\* A call that saw the drain finish returns.
LEMMA ReturnClosedStep ==
  ASSUME RegInv, NEW u \in Unmounter, ReturnClosed(u)
  PROVE  RegInv'
<1>1. RegistryTypeOK'
  BY RegistryAssumption DEF RegInv, ReturnClosed, RegistryTypeOK, Call,
     Drain, Calling, Returned
<1>2. RetiredOnce'
  BY RegistryAssumption, Zenon DEF RegInv, ReturnClosed, RetiredOnce, RoutesOwned,
     Profiled, RegistryTypeOK
<1>3. RoutesOwned'
  BY RegistryAssumption, Zenon DEF RegInv, ReturnClosed, RoutesOwned, Profiled,
     RegistryTypeOK
<1>4. LeaseEpoch'
  BY RegistryAssumption, Zenon DEF RegInv, ReturnClosed, LeaseEpoch, RetiredOnce,
     RegistryTypeOK
<1>5. CallsRetired'
  BY RegistryAssumption DEF RegInv, ReturnClosed, CallsRetired, Calling,
     Returned, RegistryTypeOK, RetiredOnce
<1>6. DrainsRetired'
  BY RegistryAssumption, Zenon DEF RegInv, ReturnClosed, DrainsRetired, CallsRetired,
     Calling, RegistryTypeOK, Drain, RetiredOnce
<1>7. Exclusive'
  BY RegistryAssumption DEF RegInv, ReturnClosed, Exclusive,
     OneDrainPerInstance, CallsRetired, DrainsRetired, Calling, RegistryTypeOK, Drain,
     Call
<1>8. DrainedUnleased'
  BY RegistryAssumption DEF RegInv, ReturnClosed, DrainedUnleased, DrainsRetired,
     LeaseEpoch, RetiredOnce, RegistryTypeOK, Drain
<1>9. ClosedByDrain'
  BY RegistryAssumption, Zenon DEF RegInv, ReturnClosed, ClosedByDrain, RegistryTypeOK,
     Drain
<1>10. ReturnAfterClose'
  BY RegistryAssumption DEF RegInv, ReturnClosed, ReturnAfterClose,
     Returned, RegistryTypeOK, ClosedByDrain
<1> QED  BY <1>1, <1>2, <1>3, <1>4, <1>5, <1>6, <1>7, <1>8, <1>9, <1>10 DEF RegInv

\* A call whose context ended returns and leaves its drain running.
LEMMA ReturnCtxErrStep ==
  ASSUME RegInv, NEW u \in Unmounter, ReturnCtxErr(u)
  PROVE  RegInv'
<1>1. RegistryTypeOK'
  BY RegistryAssumption DEF RegInv, ReturnCtxErr, RegistryTypeOK, Call,
     Drain, Calling, Returned
<1>2. RetiredOnce'
  BY RegistryAssumption, Zenon DEF RegInv, ReturnCtxErr, RetiredOnce, RoutesOwned,
     Profiled, RegistryTypeOK
<1>3. RoutesOwned'
  BY RegistryAssumption, Zenon DEF RegInv, ReturnCtxErr, RoutesOwned, Profiled,
     RegistryTypeOK
<1>4. LeaseEpoch'
  BY RegistryAssumption, Zenon DEF RegInv, ReturnCtxErr, LeaseEpoch, RetiredOnce,
     RegistryTypeOK
<1>5. CallsRetired'
  BY RegistryAssumption DEF RegInv, ReturnCtxErr, CallsRetired, Calling,
     Returned, RegistryTypeOK, RetiredOnce
<1>6. DrainsRetired'
  BY RegistryAssumption, Zenon DEF RegInv, ReturnCtxErr, DrainsRetired, CallsRetired,
     Calling, RegistryTypeOK, Drain, RetiredOnce
<1>7. Exclusive'
  BY RegistryAssumption DEF RegInv, ReturnCtxErr, Exclusive,
     OneDrainPerInstance, CallsRetired, DrainsRetired, Calling, RegistryTypeOK, Drain,
     Call
<1>8. DrainedUnleased'
  BY RegistryAssumption, Zenon DEF RegInv, ReturnCtxErr, DrainedUnleased, DrainsRetired,
     LeaseEpoch, RetiredOnce, RegistryTypeOK, Drain
<1>9. ClosedByDrain'
  BY RegistryAssumption, Zenon DEF RegInv, ReturnCtxErr, ClosedByDrain, RegistryTypeOK,
     Drain
<1>10. ReturnAfterClose'
  BY RegistryAssumption DEF RegInv, ReturnCtxErr, ReturnAfterClose,
     Returned, RegistryTypeOK, ClosedByDrain
<1> QED  BY <1>1, <1>2, <1>3, <1>4, <1>5, <1>6, <1>7, <1>8, <1>9, <1>10 DEF RegInv

\* A lease is taken on a routed instance, which is not retired.
LEMMA AcquireStep ==
  ASSUME RegInv, NEW r \in Request, NEW i \in Id, Acquire(r, i)
  PROVE  RegInv'
<1>1. RegistryTypeOK'
  BY RegistryAssumption DEF RegInv, Acquire, RegistryTypeOK, Call, Drain,
     Calling, Returned
<1>2. RetiredOnce'
  BY RegistryAssumption, Zenon DEF RegInv, Acquire, RetiredOnce, RoutesOwned,
     Profiled, RegistryTypeOK
<1>3. RoutesOwned'
  BY RegistryAssumption, Zenon DEF RegInv, Acquire, RoutesOwned, Profiled,
     RegistryTypeOK
<1>4. LeaseEpoch'
  BY RegistryAssumption DEF RegInv, Acquire, LeaseEpoch, RetiredOnce, RegistryTypeOK
<1>5. CallsRetired'
  BY RegistryAssumption, Zenon DEF RegInv, Acquire, CallsRetired, Calling,
     Returned, RegistryTypeOK, RetiredOnce
<1>6. DrainsRetired'
  BY RegistryAssumption, Zenon DEF RegInv, Acquire, DrainsRetired, CallsRetired,
     Calling, RegistryTypeOK, Drain, RetiredOnce
<1>7. Exclusive'
  BY RegistryAssumption, Zenon DEF RegInv, Acquire, Exclusive, OneDrainPerInstance,
     CallsRetired, DrainsRetired, Calling, RegistryTypeOK, Drain, Call
<1>8. DrainedUnleased'
  BY RegistryAssumption DEF RegInv, Acquire, DrainedUnleased, DrainsRetired,
     LeaseEpoch, RetiredOnce, RegistryTypeOK, Drain
<1>9. ClosedByDrain'
  BY RegistryAssumption, Zenon DEF RegInv, Acquire, ClosedByDrain, RegistryTypeOK, Drain
<1>10. ReturnAfterClose'
  BY RegistryAssumption, Zenon DEF RegInv, Acquire, ReturnAfterClose, Returned,
     RegistryTypeOK, ClosedByDrain
<1> QED  BY <1>1, <1>2, <1>3, <1>4, <1>5, <1>6, <1>7, <1>8, <1>9, <1>10 DEF RegInv

\* A request that ends gives up its leases.
LEMMA ReleaseStep ==
  ASSUME RegInv, NEW r \in Request, Release(r)
  PROVE  RegInv'
<1>1. RegistryTypeOK'
  BY RegistryAssumption, Zenon DEF RegInv, Release, RegistryTypeOK, Call, Drain,
     Calling, Returned
<1>2. RetiredOnce'
  BY RegistryAssumption, Zenon DEF RegInv, Release, RetiredOnce, RoutesOwned,
     Profiled, RegistryTypeOK
<1>3. RoutesOwned'
  BY RegistryAssumption, Zenon DEF RegInv, Release, RoutesOwned, Profiled,
     RegistryTypeOK
<1>4. LeaseEpoch'
  BY RegistryAssumption DEF RegInv, Release, LeaseEpoch, RetiredOnce, RegistryTypeOK
<1>5. CallsRetired'
  BY RegistryAssumption, Zenon DEF RegInv, Release, CallsRetired, Calling,
     Returned, RegistryTypeOK, RetiredOnce
<1>6. DrainsRetired'
  BY RegistryAssumption, Zenon DEF RegInv, Release, DrainsRetired, CallsRetired,
     Calling, RegistryTypeOK, Drain, RetiredOnce
<1>7. Exclusive'
  BY RegistryAssumption, Zenon DEF RegInv, Release, Exclusive, OneDrainPerInstance,
     CallsRetired, DrainsRetired, Calling, RegistryTypeOK, Drain, Call
<1>8. DrainedUnleased'
  BY RegistryAssumption, Zenon DEF RegInv, Release, DrainedUnleased, DrainsRetired,
     LeaseEpoch, RetiredOnce, RegistryTypeOK, Drain
<1>9. ClosedByDrain'
  BY RegistryAssumption, Zenon DEF RegInv, Release, ClosedByDrain, RegistryTypeOK, Drain
<1>10. ReturnAfterClose'
  BY RegistryAssumption, Zenon DEF RegInv, Release, ReturnAfterClose, Returned,
     RegistryTypeOK, ClosedByDrain
<1> QED  BY <1>1, <1>2, <1>3, <1>4, <1>5, <1>6, <1>7, <1>8, <1>9, <1>10 DEF RegInv

\* The invariant holds of the startup map.
LEMMA RegStarts == RegistryInit => RegInv
<1> SUFFICES ASSUME RegistryInit PROVE RegInv
  OBVIOUS
<1>1. RegistryTypeOK
  BY RegistryAssumption DEF RegistryInit, RegistryTypeOK, StartupProfiled, Call,
     Returned
<1>2. RetiredOnce
  BY RegistryAssumption DEF RegistryInit, RetiredOnce
<1>3. RoutesOwned
  BY RegistryAssumption, Zenon DEF RegistryInit, RoutesOwned, Profiled, StartupProfiled
<1>4. LeaseEpoch /\ DrainsRetired /\ DrainedUnleased /\ ClosedByDrain
  BY DEF RegistryInit, LeaseEpoch, DrainsRetired, DrainedUnleased, ClosedByDrain
<1>5. CallsRetired /\ ReturnAfterClose /\ Exclusive
  BY Zenon DEF RegistryInit, CallsRetired, ReturnAfterClose, Exclusive, Calling,
     OneDrainPerInstance
<1> QED  BY <1>1, <1>2, <1>3, <1>4, <1>5 DEF RegInv

\* Every step of the registry keeps the invariant.
LEMMA RegKeeps == RegInv /\ [RegistryNext]_(regVars) => RegInv'
<1> SUFFICES ASSUME RegInv, [RegistryNext]_(regVars) PROVE RegInv'
  OBVIOUS
<1>1. CASE UNCHANGED regVars
  BY <1>1 DEF regVars, RegInv, RegistryTypeOK, RetiredOnce, Profiled, RoutesOwned, LeaseEpoch,
     CallsRetired, DrainsRetired, Exclusive, OneDrainPerInstance, DrainedUnleased,
     ClosedByDrain, ReturnAfterClose
<1>2. CASE RegistryNext
  BY <1>2, MountStep, UnmountAliasStep, UnmountFinalStep, SweepSnapshotsStep, StartDrainStep,
     DrainedStep, CloseDBStep, ReturnClosedStep, ReturnCtxErrStep, AcquireStep, ReleaseStep, Zenon
  DEF RegistryNext
<1> QED  BY <1>1, <1>2

\* Every reachable state of the registry satisfies the inductive invariant.
THEOREM RegistryInvariant == RegistrySpec => []RegInv
BY RegStarts, RegKeeps, PTL DEF RegistrySpec

\* The variables keep their types.
THEOREM RegistryTyped == RegistrySpec => []RegistryTypeOK
<1>1. RegInv => RegistryTypeOK
  BY DEF RegInv
<1> QED  BY <1>1, RegistryInvariant, PTL

\* No handler runs on a closed database: closed instances were drained, and
\* a drained instance has no lease and can get none, being unrouted for good.
THEOREM LeasedNeverClosed == RegistrySpec => []NoUseAfterClose
<1>1. RegInv => NoUseAfterClose
  BY DEF RegInv, NoUseAfterClose, ClosedByDrain, DrainedUnleased
<1> QED  BY <1>1, RegistryInvariant, PTL

LEMMA RoutedIsLiveHolds ==
  ASSUME RegInv
  PROVE  RoutedIsLive
<1> SUFFICES ASSUME NEW i \in Id, dbs[i] # NoDB
             PROVE  /\ dbs[i] \notin closed
                    /\ \A x \in drains : x.db # dbs[i]
                    /\ \A u \in Unmounter : call[u].pc \in Calling
                                          => call[u].db # dbs[i]
  BY DEF RoutedIsLive
<1>1. dbs[i] \in Instance /\ epoch[dbs[i]] = 0
  BY DEF RegInv, RegistryTypeOK, RetiredOnce
<1>2. \A x \in drains : x.db # dbs[i]
  BY <1>1 DEF RegInv, DrainsRetired
<1>3. dbs[i] \notin closed
  BY <1>2 DEF RegInv, ClosedByDrain
<1>4. \A u \in Unmounter : call[u].pc \in Calling => call[u].db # dbs[i]
  BY <1>1 DEF RegInv, CallsRetired
<1> QED  BY <1>2, <1>3, <1>4

\* Whatever a route serves is open and on nobody's way to Close.
THEOREM RoutedNeverDrained == RegistrySpec => []RoutedIsLive
BY RoutedIsLiveHolds, RegistryInvariant, PTL

\* An instance is drained and closed once.
THEOREM ClosedOnce == RegistrySpec => []OneDrainPerInstance
<1>1. RegInv => OneDrainPerInstance
  BY DEF RegInv, Exclusive
<1> QED  BY <1>1, RegistryInvariant, PTL

\* UnmountContext reports the Close error only after Close has run.
THEOREM ReturnsAfterClose == RegistrySpec => []ReturnAfterClose
<1>1. RegInv => ReturnAfterClose
  BY DEF RegInv
<1> QED  BY <1>1, RegistryInvariant, PTL
-----------------------------------------------------------------------------
(* The registry implements DatabaseLife. *)

Routed(d) == \E i \in Id : dbs[i] = d

\* An instance the server owns and no longer routes to has retired: only the
\* removal of its last route takes it off the routes.
UnroutedIsRetired == \A d \in owned : ~ Routed(d) => epoch[d] = 1

LEMMA StatusIs ==
  ASSUME NEW d \in Instance
  PROVE  /\ Routed(d) <=> Status[d] = "served"
         /\ ~ Routed(d) /\ d \in closed <=> Status[d] = "closed"
         /\ ~ Routed(d) /\ d \notin closed /\ d \in owned <=> Status[d] = "retired"
         /\ ~ Routed(d) /\ d \notin closed /\ d \notin owned <=> Status[d] = "away"
BY DEF Status, Routed

LEMMA UnroutedStarts == RegistryInit => UnroutedIsRetired
BY DEF RegistryInit, UnroutedIsRetired, Routed

\* The instance whose last route goes is routed, so its epoch was zero.
LEMMA UnroutedKeeps ==
  ASSUME RegInv, UnroutedIsRetired, [RegistryNext]_(regVars)
  PROVE  UnroutedIsRetired'
<1>0. dbs \in [Id -> Instance \cup {NoDB}] /\ epoch \in [Instance -> Nat] /\ owned \subseteq Instance
  BY DEF RegInv, RegistryTypeOK
<1>1. ASSUME dbs' = dbs, owned' = owned, epoch' = epoch
      PROVE  UnroutedIsRetired'
  BY <1>1 DEF UnroutedIsRetired, Routed
<1>2. ASSUME NEW d \in Instance, Mount(d)
      PROVE  UnroutedIsRetired'
  <2>1. /\ dbs[IdOf[d]] = NoDB /\ dbs' = [dbs EXCEPT ![IdOf[d]] = d]
        /\ owned' = owned \cup {d} /\ epoch' = epoch /\ IdOf[d] \in Id
    BY <1>2, RegistryAssumption DEF Mount
  <2>2. dbs'[IdOf[d]] = d
    BY <1>0, <2>1
  <2>3. ASSUME NEW e \in Instance, Routed(e)
        PROVE  Routed(e)'
    BY <1>0, <2>1, <2>3, RegistryAssumption DEF Routed
  <2> QED
    BY <1>0, <2>1, <2>2, <2>3 DEF UnroutedIsRetired, Routed
<1>3. ASSUME NEW u \in Unmounter, NEW i \in Id, UnmountAlias(u, i)
      PROVE  UnroutedIsRetired'
  <2>1. /\ \E j \in Id \ {i} : dbs[j] = dbs[i]
        /\ dbs' = [dbs EXCEPT ![i] = NoDB] /\ owned' = owned /\ epoch' = epoch
    BY <1>3 DEF UnmountAlias
  <2>2. ASSUME NEW e \in Instance, Routed(e)
        PROVE  Routed(e)'
    BY <1>0, <2>1, <2>2 DEF Routed
  <2> QED
    BY <1>0, <2>1, <2>2 DEF UnroutedIsRetired
<1>4. ASSUME NEW u \in Unmounter, NEW i \in Id, UnmountFinal(u, i)
      PROVE  UnroutedIsRetired'
  <2>1. /\ dbs[i] # NoDB /\ dbs' = [dbs EXCEPT ![i] = NoDB] /\ owned' = owned
        /\ epoch' = [epoch EXCEPT ![dbs[i]] = @ + 1]
    BY <1>4 DEF UnmountFinal
  <2>2. dbs[i] \in Instance /\ epoch[dbs[i]] = 0
    BY <1>0, <2>1 DEF RegInv, RetiredOnce
  <2>3. ASSUME NEW e \in Instance, Routed(e), e # dbs[i]
        PROVE  Routed(e)'
    BY <1>0, <2>1, <2>3 DEF Routed
  <2>4. epoch'[dbs[i]] = 1 /\ \A e \in Instance : e # dbs[i] => epoch'[e] = epoch[e]
    BY <1>0, <2>1, <2>2
  <2> QED
    BY <1>0, <2>1, <2>3, <2>4 DEF UnroutedIsRetired
<1>5. CASE UNCHANGED regVars
  BY <1>1, <1>5 DEF regVars
<1> QED
  BY <1>1, <1>2, <1>3, <1>4, <1>5, Zenon
     DEF RegistryNext, SweepSnapshots, StartDrain, Drained, CloseDB, ReturnClosed,
         ReturnCtxErr, Acquire, Release

LEMMA LifeStarts == RegistryInit => Life!LifeInit
<1> SUFFICES ASSUME RegistryInit PROVE Life!LifeInit
  OBVIOUS
<1>1. Status = [d \in Instance |-> IF d \in owned THEN "served" ELSE "away"]
  BY DEF RegistryInit, Status
<1>2. owned \in SUBSET Instance
  BY DEF RegistryInit
<1>3. Users = [d \in Instance |-> {}]
  BY DEF RegistryInit, Users
<1> QED
  BY <1>1, <1>2, <1>3 DEF Life!LifeInit

\* The status of one instance decides the whole of it where no other changes.
LEMMA StatusBut ==
  ASSUME NEW d \in Instance, NEW s, Status'[d] = s,
         \A e \in Instance : e # d => Status'[e] = Status[e]
  PROVE  Status' = [Status EXCEPT ![d] = s]
<1>1. /\ Status = [e \in Instance |-> Status[e]]
      /\ Status' = [e \in Instance |-> Status'[e]]
  BY DEF Status
<1> QED
  BY <1>1

LEMMA StatusSame ==
  ASSUME \A e \in Instance : Status'[e] = Status[e]
  PROVE  Status' = Status
BY DEF Status

LEMMA UsersSame == lease' = lease => Users' = Users
BY DEF Users

\* Mount serves an instance for the first time, or adds a route to one that is
\* served: an owned instance without a route has retired, and if a profile lets
\* it be offered again it is retiring.
LEMMA MountLives ==
  ASSUME RegInv, UnroutedIsRetired, NEW d \in Instance, Mount(d)
  PROVE  Life!Serve(d) \/ UNCHANGED <<Status, Users>>
<1>1. /\ dbs \in [Id -> Instance \cup {NoDB}] /\ IdOf[d] \in Id /\ NoDB \notin Instance
      /\ dbs[IdOf[d]] = NoDB /\ dbs' = [dbs EXCEPT ![IdOf[d]] = d]
      /\ owned' = owned \cup {d} /\ closed' = closed /\ lease' = lease
      /\ d \in owned => d \in Profiled /\ d \notin retiring
  BY RegistryAssumption DEF RegInv, RegistryTypeOK, Mount
<1>2. Routed(d)'
  BY <1>1 DEF Routed
<1>3. ASSUME NEW e \in Instance, e # d
      PROVE  Routed(e)' <=> Routed(e)
  BY <1>1, <1>3 DEF Routed
<1>4. \A e \in Instance : e # d => Status'[e] = Status[e]
  BY <1>1, <1>3 DEF Status, Routed
<1>5. Status'[d] = "served"
  BY <1>2 DEF Status, Routed
<1>6. d \in owned => Routed(d)
  <2> SUFFICES ASSUME d \in owned, ~ Routed(d) PROVE FALSE
    OBVIOUS
  <2>1. epoch[d] = 1
    BY DEF UnroutedIsRetired
  <2> QED
    BY <1>1, <2>1 DEF RegInv, RetiredOnce
<1>7. Users' = Users
  BY <1>1, UsersSame
<1>8. CASE Routed(d)
  <2>1. Status[d] = "served"
    BY <1>8, StatusIs
  <2> QED
    BY <1>4, <1>5, <1>7, <2>1, StatusSame
<1>9. CASE ~ Routed(d)
  <2>1. d \notin owned /\ d \notin closed
    <3>1. d \notin owned
      BY <1>6, <1>9
    <3>2. \A x \in drains : x.db # d
      BY <3>1 DEF RegInv, DrainsRetired, RetiredOnce, RegistryTypeOK, Drain
    <3> QED
      BY <3>1, <3>2 DEF RegInv, ClosedByDrain
  <2>2. Status[d] = "away"
    BY <1>9, <2>1, StatusIs
  <2>3. Status' = [Status EXCEPT ![d] = "served"]
    BY <1>4, <1>5, StatusBut
  <2> QED
    BY <1>7, <2>2, <2>3 DEF Life!Serve
<1> QED
  BY <1>8, <1>9

\* Removing an alias changes nothing for the users of the instance.
LEMMA UnmountAliasLives ==
  ASSUME RegInv, NEW u \in Unmounter, NEW i \in Id, UnmountAlias(u, i)
  PROVE  UNCHANGED <<Status, Users>>
<1>1. /\ dbs \in [Id -> Instance \cup {NoDB}] /\ NoDB \notin Instance
      /\ dbs' = [dbs EXCEPT ![i] = NoDB] /\ \E j \in Id \ {i} : dbs[j] = dbs[i]
      /\ owned' = owned /\ closed' = closed /\ lease' = lease
  BY RegistryAssumption DEF RegInv, RegistryTypeOK, UnmountAlias
<1>2. ASSUME NEW e \in Instance
      PROVE  Routed(e)' <=> Routed(e)
  BY <1>1, <1>2 DEF Routed
<1>3. \A e \in Instance : Status'[e] = Status[e]
  BY <1>1, <1>2 DEF Status, Routed
<1> QED
  BY <1>1, <1>3, StatusSame, UsersSame

\* Removing the last route retires the instance: one without a profile has no
\* other route.
LEMMA UnmountFinalLives ==
  ASSUME RegInv, NEW u \in Unmounter, NEW i \in Id, UnmountFinal(u, i)
  PROVE  dbs[i] \in Instance /\ Life!Retire(dbs[i])
<1>1. /\ dbs \in [Id -> Instance \cup {NoDB}] /\ NoDB \notin Instance
      /\ dbs[i] # NoDB /\ dbs' = [dbs EXCEPT ![i] = NoDB]
      /\ dbs[i] \in Profiled => ~ \E j \in Id \ {i} : dbs[j] = dbs[i]
      /\ owned' = owned /\ closed' = closed /\ lease' = lease
  BY RegistryAssumption DEF RegInv, RegistryTypeOK, UnmountFinal
<1>2. dbs[i] \in Instance /\ Routed(dbs[i])
  BY <1>1 DEF Routed
<1>3. \A j \in Id : j # i => dbs[j] # dbs[i]
  BY <1>1 DEF RegInv, RoutesOwned
<1> DEFINE d == dbs[i]
<1>4. ~ (\E j \in Id : dbs'[j] = d)
  BY <1>1, <1>2, <1>3
<1>5. d \in owned' /\ d \notin closed'
  BY <1>1, RoutedIsLiveHolds DEF RegInv, RoutesOwned, RoutedIsLive
<1>6. Status'[d] = "retired"
  BY <1>2, <1>4, <1>5 DEF Status
<1>7. ASSUME NEW e \in Instance, e # d
      PROVE  Status'[e] = Status[e]
  <2>1. (\E j \in Id : dbs'[j] = e) <=> (\E j \in Id : dbs[j] = e)
    BY <1>1, <1>7
  <2> QED
    BY <1>1, <2>1 DEF Status
<1>8. Status' = [Status EXCEPT ![d] = "retired"]
  BY <1>2, <1>6, <1>7, StatusBut
<1>9. Status[d] = "served"
  BY <1>2, StatusIs
<1> QED
  BY <1>1, <1>2, <1>8, <1>9, UsersSame DEF Life!Retire

\* The drain goroutine closes an instance that has retired, whose leases are
\* all given back, and that no other goroutine closed.
LEMMA CloseLives ==
  ASSUME RegInv, NEW x \in drains, CloseDB(x)
  PROVE  x.db \in Instance /\ Life!CloseForGood(x.db)
<1>1. /\ x.pc = "drained" /\ closed' = closed \cup {x.db}
      /\ dbs' = dbs /\ owned' = owned /\ lease' = lease
  BY DEF CloseDB
<1>2. x.db \in Instance /\ epoch[x.db] = 1
  BY DEF RegInv, RegistryTypeOK, Drain, DrainsRetired
<1>3. x.db \in owned /\ ~ Routed(x.db)
  BY <1>2 DEF RegInv, RetiredOnce, Routed
<1>4. x.db \notin closed
  BY <1>1 DEF RegInv, ClosedByDrain, Exclusive, OneDrainPerInstance
<1>5. Status[x.db] = "retired"
  BY <1>2, <1>3, <1>4, StatusIs
<1>6. Users[x.db] = {}
  BY <1>1, <1>2 DEF Users, RegInv, DrainedUnleased
<1>7. Status'[x.db] = "closed"
  BY <1>1, <1>2, <1>3 DEF Status, Routed
<1>8. \A e \in Instance : e # x.db => Status'[e] = Status[e]
  BY <1>1 DEF Status
<1>9. Status' = [Status EXCEPT ![x.db] = "closed"]
  BY <1>2, <1>7, <1>8, StatusBut
<1> QED
  BY <1>1, <1>2, <1>5, <1>6, <1>9, UsersSame DEF Life!CloseForGood

LEMMA AcquireLives ==
  ASSUME RegInv, NEW r \in Request, NEW i \in Id, Acquire(r, i)
  PROVE  dbs[i] \in Instance /\ Life!Use(r, dbs[i])
<1> DEFINE d == dbs[i]
<1>1. /\ d \in Instance /\ lease \in [Request -> SUBSET (Instance \X Nat)]
      /\ lease' = [lease EXCEPT ![r] = @ \cup {<<d, epoch[d]>>}]
      /\ dbs' = dbs /\ owned' = owned /\ closed' = closed
  BY DEF Acquire, RegInv, RegistryTypeOK
<1>2. Status[d] = "served"
  BY <1>1, StatusIs DEF Routed
<1>3. Status' = Status
  BY <1>1 DEF Status
<1>4. ASSUME NEW e \in Instance
      PROVE  Users'[e] = IF e = d THEN Users[e] \cup {r} ELSE Users[e]
  <2>1. ASSUME NEW q \in Request
        PROVE  (\E l \in lease'[q] : l[1] = e)
               <=> (\E l \in lease[q] : l[1] = e) \/ (q = r /\ e = d)
    <3>1. CASE q = r
      <4>1. lease'[q] = lease[q] \cup {<<d, epoch[d]>>}
        BY <1>1, <3>1
      <4>2. <<d, epoch[d]>>[1] = d
        OBVIOUS
      <4> HIDE DEF d
      <4> QED
        BY <3>1, <4>1, <4>2, Zenon
    <3>2. CASE q # r
      <4>1. lease'[q] = lease[q]
        BY <1>1, <3>2
      <4> QED
        BY <3>2, <4>1
    <3> QED
      BY <3>1, <3>2
  <2> QED
    BY <2>1 DEF Users
<1>5. Users' = [Users EXCEPT ![d] = @ \cup {r}]
  BY <1>1, <1>4 DEF Users
<1> QED
  BY <1>1, <1>2, <1>3, <1>5 DEF Life!Use

LEMMA ReleaseLives ==
  ASSUME RegInv, NEW r \in Request, Release(r)
  PROVE  Life!Leave(r)
<1>1. /\ lease \in [Request -> SUBSET (Instance \X Nat)]
      /\ lease' = [lease EXCEPT ![r] = {}]
      /\ dbs' = dbs /\ owned' = owned /\ closed' = closed
  BY DEF Release, RegInv, RegistryTypeOK
<1>2. Status' = Status
  BY <1>1 DEF Status
<1>3. ASSUME NEW q \in Request
      PROVE  lease'[q] = IF q = r THEN {} ELSE lease[q]
  BY <1>1
<1>4. Users' = [d \in Instance |-> Users[d] \ {r}]
  BY <1>3 DEF Users
<1> QED
  BY <1>2, <1>4 DEF Life!Leave

LEMMA RegistryLives ==
  ASSUME RegInv, UnroutedIsRetired, [RegistryNext]_(regVars)
  PROVE  [Life!LifeNext]_<<Status, Users>>
<1>1. ASSUME dbs' = dbs, owned' = owned, closed' = closed, lease' = lease
      PROVE  UNCHANGED <<Status, Users>>
  BY <1>1, UsersSame DEF Status
<1>2. CASE \E u \in Unmounter : \/ SweepSnapshots(u) \/ StartDrain(u)
                                \/ ReturnClosed(u) \/ ReturnCtxErr(u)
  BY <1>1, <1>2, Zenon DEF SweepSnapshots, StartDrain, ReturnClosed, ReturnCtxErr
<1>3. CASE (\E x \in drains : Drained(x)) \/ UNCHANGED regVars
  BY <1>1, <1>3, Zenon DEF Drained, regVars
<1>4. CASE \E d \in Instance : Mount(d)
  BY <1>4, MountLives, Zenon DEF Life!LifeNext
<1>5. CASE \E u \in Unmounter, i \in Id : UnmountAlias(u, i)
  BY <1>5, UnmountAliasLives, Zenon
<1>6. CASE \E u \in Unmounter, i \in Id : UnmountFinal(u, i)
  BY <1>6, UnmountFinalLives, Zenon DEF Life!LifeNext
<1>7. CASE \E x \in drains : CloseDB(x)
  BY <1>7, CloseLives, Zenon DEF Life!LifeNext
<1>8. CASE \E r \in Request, i \in Id : Acquire(r, i)
  BY <1>8, AcquireLives, Zenon DEF Life!LifeNext
<1>9. CASE \E r \in Request : Release(r)
  BY <1>9, ReleaseLives, Zenon DEF Life!LifeNext
<1> QED
  BY <1>2, <1>3, <1>4, <1>5, <1>6, <1>7, <1>8, <1>9, Zenon DEF RegistryNext

\* The registry implements DatabaseLife: with ids, aliases, profiles, leases
\* and drain goroutines of any number, an instance is served for one stretch of
\* time, used by requests that began in it, and closed once after the last.
THEOREM RegistryImplementsLife == RegistrySpec => ImplementsLife
<1>1. RegistrySpec => []UnroutedIsRetired
  BY UnroutedStarts, UnroutedKeeps, RegistryInvariant, PTL DEF RegistrySpec
<1>2. RegInv /\ UnroutedIsRetired /\ [RegistryNext]_(regVars)
      => [Life!LifeNext]_(Life!lifeVars)
  <2> SUFFICES ASSUME RegInv, UnroutedIsRetired, [RegistryNext]_(regVars)
               PROVE  [Life!LifeNext]_(Life!lifeVars)
    OBVIOUS
  <2>1. [Life!LifeNext]_<<Status, Users>>
    BY RegistryLives
  <2> QED
    BY <2>1 DEF Life!lifeVars
<1> QED
  BY <1>1, <1>2, LifeStarts, RegistryInvariant, PTL
     DEF RegistrySpec, ImplementsLife, Life!LifeSpec
-----------------------------------------------------------------------------
(* The snapshot spool. *)

INSTANCE FiniteSetTheorems

\* The instance of the spool counts as FiniteSets does.
LEMMA CardinalityIs ==
  /\ \A S : Cardinality(S) = Cardinality(S)
  /\ \A S : IsFiniteSet(S) = IsFiniteSet(S)
BY DEF Cardinality, Cardinality, IsFiniteSet, IsFiniteSet

\* The captures and snapshots that hold a slot.
Holders == {k \in Snap : pc[k] \in Holding}

\* A stopped server holds nothing.
DownHoldsNothing == ~ up => Holders = {}

WithFile == {"spooling", "spooled", "registered"}

\* Where a capture has a file, and whose file is still answered for.
FileOwners ==
  /\ \A k \in Snap : pc[k] \in WithFile => k \in files
  /\ \A k \in files \ orphans : pc[k] \in WithFile

SpoolInv ==
  /\ SpoolTypeOK
  /\ SlotAccounting
  /\ DownHoldsNothing
  /\ FileOwners
  /\ RegisteredHasTimer
-----------------------------------------------------------------------------
\* Finite sets: what the holders lose when some of them go.
LEMMA HoldersFinite ==
  /\ IsFiniteSet(Holders)
  /\ Cardinality(Holders) \in Nat
<1>1. Holders \in SUBSET Snap
  BY DEF Holders
<1> QED
  BY <1>1, SpoolAssumption, FS_Subset, FS_CardinalityType, CardinalityIs

\* A step that leaves the holders and the counter alone keeps the accounts.
LEMMA SameHolders ==
  ASSUME SpoolInv, Holders' = Holders, slots' = slots
  PROVE  SlotAccounting'
BY CardinalityIs DEF SpoolInv, SlotAccounting, Holders

\* Removing registered snapshots gives back one slot each.
LEMMA RemoveLockedAccounts ==
  ASSUME SpoolInv, NEW K \in SUBSET Registered, RemoveLocked(K)
  PROVE  /\ SlotAccounting'
         /\ slots' \in Nat
         /\ Holders' = Holders \ K
<1>1. K \subseteq Holders /\ K \subseteq Snap
  BY DEF Registered, Holders, Holding
<1>2. Holders' = Holders \ K
  BY <1>1 DEF RemoveLocked, Holders, Holding, Capturing
<1>3. Cardinality(Holders \ K) = Cardinality(Holders) - Cardinality(K)
  <2>1. Holders \cap K = K
    BY <1>1
  <2> QED
    BY <2>1, HoldersFinite, FS_Difference, ZenonT(60)
<1>4. Cardinality(K) \in Nat /\ Cardinality(K) <= Cardinality(Holders)
  BY <1>1, HoldersFinite, FS_Subset, FS_CardinalityType
<1>5. slots = Cardinality(Holders) /\ slots <= Slots /\ slots \in Nat
  BY CardinalityIs DEF SpoolInv, SpoolTypeOK, SlotAccounting, Holders
<1>6. slots' = slots - Cardinality(K)
  BY CardinalityIs DEF RemoveLocked
<1>7. slots' = Cardinality(Holders') /\ slots' <= Slots /\ slots' \in Nat
  BY <1>2, <1>3, <1>4, <1>5, <1>6, SpoolAssumption, CardinalityIs
<1> QED  BY <1>2, <1>7, CardinalityIs DEF SlotAccounting, Holders

\* Removing registered snapshots keeps every other capture's file.
LEMMA RemoveLockedFiles ==
  ASSUME SpoolInv, NEW K \in SUBSET Registered, RemoveLocked(K)
  PROVE  /\ FileOwners'
         /\ files' \subseteq Snap /\ orphans' \subseteq Snap
         /\ pc' \in [Snap -> Holding \cup {"unused", "gone"}]
         /\ Registered' = Registered \ K
<1>1. pc' = [k \in Snap |-> IF k \in K THEN "gone" ELSE pc[k]]
  BY DEF RemoveLocked
<1>2. PICK left \in SUBSET (K \cap files) :
        /\ files' = files \ (K \ left)
        /\ orphans' = orphans \cup left
  BY DEF RemoveLocked, RemoveFiles
<1>3. K \subseteq Snap
  BY DEF Registered
<1>4. FileOwners'
  BY <1>1, <1>2, <1>3 DEF SpoolInv, SpoolTypeOK, FileOwners, WithFile
<1>5. files' \subseteq Snap /\ orphans' \subseteq Snap
  BY <1>2 DEF SpoolInv, SpoolTypeOK
<1>6. pc' \in [Snap -> Holding \cup {"unused", "gone"}]
  BY <1>1 DEF SpoolInv, SpoolTypeOK
<1>7. Registered' = Registered \ K
  BY <1>1 DEF Registered
<1> QED  BY <1>4, <1>5, <1>6, <1>7

\* A capture that fails removes its own file only.
LEMMA OwnFileRemoved ==
  ASSUME SpoolInv, NEW k \in Snap, pc[k] \in {"spooling", "spooled"},
         pc' = [pc EXCEPT ![k] = "releasing"], RemoveFiles({k}),
         UNCHANGED <<up, slots, timer, lapsed, stale>>
  PROVE  SpoolInv'
<1>1. PICK left \in SUBSET ({k} \cap files) :
        /\ files' = files \ ({k} \ left)
        /\ orphans' = orphans \cup left
  BY DEF RemoveFiles
<1>2. Holders' = Holders
  BY DEF Holders, Holding, Capturing, SpoolInv, SpoolTypeOK
<1>3. SpoolTypeOK'
  BY <1>1 DEF SpoolInv, SpoolTypeOK, Holding, Capturing
<1>4. FileOwners'
  BY <1>1 DEF SpoolInv, SpoolTypeOK, FileOwners, WithFile, Holding, Capturing
<1>5. RegisteredHasTimer'
  BY DEF SpoolInv, SpoolTypeOK, RegisteredHasTimer, Registered
<1> QED  BY <1>2, <1>3, <1>4, <1>5, SameHolders DEF SpoolInv, DownHoldsNothing

\* The spool starts empty.
LEMMA SpoolStarts == SpoolInit => SpoolInv
<1> SUFFICES ASSUME SpoolInit PROVE SpoolInv
  OBVIOUS
<1>1. Holders = {}
  BY DEF SpoolInit, Holders, Holding, Capturing
<1>2. SpoolTypeOK
  BY DEF SpoolInit, SpoolTypeOK
<1>3. SlotAccounting
  BY <1>1, FS_EmptySet, SpoolAssumption, CardinalityIs DEF SpoolInit,
     SlotAccounting, Holders
<1>4. FileOwners /\ RegisteredHasTimer
  BY DEF SpoolInit, FileOwners, WithFile, RegisteredHasTimer, Registered
<1> QED  BY <1>1, <1>2, <1>3, <1>4 DEF SpoolInv, DownHoldsNothing

\* A reservation takes the slot it counts, below the limit.
LEMMA ReserveStep ==
  ASSUME SpoolInv, NEW k \in Snap, Reserve(k)
  PROVE  SpoolInv'
<1>1. Holders' = Holders \cup {k} /\ k \notin Holders
  BY DEF SpoolInv, SpoolTypeOK, Reserve, Holders, Holding, Capturing
<1>2. Cardinality(Holders') = Cardinality(Holders) + 1
  BY <1>1, HoldersFinite, FS_AddElement
<1>3. SlotAccounting'
  BY <1>2, SpoolAssumption, CardinalityIs DEF SpoolInv, SpoolTypeOK,
     Reserve, SlotAccounting, Holders
<1>4. SpoolTypeOK'
  BY DEF SpoolInv, SpoolTypeOK, Reserve, Holding, Capturing
<1>5. FileOwners' /\ RegisteredHasTimer' /\ DownHoldsNothing'
  BY DEF SpoolInv, SpoolTypeOK, Reserve, FileOwners, WithFile, RegisteredHasTimer,
     Registered, DownHoldsNothing, Holding, Capturing
<1> QED  BY <1>3, <1>4, <1>5 DEF SpoolInv

\* The deferred release of a capture that registered nothing.
LEMMA ReleaseSlotStep ==
  ASSUME SpoolInv, NEW k \in Snap, ReleaseSlot(k)
  PROVE  SpoolInv'
<1>1. Holders' = Holders \ {k} /\ k \in Holders
  BY DEF SpoolInv, SpoolTypeOK, ReleaseSlot, Holders, Holding, Capturing
<1>2. Cardinality(Holders') = Cardinality(Holders) - 1
  BY <1>1, HoldersFinite, FS_RemoveElement, Zenon
<1>3. Cardinality(Holders') \in Nat
  BY <1>1, HoldersFinite, FS_RemoveElement, FS_CardinalityType
<1>4. slots' = Cardinality(Holders') /\ slots' <= Slots
  BY <1>2, SpoolAssumption, CardinalityIs DEF SpoolInv, SpoolTypeOK,
     ReleaseSlot, SlotAccounting, Holders
<1>5. SpoolTypeOK'
  BY <1>3, <1>4 DEF SpoolInv, SpoolTypeOK, ReleaseSlot
<1>6. FileOwners'
  BY DEF SpoolInv, SpoolTypeOK, ReleaseSlot, FileOwners, WithFile, Holding,
     Capturing
<1>7. RegisteredHasTimer' /\ DownHoldsNothing'
  BY <1>1 DEF SpoolInv, SpoolTypeOK, ReleaseSlot, RegisteredHasTimer,
     Registered, DownHoldsNothing
<1> QED  BY <1>4, <1>5, <1>6, <1>7, CardinalityIs, Zenon DEF SpoolInv, SlotAccounting, Holders

\* A capture without a file gives up.
LEMMA AbandonStep ==
  ASSUME SpoolInv, NEW k \in Snap, Abandon(k)
  PROVE  SpoolInv'
<1>1. Holders' = Holders /\ slots' = slots
  BY DEF SpoolInv, SpoolTypeOK, Abandon, Holders, Holding, Capturing
<1>2. SpoolTypeOK'
  BY DEF SpoolInv, SpoolTypeOK, Abandon, Holding, Capturing
<1>3. FileOwners'
  BY DEF SpoolInv, SpoolTypeOK, Abandon, FileOwners, WithFile
<1>4. RegisteredHasTimer'
  BY DEF SpoolInv, SpoolTypeOK, Abandon, RegisteredHasTimer, Registered
<1>5. up' = up
  BY DEF Abandon
<1> QED  BY <1>1, <1>2, <1>3, <1>4, <1>5, SameHolders DEF SpoolInv, DownHoldsNothing

\* A capture gets its file.
LEMMA CreateFileStep ==
  ASSUME SpoolInv, NEW k \in Snap, CreateFile(k)
  PROVE  SpoolInv'
<1>1. Holders' = Holders /\ slots' = slots
  BY DEF SpoolInv, SpoolTypeOK, CreateFile, Holders, Holding, Capturing
<1>2. SpoolTypeOK'
  BY DEF SpoolInv, SpoolTypeOK, CreateFile, Holding, Capturing
<1>3. FileOwners'
  BY DEF SpoolInv, SpoolTypeOK, CreateFile, FileOwners, WithFile
<1>4. RegisteredHasTimer'
  BY DEF SpoolInv, SpoolTypeOK, CreateFile, RegisteredHasTimer, Registered
<1>5. up' = up
  BY DEF CreateFile
<1> QED  BY <1>1, <1>2, <1>3, <1>4, <1>5, SameHolders DEF SpoolInv, DownHoldsNothing

\* A capture completes its file.
LEMMA SpooledStep ==
  ASSUME SpoolInv, NEW k \in Snap, Spooled(k)
  PROVE  SpoolInv'
<1>1. Holders' = Holders /\ slots' = slots
  BY DEF SpoolInv, SpoolTypeOK, Spooled, Holders, Holding, Capturing
<1>2. SpoolTypeOK'
  BY DEF SpoolInv, SpoolTypeOK, Spooled, Holding, Capturing
<1>3. FileOwners'
  BY DEF SpoolInv, SpoolTypeOK, Spooled, FileOwners, WithFile
<1>4. RegisteredHasTimer'
  BY DEF SpoolInv, SpoolTypeOK, Spooled, RegisteredHasTimer, Registered
<1>5. up' = up
  BY DEF Spooled
<1> QED  BY <1>1, <1>2, <1>3, <1>4, <1>5, SameHolders DEF SpoolInv, DownHoldsNothing

\* A complete capture becomes a snapshot with an armed timer; the slot moves over.
LEMMA RegisterStep ==
  ASSUME SpoolInv, NEW k \in Snap, Register(k)
  PROVE  SpoolInv'
<1>1. Holders' = Holders /\ slots' = slots
  BY DEF SpoolInv, SpoolTypeOK, Register, Holders, Holding, Capturing
<1>2. SpoolTypeOK'
  BY DEF SpoolInv, SpoolTypeOK, Register, Holding, Capturing
<1>3. FileOwners'
  BY DEF SpoolInv, SpoolTypeOK, Register, FileOwners, WithFile
<1>4. RegisteredHasTimer'
  BY DEF SpoolInv, SpoolTypeOK, Register, RegisteredHasTimer, Registered
<1>5. up' = up
  BY DEF Register
<1> QED  BY <1>1, <1>2, <1>3, <1>4, <1>5, SameHolders DEF SpoolInv, DownHoldsNothing

\* The clock passes a snapshot's expiry.
LEMMA LapseStep ==
  ASSUME SpoolInv, NEW k \in Snap, Lapse(k)
  PROVE  SpoolInv'
<1>1. Holders' = Holders /\ slots' = slots
  BY DEF SpoolInv, SpoolTypeOK, Lapse, Holders, Holding, Capturing
<1>2. SpoolTypeOK'
  BY DEF SpoolInv, SpoolTypeOK, Lapse, Holding, Capturing
<1>3. FileOwners'
  BY DEF SpoolInv, SpoolTypeOK, Lapse, FileOwners, WithFile
<1>4. RegisteredHasTimer'
  BY DEF SpoolInv, SpoolTypeOK, Lapse, RegisteredHasTimer, Registered
<1>5. up' = up
  BY DEF Lapse
<1> QED  BY <1>1, <1>2, <1>3, <1>4, <1>5, SameHolders DEF SpoolInv, DownHoldsNothing

\* A timer starts its function; the snapshot still has it.
LEMMA TimerFiresStep ==
  ASSUME SpoolInv, NEW k \in Snap, TimerFires(k)
  PROVE  SpoolInv'
<1>1. Holders' = Holders /\ slots' = slots
  BY DEF SpoolInv, SpoolTypeOK, TimerFires, Holders, Holding, Capturing
<1>2. SpoolTypeOK'
  BY DEF SpoolInv, SpoolTypeOK, TimerFires, Holding, Capturing
<1>3. FileOwners'
  BY DEF SpoolInv, SpoolTypeOK, TimerFires, FileOwners, WithFile
<1>4. RegisteredHasTimer'
  BY DEF SpoolInv, SpoolTypeOK, TimerFires, RegisteredHasTimer, Registered
<1>5. up' = up
  BY DEF TimerFires
<1> QED  BY <1>1, <1>2, <1>3, <1>4, <1>5, SameHolders DEF SpoolInv, DownHoldsNothing

\* A file without a live owner grows stale.
LEMMA AgeStep ==
  ASSUME SpoolInv, NEW k \in Snap, Age(k)
  PROVE  SpoolInv'
<1>1. Holders' = Holders /\ slots' = slots
  BY DEF SpoolInv, SpoolTypeOK, Age, Holders, Holding, Capturing
<1>2. SpoolTypeOK'
  BY DEF SpoolInv, SpoolTypeOK, Age, Holding, Capturing
<1>3. FileOwners'
  BY DEF SpoolInv, SpoolTypeOK, Age, FileOwners, WithFile
<1>4. RegisteredHasTimer'
  BY DEF SpoolInv, SpoolTypeOK, Age, RegisteredHasTimer, Registered
<1>5. up' = up
  BY DEF Age
<1> QED  BY <1>1, <1>2, <1>3, <1>4, <1>5, SameHolders DEF SpoolInv, DownHoldsNothing

\* removeSnapshotLocked and the timers it stops, from any caller.
LEMMA RemovalStep ==
  ASSUME SpoolInv, NEW K \in SUBSET Registered, RemoveLocked(K),
         timer' \in [Snap -> {"off", "armed", "firing"}],
         \A k \in Snap \ K : timer'[k] = timer[k],
         UNCHANGED <<up, lapsed, stale>>
  PROVE  SpoolInv'
<1>1. SpoolTypeOK'
  BY RemoveLockedAccounts, RemoveLockedFiles, Zenon DEF SpoolInv, SpoolTypeOK
<1>2. RegisteredHasTimer'
  BY RemoveLockedFiles DEF SpoolInv, RegisteredHasTimer, Registered
<1>3. DownHoldsNothing'
  BY RemoveLockedAccounts DEF SpoolInv, DownHoldsNothing
<1> QED  BY <1>1, <1>2, <1>3, RemoveLockedAccounts, RemoveLockedFiles DEF SpoolInv

\* StopTimers touches the timers of the removed snapshots only.
LEMMA StopTimersType ==
  ASSUME SpoolInv, NEW K \in SUBSET Snap, StopTimers(K)
  PROVE  /\ timer' \in [Snap -> {"off", "armed", "firing"}]
         /\ \A k \in Snap \ K : timer'[k] = timer[k]
BY DEF SpoolInv, SpoolTypeOK, StopTimers

\* The removals on behalf of a client, of an unmount and of the timer.
LEMMA RemoverSteps ==
  ASSUME SpoolInv,
         \/ \E k \in Snap : CloseSnapshot(k)
         \/ \E k \in Snap : ServeLapsed(k)
         \/ \E k \in Snap : ServeDamaged(k)
         \/ \E K \in SUBSET Registered : ExpireSnapshots(K)
  PROVE  SpoolInv'
<1>1. PICK K \in SUBSET Registered :
        RemoveLocked(K) /\ StopTimers(K) /\ UNCHANGED <<up, lapsed, stale>>
  BY Zenon DEF CloseSnapshot, ServeLapsed, ServeDamaged, ExpireSnapshots,
     Registered
<1>2. K \subseteq Snap
  BY DEF Registered
<1> QED  BY <1>1, <1>2, StopTimersType, RemovalStep

\* expireSnapshot removes the snapshot it was armed for, or nothing.
LEMMA ExpireSnapshotStep ==
  ASSUME SpoolInv, NEW k \in Snap, ExpireSnapshot(k)
  PROVE  SpoolInv'
<1>1. /\ timer' \in [Snap -> {"off", "armed", "firing"}]
      /\ \A j \in Snap \ {k} : timer'[j] = timer[j]
  BY DEF SpoolInv, SpoolTypeOK, ExpireSnapshot
<1>2. CASE pc[k] = "registered"
  BY <1>1, <1>2, RemovalStep DEF ExpireSnapshot, Registered
<1>3. CASE pc[k] # "registered"
  <2>1. UNCHANGED <<pc, slots, files, orphans, up, lapsed, stale>>
    BY <1>3 DEF ExpireSnapshot
  <2>2. Holders' = Holders
    BY <2>1 DEF Holders
  <2>3. RegisteredHasTimer'
    BY <1>1, <1>3, <2>1 DEF SpoolInv, RegisteredHasTimer, Registered
  <2>4. SpoolTypeOK' /\ FileOwners'
    BY <1>1, <2>1 DEF SpoolInv, SpoolTypeOK, FileOwners
  <2> QED  BY <2>1, <2>2, <2>3, <2>4, SameHolders DEF SpoolInv, DownHoldsNothing
<1> QED  BY <1>2, <1>3

\* A drained server removes all its snapshots and ends.
LEMMA CloseSnapshotsStep ==
  ASSUME SpoolInv, CloseSnapshots
  PROVE  SpoolInv'
<1>1. RemoveLocked(Registered)
  BY DEF CloseSnapshots
<1>2. Holders = Registered
  BY DEF CloseSnapshots, Holders, Registered, Holding, SpoolInv, SpoolTypeOK
<1>3. Holders' = {} /\ Registered' = {}
  BY <1>1, <1>2, RemoveLockedAccounts, RemoveLockedFiles
<1>4. SpoolTypeOK'
  BY <1>1, RemoveLockedAccounts, RemoveLockedFiles, Zenon DEF SpoolInv, SpoolTypeOK,
     CloseSnapshots
<1>5. RegisteredHasTimer' /\ DownHoldsNothing'
  BY <1>3 DEF RegisteredHasTimer, DownHoldsNothing
<1> QED  BY <1>1, <1>4, <1>5, RemoveLockedAccounts, RemoveLockedFiles DEF SpoolInv

\* A crash frees every slot and orphans every file.
LEMMA CrashStep ==
  ASSUME SpoolInv, Crash
  PROVE  SpoolInv'
<1>1. Holders' = {} /\ Registered' = {}
  BY Zenon DEF SpoolInv, SpoolTypeOK, Crash, Holders, Registered, Holding,
     Capturing
<1>2. SlotAccounting'
  BY <1>1, FS_EmptySet, SpoolAssumption, CardinalityIs DEF Crash,
     SlotAccounting, Holders
<1>3. SpoolTypeOK'
  BY Zenon DEF SpoolInv, SpoolTypeOK, Crash
<1>4. FileOwners'
  BY Zenon DEF SpoolInv, SpoolTypeOK, Crash, FileOwners, WithFile, Holding, Capturing
<1>5. RegisteredHasTimer' /\ DownHoldsNothing'
  BY <1>1 DEF RegisteredHasTimer, DownHoldsNothing
<1> QED  BY <1>2, <1>3, <1>4, <1>5 DEF SpoolInv

\* A new server sweeps stale files; nothing is held yet.
LEMMA RestartStep ==
  ASSUME SpoolInv, Restart
  PROVE  SpoolInv'
<1>1. PICK left \in SUBSET (stale \cap files) :
        /\ files' = files \ (stale \ left)
        /\ orphans' = orphans \ (stale \ left)
  BY DEF Restart
<1>2. Holders = {} /\ Holders' = Holders /\ slots' = slots /\ pc' = pc
  BY DEF Restart, SpoolInv, DownHoldsNothing, Holders
<1>3. \A k \in Snap : pc[k] \notin WithFile
  BY <1>2 DEF Holders, Holding, Capturing, WithFile
<1>4. FileOwners'
  BY <1>1, <1>2, <1>3 DEF SpoolInv, SpoolTypeOK, FileOwners
<1>5. SpoolTypeOK' /\ DownHoldsNothing'
  BY <1>1 DEF SpoolInv, SpoolTypeOK, Restart, DownHoldsNothing
<1>6. RegisteredHasTimer'
  BY Zenon DEF SpoolInv, Restart, RegisteredHasTimer, Registered
<1> QED  BY <1>2, <1>4, <1>5, <1>6, SameHolders DEF SpoolInv

\* Every step of the spool keeps the invariant.
LEMMA SpoolKeeps == SpoolInv /\ [SpoolNext]_(spoolVars) => SpoolInv'
<1> SUFFICES ASSUME SpoolInv, [SpoolNext]_(spoolVars) PROVE SpoolInv'
  OBVIOUS
<1>1. CASE UNCHANGED spoolVars
  BY <1>1, CardinalityIs, Zenon DEF spoolVars, SpoolInv, SpoolTypeOK, SlotAccounting,
     DownHoldsNothing, Holders, FileOwners, RegisteredHasTimer, Registered
<1>2. ASSUME NEW k \in Snap, SpoolFails(k) \/ Drop(k) PROVE SpoolInv'
  BY <1>2, OwnFileRemoved DEF SpoolFails, Drop
<1>3. ASSUME NEW k \in Snap, CaptureStep(k) PROVE SpoolInv'
  BY <1>2, <1>3, AbandonStep, CreateFileStep, SpooledStep, ReleaseSlotStep, RegisterStep DEF
     CaptureStep
<1>4. CASE SpoolNext
  BY <1>3, <1>4, ReserveStep, LapseStep, TimerFiresStep, ExpireSnapshotStep, RemoverSteps,
     CloseSnapshotsStep, CrashStep, RestartStep, AgeStep, Zenon DEF SpoolNext
<1> QED  BY <1>1, <1>4

\* Every reachable state of the spool satisfies the inductive invariant.
THEOREM SpoolInvariant == SpoolSpec => []SpoolInv
BY SpoolStarts, SpoolKeeps, PTL DEF SpoolSpec

\* The variables keep their types.
THEOREM SpoolTyped == SpoolSpec => []SpoolTypeOK
<1>1. SpoolInv => SpoolTypeOK
  BY DEF SpoolInv
<1> QED  BY <1>1, SpoolInvariant, PTL

\* The slot counter is the number of captures and registered snapshots and
\* stays within the limit, for any number of slots and any order of removals.
THEOREM SlotsAccounted == SpoolSpec => []SlotAccounting
<1>1. SpoolInv => SlotAccounting
  BY DEF SpoolInv
<1> QED  BY <1>1, SpoolInvariant, PTL

\* A snapshot that can be asked for a page has its file, and a timer that will
\* remove it.
THEOREM RegisteredComplete == SpoolSpec => [](RegisteredHasFile /\ RegisteredHasTimer)
<1>1. SpoolInv => RegisteredHasFile /\ RegisteredHasTimer
  BY DEF SpoolInv, FileOwners, WithFile, RegisteredHasFile, Registered
<1> QED  BY <1>1, SpoolInvariant, PTL

\* The files of the running server stay within the slot limit.
THEOREM OwnDiskBounded == SpoolSpec => []OwnFilesBounded
<1>1. SpoolInv => OwnFilesBounded
  <2> SUFFICES ASSUME SpoolInv PROVE OwnFilesBounded
    OBVIOUS
  <2>1. (files \ orphans) \in SUBSET Holders
    BY DEF SpoolInv, SpoolTypeOK, FileOwners, WithFile, Holders, Holding
  <2>2. Cardinality(files \ orphans) <= Cardinality(Holders)
    BY <2>1, HoldersFinite, FS_Subset
  <2>3. Cardinality(files \ orphans) \in Nat
    BY <2>1, HoldersFinite, FS_Subset, FS_CardinalityType
  <2> QED
    BY <2>2, <2>3, HoldersFinite, SpoolAssumption, CardinalityIs DEF SpoolInv,
       SlotAccounting, Holders, OwnFilesBounded
<1> QED  BY <1>1, SpoolInvariant, PTL
-----------------------------------------------------------------------------
(* The composition. *)

\* What runs in a handler, a sweep or a timer leaves the registry alone or is a
\* step of it.
LEMMA StepOfRegistry ==
  ASSUME [Next]_vars
  PROVE  [RegistryNext]_(regVars)
<1>1. CASE \E u \in Unmounter : UnmountSweeps(u)
  BY <1>1, Zenon DEF UnmountSweeps, RegistryNext
<1>2. CASE \E r \in Request : HandlerReturns(r)
  BY <1>2, Zenon DEF HandlerReturns, RegistryNext
<1>3. CASE RegistryStep
  BY <1>3, Zenon DEF RegistryStep, RegistryNext
<1>4. CASE UNCHANGED regVars
  BY <1>4, Zenon DEF regVars, regVars
<1>5. CASE \/ \E r \in Request, d \in Instance, k \in Snap : StartCapture(r, d, k)
           \/ \E k \in Snap : CaptureProceeds(k) \/ Publish(k) \/ Expiry(k)
           \/ \E r \in Request, k \in Snap : ClientRemoves(r, k)
  BY <1>4, <1>5, Zenon DEF StartCapture, CaptureProceeds, Publish, Expiry, ClientRemoves
<1>6. CASE UNCHANGED vars
  BY <1>4, <1>6, Zenon DEF vars
<1> QED
  BY <1>1, <1>2, <1>3, <1>5, <1>6, Zenon DEF Next

\* Paged queries use the registry only as its specification allows, whatever the captures, pages,
\* timers and sweeps do: the composition implements MountRegistry.
LEMMA PagedUsesRegistry == Spec => RegistrySpec
<1>1. Init => RegistryInit
  BY DEF Init
<1> QED
  BY <1>1, StepOfRegistry, PTL DEF Spec, RegistrySpec

\* What a registry does to its databases leaves the spool alone, but for the
\* sweep, which removes registered snapshots.
LEMMA StepOfSpool ==
  ASSUME [Next]_vars
  PROVE  [SpoolNext]_(spoolVars)
<1>1. CASE \E r \in Request, d \in Instance, k \in Snap : StartCapture(r, d, k)
  BY <1>1, Zenon DEF StartCapture, SpoolNext
<1>2. CASE \E k \in Snap : CaptureProceeds(k) \/ Publish(k) \/ Expiry(k)
  BY <1>2, Zenon DEF CaptureProceeds, Publish, Expiry, SpoolNext, CaptureStep
<1>3. CASE \E r \in Request, k \in Snap : ClientRemoves(r, k)
  BY <1>3, Zenon DEF ClientRemoves, SpoolNext
<1>4. CASE \E u \in Unmounter : UnmountSweeps(u)
  <2>1. PICK u \in Unmounter :
          ExpireSnapshots({k \in Registered : owner[k].db = call[u].db})
    BY <1>4, Zenon DEF UnmountSweeps
  <2>2. {k \in Registered : owner[k].db = call[u].db} \in SUBSET Registered
    OBVIOUS
  <2> QED
    BY <2>1, <2>2, Zenon DEF SpoolNext
<1>5. CASE (\E r \in Request : HandlerReturns(r)) \/ RegistryStep \/ UNCHANGED vars
  BY <1>5, Zenon DEF HandlerReturns, RegistryStep, vars, spoolVars, spoolVars
<1> QED
  BY <1>1, <1>2, <1>3, <1>4, <1>5, Zenon DEF Next

\* The composition implements SnapshotSpool: requests, leases and unmounts drive the spool only
\* through the steps that its specification has.
THEOREM PagedUsesSpool == Spec => SpoolSpec
<1>1. Init => SpoolInit
  BY DEF Init
<1> QED
  BY <1>1, StepOfSpool, PTL DEF Spec, SpoolSpec

OwnerTyped == owner \in [Snap -> [db : Instance \cup {NoDB}, req : Request \cup {NoRequest}]]

\* The invariant of the composition, beside those of its two parts.
PagedInv == OwnerTyped /\ SweptForGood

LEMMA PagedInit == Init => PagedInv
<1> SUFFICES ASSUME Init PROVE PagedInv
  OBVIOUS
<1>1. OwnerTyped
  BY DEF Init, OwnerTyped
<1>2. Registered = {}
  BY DEF Init, SpoolInit, Registered
<1> QED
  BY <1>1, <1>2 DEF PagedInv, SweptForGood

\* No step of a handler but Publish, and none of the clock, registers a snapshot.
LEMMA RegistersNone ==
  ASSUME SpoolInv, NEW k \in Snap,
         CaptureProceeds(k) \/ Expiry(k) \/ (\E r \in Request : ClientRemoves(r, k))
           \/ (\E r \in Request, d \in Instance : StartCapture(r, d, k))
  PROVE  Registered' \subseteq Registered
<1>1. pc \in [Snap -> Holding \cup {"unused", "gone"}]
  BY DEF SpoolInv, SpoolTypeOK
<1>2. ASSUME NEW s, s # "registered", pc' = [pc EXCEPT ![k] = s]
      PROVE  Registered' \subseteq Registered
  BY <1>1, <1>2 DEF Registered
<1>3. ASSUME NEW K, RemoveLocked(K)
      PROVE  Registered' \subseteq Registered
  BY <1>3 DEF RemoveLocked, Registered
<1>4. ASSUME pc' = pc
      PROVE  Registered' \subseteq Registered
  BY <1>4 DEF Registered
<1>5. CASE CaptureProceeds(k)
  BY <1>2, <1>5, Zenon
     DEF CaptureProceeds, Abandon, CreateFile, SpoolFails, Spooled,
         Drop, ReleaseSlot
<1>6. CASE Expiry(k)
  BY <1>3, <1>4, <1>6, Zenon DEF Expiry, Lapse, TimerFires, ExpireSnapshot
<1>7. CASE \E r \in Request : ClientRemoves(r, k)
  BY <1>3, <1>7, Zenon
     DEF ClientRemoves, CloseSnapshot, ServeDamaged, ServeLapsed
<1>8. CASE \E r \in Request, d \in Instance : StartCapture(r, d, k)
  BY <1>2, <1>8, Zenon DEF StartCapture, Reserve
<1> QED
  BY <1>5, <1>6, <1>7, <1>8

\* With the registry at rest, the snapshots that were swept stay away as long as none is added.
LEMMA SweptStays ==
  ASSUME SweptForGood, UNCHANGED <<drains, call>>,
         Registered' \subseteq Registered,
         \A k \in Registered' : owner'[k] = owner[k]
  PROVE  SweptForGood'
BY Zenon DEF SweptForGood

LEMMA StartCaptureStep ==
  ASSUME SpoolInv, PagedInv, NEW r \in Request, NEW d \in Instance, NEW k \in Snap,
         StartCapture(r, d, k)
  PROVE  PagedInv'
<1>1. owner' = [owner EXCEPT ![k] = [db |-> d, req |-> r]] /\ UNCHANGED <<drains, call>>
  BY Zenon DEF StartCapture, regVars
<1>2. OwnerTyped'
  BY <1>1 DEF PagedInv, OwnerTyped
<1>3. k \notin Registered'
  BY Zenon DEF StartCapture, Reserve, SpoolInv, SpoolTypeOK, Registered
<1>4. \A q \in Registered' : owner'[q] = owner[q]
  BY <1>1, <1>3, Zenon DEF PagedInv, OwnerTyped, Registered
<1>5. Registered' \subseteq Registered
  BY RegistersNone
<1> QED
  BY <1>1, <1>2, <1>4, <1>5, SweptStays, Zenon DEF PagedInv

\* Publish finds its database routed: nobody drains it, and no call has unrouted it.
LEMMA PublishStep ==
  ASSUME RegInv, SpoolInv, PagedInv, NEW k \in Snap, Publish(k)
  PROVE  PagedInv'
<1>1. /\ dbs[IdOf[owner[k].db]] = owner[k].db /\ UNCHANGED <<owner, drains, call>>
      /\ pc' = [pc EXCEPT ![k] = "registered"]
  BY Zenon DEF Publish, regVars, Register
<1>2. OwnerTyped'
  BY <1>1, Zenon DEF PagedInv, OwnerTyped
<1>3. Registered' \subseteq Registered \cup {k}
  BY <1>1, Zenon DEF Registered, SpoolInv, SpoolTypeOK
<1>4. /\ \A x \in drains : x.db # owner[k].db
      /\ \A u \in Unmounter : call[u].pc \in {"swept", "waiting"} => call[u].db # owner[k].db
  <2>1. CASE owner[k].db \in Instance
    <3>1. IdOf[owner[k].db] \in Id /\ owner[k].db # NoDB
      BY <2>1, RegistryAssumption
    <3>2. RoutedIsLive
      BY RoutedIsLiveHolds
    <3> QED
      BY <1>1, <3>1, <3>2, Zenon DEF RoutedIsLive, Calling
  <2>2. CASE owner[k].db = NoDB
    <3>1. \A x \in drains : x.db \in Instance
      BY DEF RegInv, RegistryTypeOK, Drain
    <3>2. \A u \in Unmounter : call[u].pc \in {"swept", "waiting"} => call[u].db \in Instance
      BY Zenon DEF RegInv, CallsRetired, Calling
    <3> QED
      BY <2>2, <3>1, <3>2, RegistryAssumption, Zenon
  <2> QED
    BY <2>1, <2>2, Zenon DEF PagedInv, OwnerTyped
<1>5. SweptForGood'
  BY <1>1, <1>3, <1>4, Zenon DEF PagedInv, SweptForGood
<1> QED
  BY <1>2, <1>5 DEF PagedInv

\* The sweep takes the snapshots of the database of its call.
LEMMA SweepStep ==
  ASSUME RegInv, SpoolInv, PagedInv, NEW u \in Unmounter, UnmountSweeps(u)
  PROVE  PagedInv'
<1>1. /\ UNCHANGED <<owner, drains>> /\ call' = [call EXCEPT ![u].pc = "swept"]
      /\ RemoveLocked({k \in Registered : owner[k].db = call[u].db})
  BY DEF UnmountSweeps, SweepSnapshots, ExpireSnapshots
<1>2. OwnerTyped'
  BY <1>1 DEF PagedInv, OwnerTyped
<1>3. Registered' = {k \in Registered : owner[k].db # call[u].db}
  BY <1>1, Zenon DEF RemoveLocked, Registered
<1>4. \A v \in Unmounter : call'[v].db = call[v].db /\ (v # u => call'[v] = call[v])
  BY <1>1, Zenon DEF RegInv, RegistryTypeOK, Call
<1>5. SweptForGood'
  BY <1>1, <1>3, <1>4 DEF PagedInv, SweptForGood
<1> QED
  BY <1>2, <1>5 DEF PagedInv

\* The registry starts a drain only after the sweep of its call.
LEMMA RegistryMoves ==
  ASSUME RegInv, PagedInv, RegistryStep \/ \E r \in Request : HandlerReturns(r)
  PROVE  PagedInv'
<1>1. UNCHANGED <<owner, pc>>
  BY DEF RegistryStep, HandlerReturns, spoolVars
<1>2. OwnerTyped' /\ Registered' = Registered
  BY <1>1 DEF PagedInv, OwnerTyped, Registered
<1>3. SUFFICES /\ \A x \in drains' :
                    \/ \E y \in drains : x.db = y.db
                    \/ \E u \in Unmounter : call[u].pc = "swept" /\ call[u].db = x.db
               /\ \A u \in Unmounter : call'[u].pc \in {"swept", "waiting"} =>
                    call'[u].db = call[u].db /\ call[u].pc \in {"swept", "waiting"}
  BY <1>1, <1>2, SMTT(10), SMTT(30) DEF PagedInv, SweptForGood
<1>4. CASE \/ \E d \in Instance : Mount(d)
           \/ \E r \in Request, i \in Id : Acquire(r, i)
           \/ \E r \in Request : HandlerReturns(r)
  <2>1. UNCHANGED <<drains, call>>
    BY <1>4, Zenon DEF Mount, Acquire, HandlerReturns, Release
  <2> QED
    BY <2>1, Zenon
<1>5. CASE \E u \in Unmounter, i \in Id : UnmountAlias(u, i) \/ UnmountFinal(u, i)
  <2>1. PICK u \in Unmounter, i \in Id : UnmountAlias(u, i) \/ UnmountFinal(u, i)
    BY <1>5
  <2>2. /\ call'[u].pc \in {"removed", "aliasRemoved"} /\ UNCHANGED drains
        /\ \A v \in Unmounter \ {u} : call'[v] = call[v]
    <3>1. PICK c : /\ c.pc \in {"removed", "aliasRemoved"} /\ UNCHANGED drains
                   /\ call' = [call EXCEPT ![u] = c]
      BY <2>1, Zenon DEF UnmountAlias, UnmountFinal
    <3>2. call \in [Unmounter -> Call]
      BY Zenon DEF RegInv, RegistryTypeOK
    <3> QED
      BY <3>1, <3>2, Zenon
  <2> QED
    BY <2>1, <2>2, Zenon
<1>6. CASE \E u \in Unmounter : StartDrain(u)
  <2>1. PICK u \in Unmounter : StartDrain(u)
    BY <1>6
  <2>2. /\ call[u].pc = "swept" /\ call' = [call EXCEPT ![u].pc = "waiting"]
        /\ drains' = drains \cup {[db |-> call[u].db, wg |-> call[u].wg, pc |-> "waiting"]}
    BY <2>1 DEF StartDrain
  <2>3. \A v \in Unmounter : call'[v].db = call[v].db /\ (v # u => call'[v] = call[v])
    BY <2>2, Zenon DEF RegInv, RegistryTypeOK, Call
  <2>4. \A x \in drains' : x \in drains \/ x.db = call[u].db
    BY <2>2
  <2> QED
    BY <2>2, <2>3, <2>4, Zenon
<1>7. CASE \E x \in drains : Drained(x) \/ CloseDB(x)
  <2>1. PICK x \in drains, s \in {"drained", "closed"} :
          drains' = (drains \ {x}) \cup {[x EXCEPT !.pc = s]} /\ UNCHANGED call
    BY <1>7 DEF Drained, CloseDB
  <2>2. [x EXCEPT !.pc = s].db = x.db
    BY DEF RegInv, RegistryTypeOK, Drain
  <2> QED
    BY <2>1, <2>2, Zenon
<1>8. CASE \E u \in Unmounter : ReturnClosed(u) \/ ReturnCtxErr(u)
  <2>1. PICK u \in Unmounter, s \in {"closedOK", "ctxErr"} :
          call' = [call EXCEPT ![u].pc = s] /\ UNCHANGED drains
    BY <1>8, Zenon DEF ReturnClosed, ReturnCtxErr
  <2>2. \A v \in Unmounter : /\ v # u => call'[v] = call[v]
                             /\ v = u => call'[v].pc = s
    BY <2>1 DEF RegInv, RegistryTypeOK, Call
  <2> QED
    BY <2>1, <2>2
<1> QED
  BY <1>4, <1>5, <1>6, <1>7, <1>8, Zenon DEF RegistryStep

LEMMA PagedStep ==
  ASSUME RegInv, SpoolInv, PagedInv, [Next]_vars
  PROVE  PagedInv'
<1>1. CASE \E k \in Snap : CaptureProceeds(k) \/ Expiry(k) \/ \E r \in Request : ClientRemoves(r, k)
  <2>1. PICK k \in Snap : CaptureProceeds(k) \/ Expiry(k) \/ \E r \in Request : ClientRemoves(r, k)
    BY <1>1
  <2>2. UNCHANGED <<owner, drains, call>>
    BY <2>1, Zenon DEF CaptureProceeds, Expiry, ClientRemoves, regVars
  <2>3. Registered' \subseteq Registered
    BY <2>1, RegistersNone, Zenon
  <2> QED
    BY <2>2, <2>3, SweptStays DEF PagedInv, OwnerTyped
<1>2. CASE UNCHANGED vars
  BY <1>2, Zenon DEF vars, regVars, spoolVars, PagedInv, OwnerTyped, SweptForGood, Registered
<1> QED
  BY <1>1, <1>2, StartCaptureStep, PublishStep, SweepStep, RegistryMoves, Zenon DEF Next

\* Once an unmount has swept the snapshots of its database, no capture under way registers
\* another: Publish looks under the lock whether the database is still routed, and a routed
\* database has no call past its removal and no drain.
THEOREM SweptStaysSwept == Spec => []SweptForGood
<1>1. Spec => []RegInv
  BY PagedUsesRegistry, RegistryInvariant, PTL
<1>2. Spec => []SpoolInv
  BY PagedUsesSpool, SpoolInvariant, PTL
<1>3. Spec => []PagedInv
  BY <1>1, <1>2, PagedInit, PagedStep, PTL DEF Spec
<1>4. PagedInv => SweptForGood
  BY DEF PagedInv
<1> QED
  BY <1>3, <1>4, PTL

\* The theorems of the two parts hold of the composition: no handler of a paged query runs on
\* a closed database, and captures and snapshots stay within the slots.
THEOREM PagedIsSafe == Spec => [](NoUseAfterClose /\ SlotAccounting)
BY PagedUsesRegistry, LeasedNeverClosed, PagedUsesSpool, SlotsAccounted, PTL
-----------------------------------------------------------------------------
(* The pages of one result. *)

INSTANCE SequenceTheorems

PagesTypes ==
  /\ pageSize \in PageSizes /\ reserved \in Metadata
  /\ ends \in Seq(Nat) /\ got \in Seq(Nat \X Nat) /\ rows \in Seq(Nat \X Nat)
  /\ token \in Nat /\ offset \in Nat /\ pageBytes \in Nat

\* Rows end one after the other, and each was admitted.
Ascending == \A j, k \in 0 .. Len(ends) : j < k => End(j) < End(k)

Admitted == \A k \in 1 .. Len(ends) : End(k) - End(k - 1) - 1 <= RowBudget

\* What the client has and what the page adds are the first rows.
Received ==
  /\ Len(got) <= Len(ends)
  /\ token = End(Len(got))
  /\ \A k \in 1 .. Len(got) : got[k] = <<k, 0>>

Collected ==
  phase = "paging" =>
    /\ Len(got) + Len(rows) <= Len(ends)
    /\ offset = End(Len(got) + Len(rows))
    /\ \A k \in 1 .. Len(rows) : rows[k] = <<Len(got) + k, 0>>

\* What has been read for a page is what it is charged, on top of what it
\* started with, and the charge stays within the limit.
PageCharged ==
  phase = "paging" =>
    /\ pageBytes = PageStart + (offset - token)
    /\ pageBytes <= MaxPageBytes

PagesInv ==
  /\ PagesTypes
  /\ Ascending /\ Admitted
  /\ Received /\ Collected
  /\ PageCharged
  /\ phase = "finished" => Len(got) = Len(ends)
  /\ FailsOnlyAtBudget

LEMMA Appended ==
  ASSUME NEW S, NEW s \in Seq(S), NEW e \in S, NEW t, t = Append(s, e)
  PROVE  /\ t \in Seq(S) /\ Len(t) = Len(s) + 1
         /\ \A k \in 1 .. Len(s) : t[k] = s[k]
         /\ t[Len(s) + 1] = e
  BY AppendProperties

LEMMA Lengths ==
  ASSUME PagesTypes
  PROVE  Len(ends) \in Nat /\ Len(got) \in Nat /\ Len(rows) \in Nat
  BY LenProperties, Zenon DEF PagesTypes

LEMMA EndIsNat ==
  ASSUME PagesTypes, NEW k \in 0 .. Len(ends)
  PROVE  End(k) \in Nat
<1>1. CASE k = 0
  BY <1>1 DEF End
<1>2. CASE k # 0
  <2>1. k \in 1 .. Len(ends)
    BY <1>2, Lengths
  <2>2. ends[k] \in Nat
    BY <2>1, ElementOfSeq, Zenon DEF PagesTypes
  <2> QED
    BY <1>2, <2>2, Zenon DEF End
<1> QED
  BY <1>1, <1>2

LEMMA StartIsNat ==
  ASSUME PagesTypes
  PROVE  /\ PageStart \in Nat /\ PageStart <= MaxPageBytes /\ MaxPageBytes \in Nat
         /\ RowBudget \in Int /\ pageSize \in Nat \ {0}
<1>1. reserved \in Nat /\ Envelope \in Nat /\ MaxPageBytes \in Nat
      /\ reserved + Envelope < MaxPageBytes /\ pageSize \in Nat \ {0}
  BY PagesAssumption DEF PagesTypes
<1> QED
  BY <1>1 DEF PageStart, RowBudget

\* The row that begins where the first n end is the next one.
LEMMA NextRow ==
  ASSUME PagesTypes, Ascending, NEW n \in Nat, n < Len(ends)
  PROVE  RowAt(End(n)) = n + 1
<1>1. n \in 0 .. Len(ends) /\ n + 1 \in 1 .. Len(ends) /\ n + 1 \in 0 .. Len(ends)
      /\ (n + 1) - 1 = n /\ n < n + 1
  BY Lengths
<1>2. End(n) \in Nat /\ End(n + 1) \in Nat /\ End(n) < End(n + 1)
  BY <1>1, EndIsNat, Zenon DEF Ascending
<1>3. End((n + 1) - 1) <= End(n) /\ End(n) < End(n + 1)
  BY <1>1, <1>2
<1>4. ASSUME NEW k \in 1 .. Len(ends), End(k - 1) <= End(n), End(n) < End(k)
      PROVE  k = n + 1
  <2>1. k \in 0 .. Len(ends) /\ k - 1 \in 0 .. Len(ends)
    BY Lengths
  <2>2. End(k) \in Nat /\ End(k - 1) \in Nat
    BY <2>1, EndIsNat, Zenon
  <2>3. ~ (k < n)
    <3>1. k < n => End(k) < End(n)
      BY <1>1, <2>1, Zenon DEF Ascending
    <3> QED
      BY <1>2, <1>4, <2>2, <3>1
  <2>4. ~ (n < k - 1)
    <3>1. n < k - 1 => End(n) < End(k - 1)
      BY <1>1, <2>1, Zenon DEF Ascending
    <3> QED
      BY <1>2, <1>4, <2>2, <3>1
  <2>5. k # n
    BY <1>2, <1>4
  <2> QED
    BY <2>3, <2>4, <2>5, Lengths
<1> QED
  BY <1>1, <1>3, <1>4, Zenon DEF RowAt

\* In the loop, the row that is read is the one after those the page has.
LEMMA ReadsNext ==
  ASSUME PagesInv, phase = "paging", InLoop
  PROVE  LET n == Len(got) + Len(rows) IN
           /\ n \in Nat /\ n < Len(ends) /\ offset = End(n) /\ RowAt(offset) = n + 1
           /\ End(n) \in Nat /\ End(n + 1) \in Nat /\ End(n) < End(n + 1)
           /\ Left(offset) = End(n + 1) - End(n)
<1> DEFINE n == Len(got) + Len(rows)
<1>1. PagesTypes /\ Ascending /\ n <= Len(ends) /\ offset = End(n) /\ offset < Bytes
  BY Zenon DEF PagesInv, Collected, InLoop
<1>2. n \in Nat /\ Len(ends) \in Nat
  BY <1>1, Lengths
<1>3. n # Len(ends)
  <2>1. Bytes \in Nat
    BY <1>1, <1>2, EndIsNat DEF Bytes
  <2> QED
    BY <1>1, <2>1 DEF Bytes
<1>4. n < Len(ends)
  BY <1>1, <1>2, <1>3
<1>5. RowAt(offset) = n + 1
  BY <1>1, <1>2, <1>4, NextRow, Zenon
<1>6. n \in 0 .. Len(ends) /\ n + 1 \in 0 .. Len(ends) /\ n < n + 1
  BY <1>2, <1>4
<1>7. End(n) \in Nat /\ End(n + 1) \in Nat /\ End(n) < End(n + 1)
  BY <1>1, <1>6, EndIsNat, Zenon DEF Ascending
<1>8. Left(offset) = End(n + 1) - End(n)
  BY <1>1, <1>5, Zenon DEF Left
<1> QED
  BY <1>1, <1>2, <1>4, <1>5, <1>7, <1>8, Zenon

LEMMA PagesStarts == PagesInit => PagesInv
<1> SUFFICES ASSUME PagesInit PROVE PagesInv
  OBVIOUS
<1>1. PagesTypes /\ Len(ends) = 0 /\ Len(got) = 0 /\ phase = "capturing"
  BY EmptySeq DEF PagesInit, PagesTypes
<1>2. Ascending /\ Admitted
  BY <1>1 DEF Ascending, Admitted
<1>3. Received
  BY <1>1 DEF Received, End, PagesInit
<1> QED
  BY <1>1, <1>2, <1>3, Zenon DEF PagesInv, Collected, PageCharged, FailsOnlyAtBudget

\* Where rows end depends on the file, and the budget on the metadata, alone.
LEMMA FileSame ==
  ASSUME UNCHANGED capture
  PROVE  /\ \A k : End(k)' = End(k)
         /\ PageStart' = PageStart /\ RowBudget' = RowBudget /\ Bytes' = Bytes
         /\ Len(ends') = Len(ends) /\ Ascending' = Ascending /\ Admitted' = Admitted
<1>1. ends' = ends /\ reserved' = reserved
  BY Zenon DEF capture
<1> QED
  BY <1>1, Zenon DEF End, Bytes, PageStart, RowBudget, Ascending, Admitted

\* A row is appended to the file.
LEMMA SpoolRowKeeps ==
  ASSUME PagesInv, NEW length \in RowLengths, SpoolRow(length)
  PROVE  PagesInv'
<1> PICK n : n = Len(ends)
  BY Zenon
<1> PICK new : new = Bytes + length + 1
  OBVIOUS
<1>1. /\ PagesTypes /\ Ascending /\ Admitted /\ Received
      /\ phase = "capturing" /\ phase' = "capturing" /\ length <= RowBudget
      /\ ends' = Append(ends, new)
      /\ UNCHANGED <<pageSize, reserved, token, offset, rows, pageBytes, got>>
  BY Zenon DEF PagesInv, SpoolRow, Admits, page
<1>2. n \in Nat /\ Bytes \in Nat /\ length \in Nat /\ new \in Nat
  <2>1. n \in Nat /\ length \in Nat
    BY <1>1, Lengths, PagesAssumption
  <2>2. Bytes \in Nat
    BY <1>1, <2>1, EndIsNat DEF Bytes
  <2> QED
    BY <2>1, <2>2
<1>3. /\ ends' \in Seq(Nat) /\ Len(ends') = n + 1
      /\ \A k \in 1 .. n : ends'[k] = ends[k]
      /\ ends'[n + 1] = new
  <2>1. ends \in Seq(Nat) /\ new \in Nat /\ ends' = Append(ends, new)
    BY <1>1, <1>2, Zenon DEF PagesTypes
  <2> QED
    BY <2>1, Appended
<1>4. PagesTypes'
  BY <1>1, <1>3, Zenon DEF PagesTypes
<1>5. /\ \A k \in 0 .. n : End(k)' = End(k)
      /\ End(n + 1)' = new
  <2>1. ASSUME NEW k \in 0 .. n PROVE End(k)' = End(k)
    <3>1. k = 0 \/ k \in 1 .. n
      BY <1>2
    <3> QED
      BY <1>3, <3>1, Zenon DEF End
  <2>2. n + 1 # 0
    BY <1>2
  <2>3. End(n + 1)' = new
    BY <1>3, <2>2, Zenon DEF End
  <2> QED
    BY <2>1, <2>3, Zenon
<1>6. Ascending'
  <2> SUFFICES ASSUME NEW j \in 0 .. n + 1, NEW k \in 0 .. n + 1, j < k
               PROVE  End(j)' < End(k)'
    BY <1>3, Zenon DEF Ascending
  <2>1. CASE k \in 0 .. n
    <3>1. j \in 0 .. n
      BY <1>2, <2>1
    <3> QED
      BY <1>1, <1>5, <2>1, <3>1, Zenon DEF Ascending
  <2>2. CASE k \notin 0 .. n
    <3>1. k = n + 1 /\ j \in 0 .. n /\ n \in 0 .. n
      BY <1>2, <2>2
    <3>2. End(j) \in Nat /\ (j = n \/ End(j) < Bytes)
      <4>1. j = n \/ j < n
        BY <1>2, <3>1
      <4> QED
        BY <1>1, <3>1, <4>1, EndIsNat, Zenon DEF Ascending, Bytes
    <3>3. End(j) <= Bytes
      BY <1>2, <3>2 DEF Bytes
    <3>4. End(j) < new
      BY <1>2, <3>2, <3>3
    <3> QED
      BY <1>5, <3>1, <3>4, Zenon
  <2> QED
    BY <2>1, <2>2, Zenon
<1>7. Admitted'
  <2> SUFFICES ASSUME NEW k \in 1 .. n + 1
               PROVE  End(k)' - End(k - 1)' - 1 <= RowBudget
    BY <1>1, <1>3, Zenon DEF Admitted, RowBudget, PageStart
  <2>1. k - 1 \in 0 .. n /\ (k = n + 1 \/ (k \in 0 .. n /\ k \in 1 .. n))
    BY <1>2
  <2>2. CASE k = n + 1
    <3>1. k - 1 = n
      BY <1>2, <2>2
    <3>2. End(k)' = new /\ End(k - 1)' = Bytes
      BY <1>5, <2>1, <2>2, <3>1, Zenon DEF Bytes
    <3> QED
      BY <1>1, <1>2, <3>2
  <2>3. CASE k \in 0 .. n /\ k \in 1 .. n
    BY <1>1, <1>5, <2>1, <2>3, Zenon DEF Admitted
  <2> QED
    BY <2>1, <2>2, <2>3, Zenon
<1>8. Received'
  <2>1. Len(got) \in 0 .. n /\ Len(got) <= n + 1
    BY <1>1, <1>2, Lengths DEF Received
  <2> QED
    BY <1>1, <1>3, <1>5, <2>1, Zenon DEF Received
<1> QED
  BY <1>1, <1>4, <1>6, <1>7, <1>8, Zenon DEF PagesInv, Collected, PageCharged, FailsOnlyAtBudget

\* A step that leaves file, token and received rows alone, and not in the loop.
LEMMA QuietKeeps ==
  ASSUME PagesInv, UNCHANGED <<capture, token, got>>, PagesTypes',
         phase' # "paging", phase' # "finished", phase' # "removed"
  PROVE  PagesInv'
<1>1. Ascending' /\ Admitted'
  BY FileSame, Zenon DEF PagesInv
<1>2. Received'
  BY FileSame, Zenon DEF PagesInv, Received
<1> QED
  BY <1>1, <1>2, Zenon DEF PagesInv, Collected, PageCharged, FailsOnlyAtBudget

LEMMA OpenPageKeeps ==
  ASSUME PagesInv, OpenPage
  PROVE  PagesInv'
<1>1. /\ PagesTypes /\ Received /\ phase' = "paging"
      /\ offset' = token /\ rows' = <<>> /\ pageBytes' = PageStart
      /\ UNCHANGED <<capture, token, got>>
  BY Zenon DEF PagesInv, OpenPage
<1>2. PagesTypes'
  BY <1>1, StartIsNat, EmptySeq, Zenon DEF PagesTypes, capture
<1>3. Ascending' /\ Admitted' /\ Received'
  BY <1>1, FileSame, Zenon DEF PagesInv, Received
<1>4. Len(rows') = 0 /\ Len(got) \in Nat /\ Len(got) + 0 = Len(got)
  BY <1>1, Lengths, EmptySeq
<1>5. Collected'
  <2>1. \A k \in 1 .. Len(rows') : rows'[k] = <<Len(got') + k, 0>>
    BY <1>4
  <2> QED
    BY <1>1, <1>4, <2>1, FileSame, Zenon DEF Collected, Received
<1>6. PageCharged'
  <2>1. token - token = 0 /\ PageStart + 0 = PageStart
    BY <1>1, StartIsNat DEF PagesTypes
  <2> QED
    BY <1>1, <2>1, StartIsNat, FileSame, Zenon DEF PageCharged
<1> QED
  BY <1>1, <1>2, <1>3, <1>5, <1>6, Zenon DEF PagesInv, FailsOnlyAtBudget

LEMMA ReadRowKeeps ==
  ASSUME PagesInv, ReadRow
  PROVE  PagesInv'
<1> PICK n : n = Len(got) + Len(rows)
  OBVIOUS
<1> PICK row : row = <<RowAt(offset), offset - End(RowAt(offset) - 1)>>
  BY Zenon
<1>1. /\ PagesTypes /\ Received /\ Collected /\ PageCharged
      /\ phase = "paging" /\ phase' = "paging" /\ InLoop /\ Fits
      /\ rows' = Append(rows, row) /\ pageBytes' = pageBytes + Left(offset)
      /\ offset' = offset + Left(offset)
      /\ UNCHANGED <<capture, token, got>>
  BY Zenon DEF PagesInv, ReadRow
<1>2. /\ n \in Nat /\ n < Len(ends) /\ offset = End(n) /\ RowAt(offset) = n + 1
      /\ End(n) \in Nat /\ End(n + 1) \in Nat /\ End(n) < End(n + 1)
      /\ Left(offset) = End(n + 1) - End(n)
  BY <1>1, ReadsNext, Zenon
<1>3. Len(got) \in Nat /\ Len(rows) \in Nat /\ Len(ends) \in Nat
  BY <1>1, Lengths
<1>4. row = <<n + 1, 0>>
  <2>1. (n + 1) - 1 = n /\ End(n) - End(n) = 0
    BY <1>2
  <2> QED
    BY <1>2, <2>1, Zenon
<1>5. row \in Nat \X Nat
  BY <1>2, <1>4
<1>6. /\ rows' \in Seq(Nat \X Nat) /\ Len(rows') = Len(rows) + 1
      /\ \A k \in 1 .. Len(rows) : rows'[k] = rows[k]
      /\ rows'[Len(rows) + 1] = row
  <2>1. rows \in Seq(Nat \X Nat) /\ rows' = Append(rows, row)
    BY <1>1, Zenon DEF PagesTypes
  <2> QED
    BY <1>5, <2>1, Appended
<1>7. offset' = End(n + 1) /\ pageBytes' = pageBytes + (End(n + 1) - End(n))
      /\ pageBytes \in Nat /\ pageBytes' \in Nat
  <2>1. offset' = End(n) + (End(n + 1) - End(n)) /\ pageBytes \in Nat
        /\ pageBytes' = pageBytes + (End(n + 1) - End(n))
    BY <1>1, <1>2, Zenon DEF PagesTypes
  <2> QED
    BY <1>2, <2>1
<1>8. PagesTypes'
  BY <1>1, <1>2, <1>6, <1>7, Zenon DEF PagesTypes, capture
<1>9. Ascending' /\ Admitted' /\ Received'
  BY <1>1, FileSame, Zenon DEF PagesInv, Received
<1>10. Collected'
  <2>1. Len(got') + Len(rows') = n + 1 /\ n + 1 <= Len(ends) /\ Len(got) + (Len(rows) + 1) = n + 1
    BY <1>1, <1>2, <1>3, <1>6, SMTT(10), SMTT(30)
  <2>2. ASSUME NEW k \in 1 .. Len(rows) + 1
        PROVE  rows'[k] = <<Len(got) + k, 0>>
    <3>1. k \in 1 .. Len(rows) \/ k = Len(rows) + 1
      BY <1>3
    <3> QED
      BY <1>1, <1>4, <1>6, <2>1, <3>1, Zenon DEF Collected
  <2>3. \A k \in 1 .. Len(rows') : rows'[k] = <<Len(got') + k, 0>>
    BY <1>1, <1>6, <2>2, Zenon
  <2>4. offset' = End(n + 1)'
    BY <1>1, <1>7, FileSame, Zenon
  <2> QED
    BY <1>1, <2>1, <2>3, <2>4, FileSame, Zenon DEF Collected
<1>11. PageCharged'
  <2>1. /\ pageBytes = PageStart + (End(n) - token)
        /\ pageBytes + (End(n + 1) - End(n)) <= MaxPageBytes
        /\ PageStart' = PageStart
    BY <1>1, <1>2, FileSame, Zenon DEF PageCharged, Fits
  <2>2. PageStart \in Nat /\ token \in Nat
    BY <1>1, StartIsNat, Zenon DEF PagesTypes
  <2>3. pageBytes' = PageStart + (offset' - token) /\ pageBytes' <= MaxPageBytes
    <3>1. End(n) \in Nat /\ End(n + 1) \in Nat
      BY <1>2, Zenon
    <3>2. (PageStart + (End(n) - token)) + (End(n + 1) - End(n)) = PageStart + (End(n + 1) - token)
      BY <2>2, <3>1, SMTT(10), SMTT(30)
    <3> QED
      BY <1>7, <2>1, <3>2, Zenon
  <2> QED
    BY <1>1, <2>1, <2>3, Zenon DEF PageCharged
<1> QED
  BY <1>1, <1>8, <1>9, <1>10, <1>11, Zenon DEF PagesInv, FailsOnlyAtBudget

LEMMA ServePageKeeps ==
  ASSUME PagesInv, ServePage
  PROVE  PagesInv' /\ (Len(got') > Len(got) \/ phase' = "finished")
<1> PICK n : n = Len(got) + Len(rows)
  OBVIOUS
<1>1. /\ PagesTypes /\ Ascending /\ Received /\ Collected /\ phase = "paging" /\ PageDone
      /\ got' = got \o rows /\ token' = offset
      /\ phase' = (IF offset < Bytes THEN "registered" ELSE "finished")
      /\ UNCHANGED <<capture, offset, rows, pageBytes>>
  BY Zenon DEF PagesInv, ServePage, PageDone, page
<1>2. Len(got) \in Nat /\ Len(rows) \in Nat /\ Len(ends) \in Nat /\ n \in Nat /\ n <= Len(ends)
  BY <1>1, Lengths DEF Collected
<1>3. /\ got' \in Seq(Nat \X Nat) /\ Len(got') = n
      /\ \A k \in 1 .. n : got'[k] = IF k <= Len(got) THEN got[k] ELSE rows[k - Len(got)]
  BY <1>1, ConcatProperties, Zenon DEF PagesTypes
<1>4. PagesTypes'
  BY <1>1, <1>3, Zenon DEF PagesTypes, capture
<1>5. Ascending' /\ Admitted'
  BY <1>1, FileSame, Zenon DEF PagesInv
<1>6. Received'
  <2>1. ASSUME NEW k \in 1 .. n PROVE got'[k] = <<k, 0>>
    <3>1. CASE k <= Len(got)
      <4>1. k \in 1 .. Len(got)
        BY <1>2, <3>1
      <4> QED
        BY <1>1, <1>3, <3>1, <4>1, Zenon DEF Received
    <3>2. CASE ~ (k <= Len(got))
      <4>1. k - Len(got) \in 1 .. Len(rows) /\ Len(got) + (k - Len(got)) = k
        BY <1>2, <3>2
      <4> QED
        BY <1>1, <1>3, <3>2, <4>1, Zenon DEF Collected
    <3> QED
      BY <3>1, <3>2
  <2> QED
    BY <1>1, <1>2, <1>3, <2>1, FileSame, Zenon DEF Received, Collected
<1>7. phase' = "finished" => Len(got') = Len(ends')
  <2> SUFFICES ASSUME ~ (offset < Bytes) PROVE n = Len(ends)
    BY <1>1, <1>3, FileSame, Zenon
  <2>1. offset = End(n) /\ n \in 0 .. Len(ends) /\ Len(ends) \in 0 .. Len(ends)
    BY <1>1, <1>2 DEF Collected
  <2>2. n < Len(ends) => End(n) < Bytes
    BY <1>1, <2>1, Zenon DEF Ascending, Bytes
  <2> QED
    BY <1>2, <2>1, <2>2
<1>8. phase' # "paging" /\ phase' # "removed"
  BY <1>1
<1>9. Len(got') > Len(got) \/ phase' = "finished"
  <2> SUFFICES ASSUME offset < Bytes PROVE n > Len(got)
    BY <1>1, <1>3, Zenon
  <2>1. rows # <<>>
    <3>1. CASE ~ InLoop
      <4>1. Len(rows) >= pageSize /\ pageSize \in Nat \ {0}
        BY <1>1, <1>2, <3>1, StartIsNat DEF InLoop
      <4>2. Len(<<>>) = 0
        BY EmptySeq
      <4>3. Len(rows) # 0
        BY <1>2, <4>1
      <4> QED
        BY <4>2, <4>3, Zenon
    <3>2. CASE InLoop
      BY <1>1, <3>2, Zenon DEF PageDone
    <3> QED
      BY <3>1, <3>2
  <2>2. Len(rows) \in Nat \ {0}
    BY <1>1, <2>1, EmptySeq, Zenon DEF PagesTypes
  <2> QED
    BY <1>2, <2>2
<1> QED
  BY <1>4, <1>5, <1>6, <1>7, <1>8, <1>9, Zenon DEF PagesInv, Collected, PageCharged, FailsOnlyAtBudget

\* The first row of a page that does not fit is as long as the budget.
LEMMA ServeTooLargeKeeps ==
  ASSUME PagesInv, ServeTooLarge
  PROVE  PagesInv'
<1> PICK n : n = Len(got) + Len(rows)
  OBVIOUS
<1>1. /\ PagesTypes /\ Admitted /\ Received /\ Collected /\ PageCharged
      /\ phase = "paging" /\ phase' = "removed" /\ InLoop /\ ~ Fits /\ rows = <<>>
      /\ UNCHANGED <<capture, token, offset, rows, pageBytes, got>>
  BY Zenon DEF PagesInv, ServeTooLarge, page
<1>2. /\ n \in Nat /\ n < Len(ends) /\ offset = End(n)
      /\ End(n) \in Nat /\ End(n + 1) \in Nat /\ End(n) < End(n + 1)
      /\ Left(offset) = End(n + 1) - End(n)
  BY <1>1, ReadsNext, Zenon
<1>3. Len(ends) \in Nat /\ Len(got) \in Nat /\ Len(rows) = 0 /\ n = Len(got)
  BY <1>1, Lengths, EmptySeq
<1>4. n + 1 \in 1 .. Len(ends) /\ (n + 1) - 1 = n
  BY <1>2, <1>3
<1>5. End(n + 1) - End(n) - 1 <= RowBudget
  BY <1>1, <1>4, Zenon DEF Admitted
<1>6. PageStart \in Nat /\ MaxPageBytes \in Nat /\ RowBudget = MaxPageBytes - PageStart
  BY <1>1, StartIsNat, Zenon DEF RowBudget
<1>7. pageBytes = PageStart
  <2>1. pageBytes = PageStart + (offset - token) /\ token = End(Len(got))
    BY <1>1, Zenon DEF PageCharged, Received
  <2>2. offset = token
    BY <1>2, <1>3, <2>1, Zenon
  <2> QED
    BY <1>2, <1>6, <2>1, <2>2
<1>8. End(n + 1) - End(n) - 1 = RowBudget
  <2>1. ~ (pageBytes + (End(n + 1) - End(n)) <= MaxPageBytes)
    BY <1>1, <1>2, Zenon DEF Fits
  <2> QED
    BY <1>2, <1>5, <1>6, <1>7, <2>1
<1>9. FailsOnlyAtBudget'
  <2>1. \E k \in 1 .. Len(ends) : End(k) - End(k - 1) - 1 = RowBudget
    BY <1>4, <1>8, Zenon
  <2> QED
    BY <1>1, <2>1, FileSame, Zenon DEF FailsOnlyAtBudget
<1>10. PagesTypes'
  BY <1>1, Zenon DEF PagesTypes, capture
<1>11. Ascending' /\ Admitted' /\ Received'
  BY <1>1, FileSame, Zenon DEF PagesInv, Received
<1> QED
  BY <1>1, <1>9, <1>10, <1>11, Zenon DEF PagesInv, Collected, PageCharged

LEMMA PagesKeep == PagesInv /\ [PagesNext]_pageVars => PagesInv'
<1> SUFFICES ASSUME PagesInv, [PagesNext]_pageVars PROVE PagesInv'
  OBVIOUS
<1>1. ASSUME NEW length \in RowLengths, SpoolRefuses(length) PROVE PagesInv'
  <2>1. UNCHANGED <<capture, token, page, got>> /\ phase' = "refused"
    BY <1>1, Zenon DEF SpoolRefuses
  <2>2. PagesTypes'
    BY <2>1, Zenon DEF PagesInv, PagesTypes, capture, page
  <2> QED
    BY <2>1, <2>2, QuietKeeps
<1>2. ASSUME CaptureEnds \/ PageLost PROVE PagesInv'
  <2>1. UNCHANGED <<capture, token, page, got>> /\ phase' = "registered"
    BY <1>2, Zenon DEF CaptureEnds, PageLost
  <2>2. PagesTypes'
    BY <2>1, Zenon DEF PagesInv, PagesTypes, capture, page
  <2> QED
    BY <2>1, <2>2, QuietKeeps
<1>3. CASE UNCHANGED pageVars
  <2>1. UNCHANGED <<capture, token, page, got, phase>>
    BY <1>3, Zenon DEF pageVars
  <2>2. PagesTypes' /\ UNCHANGED <<offset, rows, pageBytes>>
    BY <2>1, Zenon DEF PagesInv, PagesTypes, capture, page
  <2>3. Ascending' /\ Admitted' /\ Received' /\ Collected' /\ PageCharged' /\ FailsOnlyAtBudget'
    BY <2>1, <2>2, FileSame, Zenon
    DEF PagesInv, Received, Collected, PageCharged, FailsOnlyAtBudget
  <2> QED
    BY <2>1, <2>2, <2>3, FileSame, Zenon DEF PagesInv
<1> QED
  BY <1>1, <1>2, <1>3, SpoolRowKeeps, OpenPageKeeps, ReadRowKeeps, ServePageKeeps,
     ServeTooLargeKeeps, Zenon DEF PagesNext

\* The pages at work keep PagesInv: the page in the loop and the pages received
\* account for the capture, row for row, up to the offset of the next token.
THEOREM PagesInvariant == PagesSpec => []PagesInv
  BY PagesStarts, PagesKeep, PTL DEF PagesSpec

\* Whatever rows the query returns and however often an answer is lost, the
\* pages that the client received are the first rows of the capture, each whole,
\* in order and once, and with the last page they are all of them.
THEOREM PagesPartition == PagesSpec => []PagesPartitionResult
<1>1. PagesInv => PagesPartitionResult
  <2> SUFFICES ASSUME PagesInv PROVE PagesPartitionResult
    OBVIOUS
  <2>1. got \in Seq(Nat \X Nat) /\ Received
    BY Zenon DEF PagesInv, PagesTypes
  <2>2. got = [k \in 1 .. Len(got) |-> got[k]]
    BY <2>1, LenProperties, Zenon
  <2>3. got = [k \in 1 .. Len(got) |-> <<k, 0>>]
    BY <2>1, <2>2, Zenon DEF Received
  <2> QED
    BY <2>1, <2>3, Zenon DEF PagesInv, Received, PagesPartitionResult
<1> QED
  BY <1>1, PagesInvariant, PTL

\* serveSnapshotPage gives up a snapshot as too large only at a row whose
\* encoding is exactly the budget that spoolTugQL admits.
THEOREM FailsAtBudget == PagesSpec => []FailsOnlyAtBudget
<1>1. PagesInv => FailsOnlyAtBudget
  BY DEF PagesInv
<1> QED
  BY <1>1, PagesInvariant, PTL

\* The rows of a page stay within maxPageBytes, and with the metadata and the
\* envelope kept for it where a capture has metadata; where it has none,
\* serveSnapshotPage counts the rows alone.
THEOREM PagesFit == PagesSpec => []PageFits
<1>1. ASSUME PagesInv PROVE PageFits
  <2> SUFFICES ASSUME phase = "paging"
               PROVE  /\ offset - token <= MaxPageBytes
                      /\ reserved > 0
                         => reserved + Envelope + (offset - token) <= MaxPageBytes
    BY DEF PageFits
  <2>1. PageStart + (offset - token) <= MaxPageBytes
    BY <1>1 DEF PagesInv, PageCharged
  <2>2. /\ offset \in Int /\ token \in Int /\ MaxPageBytes \in Nat
        /\ reserved \in Nat /\ Envelope \in Nat
    BY <1>1, PagesAssumption DEF PagesInv, PagesTypes
  <2>3. /\ PageStart \in Nat
        /\ reserved > 0 => PageStart = reserved + Envelope
    BY <2>2 DEF PageStart
  <2> QED
    BY <2>1, <2>2, <2>3
<1> QED
  BY <1>1, PagesInvariant, PTL

\* A page that the client receives has a row, or it is the last one: whoever
\* follows nextPageToken comes to an end.
THEOREM PagesBringOn == PagesSpec => AnswersBringOn
<1>1. PagesInv /\ [PagesNext]_pageVars
      => [ServePage => Len(got') > Len(got) \/ phase' = "finished"]_pageVars
  BY ServePageKeeps, Zenon
<1> QED
  BY <1>1, PagesInvariant, PTL DEF PagesSpec, AnswersBringOn
=============================================================================

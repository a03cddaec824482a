--------------------------- MODULE QueryReadProofs ---------------------------
(***************************************************************************)
(* Proofs about the reads of QueryService for any databases, queries,      *)
(* requests, pools and bounds, whatever fails: the gate of the queries     *)
(* counts right, and what is being read is leased.                         *)
(***************************************************************************)
EXTENDS QueryService, FiniteSetTheorems, TLAPS

(***************************************************************************)
(* The gate.  A request's phase and route say whether it holds a slot.     *)
(***************************************************************************)
Resting == {"idle", "returned"}
InSlot(ph, rt) ==
  \/ ph \in {"open", "read", "endtx", "release"}
  \/ ph = "close" /\ rt # "single"

\* The routes a request may be on in a phase.
Fits(ph, rt) ==
  /\ ph \in {"admit", "queued", "open", "read", "endtx", "release"} => rt \in Gated
  /\ ph \in {"sopen", "sread"} => rt = "single"
  /\ ph = "close" => rt # "none"

PhaseInv ==
  /\ x \in [Req -> Phases] /\ route \in [Req -> Routes] /\ h \in [Req -> Handler]
  /\ used \in [Gated -> Nat] /\ holding \in SUBSET Req
  /\ \A r \in Req : Fits(x[r], route[r])
  /\ \A r \in Req : h[r] # "read" => x[r] \in Resting

GateInv == PhaseInv /\ GateAccounting

OnRoute(g) == {r \in holding : route[r] = g}

LEMMA OnRouteFinite == GateInv => \A g \in Gated : IsFiniteSet(OnRoute(g))
<1> SUFFICES ASSUME GateInv, NEW g \in Gated PROVE IsFiniteSet(OnRoute(g))
  OBVIOUS
<1>1. OnRoute(g) \subseteq Req
  BY DEF GateInv, PhaseInv, OnRoute
<1> QED
  BY <1>1, ExecutorAssumption, FS_Subset

\* A step within a route that neither takes nor gives back a slot.
Moves(r) ==
  /\ \E ph \in Phases :
       /\ x' = [x EXCEPT ![r] = ph]
       /\ InSlot(ph, route[r]) = InSlot(x[r], route[r])
       /\ Fits(ph, route[r])
  /\ UNCHANGED <<route, used, holding>>

LEMMA MovesKeepGate ==
  ASSUME GateInv, NEW r \in Req, h[r] = "read", Moves(r), UNCHANGED h
  PROVE  GateInv'
<1>1. PICK ph \in Phases : /\ x' = [x EXCEPT ![r] = ph]
                           /\ InSlot(ph, route[r]) = InSlot(x[r], route[r])
                           /\ Fits(ph, route[r])
  BY Zenon DEF Moves
<1>2. PhaseInv'
  BY <1>1, Zenon DEF GateInv, PhaseInv, Moves
<1>3. \A q \in Req : InSlot(x'[q], route'[q]) = InSlot(x[q], route[q])
  BY <1>1, Zenon DEF GateInv, PhaseInv, Moves
<1>4. GateAccounting'
  BY <1>3, ZenonT(60) DEF GateInv, GateAccounting, Moves, InSlot
<1> QED
  BY <1>2, <1>4 DEF GateInv

\* A step of a request outside its read, which holds no slot.
LEMMA OutsideKeepsGate ==
  ASSUME GateInv, NEW r \in Req, x[r] \in Resting,
         NEW ph \in Resting \cup {"admit", "sopen"}, NEW rt \in Routes, Fits(ph, rt),
         x' = [x EXCEPT ![r] = ph], route' = [route EXCEPT ![r] = rt],
         UNCHANGED <<used, holding>>,
         h' \in [Req -> Handler], \A q \in Req : h'[q] # "read" => x'[q] \in Resting
  PROVE  GateInv'
<1>1. PhaseInv'
  BY Zenon DEF GateInv, PhaseInv, Phases, Resting
<1>2. r \notin holding
  BY Zenon DEF GateInv, GateAccounting, Resting
<1>3. \A q \in Req : q # r => x'[q] = x[q] /\ route'[q] = route[q]
  BY Zenon DEF GateInv, PhaseInv
<1>4. \A q \in holding : route'[q] = route[q]
  BY <1>2, <1>3, Zenon DEF GateInv, PhaseInv
<1>5. \A g \in Gated : {q \in holding' : route'[q] = g} = {q \in holding : route[q] = g}
  BY <1>4
<1>6. x'[r] = ph
  BY Zenon DEF GateInv, PhaseInv
<1>7. GateAccounting'
  BY <1>2, <1>3, <1>5, <1>6 DEF GateInv, GateAccounting, Resting
<1> QED
  BY <1>1, <1>7 DEF GateInv

LEMMA TakeSlotKeepsGate ==
  ASSUME GateInv, NEW r \in Req, h[r] = "read", TakeSlot(r), UNCHANGED h
  PROVE  GateInv'
<1> DEFINE g == route[r]
<1>1. g \in Gated /\ r \notin holding /\ used[g] < Capacity[g]
  BY Zenon DEF GateInv, PhaseInv, GateAccounting, Fits, TakeSlot
<1>2. PhaseInv'
  BY <1>1 DEF GateInv, PhaseInv, Phases, Fits, TakeSlot
<1>3. \A k \in Gated : {q \in holding' : route'[q] = k}
                         = IF k = g THEN OnRoute(k) \cup {r} ELSE OnRoute(k)
  BY Zenon DEF TakeSlot, OnRoute
<1>4. r \notin OnRoute(g)
  BY <1>1 DEF OnRoute
<1>5. Cardinality(OnRoute(g) \cup {r}) = Cardinality(OnRoute(g)) + 1
  BY <1>1, <1>4, OnRouteFinite, FS_AddElement, Zenon
<1>6. \A k \in Gated : used[k] = Cardinality(OnRoute(k)) /\ used[k] <= Capacity[k]
  BY DEF GateInv, GateAccounting, OnRoute
<1>7. \A k \in Gated : used'[k] = IF k = g THEN used[k] + 1 ELSE used[k]
  BY <1>1, Zenon DEF TakeSlot, GateInv, PhaseInv
<1>8. \A k \in Gated : /\ used'[k] = Cardinality({q \in holding' : route'[q] = k})
                       /\ used'[k] <= Capacity[k]
  <2>1. ASSUME NEW k \in Gated
        PROVE  /\ used'[k] = Cardinality({q \in holding' : route'[q] = k})
               /\ used'[k] <= Capacity[k]
    <3>1. used[k] \in Nat /\ Capacity[k] \in Nat
      BY ExecutorAssumption DEF GateInv, PhaseInv
    <3>2. CASE k = g
      <4>1. {q \in holding' : route'[q] = k} = OnRoute(g) \cup {r}
        BY <3>2, <1>3
      <4>2. used'[k] = used[k] + 1 /\ used[k] = Cardinality(OnRoute(g)) /\ used[k] < Capacity[k]
        BY <3>2, <1>1, <1>6, <1>7, Zenon
      <4> HIDE DEF g
      <4> QED
        BY <3>1, <4>1, <4>2, <1>5, SMTT(30)
    <3>3. CASE k # g
      BY <3>3, <1>3, <1>6, <1>7, Zenon
    <3> QED
      BY <3>2, <3>3
  <2> QED
    BY <2>1
<1>9. \A q \in Req : q \in holding' <=> InSlot(x'[q], route'[q])
  BY Zenon DEF GateInv, PhaseInv, GateAccounting, TakeSlot, InSlot
<1> QED
  BY <1>2, <1>8, <1>9, Zenon DEF GateInv, GateAccounting, InSlot

LEMMA ReleaseSlotKeepsGate ==
  ASSUME GateInv, NEW r \in Req, h[r] = "read", ReleaseSlot(r), UNCHANGED h
  PROVE  GateInv'
<1> DEFINE g == route[r]
<1>1. g \in Gated /\ r \in holding
  BY Zenon DEF GateInv, PhaseInv, GateAccounting, Fits, ReleaseSlot
<1>2. \A k \in Gated : {q \in holding' : route'[q] = k}
                         = IF k = g THEN OnRoute(k) \ {r} ELSE OnRoute(k)
  <2>1. \A q \in holding' : q # r /\ route'[q] = route[q]
    BY Zenon DEF ReleaseSlot, GateInv, PhaseInv
  <2>2. holding' = holding \ {r}
    BY Zenon DEF ReleaseSlot
  <2> QED
    BY <2>1, <2>2 DEF OnRoute
<1>3. r \in OnRoute(g)
  BY <1>1 DEF OnRoute
<1>4. Cardinality(OnRoute(g) \ {r}) = Cardinality(OnRoute(g)) - 1
  BY <1>1, <1>3, OnRouteFinite, FS_RemoveElement, Zenon
<1>5. \A k \in Gated : used[k] = Cardinality(OnRoute(k)) /\ used[k] <= Capacity[k]
  BY DEF GateInv, GateAccounting, OnRoute
<1>6. Cardinality(OnRoute(g) \ {r}) \in Nat
  BY <1>1, OnRouteFinite, FS_RemoveElement, FS_CardinalityType, Zenon
<1>7. \A k \in Gated : used'[k] = IF k = g THEN used[k] - 1 ELSE used[k]
  BY <1>1, Zenon DEF ReleaseSlot, GateInv, PhaseInv
<1>8. \A k \in Gated : /\ used'[k] = Cardinality({q \in holding' : route'[q] = k})
                       /\ used'[k] <= Capacity[k] /\ used'[k] \in Nat
  <2>1. ASSUME NEW k \in Gated
        PROVE  /\ used'[k] = Cardinality({q \in holding' : route'[q] = k})
               /\ used'[k] <= Capacity[k] /\ used'[k] \in Nat
    <3>1. used[k] \in Nat /\ Capacity[k] \in Nat
      BY ExecutorAssumption DEF GateInv, PhaseInv
    <3>2. CASE k = g
      <4>1. {q \in holding' : route'[q] = k} = OnRoute(g) \ {r}
        BY <3>2, <1>2
      <4>2. used'[k] = used[k] - 1 /\ used[k] = Cardinality(OnRoute(g)) /\ used[k] <= Capacity[k]
        BY <3>2, <1>5, <1>7, Zenon
      <4>3. used'[k] = Cardinality(OnRoute(g) \ {r})
        BY <4>2, <1>4
      <4> HIDE DEF g
      <4> QED
        BY <3>1, <4>1, <4>2, <4>3, <1>6, SMTT(30)
    <3>3. CASE k # g
      BY <3>1, <3>3, <1>2, <1>5, <1>7, Zenon
    <3> QED
      BY <3>2, <3>3, Zenon
  <2> QED
    BY <2>1
<1>9. /\ x' \in [Req -> Phases] /\ route' \in [Req -> Routes]
      /\ \A q \in Req : q # r => x'[q] = x[q] /\ route'[q] = route[q]
      /\ (x'[r] = "admit" /\ route'[r] = "in-memory") \/ x'[r] = "returned"
  BY Zenon DEF ReleaseSlot, GateInv, PhaseInv, Phases, Routes, Gated
<1>10. used' \in [Gated -> Nat]
  <2>1. used' = [k \in Gated |-> used'[k]]
    BY Zenon DEF ReleaseSlot, GateInv, PhaseInv
  <2> QED
    BY <2>1, <1>8, Zenon
<1>11. PhaseInv'
  BY <1>9, <1>10, Zenon DEF GateInv, PhaseInv, Fits, ReleaseSlot, Gated
<1>12. \A q \in Req : q \in holding' <=> InSlot(x'[q], route'[q])
  BY <1>9, Zenon DEF GateInv, GateAccounting, ReleaseSlot, InSlot
<1> QED
  BY <1>8, <1>11, <1>12, Zenon DEF GateInv, GateAccounting, InSlot
-----------------------------------------------------------------------------
\* Every other step of a read, and every step of a handler.
LEMMA ReadStepMoves ==
  ASSUME PhaseInv, NEW r \in Req, ReadStep(r)
  PROVE  TakeSlot(r) \/ ReleaseSlot(r) \/ Moves(r)
<1>1. ASSUME UNCHANGED <<x, route, used, holding>> PROVE Moves(r)
  <2>1. x' = [x EXCEPT ![r] = x[r]] /\ x[r] \in Phases /\ Fits(x[r], route[r])
    BY <1>1, Zenon DEF PhaseInv, Phases, Fits, InSlot
  <2> QED
    BY <2>1, <1>1, Zenon DEF Moves
<1>2. ASSUME NEW ph \in Phases, x' = [x EXCEPT ![r] = ph], UNCHANGED <<route, used, holding>>,
             InSlot(ph, route[r]) = InSlot(x[r], route[r]), Fits(ph, route[r])
      PROVE  Moves(r)
  BY <1>2, Zenon DEF Moves
<1>3. CASE Enqueue(r) \/ TurnAway(r)
  BY <1>2, <1>3, Zenon DEF Enqueue, TurnAway, Refused, PhaseInv, Phases, Fits, InSlot
<1>4. CASE OpenSingle(r) \/ OpenDatabase(r) \/ OpenMemory(r)
  BY <1>2, <1>4, Zenon
     DEF OpenSingle, OpenDatabase, OpenMemory, Refused, GiveUp, PhaseInv, Phases, Fits,
     InSlot
<1>5. CASE \E i \in Reader : OpenLeaf(r, i) \/ LeafNext(r, i)
  <2>1. UNCHANGED x \/ (x' = [x EXCEPT ![r] = "close"])
    BY <1>5, Zenon DEF OpenLeaf, LeafNext, DalgoReportsOrGoesOn
  <2>2. UNCHANGED <<route, used, holding>> /\ x[r] = "read" /\ route[r] = "in-memory"
    BY <1>5, Zenon DEF OpenLeaf, LeafNext, InMemoryRead
  <2> QED
    BY <2>1, <2>2, <1>1, <1>2, Zenon DEF PhaseInv, Phases, Fits, InSlot
<1>6. CASE \E i \in Reader : CloseReader(r, i)
  BY <1>1, <1>6, Zenon DEF CloseReader
<1>7. CASE OverBudget(r) \/ ReadEnds(r) \/ ContextEnds(r) \/ ReaderFails(r) \/ ReaderTruncated(r)
  <2>1. /\ x' = [x EXCEPT ![r] = "close"] /\ UNCHANGED <<route, used, holding>>
        /\ x[r] \in {"read", "sread"}
    BY <1>7, Zenon DEF OverBudget, ReadEnds, ContextEnds, ReaderFails, ReaderTruncated, StopReading,
       RowReady, AtEnd, Reading
  <2> QED
    BY <2>1, <1>2, Zenon DEF Gated, PhaseInv, Phases, Fits, InSlot
<1>8. CASE AllClosed(r)
  <2>1. route[r] \in {"single", "database", "in-memory"}
    BY <1>8, Zenon DEF AllClosed, Routes, Gated, PhaseInv, Phases, Fits, InSlot
  <2> QED
    BY <1>2, <1>8, <2>1, Zenon DEF AllClosed, Gated, PhaseInv, Phases, Fits, InSlot
<1>9. CASE EndTx(r)
  BY <1>2, <1>9, Zenon DEF EndTx, PhaseInv, Phases, Fits, InSlot
<1> QED
  BY <1>3, <1>4, <1>5, <1>6, <1>7, <1>8, <1>9, Zenon DEF ReadStep

LEMMA DeliverMoves ==
  ASSUME PhaseInv, NEW r \in Req, NEW ok \in BOOLEAN, Deliver(r, ok)
  PROVE  Moves(r)
<1>1. x[r] \in {"read", "sread"} /\ UNCHANGED <<route, used, holding>>
  BY Zenon DEF Deliver, RowReady, Reading
<1>2. x' = [x EXCEPT ![r] = x[r]] \/ x' = [x EXCEPT ![r] = "close"]
  BY Zenon DEF Deliver, PhaseInv
<1> QED
  BY <1>1, <1>2, Zenon DEF Moves, PhaseInv, Phases, InSlot, Fits, Gated

\* The steps of a handler outside the read: the request holds no slot.
OutOfRead(r) ==
  \/ \E q \in Asked(r) : Arrive(r, q)
  \/ RouteSingle(r) \/ SettleTargets(r) \/ LeaseNext(r) \/ Stages(r) \/ StartRelational(r)
  \/ ReadFailed(r) \/ EvidenceFailed(r) \/ Finish(r) \/ Return(r)

LEMMA OutOfReadMoves ==
  ASSUME PhaseInv, NEW r \in Req, OutOfRead(r)
  PROVE  /\ x[r] \in Resting
         /\ \E n \in Handler : h' = [h EXCEPT ![r] = n]
         /\ \/ UNCHANGED xvars /\ h'[r] # "read"
            \/ h'[r] = "read" /\ BeginSingle(r, req[r])
            \/ h'[r] = "read" /\ Begin(r, req[r], lease[r], JoinEngines, NativeEngines)
            \/ h'[r] = "done" /\ Forget(r)
<1>1. CASE \E q \in Asked(r) : Arrive(r, q)
  BY <1>1, Zenon DEF Arrive, PhaseInv, Handler, Resting, Goto, Answer, AnswerOr
<1>2. CASE RouteSingle(r)
  BY <1>2, Zenon DEF RouteSingle, PhaseInv, Handler, Resting, Goto, Answer, AnswerOr
<1>3. CASE SettleTargets(r) \/ LeaseNext(r) \/ Stages(r)
  <2>1. /\ h[r] # "read" /\ UNCHANGED xvars
        /\ UNCHANGED h \/ \E n \in Handler \ {"read"} : h' = [h EXCEPT ![r] = n]
    BY <1>3, Zenon
       DEF SettleTargets, LeaseNext, Stages, PhaseInv, Handler, Resting, Goto, Answer, AnswerOr
  <2>2. CASE UNCHANGED h
    <3>1. h' = [h EXCEPT ![r] = h[r]] /\ h[r] \in Handler
      BY <2>2 DEF PhaseInv, Handler, Resting, Goto, Answer, AnswerOr
    <3> QED
      BY <2>1, <3>1, Zenon DEF PhaseInv, Handler, Resting, Goto, Answer, AnswerOr
  <2>3. CASE \E n \in Handler \ {"read"} : h' = [h EXCEPT ![r] = n]
    BY <2>1, <2>3, Zenon DEF PhaseInv, Handler, Resting, Goto, Answer, AnswerOr
  <2> QED
    BY <2>1, <2>2, <2>3, Zenon
<1>4. CASE StartRelational(r)
  BY <1>4, Zenon DEF StartRelational, PhaseInv, Handler, Resting, Goto, Answer, AnswerOr
<1>5. CASE ReadFailed(r) \/ EvidenceFailed(r) \/ Finish(r)
  BY <1>5, Zenon
     DEF ReadFailed, EvidenceFailed, Finish, ReadSucceeded, PhaseInv, Handler, Resting, Goto,
     Answer, AnswerOr
<1>6. CASE Return(r)
  BY <1>6, Zenon DEF Return, PhaseInv, Handler, Resting, Goto, Answer, AnswerOr
<1> QED
  BY <1>1, <1>2, <1>3, <1>4, <1>5, <1>6, Zenon DEF OutOfRead

LEMMA OutOfReadKeepsGate ==
  ASSUME GateInv, NEW r \in Req, OutOfRead(r)
  PROVE  GateInv'
<1>1. PICK n \in Handler : h' = [h EXCEPT ![r] = n]
  BY OutOfReadMoves, Zenon DEF GateInv, PhaseInv
<1>2. x[r] \in Resting /\ h' \in [Req -> Handler] /\ h'[r] = n
      /\ \A q \in Req : q # r => h'[q] = h[q]
  BY <1>1, OutOfReadMoves, Zenon DEF GateInv, PhaseInv
<1>3. ASSUME NEW ph \in Resting \cup {"admit", "sopen"}, NEW rt \in Routes, Fits(ph, rt),
             x' = [x EXCEPT ![r] = ph], route' = [route EXCEPT ![r] = rt],
             UNCHANGED <<used, holding>>, n # "read" => ph \in Resting
      PROVE  GateInv'
  <2>1. \A q \in Req : h'[q] # "read" => x'[q] \in Resting
    BY <1>2, <1>3, Zenon DEF GateInv, PhaseInv
  <2> QED
    BY <1>2, <1>3, <2>1, OutsideKeepsGate, Zenon
<1>4. CASE UNCHANGED xvars
  <2>1. x' = [x EXCEPT ![r] = x[r]] /\ route' = [route EXCEPT ![r] = route[r]]
        /\ UNCHANGED <<used, holding>> /\ Fits(x[r], route[r]) /\ route[r] \in Routes
    BY <1>4, Zenon DEF xvars, GateInv, PhaseInv
  <2> QED
    BY <1>2, <1>3, <2>1, Zenon
<1>5. CASE n = "read" /\ BeginSingle(r, req[r])
  BY <1>3, <1>5, Zenon DEF BeginSingle, Fits, Resting, Routes, Gated
<1>6. CASE n = "read" /\ Begin(r, req[r], lease[r], JoinEngines, NativeEngines)
  <2>1. \/ x' = [x EXCEPT ![r] = "returned"] /\ route' = [route EXCEPT ![r] = route[r]]
        \/ /\ x' = [x EXCEPT ![r] = "admit"]
           /\ \E rt \in Gated : route' = [route EXCEPT ![r] = rt]
    BY <1>6, Zenon DEF Begin, RouteOf, Gated, GateInv, PhaseInv
  <2>2. UNCHANGED <<used, holding>> /\ route[r] \in Routes
    BY <1>6, Zenon DEF Begin, GateInv, PhaseInv
  <2> QED
    BY <1>3, <1>6, <2>1, <2>2, Zenon DEF Fits, Resting, Routes
<1>7. CASE Forget(r)
  BY <1>2, <1>3, <1>7, Zenon DEF Forget, Fits, Resting, Routes
<1> QED
  BY <1>2, <1>4, <1>5, <1>6, <1>7, OutOfReadMoves, Zenon DEF GateInv, PhaseInv

\* The disjuncts of Next, as the invariants below take them.
LEMMA NextCases ==
  ASSUME [Next]_vars
  PROVE  \/ \E r \in Req : OutOfRead(r)
         \/ \E r \in Req : Step(r)
         \/ \E r \in Req, how \in RowOutcomes : WriteRow(r, how)
         \/ \E r \in Req, kind \in {"new", "repeat", "invalid"} : Observe(r, kind)
         \/ \E r \in Req : Environment(r)
         \/ \E r \in Req : GoroutineEnds(r)
         \/ \E b \in DB : Unmount(b)
         \/ \E b \in DB : CloseDrained(b)
         \/ UNCHANGED vars
BY Zenon DEF Next, Handle, Finished, OutOfRead

LEMMA GateStep == GateInv /\ [Next]_vars => GateInv'
<1> SUFFICES ASSUME GateInv, [Next]_vars PROVE GateInv'
  OBVIOUS
<1>1. ASSUME UNCHANGED <<x, route, used, holding, h>> PROVE GateInv'
  BY <1>1, Zenon DEF GateInv, PhaseInv, GateAccounting
<1>2. CASE \E r \in Req : OutOfRead(r)
  BY <1>2, OutOfReadKeepsGate
<1>3. CASE \E r \in Req : Step(r)
  <2>1. PICK r \in Req : Step(r)
    BY <1>3
  <2>2. h[r] = "read" /\ UNCHANGED h /\ (TakeSlot(r) \/ ReleaseSlot(r) \/ Moves(r))
    BY <2>1, ReadStepMoves DEF Step, svars, GateInv
  <2> QED
    BY <2>2, TakeSlotKeepsGate, ReleaseSlotKeepsGate, MovesKeepGate
<1>4. CASE \E r \in Req, how \in RowOutcomes : WriteRow(r, how)
  <2>1. PICK r \in Req, how \in RowOutcomes : WriteRow(r, how)
    BY <1>4
  <2>2. h[r] = "read" /\ UNCHANGED h /\ Moves(r)
    BY <2>1, DeliverMoves, Zenon DEF WriteRow, GateInv
  <2> QED
    BY <2>2, MovesKeepGate
<1>5. CASE \E r \in Req, kind \in {"new", "repeat", "invalid"} : Observe(r, kind)
  BY <1>1, <1>5, Zenon DEF Observe, xvars
<1>6. CASE \E r \in Req : Environment(r)
  BY <1>1, <1>6, Zenon DEF Environment, Cancelled, Expires, svars
<1>7. CASE \E r \in Req : GoroutineEnds(r)
  BY <1>1, <1>7, Zenon DEF GoroutineEnds, TxEnds, svars
<1>8. CASE \E b \in DB : Unmount(b)
  BY <1>1, <1>8, Zenon DEF Unmount, xvars
<1>9. CASE \E b \in DB : CloseDrained(b)
  BY <1>1, <1>9, Zenon DEF CloseDrained, xvars
<1>10. CASE UNCHANGED vars
  BY <1>1, <1>10, Zenon DEF vars, xvars, svars
<1> QED
  BY <1>2, <1>3, <1>4, <1>5, <1>6, <1>7, <1>8, <1>9, <1>10, NextCases, Zenon

LEMMA GateInit == Init => GateInv
<1> SUFFICES ASSUME Init PROVE GateInv
  OBVIOUS
<1>1. PhaseInv
  BY Zenon DEF Init, XInit, SInit, PhaseInv, Phases, Routes, Handler, Fits, Resting
<1>2. \A g \in Gated : {r \in holding : route[r] = g} = {}
  BY DEF Init, XInit
<1>3. \A g \in Gated : Capacity[g] \in Nat
  BY ExecutorAssumption
<1>4. GateAccounting
  BY <1>2, <1>3, FS_EmptySet DEF Init, XInit, GateAccounting
<1> QED
  BY <1>1, <1>4 DEF GateInv

\* The inductive invariant behind the gate: the phase of a request fits its route, and the pools
\* count who holds a slot (queryGate.acquire and its release).
THEOREM GateInvariant == Spec => []GateInv
BY GateInit, GateStep, PTL DEF Spec

\* The slots of a pool that are taken are those of the requests reading on its route, never
\* more than it has, and a request that waits, retries or has returned holds none.
THEOREM GateCounts == Spec => []GateAccounting
BY GateInvariant, PTL DEF GateInv

(***************************************************************************)
(* The readers and the transactions beneath them.                          *)
(***************************************************************************)
LEMMA SourcesOfQuery ==
  ASSUME NEW q \in DOMAIN Query
  PROVE  /\ DOMAIN Settled[q] = DOMAIN Query[q].sources
         /\ 1 \in DOMAIN Query[q].sources
         /\ DOMAIN Query[q].sources \subseteq Reader
<1>1. PICK n \in 1 .. MaxSources :
        Query[q].sources \in [1 .. n -> [db : DB \cup {NoDB}, coll : STRING, scan : BOOLEAN]]
  BY QueryAssumption, Zenon
<1>2. DOMAIN Query[q].sources = 1 .. n
  BY <1>1
<1>3. Settled[q] = [i \in DOMAIN Query[q].sources |->
        [Query[q].sources[i] EXCEPT !.db = IF @ = NoDB THEN Query[q].endpoint ELSE @]]
  BY DEF Settled
<1>4. MaxSources \in Nat
  BY ExecutorAssumption
<1> QED
  BY <1>1, <1>2, <1>3, <1>4 DEF Reader

LEMMA SingleSource ==
  ASSUME NEW q \in DOMAIN Query, IsSingle(q)
  PROVE  /\ Databases(q) = {Query[q].endpoint}
         /\ Reads(q) = {<<Query[q].endpoint, Query[q].sources[1].coll>>}
<1>1. DOMAIN Query[q].sources = {1} /\ Query[q].sources[1].db = NoDB
  BY QueryAssumption, Zenon
<1>2. DOMAIN Settled[q] = {1}
  BY <1>1, SourcesOfQuery
<1>3. Query[q].sources[1] \in [db : DB \cup {NoDB}, coll : STRING, scan : BOOLEAN]
  BY <1>1, QueryAssumption, Zenon
<1>4. Settled[q][1] = [Query[q].sources[1] EXCEPT !.db = Query[q].endpoint]
  BY <1>1, Zenon DEF Settled
<1>5. Settled[q][1].db = Query[q].endpoint /\ Settled[q][1].coll = Query[q].sources[1].coll
  BY <1>3, <1>4
<1> QED
  BY <1>2, <1>5, Zenon DEF Databases, Reads

\* The indices of readers, and 0 for the transaction of the database route.
LEMMA Indices == 1 \in Reader /\ 0 \in Idx /\ Reader \subseteq Idx /\ 0 \notin Reader
BY ExecutorAssumption DEF Reader, Idx

Taken == {"held", "freed"}
Touches(r, i) == IsOpen(leaf[r][i]) \/ hold[r][i] \in Taken

ReaderTypes ==
  /\ job \in [Req -> DOMAIN Query \cup {NoJob}]
  /\ leaf \in [Req -> [Reader -> LeafStates]]
  /\ hold \in [Req -> [Idx -> HoldStates]]

\* Readers and transactions are open only in the phases that close them, and of sources the
\* document has; the transaction of the database route only on that route.
ReaderInv(r) ==
  /\ \A i \in Reader : Touches(r, i) => x[r] \in {"read", "sread", "close"} /\ i \in Sources(r)
  /\ hold[r][0] \in Taken => x[r] \in {"read", "close", "endtx"} /\ route[r] = "database"
  /\ x[r] \notin Resting => job[r] \in DOMAIN Query

\* Nothing is opened or freed: the request changes its phase.
LEMMA PhaseKeepsReaders ==
  ASSUME ReaderTypes, NEW r \in Req, ReaderInv(r), UNCHANGED <<job, leaf, hold>>,
         x'[r] \notin Resting => job[r] \in DOMAIN Query,
         \/ \A i \in Reader : ~Touches(r, i)
         \/ x'[r] \in {"read", "sread", "close"},
         \/ hold[r][0] \notin Taken
         \/ x'[r] \in {"read", "close", "endtx"} /\ route'[r] = "database"
  PROVE  ReaderTypes' /\ ReaderInv(r)'
BY Zenon DEF ReaderTypes, ReaderInv, Touches, Sources

\* One reader, i, is opened, goes on or is closed.
LEMMA ReaderChanges ==
  ASSUME ReaderTypes, NEW r \in Req, ReaderInv(r), UNCHANGED <<job, route>>,
         NEW i \in Reader, NEW l \in LeafStates, NEW t \in HoldStates,
         leaf' = [leaf EXCEPT ![r][i] = l], hold' = [hold EXCEPT ![r][i] = t],
         i \in Sources(r), x'[r] \in {"read", "sread", "close"},
         hold[r][0] \in Taken => x'[r] \in {"read", "close"}, job[r] \in DOMAIN Query
  PROVE  ReaderTypes' /\ ReaderInv(r)'
<1>1. ReaderTypes'
  BY Indices, Zenon DEF ReaderTypes
<1>2. hold'[r][0] = hold[r][0]
  BY Indices, Zenon DEF ReaderTypes
<1>3. \A k \in Reader : k # i => leaf'[r][k] = leaf[r][k] /\ hold'[r][k] = hold[r][k]
  BY Indices, Zenon DEF ReaderTypes
<1>4. Sources(r)' = Sources(r)
  BY Zenon DEF Sources
<1>5. \A k \in Reader : Touches(r, k)' => k \in Sources(r)
  <2>1. ASSUME NEW k \in Reader, Touches(r, k)', k # i PROVE k \in Sources(r)
    <3>1. Touches(r, k)
      BY <2>1, <1>3, Zenon DEF Touches, IsOpen
    <3> QED
      BY <3>1, Zenon DEF ReaderInv
  <2> QED
    BY <2>1, Zenon
<1>6. ReaderInv(r)'
  BY <1>2, <1>4, <1>5, Zenon DEF ReaderInv, ReaderTypes
<1> QED
  BY <1>1, <1>6, Zenon

\* The slot is given back: nothing is open, and a retry starts afresh.
LEMMA ReleaseKeepsReaders ==
  ASSUME PhaseInv, ReaderTypes, NEW r \in Req, ReaderInv(r), ReleaseSlot(r)
  PROVE  ReaderTypes' /\ ReaderInv(r)' /\ UNCHANGED job
<1>1. x[r] = "release" /\ UNCHANGED job
  BY Zenon DEF ReleaseSlot
<1>2. job[r] \in DOMAIN Query /\ (\A i \in Reader : ~Touches(r, i)) /\ hold[r][0] \notin Taken
  BY <1>1 DEF ReaderInv, Resting
<1>3. CASE Retries(r)
  <2>1. leaf' = [leaf EXCEPT ![r] = Unread] /\ hold' = [hold EXCEPT ![r] = NoHold]
    BY <1>3, Zenon DEF ReleaseSlot
  <2>2. ReaderTypes'
    BY <1>1, <2>1 DEF ReaderTypes, Unread, NoHold, LeafStates, HoldStates
  <2>3. leaf'[r] = Unread /\ hold'[r] = NoHold
    BY <2>1 DEF ReaderTypes
  <2>4. (\A i \in Reader : ~Touches(r, i)') /\ hold'[r][0] \notin Taken
    BY <2>3, Indices DEF Touches, IsOpen, Unread, NoHold, Taken
  <2> QED
    BY <1>1, <1>2, <2>2, <2>4, Zenon DEF ReaderInv
<1>4. CASE ~Retries(r)
  <2>1. UNCHANGED <<job, leaf, hold>> /\ x'[r] = "returned"
    BY <1>4, Zenon DEF ReleaseSlot, PhaseInv
  <2> QED
    BY <1>2, <2>1, PhaseKeepsReaders, Zenon
<1> QED
  BY <1>3, <1>4

\* A reader is opened.
LEMMA OpenKeepsReaders ==
  ASSUME PhaseInv, ReaderTypes, NEW r \in Req, ReaderInv(r),
         OpenSingle(r) \/ OpenDatabase(r) \/ OpenMemory(r)
  PROVE  ReaderTypes' /\ ReaderInv(r)' /\ UNCHANGED job
<1>1. x[r] \in {"sopen", "open"} /\ UNCHANGED <<job, route>>
  BY Zenon DEF OpenSingle, OpenDatabase, OpenMemory
<1>2. job[r] \in DOMAIN Query /\ (\A i \in Reader : ~Touches(r, i)) /\ hold[r][0] \notin Taken
  BY <1>1, Zenon DEF ReaderInv, Resting
<1>3. 1 \in Reader /\ 1 \in Sources(r)
  BY <1>2, SourcesOfQuery DEF Sources
<1>4. ASSUME UNCHANGED <<leaf, hold>> PROVE ReaderTypes' /\ ReaderInv(r)'
  BY <1>1, <1>2, <1>4, PhaseKeepsReaders, Zenon
<1>5. CASE OpenSingle(r)
  <2>1. CASE UNCHANGED <<leaf, hold>>
    BY <1>1, <1>4, <2>1
  <2>2. CASE x' = [x EXCEPT ![r] = "sread"] /\ Opened(r, 1)
    <3>1. PICK t \in HoldStates : hold' = [hold EXCEPT ![r][1] = t]
      <4>1. hold[r][1] \in HoldStates /\ "held" \in HoldStates
        BY Indices DEF ReaderTypes, HoldStates
      <4> QED
        BY <2>2, <4>1, Zenon DEF Opened
    <3>2. leaf' = [leaf EXCEPT ![r][1] = "open"] /\ "open" \in LeafStates /\ x'[r] = "sread"
      BY <2>2, Zenon DEF Opened, LeafStates, PhaseInv
    <3> QED
      BY <1>1, <1>2, <1>3, <3>1, <3>2, ReaderChanges, Zenon
  <2> QED
    BY <1>5, <2>1, <2>2, Zenon DEF OpenSingle
<1>6. CASE OpenMemory(r)
  BY <1>1, <1>4, <1>6, Zenon DEF OpenMemory, GiveUp
<1>7. CASE OpenDatabase(r)
  <2>1. CASE \E why \in {"invalid", "source", "skipped"} : GiveUp(r, why)
    BY <1>1, <1>4, <2>1 DEF GiveUp
  <2>2. ASSUME hold' = [hold EXCEPT ![r][0] = "held"],
               \/ /\ x' = [x EXCEPT ![r] = "read"]
                  /\ leaf' = [leaf EXCEPT ![r][1] = "open"]
               \/ x' = [x EXCEPT ![r] = "endtx"] /\ UNCHANGED leaf
        PROVE  ReaderTypes' /\ ReaderInv(r)'
    <3>1. /\ \/ x'[r] = "read" /\ leaf' = [leaf EXCEPT ![r][1] = "open"]
             \/ x'[r] = "endtx" /\ UNCHANGED leaf
          /\ route'[r] = "database"
      BY <1>7, <2>2, Zenon DEF OpenDatabase, PhaseInv
    <3>2. ReaderTypes'
      <4>1. leaf' \in [Req -> [Reader -> LeafStates]]
        <5>1. leaf \in [Req -> [Reader -> LeafStates]] /\ "open" \in LeafStates
          BY DEF ReaderTypes, LeafStates
        <5>2. CASE leaf' = [leaf EXCEPT ![r][1] = "open"]
          BY <5>1, <5>2, Indices
        <5> QED
          BY <3>1, <5>1, <5>2, Zenon
      <4>2. hold' \in [Req -> [Idx -> HoldStates]]
        <5>1. hold \in [Req -> [Idx -> HoldStates]] /\ "held" \in HoldStates
          BY DEF ReaderTypes, HoldStates
        <5> QED
          BY <2>2, <5>1, Indices, Zenon
      <4> QED
        BY <1>1, <4>1, <4>2, Zenon DEF ReaderTypes
    <3>3. \A k \in Reader : hold'[r][k] = hold[r][k] /\ (k # 1 => leaf'[r][k] = leaf[r][k])
      BY <2>2, <3>1, Indices DEF ReaderTypes
    <3>4. \A k \in Reader : k # 1 => ~Touches(r, k)'
      BY <1>2, <3>3, Zenon DEF Touches
    <3>5. x'[r] = "endtx" => ~Touches(r, 1)'
      BY <1>2, <1>3, <3>1, <3>3, Zenon DEF Touches
    <3> QED
      BY <1>1, <1>2, <1>3, <3>1, <3>2, <3>4, <3>5, Zenon DEF ReaderInv, Sources
  <2> QED
    BY <1>1, <1>7, <2>1, <2>2, Zenon DEF OpenDatabase
<1> QED
  BY <1>1, <1>5, <1>6, <1>7

\* A leaf of the in-memory route is opened or asked, or a reader is closed.
LEMMA LeafKeepsReaders ==
  ASSUME PhaseInv, ReaderTypes, NEW r \in Req, ReaderInv(r), NEW i \in Reader,
         OpenLeaf(r, i) \/ LeafNext(r, i) \/ CloseReader(r, i)
  PROVE  ReaderTypes' /\ ReaderInv(r)' /\ UNCHANGED job
<1>1. x[r] \in {"read", "close"} /\ UNCHANGED <<job, route>>
  BY Zenon DEF OpenLeaf, LeafNext, CloseReader, InMemoryRead
<1>2. x'[r] \in {"read", "close"}
  BY <1>1, Zenon DEF OpenLeaf, LeafNext, CloseReader, DalgoReportsOrGoesOn, PhaseInv
<1>3. job[r] \in DOMAIN Query
  BY <1>1, Zenon DEF ReaderInv, Resting
<1>4. i \in Sources(r)
  BY Zenon DEF OpenLeaf, LeafNext, CloseReader, ReaderInv, Touches
<1>5. leaf[r][i] \in LeafStates /\ hold[r][i] \in HoldStates
  BY Indices DEF ReaderTypes
<1>6. \E l \in LeafStates : leaf' = [leaf EXCEPT ![r][i] = l]
  <2>1. leaf = [leaf EXCEPT ![r][i] = leaf[r][i]]
    BY DEF ReaderTypes
  <2>2. UNCHANGED leaf
          \/ \E l \in {"open", "closed", "failed", "drained"} : leaf' = [leaf EXCEPT ![r][i] = l]
    BY Zenon DEF OpenLeaf, LeafNext, CloseReader, Opened
  <2> QED
    BY <2>1, <2>2, <1>5, Zenon DEF LeafStates
<1>7. \E t \in HoldStates : hold' = [hold EXCEPT ![r][i] = t]
  <2>1. hold = [hold EXCEPT ![r][i] = hold[r][i]]
    BY Indices DEF ReaderTypes
  <2>2. UNCHANGED hold
          \/ \E t \in {"held", "freed", hold[r][i]} : hold' = [hold EXCEPT ![r][i] = t]
    BY Zenon DEF OpenLeaf, LeafNext, CloseReader, Opened
  <2> QED
    BY <2>1, <2>2, <1>5, Zenon DEF HoldStates
<1> QED
  BY <1>1, <1>2, <1>3, <1>4, <1>6, <1>7, ReaderChanges, Zenon

LEMMA ReadStepKeepsReaders ==
  ASSUME PhaseInv, ReaderTypes, NEW r \in Req, ReaderInv(r), ReadStep(r)
  PROVE  ReaderTypes' /\ ReaderInv(r)' /\ UNCHANGED job /\ x[r] \notin Resting
<1>1. CASE TakeSlot(r) \/ Enqueue(r) \/ TurnAway(r)
  <2>1. x[r] \in {"admit", "queued"} /\ UNCHANGED <<job, leaf, hold>>
    BY <1>1, Zenon DEF TakeSlot, Enqueue, TurnAway
  <2>2. job[r] \in DOMAIN Query /\ (\A i \in Reader : ~Touches(r, i)) /\ hold[r][0] \notin Taken
    BY <2>1, Zenon DEF ReaderInv, Resting
  <2> QED
    BY <2>1, <2>2, PhaseKeepsReaders, Zenon DEF Resting
<1>2. CASE ReleaseSlot(r)
  BY <1>2, ReleaseKeepsReaders, Zenon DEF ReleaseSlot, Resting
<1>3. CASE OpenSingle(r) \/ OpenDatabase(r) \/ OpenMemory(r)
  BY <1>3, OpenKeepsReaders, Zenon DEF OpenSingle, OpenDatabase, OpenMemory, Resting
<1>4. CASE \E i \in Reader : OpenLeaf(r, i) \/ LeafNext(r, i) \/ CloseReader(r, i)
  BY <1>4, LeafKeepsReaders, ZenonT(60) DEF OpenLeaf, LeafNext, CloseReader, InMemoryRead, Resting
<1>5. CASE OverBudget(r) \/ ReadEnds(r) \/ ContextEnds(r) \/ ReaderFails(r) \/ ReaderTruncated(r)
  <2>1. x[r] \in {"read", "sread"} /\ x'[r] = "close" /\ UNCHANGED <<job, route, leaf, hold>>
    BY <1>5, Zenon DEF OverBudget, ReadEnds, ContextEnds, ReaderFails, ReaderTruncated, StopReading,
       RowReady, AtEnd, Reading, PhaseInv
  <2>2. job[r] \in DOMAIN Query
    BY <2>1 DEF ReaderInv, Resting
  <2>3. hold[r][0] \in Taken => route'[r] = "database"
    BY <2>1, Zenon DEF ReaderInv
  <2> QED
    BY <2>1, <2>2, <2>3, PhaseKeepsReaders, Zenon DEF Resting
<1>6. CASE AllClosed(r)
  <2>1. x[r] = "close" /\ UNCHANGED <<job, route, leaf, hold>> /\ \A i \in Reader : ~Touches(r, i)
    BY <1>6, Zenon DEF AllClosed, TxAwaited, Touches, Taken
  <2>2. job[r] \in DOMAIN Query
    BY <2>1 DEF ReaderInv, Resting
  <2>3. hold[r][0] \in Taken => route[r] = "database"
    BY DEF ReaderInv
  <2>4. route[r] = "database" => x'[r] = "endtx"
    BY <1>6, Zenon DEF AllClosed, PhaseInv
  <2> QED
    BY <2>1, <2>2, <2>3, <2>4, PhaseKeepsReaders, Zenon DEF Resting
<1>7. CASE EndTx(r)
  <2>1. /\ x[r] = "endtx" /\ x'[r] = "release" /\ UNCHANGED <<job, leaf, route>>
        /\ hold' = [hold EXCEPT ![r][0] = "ended"]
    BY <1>7, Zenon DEF EndTx, PhaseInv
  <2>2. job[r] \in DOMAIN Query /\ \A i \in Reader : ~Touches(r, i)
    BY <2>1 DEF ReaderInv, Resting
  <2>3. ReaderTypes' /\ hold'[r][0] = "ended" /\ \A i \in Reader : hold'[r][i] = hold[r][i]
    BY <2>1, Indices, Zenon DEF ReaderTypes, HoldStates
  <2>4. \A i \in Reader : ~Touches(r, i)'
    BY <2>1, <2>2, <2>3, Zenon DEF Touches
  <2> QED
    BY <2>1, <2>2, <2>3, <2>4, Zenon DEF ReaderInv, Resting, Taken
<1> QED
  BY <1>1, <1>2, <1>3, <1>4, <1>5, <1>6, <1>7, Zenon DEF ReadStep

\* Whatever request r does leaves the reads of the others alone.
OnlyOf(r) ==
  \A q \in Req : q # r =>
    /\ x'[q] = x[q] /\ route'[q] = route[q] /\ job'[q] = job[q]
    /\ leaf'[q] = leaf[q] /\ hold'[q] = hold[q]

LEMMA ReadStepIsOnlyOf ==
  ASSUME PhaseInv, ReaderTypes, NEW r \in Req, ReadStep(r)
  PROVE  OnlyOf(r)
<1>1. CASE TakeSlot(r) \/ Enqueue(r) \/ TurnAway(r)
  BY <1>1, Zenon DEF TakeSlot, Enqueue, TurnAway, Refused, OnlyOf, PhaseInv, ReaderTypes
<1>2. CASE ReleaseSlot(r)
  BY <1>2, Zenon DEF ReleaseSlot, OnlyOf, PhaseInv, ReaderTypes
<1>3. CASE OpenSingle(r)
  BY <1>3, Zenon DEF OpenSingle, Opened, Refused, OnlyOf, PhaseInv, ReaderTypes
<1>4. CASE OpenDatabase(r) \/ OpenMemory(r)
  BY <1>4, Zenon DEF OpenDatabase, OpenMemory, GiveUp, OnlyOf, PhaseInv, ReaderTypes
<1>5. CASE \E i \in Reader : OpenLeaf(r, i)
  BY <1>5, ZenonT(60) DEF OpenLeaf, Opened, DalgoReportsOrGoesOn, OnlyOf, PhaseInv, ReaderTypes
<1>6. CASE \E i \in Reader : LeafNext(r, i)
  BY <1>6, Zenon DEF LeafNext, DalgoReportsOrGoesOn, OnlyOf, PhaseInv, ReaderTypes
<1>7. CASE \E i \in Reader : CloseReader(r, i)
  BY <1>7, Zenon DEF CloseReader, OnlyOf, PhaseInv, ReaderTypes
<1>8. CASE OverBudget(r) \/ ReadEnds(r) \/ ContextEnds(r) \/ ReaderFails(r) \/ ReaderTruncated(r)
  BY <1>8, Zenon
     DEF OverBudget, ReadEnds, ContextEnds, ReaderFails, ReaderTruncated, StopReading, OnlyOf,
     PhaseInv, ReaderTypes
<1>9. CASE AllClosed(r) \/ EndTx(r)
  BY <1>9, Zenon DEF AllClosed, EndTx, OnlyOf, PhaseInv, ReaderTypes
<1> QED
  BY <1>1, <1>2, <1>3, <1>4, <1>5, <1>6, <1>7, <1>8, <1>9, Zenon DEF ReadStep

Readers == ReaderTypes /\ \A r \in Req : ReaderInv(r)

LEMMA OneKeepsReaders ==
  ASSUME Readers, NEW r \in Req, OnlyOf(r), ReaderTypes', ReaderInv(r)'
  PROVE  Readers'
<1>1. ASSUME NEW q \in Req, q # r PROVE ReaderInv(q)'
  <2>1. ReaderInv(q)
    BY DEF Readers
  <2> QED
    BY <1>1, <2>1, Zenon DEF OnlyOf, ReaderInv, Touches, Sources
<1> QED
  BY <1>1 DEF Readers

\* The databases: what is leased is not closed, and a read is of leased databases.
LeaseFacts ==
  /\ lease \in [Req -> SUBSET DB] /\ mounted \in SUBSET DB /\ closed \in SUBSET DB
  /\ mounted \cap closed = {}
  /\ \A r \in Req :
       /\ lease[r] \cap closed = {}
       /\ x[r] \notin Resting => Databases(job[r]) \subseteq lease[r]
       /\ h[r] \in {"routed", "targets", "lease", "begin", "read"} => req[r] \in DOMAIN Query
       /\ h[r] = "routed" => IsSingle(req[r]) /\ Query[req[r]].endpoint \in lease[r]
  /\ req \in [Req -> DOMAIN Query \cup {NoRequest}]

LEMMA BeginSingleKeepsReaders ==
  ASSUME PhaseInv, Readers, LeaseFacts, NEW r \in Req, h[r] = "routed", BeginSingle(r, req[r])
  PROVE  Readers'
<1>1. /\ x[r] = "idle" /\ job' = [job EXCEPT ![r] = req[r]] /\ UNCHANGED <<leaf, hold>>
      /\ route' = [route EXCEPT ![r] = "single"]
      /\ \E ph \in {"sopen", "returned"} : x' = [x EXCEPT ![r] = ph]
  BY Zenon DEF BeginSingle
<1>2. req[r] \in DOMAIN Query
  BY Zenon DEF LeaseFacts
<1>3. ReaderTypes'
  BY <1>1, <1>2, Zenon DEF Readers, ReaderTypes
<1>4. OnlyOf(r) /\ job'[r] = req[r]
  BY <1>1, Zenon DEF OnlyOf, PhaseInv, Readers, ReaderTypes
<1>5. (\A i \in Reader : ~Touches(r, i)) /\ hold[r][0] \notin Taken
  BY <1>1, Zenon DEF Readers, ReaderInv
<1>6. ReaderInv(r)'
  BY <1>1, <1>2, <1>4, <1>5, Zenon DEF ReaderInv, Touches
<1> QED
  BY <1>3, <1>4, <1>6, OneKeepsReaders, Zenon

LEMMA BeginKeepsReaders ==
  ASSUME PhaseInv, Readers, LeaseFacts, NEW r \in Req, h[r] = "begin",
         Begin(r, req[r], lease[r], JoinEngines, NativeEngines)
  PROVE  Readers'
<1>1. /\ x[r] = "idle" /\ UNCHANGED <<leaf, hold>>
      /\ \/ x' = [x EXCEPT ![r] = "returned"] /\ UNCHANGED <<job, route>>
         \/ /\ x' = [x EXCEPT ![r] = "admit"] /\ job' = [job EXCEPT ![r] = req[r]]
            /\ \E rt \in Gated : route' = [route EXCEPT ![r] = rt]
  BY Zenon DEF Begin, RouteOf, Gated
<1>2. req[r] \in DOMAIN Query
  BY Zenon DEF LeaseFacts
<1>3. ReaderTypes'
  BY <1>1, <1>2, Zenon DEF Readers, ReaderTypes
<1>4. OnlyOf(r) /\ (x'[r] \notin Resting => job'[r] = req[r])
  BY <1>1, Zenon DEF OnlyOf, PhaseInv, Readers, ReaderTypes, Resting
<1>5. (\A i \in Reader : ~Touches(r, i)) /\ hold[r][0] \notin Taken
  BY <1>1, Zenon DEF Readers, ReaderInv
<1>6. ReaderInv(r)'
  BY <1>1, <1>2, <1>4, <1>5, Zenon DEF ReaderInv, Touches
<1> QED
  BY <1>3, <1>4, <1>6, OneKeepsReaders, Zenon

LEMMA ForgetKeepsReaders ==
  ASSUME PhaseInv, Readers, NEW r \in Req, x[r] \in Resting, Forget(r)
  PROVE  Readers'
<1>1. ReaderTypes /\ ReaderInv(r)
  BY DEF Readers
<1>2. (\A i \in Reader : ~Touches(r, i)) /\ hold[r][0] \notin Taken
  BY <1>1, Zenon DEF ReaderInv, Resting
<1>3. ~Abandoned(r)
  <2>1. \A i \in Idx : i = 0 \/ i \in Reader
    BY ExecutorAssumption DEF Idx, Reader
  <2> QED
    BY <1>2, <2>1 DEF Abandoned, Touches, Taken
<1>4. /\ job' = [job EXCEPT ![r] = NoJob] /\ leaf' = [leaf EXCEPT ![r] = Unread]
      /\ hold' = [hold EXCEPT ![r] = NoHold] /\ x' = [x EXCEPT ![r] = "returned"]
      /\ route' = [route EXCEPT ![r] = "none"]
  BY <1>3, Zenon DEF Forget
<1>5. ReaderTypes'
  BY <1>1, <1>4, Zenon DEF ReaderTypes, Unread, NoHold, LeafStates, HoldStates
<1>6. OnlyOf(r) /\ leaf'[r] = Unread /\ hold'[r] = NoHold /\ x'[r] = "returned"
  BY <1>1, <1>4, Zenon DEF OnlyOf, PhaseInv, ReaderTypes
<1>7. (\A i \in Reader : ~Touches(r, i)') /\ hold'[r][0] \notin Taken
  BY <1>6, Indices DEF Touches, IsOpen, Unread, NoHold, Taken
<1>8. ReaderInv(r)'
  BY <1>6, <1>7, Zenon DEF ReaderInv, Resting
<1> QED
  BY <1>5, <1>6, <1>8, OneKeepsReaders, Zenon

LEMMA ReadersStep ==
  ASSUME PhaseInv, Readers, LeaseFacts, [Next]_vars
  PROVE  Readers'
<1>1. ASSUME UNCHANGED <<x, route, job, leaf, hold>> PROVE Readers'
  BY <1>1, Zenon DEF Readers, ReaderTypes, ReaderInv, Touches, Sources
<1>2. CASE \E r \in Req : OutOfRead(r)
  <2>1. PICK r \in Req : OutOfRead(r)
    BY <1>2
  <2>2. x[r] \in Resting
    BY <2>1, OutOfReadMoves, Zenon
  <2>3. CASE UNCHANGED xvars
    BY <1>1, <2>3 DEF xvars
  <2>4. CASE RouteSingle(r)
    BY <2>4, <2>3, BeginSingleKeepsReaders DEF RouteSingle
  <2>5. CASE StartRelational(r)
    BY <2>5, BeginKeepsReaders, Zenon DEF StartRelational
  <2>6. CASE Return(r)
    BY <2>2, <2>6, ForgetKeepsReaders, Zenon DEF Return
  <2> QED
    BY <2>1, <2>3, <2>4, <2>5, <2>6, Zenon DEF OutOfRead, Arrive, SettleTargets, LeaseNext, Stages,
       ReadFailed, EvidenceFailed, Finish
<1>3. CASE \E r \in Req : Step(r)
  <2>1. PICK r \in Req : Step(r)
    BY <1>3
  <2>2. ReadStep(r) /\ ReaderTypes /\ ReaderInv(r)
    BY <2>1 DEF Step, Readers
  <2> QED
    BY <2>2, ReadStepKeepsReaders, ReadStepIsOnlyOf, OneKeepsReaders
<1>4. CASE \E r \in Req, how \in RowOutcomes : WriteRow(r, how)
  <2>1. PICK r \in Req, ok \in BOOLEAN : Deliver(r, ok)
    BY <1>4, Zenon DEF WriteRow
  <2>2. /\ x[r] \in {"read", "sread"} /\ UNCHANGED <<job, route, leaf, hold>>
        /\ UNCHANGED x \/ (x' = [x EXCEPT ![r] = "close"])
    BY <2>1, Zenon DEF Deliver, RowReady, Reading
  <2>3. CASE UNCHANGED x
    BY <1>1, <2>2, <2>3
  <2>4. CASE x' = [x EXCEPT ![r] = "close"]
    <3>1. OnlyOf(r) /\ x'[r] = "close"
      BY <2>2, <2>4, Zenon DEF OnlyOf, PhaseInv
    <3>2. ReaderTypes /\ ReaderInv(r)
      BY DEF Readers
    <3>3. job[r] \in DOMAIN Query /\ (hold[r][0] \in Taken => route'[r] = "database")
      BY <2>2, <3>2, Zenon DEF ReaderInv, Resting
    <3>4. ReaderTypes' /\ ReaderInv(r)'
      BY <2>2, <3>1, <3>2, <3>3, PhaseKeepsReaders, Zenon
    <3> QED
      BY <3>1, <3>4, OneKeepsReaders
  <2> QED
    BY <2>2, <2>3, <2>4
<1>5. CASE \E r \in Req : GoroutineEnds(r)
  <2>1. PICK r \in Req, i \in Idx : TxEnds(r, i)
    BY <1>5 DEF GoroutineEnds
  <2>2. /\ i \in Reader /\ hold[r][i] \in Taken /\ hold' = [hold EXCEPT ![r][i] = "ended"]
        /\ UNCHANGED <<job, x, route, leaf>>
    <3>1. i \in Reader
      BY <2>1, ExecutorAssumption DEF TxEnds, Idx, Reader
    <3> QED
      BY <2>1, <3>1, Zenon DEF TxEnds, Taken
  <2>3. ReaderTypes /\ ReaderInv(r)
    BY DEF Readers
  <2>4. i \in Sources(r) /\ x[r] \in {"read", "sread", "close"}
    BY <2>2, <2>3, Zenon DEF ReaderInv, Touches
  <2>5. hold[r][0] \in Taken => x[r] \in {"read", "close"}
    BY <2>3, <2>4, Zenon DEF ReaderInv
  <2>6. job[r] \in DOMAIN Query
    BY <2>3, <2>4, Zenon DEF ReaderInv, Resting
  <2>7. leaf' = [leaf EXCEPT ![r][i] = leaf[r][i]] /\ leaf[r][i] \in LeafStates
    BY <2>2, <2>3, Zenon DEF ReaderTypes
  <2>8. ReaderTypes' /\ ReaderInv(r)'
    BY <2>2, <2>3, <2>4, <2>5, <2>6, <2>7, ReaderChanges, Zenon DEF HoldStates
  <2>9. OnlyOf(r)
    BY <2>2, <2>3, Zenon DEF OnlyOf, ReaderTypes
  <2> QED
    BY <2>8, <2>9, OneKeepsReaders
<1>6. CASE \E r \in Req, kind \in {"new", "repeat", "invalid"} : Observe(r, kind)
  BY <1>1, <1>6, Zenon DEF Observe, xvars
<1>7. CASE \E r \in Req : Environment(r)
  BY <1>1, <1>7, Zenon DEF Environment, Cancelled, Expires
<1>8. CASE \E b \in DB : Unmount(b) \/ CloseDrained(b)
  BY <1>1, <1>8, Zenon DEF Unmount, CloseDrained, xvars
<1>9. CASE UNCHANGED vars
  BY <1>1, <1>9, Zenon DEF vars, xvars
<1> QED
  BY <1>2, <1>3, <1>4, <1>5, <1>6, <1>7, <1>8, <1>9, NextCases, Zenon

\* The preflight passes only what the registry, the leased databases, has.
LEMMA PreflightResolves ==
  ASSUME NEW q, NEW registry, NEW joinEngines, Preflight(q, registry, joinEngines) = NoErr
  PROVE  Databases(q) \subseteq registry
BY DEF Preflight, NoErr

LEMMA LeaseFactsStep ==
  ASSUME PhaseInv, Readers, LeaseFacts, [Next]_vars
  PROVE  LeaseFacts'
<1>1. ASSUME UNCHANGED <<x, job, lease, h, req, mounted, closed>> PROVE LeaseFacts'
  BY <1>1, Zenon DEF LeaseFacts
<1>2. CASE \E r \in Req : OutOfRead(r)
  <2>1. PICK r \in Req : OutOfRead(r)
    BY <1>2
  <2>2. x[r] \in Resting
    BY <2>1, OutOfReadMoves, Zenon
  <2>3. CASE \E q \in Asked(r) : Arrive(r, q)
    <3>1. PICK q \in DOMAIN Query : Arrive(r, q)
      BY <2>3, QueryAssumption, Zenon
    <3>2. /\ UNCHANGED <<x, job, mounted, closed>> /\ req' = [req EXCEPT ![r] = q]
          /\ \E n \in {"targets", "routed", "end"} : h' = [h EXCEPT ![r] = n]
          /\ \/ UNCHANGED lease /\ h'[r] # "routed"
             \/ /\ Query[q].endpoint \in mounted
                /\ lease' = [lease EXCEPT ![r] = {Query[q].endpoint}]
                /\ h'[r] = "routed" => IsSingle(q)
      BY <3>1, Zenon DEF Arrive, LeaseFacts, PhaseInv, Goto, Answer, AnswerOr, xvars
    <3> QED
      BY <2>2, <3>2 DEF LeaseFacts, PhaseInv, Goto, Answer, AnswerOr, xvars
  <2>4. CASE RouteSingle(r)
    <3>1. /\ UNCHANGED <<req, lease, mounted, closed>> /\ h[r] = "routed"
          /\ \E n \in {"read", "end"} : h' = [h EXCEPT ![r] = n]
      BY <2>4, Zenon DEF RouteSingle, LeaseFacts, PhaseInv, Goto, Answer, AnswerOr, xvars
    <3>2. \/ UNCHANGED <<x, job>>
          \/ /\ job' = [job EXCEPT ![r] = req[r]]
             /\ \E ph \in {"sopen", "returned"} : x' = [x EXCEPT ![r] = ph]
      BY <2>4, Zenon
         DEF RouteSingle, BeginSingle, LeaseFacts, PhaseInv, Goto, Answer, AnswerOr, xvars
    <3>3. Databases(req[r]) \subseteq lease[r]
      <4>1. /\ req[r] \in DOMAIN Query /\ IsSingle(req[r])
            /\ Query[req[r]].endpoint \in lease[r]
        BY <3>1, Zenon DEF LeaseFacts
      <4>2. Databases(req[r]) = {Query[req[r]].endpoint}
        BY <4>1, SingleSource, Zenon
      <4> QED
        BY <4>1, <4>2, Zenon
    <3>4. \A q \in Req : x'[q] \notin Resting => Databases(job'[q]) \subseteq lease[q]
      BY <2>2, <3>2, <3>3, Zenon
         DEF Readers, ReaderTypes, LeaseFacts, PhaseInv, Goto, Answer, AnswerOr,
         xvars
    <3> QED
      BY <3>1, <3>4, Zenon DEF LeaseFacts, PhaseInv, Goto, Answer, AnswerOr, xvars
  <2>5. CASE SettleTargets(r) \/ Stages(r)
    <3>1. /\ UNCHANGED <<x, job, req, lease, mounted, closed>>
          /\ h[r] \in {"targets", "lease"}
          /\ \E n \in {"lease", "begin", "end"} : h' = [h EXCEPT ![r] = n]
      BY <2>5, Zenon DEF SettleTargets, Stages, LeaseFacts, PhaseInv, Goto, Answer, AnswerOr, xvars
    <3> QED
      BY <3>1, Zenon DEF LeaseFacts, PhaseInv, Goto, Answer, AnswerOr, xvars
  <2>6. CASE LeaseNext(r)
    <3>1. /\ UNCHANGED <<x, job, req, mounted, closed>> /\ h[r] = "lease"
          /\ UNCHANGED h \/ (h' = [h EXCEPT ![r] = "end"])
          /\ UNCHANGED lease \/ \E b \in mounted : lease' = [lease EXCEPT ![r] = @ \cup {b}]
      BY <2>6, Zenon DEF LeaseNext, LeaseFacts, PhaseInv, Goto, Answer, AnswerOr, xvars
    <3> QED
      BY <2>2, <3>1, SMTT(10), SMTT(30) DEF LeaseFacts, PhaseInv, Goto, Answer, AnswerOr, xvars
  <2>7. CASE StartRelational(r)
    <3>1. /\ UNCHANGED <<req, lease, mounted, closed>> /\ h[r] = "begin"
          /\ h' = [h EXCEPT ![r] = "read"]
      BY <2>7, Zenon DEF StartRelational, LeaseFacts, PhaseInv, Goto, Answer, AnswerOr, xvars
    <3>2. \/ x' = [x EXCEPT ![r] = "returned"] /\ UNCHANGED job
          \/ /\ x' = [x EXCEPT ![r] = "admit"] /\ job' = [job EXCEPT ![r] = req[r]]
             /\ Databases(req[r]) \subseteq lease[r]
      BY <2>7, PreflightResolves, ZenonT(60) DEF StartRelational, Begin
    <3>3. \A q \in Req : x'[q] \notin Resting => Databases(job'[q]) \subseteq lease[q]
      BY <2>2, <3>2, Zenon DEF Readers, ReaderTypes, Resting, LeaseFacts, PhaseInv, Goto, Answer,
         AnswerOr, xvars
    <3> QED
      BY <3>1, <3>3, Zenon DEF LeaseFacts, PhaseInv, Goto, Answer, AnswerOr, xvars
  <2>8. CASE ReadFailed(r) \/ EvidenceFailed(r) \/ Finish(r)
    <3>1. UNCHANGED <<x, job, req, lease, mounted, closed>> /\ h' = [h EXCEPT ![r] = "end"]
      BY <2>8, Zenon
         DEF ReadFailed, EvidenceFailed, Finish, LeaseFacts, PhaseInv, Goto, Answer, AnswerOr,
         xvars
    <3> QED
      BY <3>1, Zenon DEF LeaseFacts, PhaseInv, Goto, Answer, AnswerOr, xvars
  <2>9. CASE Return(r)
    <3>1. /\ UNCHANGED <<mounted, closed>> /\ h' = [h EXCEPT ![r] = "done"]
          /\ lease' = [lease EXCEPT ![r] = {}] /\ req' = [req EXCEPT ![r] = NoRequest]
          /\ x' = [x EXCEPT ![r] = "returned"]
          /\ UNCHANGED job \/ (job' = [job EXCEPT ![r] = NoJob])
      BY <2>9, Zenon DEF Return, Forget, LeaseFacts, PhaseInv, Goto, Answer, AnswerOr, xvars
    <3>2. \A q \in Req : x'[q] \notin Resting => Databases(job'[q]) \subseteq lease'[q]
      BY <3>1, Zenon
         DEF Readers, ReaderTypes, Resting, LeaseFacts, PhaseInv, Goto, Answer, AnswerOr, xvars
    <3> QED
      BY <3>1, <3>2, Zenon DEF LeaseFacts, PhaseInv, Goto, Answer, AnswerOr, xvars
  <2> QED
    BY <2>1, <2>3, <2>4, <2>5, <2>6, <2>7, <2>8, <2>9, Zenon DEF OutOfRead
<1>3. CASE \E r \in Req : Step(r)
  <2>1. PICK r \in Req : Step(r)
    BY <1>3
  <2>2. ReadStep(r) /\ UNCHANGED <<lease, h, req, mounted, closed>>
    BY <2>1 DEF Step, svars
  <2>3. UNCHANGED job /\ x[r] \notin Resting /\ OnlyOf(r)
    BY <2>2, ReadStepKeepsReaders, ReadStepIsOnlyOf DEF Readers
  <2>4. \A q \in Req : x'[q] \notin Resting => x[q] \notin Resting
    BY <2>3 DEF OnlyOf
  <2> QED
    BY <2>2, <2>3, <2>4, Zenon DEF LeaseFacts
<1>4. CASE \E r \in Req, how \in RowOutcomes : WriteRow(r, how)
  <2>1. PICK r \in Req, how \in RowOutcomes : WriteRow(r, how)
    BY <1>4
  <2>2. /\ UNCHANGED <<job, lease, h, req, mounted, closed>> /\ x[r] \notin Resting
        /\ UNCHANGED x \/ (x' = [x EXCEPT ![r] = "close"])
    BY <2>1, Zenon DEF WriteRow, Deliver, RowReady, Reading, Resting
  <2>3. \A q \in Req : x'[q] \notin Resting => x[q] \notin Resting
    BY <2>2, Zenon DEF PhaseInv
  <2> QED
    BY <2>2, <2>3, Zenon DEF LeaseFacts
<1>5. CASE \E r \in Req : GoroutineEnds(r)
  BY <1>1, <1>5, Zenon DEF GoroutineEnds, TxEnds, svars
<1>6. CASE \E r \in Req, kind \in {"new", "repeat", "invalid"} : Observe(r, kind)
  BY <1>1, <1>6, Zenon DEF Observe, xvars
<1>7. CASE \E r \in Req : Environment(r)
  BY <1>1, <1>7, Zenon DEF Environment, Cancelled, Expires, svars
<1>8. CASE \E b \in DB : Unmount(b)
  BY <1>8, Zenon DEF Unmount, xvars, LeaseFacts
<1>9. CASE \E b \in DB : CloseDrained(b)
  BY <1>9, Zenon DEF CloseDrained, xvars, LeaseFacts
<1>10. CASE UNCHANGED vars
  BY <1>1, <1>10, Zenon DEF vars, xvars, svars
<1> QED
  BY <1>2, <1>3, <1>4, <1>5, <1>6, <1>7, <1>8, <1>9, <1>10, NextCases, Zenon

LEMMA LeaseInit == Init => Readers /\ LeaseFacts
<1> SUFFICES ASSUME Init PROVE Readers /\ LeaseFacts
  OBVIOUS
<1>1. ReaderTypes
  BY DEF Init, XInit, ReaderTypes, Unread, NoHold, LeafStates, HoldStates
<1>2. \A r \in Req : x[r] = "idle" /\ leaf[r] = Unread /\ hold[r] = NoHold
  BY DEF Init, XInit
<1>3. \A r \in Req : (\A i \in Reader : ~Touches(r, i)) /\ hold[r][0] \notin Taken
  BY <1>2, Indices DEF Touches, IsOpen, Unread, NoHold, Taken
<1>4. Readers
  BY <1>1, <1>2, <1>3 DEF Readers, ReaderInv, Resting
<1>5. LeaseFacts
  BY <1>2, Zenon DEF Init, SInit, LeaseFacts, Resting
<1> QED
  BY <1>4, <1>5

ReadInv == GateInv /\ Readers /\ LeaseFacts

\* The inductive invariant behind the gate and the leases.
THEOREM ReadInvariant == Spec => []ReadInv
<1>1. Init => ReadInv
  BY GateInit, LeaseInit DEF ReadInv
<1>2. ReadInv /\ [Next]_vars => ReadInv'
  BY GateStep, ReadersStep, LeaseFactsStep DEF ReadInv, GateInv
<1> QED
  BY <1>1, <1>2, PTL DEF Spec

LEMMA LeasedWhileRead == ReadInv => ReadsAreLeased
<1> SUFFICES ASSUME ReadInv, NEW r \in Req
             PROVE  /\ \A i \in Reader : Touches(r, i) =>
                         i \in Sources(r) /\ Targets(r)[i].db \in lease[r] \ closed
                    /\ hold[r][0] \in Taken => Targets(r)[1].db \in lease[r] \ closed
  BY Zenon DEF ReadsAreLeased, Touches, Taken
<1>1. ReaderInv(r) /\ lease[r] \cap closed = {}
  BY Zenon DEF ReadInv, Readers, LeaseFacts
<1>2. ASSUME x[r] \notin Resting, NEW i \in Sources(r)
      PROVE  Targets(r)[i].db \in lease[r] \ closed
  <2>1. job[r] \in DOMAIN Query /\ Databases(job[r]) \subseteq lease[r]
    BY <1>1, <1>2, Zenon DEF ReaderInv, ReadInv, LeaseFacts
  <2>2. Targets(r)[i].db \in Databases(job[r])
    BY <1>2, <2>1, SourcesOfQuery, Zenon DEF Targets, Databases, Sources
  <2> QED
    BY <1>1, <2>1, <2>2
<1>3. ASSUME NEW i \in Reader, Touches(r, i)
      PROVE  i \in Sources(r) /\ Targets(r)[i].db \in lease[r] \ closed
  <2>1. i \in Sources(r) /\ x[r] \notin Resting
    BY <1>1, <1>3 DEF ReaderInv, Resting
  <2> QED
    BY <2>1, <1>2
<1>4. ASSUME hold[r][0] \in Taken PROVE Targets(r)[1].db \in lease[r] \ closed
  <2>1. x[r] \notin Resting /\ job[r] \in DOMAIN Query
    BY <1>1, <1>4, Zenon DEF ReaderInv, Resting
  <2>2. 1 \in Sources(r)
    BY <2>1, SourcesOfQuery DEF Sources
  <2> QED
    BY <2>1, <2>2, <1>2
<1> QED
  BY <1>3, <1>4, Zenon

\* While a reader is open, or a transaction beneath one has not ended, the request is counted
\* in flight on its database and Unmount has not closed it.
THEOREM ReadsLeased == Spec => []ReadsAreLeased
BY ReadInvariant, LeasedWhileRead, PTL
=============================================================================

-------------------------- MODULE QueryAnswerProofs --------------------------
(***************************************************************************)
(* Proofs about the answers of QueryService for any databases, queries,    *)
(* requests, pools and bounds, whatever fails: an answer tells nothing to  *)
(* a caller who may not read what the document names, no refusal but one   *)
(* of a row or footer that could not be written is marked public, and its  *)
(* evidence is of the read that it is about.                               *)
(***************************************************************************)
EXTENDS QueryReadProofs

(***************************************************************************)
(* The answers.                                                            *)
(***************************************************************************)
ServiceTypes ==
  /\ DOMAIN answer = Req /\ DOMAIN cache = Req /\ DOMAIN started = Req
  /\ DOMAIN reads = Req /\ DOMAIN mismatch = Req /\ DOMAIN cited = Req
  /\ DOMAIN unwritten = Req

\* What the handler of r does leaves the others alone.
HandlerOnlyOf(r) ==
  \A q \in Req : q # r =>
    /\ h'[q] = h[q] /\ req'[q] = req[q] /\ lease'[q] = lease[q] /\ answer'[q] = answer[q]
    /\ cache'[q] = cache[q] /\ started'[q] = started[q] /\ reads'[q] = reads[q]
    /\ mismatch'[q] = mismatch[q] /\ cited'[q] = cited[q] /\ unwritten'[q] = unwritten[q]

LEMMA HandlersAreOnlyOf ==
  ASSUME PhaseInv, LeaseFacts, ServiceTypes, NEW r \in Req,
         \/ OutOfRead(r)
         \/ \E how \in RowOutcomes : WriteRow(r, how)
         \/ \E kind \in {"new", "repeat", "invalid"} : Observe(r, kind)
  PROVE  ServiceTypes' /\ HandlerOnlyOf(r)
<1>0. DOMAIN h = Req /\ DOMAIN req = Req /\ DOMAIN lease = Req
  BY Zenon DEF PhaseInv, LeaseFacts
<1> USE <1>0
<1>1. CASE \E q \in Asked(r) : Arrive(r, q)
  BY <1>1 DEF Arrive, ServiceTypes, HandlerOnlyOf, Goto, Answer, AnswerOr, streamvars
<1>2. CASE RouteSingle(r)
  BY <1>2, Zenon DEF RouteSingle, ServiceTypes, HandlerOnlyOf, Goto, Answer, AnswerOr, streamvars
<1>3. CASE SettleTargets(r) \/ Stages(r)
  BY <1>3, Zenon
     DEF SettleTargets, Stages, ServiceTypes, HandlerOnlyOf, Goto, Answer, AnswerOr, streamvars
<1>4. CASE LeaseNext(r)
  BY <1>4, Zenon DEF LeaseNext, ServiceTypes, HandlerOnlyOf, Goto, Answer, AnswerOr, streamvars
<1>5. CASE StartRelational(r)
  BY <1>5, Zenon
     DEF StartRelational, ServiceTypes, HandlerOnlyOf, Goto, Answer, AnswerOr, streamvars
<1>6. CASE ReadFailed(r)
  BY <1>6, Zenon DEF ReadFailed, FailAnswer, ServiceTypes, HandlerOnlyOf, Goto, Answer, AnswerOr,
     streamvars
<1>7. CASE EvidenceFailed(r)
  BY <1>7, Zenon
     DEF EvidenceFailed, FailAnswer, ServiceTypes, HandlerOnlyOf, Goto, Answer, AnswerOr,
     streamvars
<1>8. CASE Finish(r)
  BY <1>8, Zenon
     DEF Finish, FailAnswer, ServiceTypes, HandlerOnlyOf, Goto, Answer, AnswerOr, streamvars
<1>9. CASE Return(r)
  BY <1>9, Zenon DEF Return, ServiceTypes, HandlerOnlyOf, Goto, Answer, AnswerOr, streamvars
<1>10. CASE \E how \in RowOutcomes : WriteRow(r, how)
  BY <1>10, Zenon DEF WriteRow, ServiceTypes, HandlerOnlyOf, Goto, Answer, AnswerOr, streamvars
<1>11. CASE \E kind \in {"new", "repeat", "invalid"} : Observe(r, kind)
  BY <1>11, Zenon DEF Observe, ServiceTypes, HandlerOnlyOf, Goto, Answer, AnswerOr, streamvars
<1> QED
  BY <1>1, <1>2, <1>3, <1>4, <1>5, <1>6, <1>7, <1>8, <1>9, <1>10, <1>11, Zenon DEF OutOfRead

\* The answers that tell nothing of what a document names, and the callers who may hear others.
Silent == {"none", "400", "403"}
Clear(r) == Reads(req[r]) \cap Query[req[r]].denied = {}

AnswerInv(r) ==
  /\ h[r] # "end" => answer[r] = "none"
  /\ h[r] = "idle" => lease[r] = {}
  /\ h[r] \in {"routed", "targets"} => lease[r] \subseteq {Query[req[r]].endpoint}
  /\ h[r] \in {"lease", "begin", "read"} => Clear(r)
  /\ answer[r] \notin Silent =>
       \/ Clear(r)
       \/ answer[r] = "404" /\ Query[req[r]].endpoint \notin mounted /\ lease[r] = {}
       \/ answer[r] = "422" /\ GuardRefused(req[r]) /\ lease[r] \subseteq {Query[req[r]].endpoint}

LEMMA SingleRefusalHides ==
  ASSUME NEW q \in DOMAIN Query, IsSingle(q)
  PROVE  \/ GuardRefused(q) /\ SingleRefusal(q) = "422"
         \/ SingleRefusal(q) = "403"
         \/ Reads(q) \cap Query[q].denied = {}
<1>1. CASE GuardRefused(q)
  BY <1>1, Zenon DEF SingleRefusal
<1>2. CASE <<Query[q].endpoint, Query[q].sources[1].coll>> \in Query[q].denied
  BY <1>1, <1>2, Zenon DEF SingleRefusal
<1>3. CASE <<Query[q].endpoint, Query[q].sources[1].coll>> \notin Query[q].denied
  BY <1>3, SingleSource, Zenon
<1> QED
  BY <1>2, <1>3

LEMMA TargetRefusalHides ==
  ASSUME NEW q
  PROVE  /\ TargetRefusal(q) \in Silent \cup {"422"}
         /\ TargetRefusal(q) = "422" => GuardRefused(q)
         /\ TargetRefusal(q) = "none" => Reads(q) \cap Query[q].denied = {}
BY Zenon DEF TargetRefusal, Silent

LEMMA OutOfReadAnswers ==
  ASSUME PhaseInv, LeaseFacts, ServiceTypes, NEW r \in Req, AnswerInv(r), OutOfRead(r)
  PROVE  AnswerInv(r)'
<1>1. CASE \E q \in Asked(r) : Arrive(r, q)
  <2>1. PICK q \in Asked(r) : Arrive(r, q)
    BY <1>1
  <2>2. /\ h[r] = "idle" /\ req'[r] = q /\ UNCHANGED mounted
        /\ \/ /\ h'[r] \in {"targets", "routed"} /\ UNCHANGED answer
              /\ lease'[r] \in {{}, {Query[q].endpoint}}
           \/ /\ h'[r] = "end" /\ answer'[r] = "404" /\ UNCHANGED lease
              /\ Query[q].endpoint \notin mounted
    BY <2>1, ZenonT(60)
       DEF Arrive, PhaseInv, LeaseFacts, ServiceTypes, Goto, Answer, AnswerOr, AnswerInv, Clear
  <2> QED
    BY <2>2, Zenon DEF Silent, AnswerInv, Clear
<1>2. CASE RouteSingle(r)
  <2>1. /\ h[r] = "routed" /\ UNCHANGED <<req, lease>> /\ req[r] \in DOMAIN Query /\ IsSingle(req[r])
        /\ \/ /\ SingleRefusal(req[r]) = "none" /\ h'[r] = "read" /\ UNCHANGED answer
           \/ h'[r] = "end" /\ answer'[r] = SingleRefusal(req[r])
    BY <1>2, Zenon
       DEF RouteSingle, PhaseInv, LeaseFacts, ServiceTypes, Goto, Answer, AnswerOr, AnswerInv,
       Clear
  <2>2. \/ GuardRefused(req[r]) /\ SingleRefusal(req[r]) = "422"
        \/ SingleRefusal(req[r]) = "403"
        \/ Clear(r)
    BY <2>1, SingleRefusalHides, Zenon DEF Clear
  <2>3. GuardRefused(req[r])' <=> GuardRefused(req[r])
    BY <2>1, Zenon DEF GuardRefused, GuardProviderRequest, GuardRetentionRead, IsSingle
  <2> QED
    BY <2>1, <2>2, <2>3, Zenon DEF Silent, AnswerInv, Clear
<1>3. CASE SettleTargets(r)
  <2>1. /\ h[r] = "targets" /\ UNCHANGED <<req, lease>>
        /\ \/ TargetRefusal(req[r]) = "none" /\ h'[r] = "lease" /\ UNCHANGED answer
           \/ h'[r] = "end" /\ answer'[r] = TargetRefusal(req[r])
    BY <1>3, Zenon
       DEF SettleTargets, PhaseInv, ServiceTypes, Goto, Answer, AnswerOr, AnswerInv, Clear
  <2> QED
    BY <2>1, TargetRefusalHides, Zenon DEF Silent, AnswerInv, Clear, GuardRefused,
       GuardProviderRequest, GuardRetentionRead, IsSingle
<1>4. CASE LeaseNext(r) \/ Stages(r) \/ StartRelational(r)
  <2>1. /\ h[r] \in {"lease", "begin"} /\ UNCHANGED req
        /\ \/ h'[r] \in {"lease", "begin", "read"} /\ UNCHANGED answer
           \/ h'[r] = "end"
    BY <1>4, Zenon
       DEF LeaseNext, Stages, StartRelational, PhaseInv, ServiceTypes, Goto, Answer, AnswerOr,
       AnswerInv, Clear
  <2> QED
    BY <2>1, Zenon DEF Silent, AnswerInv, Clear
<1>5. CASE ReadFailed(r) \/ EvidenceFailed(r) \/ Finish(r)
  <2>1. h[r] = "read" /\ UNCHANGED req /\ h'[r] = "end"
    BY <1>5, Zenon
       DEF ReadFailed, EvidenceFailed, Finish, ReadSucceeded, PhaseInv, Goto, Answer, AnswerOr,
       AnswerInv, Clear
  <2> QED
    BY <2>1, Zenon DEF Goto, Answer, AnswerOr, AnswerInv, Clear
<1>6. CASE Return(r)
  BY <1>6, Zenon
     DEF Return, PhaseInv, ServiceTypes, Silent, Goto, Answer, AnswerOr, AnswerInv, Clear
<1> QED
  BY <1>1, <1>2, <1>3, <1>4, <1>5, <1>6, Zenon DEF OutOfRead

\* Steps that leave the answers alone; an unmount takes databases away.
LEMMA AnswersStay ==
  ASSUME NEW r \in Req, AnswerInv(r), h'[r] = h[r], req'[r] = req[r], lease'[r] = lease[r],
         answer'[r] = answer[r], mounted' \subseteq mounted
  PROVE  AnswerInv(r)'
BY Zenon DEF AnswerInv, Clear, GuardRefused, GuardProviderRequest, GuardRetentionRead, IsSingle

LEMMA AnswerStep ==
  ASSUME PhaseInv, LeaseFacts, ServiceTypes, \A r \in Req : AnswerInv(r), [Next]_vars
  PROVE  ServiceTypes' /\ \A r \in Req : AnswerInv(r)'
<1>1. ASSUME UNCHANGED <<h, req, lease, answer, cache, started, reads, mismatch, cited, unwritten>>,
             mounted' \subseteq mounted
      PROVE  ServiceTypes' /\ \A r \in Req : AnswerInv(r)'
  BY <1>1, AnswersStay, Zenon DEF ServiceTypes
<1>2. ASSUME NEW r \in Req, OutOfRead(r)
      PROVE  ServiceTypes' /\ \A q \in Req : AnswerInv(q)'
  <2>1. ServiceTypes' /\ HandlerOnlyOf(r) /\ AnswerInv(r)'
    BY <1>2, HandlersAreOnlyOf, OutOfReadAnswers
  <2>2. UNCHANGED mounted
    BY <1>2, Zenon DEF OutOfRead, Arrive, RouteSingle, SettleTargets, LeaseNext, Stages,
       StartRelational, ReadFailed, EvidenceFailed, Finish, Return
  <2> QED
    BY <2>1, <2>2, AnswersStay, Zenon DEF HandlerOnlyOf
<1>3. ASSUME NEW r \in Req, \/ \E how \in RowOutcomes : WriteRow(r, how)
                           \/ \E kind \in {"new", "repeat", "invalid"} : Observe(r, kind)
      PROVE  ServiceTypes' /\ \A q \in Req : AnswerInv(q)'
  <2>1. UNCHANGED <<h, req, lease, answer, mounted>>
    BY <1>3, Zenon DEF WriteRow, Observe
  <2>2. ServiceTypes'
    BY <1>3, HandlersAreOnlyOf
  <2> QED
    BY <2>1, <2>2, AnswersStay
<1>4. CASE \E r \in Req : Step(r) \/ Environment(r) \/ GoroutineEnds(r)
  BY <1>1, <1>4, Zenon DEF Step, Environment, GoroutineEnds, svars
<1>5. CASE \E b \in DB : Unmount(b) \/ CloseDrained(b)
  BY <1>1, <1>5, Zenon DEF Unmount, CloseDrained, streamvars
<1>6. CASE UNCHANGED vars
  BY <1>1, <1>6, Zenon DEF vars, svars
<1> QED
  BY <1>2, <1>3, <1>4, <1>5, <1>6, NextCases, Zenon

\* The Cache-Control header.
BeforeRead == {"idle", "routed", "targets", "lease", "begin"}

CacheInv(r) ==
  /\ h[r] = "read" /\ cache[r] # "no-store" =>
       ~Query[req[r]].errorStream /\ (started[r] \/ unwritten[r])
  /\ h[r] \notin {"read", "end"} => cache[r] = "no-store" /\ ~started[r]
  /\ h[r] \in BeforeRead => route[r] = "none"
  /\ h[r] = "read" /\ route[r] = "single" => Query[req[r]].endpoint \in lease[r]

LEMMA CacheControlFacts ==
  ASSUME NEW r \in Req, CacheControl(r) # "no-store"
  PROVE  ~Query[req[r]].errorStream /\ lease[r] \cap NoRetention = {}
BY DEF CacheControl

LEMMA WriteRowCaches ==
  ASSUME PhaseInv, ServiceTypes, NEW r \in Req, AnswerInv(r), CacheInv(r),
         NEW how \in RowOutcomes, WriteRow(r, how)
  PROVE  CacheInv(r)'
<1>1. /\ h[r] = "read" /\ UNCHANGED <<h, req, route, lease>>
      /\ started'[r] = (started[r] \/ how # "unencoded")
      /\ unwritten'[r] = (unwritten[r] \/ how = "unencoded")
      /\ cache'[r] = IF started[r] THEN cache[r] ELSE CacheControl(r)
  BY Zenon DEF WriteRow, Deliver, ServiceTypes
<1> QED
  BY <1>1, CacheControlFacts, Zenon DEF CacheInv, BeforeRead

LEMMA OutOfReadCaches ==
  ASSUME PhaseInv, LeaseFacts, ServiceTypes, NEW r \in Req, AnswerInv(r), CacheInv(r),
         OutOfRead(r)
  PROVE  CacheInv(r)'
<1>1. CASE (\E q \in Asked(r) : Arrive(r, q)) \/ SettleTargets(r) \/ LeaseNext(r) \/ Stages(r)
  <2>1. /\ h[r] \in BeforeRead /\ h'[r] \in BeforeRead \cup {"end"}
        /\ UNCHANGED <<cache, started, route>>
    BY <1>1, Zenon
       DEF Arrive, SettleTargets, LeaseNext, Stages, PhaseInv, BeforeRead, xvars, Goto, Answer,
       AnswerOr, streamvars
  <2> QED
    BY <2>1, Zenon DEF CacheInv, BeforeRead
<1>2. CASE RouteSingle(r)
  <2>1. /\ h[r] = "routed" /\ UNCHANGED <<cache, started, req, lease>>
        /\ h'[r] \in {"read", "end"} /\ Query[req[r]].endpoint \in lease[r]
    BY <1>2, Zenon DEF RouteSingle, PhaseInv, LeaseFacts, Goto, Answer, AnswerOr, streamvars
  <2> QED
    BY <2>1, Zenon DEF CacheInv, BeforeRead
<1>3. CASE StartRelational(r)
  <2>1. /\ h[r] = "begin" /\ UNCHANGED <<cache, started, req, lease>> /\ h'[r] = "read"
        /\ route'[r] \in {route[r], "database", "in-memory"}
    BY <1>3, Zenon DEF StartRelational, Begin, RouteOf, PhaseInv, Goto, Answer, AnswerOr, streamvars
  <2> QED
    BY <2>1, Zenon DEF CacheInv, BeforeRead
<1>4. CASE ReadFailed(r) \/ EvidenceFailed(r) \/ Finish(r)
  <2>1. h'[r] = "end"
    BY <1>4, Zenon DEF ReadFailed, EvidenceFailed, Finish, Goto, PhaseInv
  <2> QED
    BY <2>1, Zenon DEF CacheInv, BeforeRead
<1>5. CASE Return(r)
  BY <1>5, Zenon DEF Return, PhaseInv, ServiceTypes, CacheInv, BeforeRead, Goto
<1> QED
  BY <1>1, <1>2, <1>3, <1>4, <1>5, Zenon DEF OutOfRead

\* Steps that leave the response of r alone.
LEMMA CachesStay ==
  ASSUME NEW r \in Req, CacheInv(r), h'[r] = h[r], req'[r] = req[r], lease'[r] = lease[r],
         cache'[r] = cache[r], started'[r] = started[r], unwritten'[r] = unwritten[r],
         route'[r] = route[r] \/ (h[r] = "read" /\ route'[r] # "single")
  PROVE  CacheInv(r)'
BY Zenon DEF CacheInv, BeforeRead

\* A handler outside its read touches no read but its own.
LEMMA OutOfReadIsOnlyOf ==
  ASSUME PhaseInv, ReaderTypes, NEW r \in Req, OutOfRead(r)
  PROVE  OnlyOf(r)
<1>1. CASE UNCHANGED xvars
  BY <1>1 DEF OnlyOf, xvars
<1>2. CASE BeginSingle(r, req[r])
  BY <1>2, Zenon DEF OnlyOf, BeginSingle, PhaseInv, ReaderTypes
<1>3. CASE Begin(r, req[r], lease[r], JoinEngines, NativeEngines)
  BY <1>3, Zenon DEF OnlyOf, Begin, PhaseInv, ReaderTypes
<1>4. CASE Forget(r)
  BY <1>4, Zenon DEF OnlyOf, Forget, PhaseInv, ReaderTypes
<1> QED
  BY <1>1, <1>2, <1>3, <1>4, OutOfReadMoves, Zenon

Answered == \A r \in Req : AnswerInv(r)
Caches == \A r \in Req : CacheInv(r)

LEMMA CacheStep ==
  ASSUME PhaseInv, Readers, LeaseFacts, ServiceTypes, Answered, Caches, [Next]_vars
  PROVE  Caches'
<1>1. ASSUME UNCHANGED <<h, req, lease, cache, started, unwritten, route>> PROVE Caches'
  BY <1>1, CachesStay, Zenon DEF Caches
<1>2. CASE \E r \in Req : OutOfRead(r)
  <2>1. PICK r \in Req : OutOfRead(r)
    BY <1>2
  <2>2. HandlerOnlyOf(r) /\ OnlyOf(r) /\ CacheInv(r)'
    BY <2>1, HandlersAreOnlyOf, OutOfReadIsOnlyOf, OutOfReadCaches, Zenon
       DEF Readers, Answered, Caches
  <2> QED
    BY <2>2, CachesStay, Zenon DEF HandlerOnlyOf, OnlyOf, Answered, Caches
<1>3. CASE \E r \in Req : Step(r)
  <2>1. PICK r \in Req : Step(r)
    BY <1>3
  <2>2. /\ h[r] = "read" /\ ReadStep(r)
        /\ UNCHANGED <<h, req, lease, cache, started, unwritten>>
    BY <2>1 DEF Step, svars
  <2>3. OnlyOf(r)
    BY <2>2, ReadStepIsOnlyOf DEF Readers
  <2>4. route'[r] = route[r] \/ route'[r] = "in-memory"
    BY <2>2, ReadStepMoves, Zenon DEF TakeSlot, Moves, ReleaseSlot, PhaseInv
  <2> QED
    BY <2>2, <2>3, <2>4, CachesStay, Zenon DEF OnlyOf, Answered, Caches
<1>4. CASE \E r \in Req, how \in RowOutcomes : WriteRow(r, how)
  <2>1. PICK r \in Req, how \in RowOutcomes : WriteRow(r, how)
    BY <1>4
  <2>2. HandlerOnlyOf(r) /\ CacheInv(r)' /\ UNCHANGED route
    BY <2>1, HandlersAreOnlyOf, WriteRowCaches, Zenon DEF WriteRow, Deliver, Answered, Caches
  <2> QED
    BY <2>2, CachesStay, Zenon DEF HandlerOnlyOf, Answered, Caches
<1>5. CASE \E r \in Req, kind \in {"new", "repeat", "invalid"} : Observe(r, kind)
  BY <1>1, <1>5, Zenon DEF Observe, xvars
<1>6. CASE \E r \in Req : Environment(r) \/ GoroutineEnds(r)
  BY <1>1, <1>6, Zenon DEF Environment, Cancelled, Expires, GoroutineEnds, TxEnds, svars
<1>7. CASE \E b \in DB : Unmount(b) \/ CloseDrained(b)
  BY <1>1, <1>7, Zenon DEF Unmount, CloseDrained, streamvars, xvars
<1>8. CASE UNCHANGED vars
  BY <1>1, <1>8, Zenon DEF vars, svars, xvars
<1> QED
  BY <1>2, <1>3, <1>4, <1>5, <1>6, <1>7, <1>8, NextCases, Zenon

ServiceInv == ServiceTypes /\ Answered /\ Caches

LEMMA ServiceInit == Init => ServiceInv
BY DEF Init, XInit, SInit, ServiceInv, ServiceTypes, Answered, AnswerInv, Caches, CacheInv,
   Silent, BeforeRead

\* The inductive invariant behind the answers.
THEOREM ServiceInvariant == Spec => []ServiceInv
<1>1. ReadInv /\ ServiceInv /\ [Next]_vars => ServiceInv'
  BY AnswerStep, CacheStep DEF ReadInv, GateInv, ServiceInv, Answered
<1> QED
  BY <1>1, ServiceInit, ReadInvariant, PTL DEF Spec

\* An answer that tells of a collection, an engine, a policy, a profile or another database is
\* given only to a caller who was cleared to read everything the document names.
THEOREM NothingIsLearnt == Spec => []NothingLearnt
<1>1. ServiceInv => NothingLearnt
  BY Zenon DEF ServiceInv, Answered, AnswerInv, NothingLearnt, Silent, Clear
<1> QED
  BY <1>1, ServiceInvariant, PTL

(***************************************************************************)
(* The evidence of an answer.                                              *)
(***************************************************************************)
OpenlyRead(r) == \A b \in lease[r] \cap Provider : b \notin Restricted /\ Engine[b] \in Listed

EvidenceOf(r) ==
  /\ Single(r) /\ Query[req[r]].endpoint \in Provider => reads[r] = 1 /\ ~mismatch[r]
  /\ ~Single(r) => OpenlyRead(r)
  /\ lease[r] \cap Licensed # {} =>
       /\ cited[r] \subseteq Reads(req[r])
       /\ \A i \in Sources(r) :
            got[r][i] > 0 => <<Targets(r)[i].db, Targets(r)[i].coll>> \in cited[r]

RowTypes == got \in [Req -> [Reader -> Nat]] /\ DOMAIN err = Req

\* A relational document reads only the provider databases that may be read without evidence;
\* the collector's observations are counted; the read is of the request; a leaf that was not
\* opened delivered nothing.
EvidenceInv(r) ==
  /\ h[r] = "begin" \/ (h[r] = "read" /\ route[r] # "single") => OpenlyRead(r)
  /\ reads[r] \in Nat /\ (~mismatch[r] => reads[r] <= 1)
  /\ h[r] = "read" => job[r] = req[r] \/ (x[r] = "returned" /\ err[r] # NoErr)
  /\ route[r] = "in-memory" => \A i \in Reader : leaf[r][i] = "unread" => got[r][i] = 0
  /\ h[r] \in BeforeRead => got[r] = NoRows
  /\ answer[r] = "complete" => h[r] = "end" /\ EvidenceOf(r)

LEMMA SourcesAreNamed ==
  ASSUME NEW r \in Req, job[r] = req[r], req[r] \in DOMAIN Query
  PROVE  SourcesRead(r) \subseteq Reads(req[r])
BY SourcesOfQuery, Zenon DEF SourcesRead, Reads, Targets, Sources

LEMMA FinishEvidence ==
  ASSUME PhaseInv, Readers, LeaseFacts, ServiceTypes, RowTypes, NEW r \in Req, AnswerInv(r),
         EvidenceInv(r), Finish(r)
  PROVE  EvidenceInv(r)'
<1>1. /\ h[r] = "read" /\ h'[r] = "end" /\ err[r] = NoErr
      /\ Single(r) => ProviderFinish(r)
      /\ UNCHANGED <<req, lease, reads, mismatch, route, job, leaf, got, x, err>>
      /\ \/ answer'[r] = "complete" /\ cited'[r] = Cites(r)
         \/ answer'[r] \in {"failed", "aborted", "500", "422"}
  BY Zenon DEF Finish, RightsAndEvidence, ReadSucceeded, FailAnswer, Goto, PhaseInv, ServiceTypes,
     xvars
<1>2. job[r] = req[r] /\ req[r] \in DOMAIN Query
  BY <1>1, Zenon DEF EvidenceInv, LeaseFacts
<1>3. /\ Single(r) /\ Query[req[r]].endpoint \in Provider => reads[r] = 1 /\ ~mismatch[r]
      /\ ~Single(r) => OpenlyRead(r)
  BY <1>1 DEF EvidenceInv, Single, ProviderFinish
<1>4. ASSUME cited'[r] = Cites(r), lease[r] \cap Licensed # {}
      PROVE  /\ cited'[r] \subseteq Reads(req[r])
             /\ \A i \in Sources(r) :
                  got[r][i] > 0 => <<Targets(r)[i].db, Targets(r)[i].coll>> \in cited'[r]
  <2>1. cited'[r] = SourcesRead(r)
    BY <1>4 DEF Cites
  <2>2. cited'[r] \subseteq Reads(req[r])
    BY <1>2, <2>1, SourcesAreNamed
  <2>3. ASSUME NEW i \in Sources(r), got[r][i] > 0
        PROVE  <<Targets(r)[i].db, Targets(r)[i].coll>> \in cited'[r]
    <3>1. i \in Reader /\ got[r][i] \in Nat
      BY <1>2, SourcesOfQuery DEF Sources, RowTypes
    <3>2. route[r] # "in-memory" \/ leaf[r][i] # "unread"
      BY <2>3, <3>1 DEF EvidenceInv
    <3> QED
      BY <2>1, <2>3, <3>2, Zenon DEF SourcesRead
  <2> QED
    BY <2>2, <2>3, Zenon
<1>5. answer'[r] = "complete" => EvidenceOf(r)'
  BY <1>1, <1>3, <1>4, Zenon DEF EvidenceOf, OpenlyRead, Single, Sources, Targets
<1> QED
  BY <1>1, <1>5, Zenon DEF EvidenceInv, BeforeRead, OpenlyRead

LEMMA FailedEvidence ==
  ASSUME PhaseInv, ServiceTypes, NEW r \in Req, EvidenceInv(r), ReadFailed(r) \/ EvidenceFailed(r)
  PROVE  EvidenceInv(r)'
<1>1. /\ h'[r] = "end" /\ UNCHANGED <<req, lease, reads, mismatch, route, job, leaf, got, x, err>>
  BY Zenon DEF ReadFailed, EvidenceFailed, ReadSucceeded, Goto, PhaseInv, streamvars, xvars
<1>2. answer'[r] # "complete"
  <2>1. MappedStatus(r) # "complete" /\ RelationalStatus(r) # "complete"
    BY DEF MappedStatus, RelationalStatus
  <2> QED
    BY <2>1, Zenon DEF ReadFailed, EvidenceFailed, FailAnswer, ServiceTypes
<1> QED
  BY <1>1, <1>2, Zenon DEF EvidenceInv, BeforeRead

\* What the stages let pass of the provider databases.
LEMMA StageRefusals ==
  ASSUME NEW r \in Req
  PROVE  /\ StageRefusal(r) # "complete"
         /\ StageRefusal(r) = "none" => OpenlyRead(r)
<1>1. SourceRefusal(req[r]) \in {"none", "400", "404"}
  BY Zenon DEF SourceRefusal
<1>2. StageRefusal(r) # "complete"
  BY <1>1, Zenon DEF StageRefusal
<1>3. ASSUME StageRefusal(r) = "none", NEW b \in lease[r] \cap Provider
      PROVE  b \notin Restricted /\ Engine[b] \in Listed
  <2>1. lease[r] \cap Restricted = {} /\ \A d \in lease[r] : Engine[d] \in JoinEngines
    BY <1>3, Zenon DEF StageRefusal
  <2>2. Engine[b] = "http"
    BY StartupAssumption
  <2>3. Engine[b] \in JoinEngines
    BY <2>1
  <2> QED
    BY <2>1, <2>2, <2>3 DEF JoinEngines
<1> QED
  BY <1>2, <1>3 DEF OpenlyRead

LEMMA OutOfReadEvidence ==
  ASSUME PhaseInv, Readers, LeaseFacts, ServiceTypes, RowTypes, NEW r \in Req, AnswerInv(r),
         CacheInv(r), EvidenceInv(r), OutOfRead(r)
  PROVE  EvidenceInv(r)'
<1>1. CASE \E q \in Asked(r) : Arrive(r, q)
  <2>1. PICK q \in Asked(r) : Arrive(r, q)
    BY <1>1
  <2>2. /\ h[r] = "idle" /\ req'[r] = q /\ answer[r] = "none"
        /\ UNCHANGED <<reads, mismatch, route, job, leaf, got, x, err>>
        /\ \/ h'[r] = "targets" /\ UNCHANGED answer /\ Query[q].endpoint = NoDB
           \/ /\ h'[r] \in {"targets", "routed"} /\ UNCHANGED answer
              /\ lease'[r] = {Query[q].endpoint}
           \/ h'[r] = "end" /\ answer'[r] = "404"
    BY <2>1, ZenonT(60)
       DEF Arrive, LeaseFacts, AnswerInv, Goto, Answer, AnswerOr, streamvars, xvars, PhaseInv,
       ServiceTypes
  <2> QED
    BY <2>2, Zenon DEF EvidenceInv, BeforeRead
<1>2. CASE RouteSingle(r)
  <2>1. /\ h[r] = "routed" /\ answer[r] = "none"
        /\ UNCHANGED <<req, lease, reads, mismatch, got, leaf>>
        /\ \/ h'[r] = "end" /\ UNCHANGED route
           \/ /\ h'[r] = "read" /\ UNCHANGED answer
              /\ job'[r] = req[r] /\ route'[r] = "single"
    <3>1. /\ h[r] = "routed" /\ answer[r] = "none" /\ UNCHANGED <<req, lease, reads, mismatch>>
      BY <1>2, Zenon DEF RouteSingle, AnswerInv, streamvars
    <3>2. h \in [Req -> Handler] /\ route \in [Req -> Routes] /\ DOMAIN job = Req
      BY Zenon DEF PhaseInv, Readers, ReaderTypes
    <3>3. CASE SingleRefusal(req[r]) = "none"
      <4>1. /\ h' = [h EXCEPT ![r] = "read"] /\ job' = [job EXCEPT ![r] = req[r]]
            /\ route' = [route EXCEPT ![r] = "single"] /\ UNCHANGED <<answer, got, leaf>>
        BY <1>2, <3>3, Zenon DEF RouteSingle, AnswerOr, Goto, BeginSingle
      <4> QED
        BY <3>1, <3>2, <4>1
    <3>4. CASE SingleRefusal(req[r]) # "none"
      <4>1. h' = [h EXCEPT ![r] = "end"] /\ UNCHANGED <<route, got, leaf>>
        BY <1>2, <3>4, Zenon DEF RouteSingle, AnswerOr, Answer, Goto, xvars
      <4> QED
        BY <3>1, <3>2, <4>1
    <3> QED
      BY <3>3, <3>4, Zenon
  <2>2. answer'[r] # "complete"
    <3>1. SingleRefusal(req[r]) # "complete"
      BY Zenon DEF SingleRefusal, PrepareImmutableQuery
    <3> QED
      BY <1>2, <2>1, <3>1, Zenon
         DEF RouteSingle, Goto, Answer, AnswerOr, streamvars, xvars, PhaseInv,
         ServiceTypes
  <2> QED
    BY <2>1, <2>2, Zenon DEF EvidenceInv, BeforeRead
<1>3. CASE SettleTargets(r)
  <2>1. /\ h[r] = "targets" /\ h'[r] \in {"lease", "end"} /\ answer[r] = "none"
        /\ UNCHANGED <<req, lease, reads, mismatch, route, job, leaf, got, x, err>>
        /\ UNCHANGED answer \/ answer'[r] = TargetRefusal(req[r])
    BY <1>3, Zenon
       DEF SettleTargets, AnswerInv, Goto, Answer, AnswerOr, streamvars, xvars, PhaseInv,
       ServiceTypes
  <2>2. answer'[r] # "complete"
    BY <2>1, TargetRefusalHides, Zenon DEF Silent
  <2> QED
    BY <2>1, <2>2, Zenon DEF EvidenceInv, BeforeRead
<1>4. CASE LeaseNext(r)
  <2>1. /\ h[r] = "lease" /\ answer[r] = "none" /\ lease[r] \subseteq lease'[r]
        /\ UNCHANGED <<req, reads, mismatch, route, job, leaf, got, x, err>>
        /\ \/ h'[r] = "lease" /\ UNCHANGED answer
           \/ h'[r] = "end" /\ answer'[r] = "404"
    <3>1. h[r] = "lease" /\ answer[r] = "none"
      BY <1>4, Zenon DEF LeaseNext, AnswerInv
    <3>2. UNCHANGED <<req, reads, mismatch, route, job, leaf, got, x, err>>
      BY <1>4, Zenon DEF LeaseNext, streamvars, xvars
    <3>3. \/ /\ UNCHANGED <<h, answer>>
             /\ \E b : lease' = [lease EXCEPT ![r] = @ \cup {b}]
          \/ Answer(r, "404") /\ UNCHANGED lease
      BY <1>4, Zenon DEF LeaseNext
    <3>4. lease[r] \subseteq lease'[r]
      <4>1. \A b : [lease EXCEPT ![r] = @ \cup {b}][r] = lease[r] \cup {b}
        BY Zenon DEF LeaseFacts
      <4> QED
        BY <3>3, <4>1, Zenon
    <3>5. \/ h'[r] = "lease" /\ UNCHANGED answer
          \/ h'[r] = "end" /\ answer'[r] = "404"
      BY <3>1, <3>3, Zenon DEF Answer, Goto, PhaseInv, ServiceTypes
    <3> QED
      BY <3>1, <3>2, <3>4, <3>5, Zenon
  <2> QED
    BY <2>1, Zenon DEF EvidenceInv, BeforeRead
<1>5. CASE Stages(r)
  <2>1. /\ h[r] = "lease" /\ answer[r] = "none"
        /\ UNCHANGED <<req, lease, reads, mismatch, route, job, leaf, got, x, err>>
        /\ \/ h'[r] = "begin" /\ UNCHANGED answer /\ StageRefusal(r) = "none"
           \/ h'[r] = "end" /\ answer'[r] = StageRefusal(r)
    BY <1>5, Zenon
       DEF Stages, AnswerInv, Goto, Answer, AnswerOr, streamvars, xvars, PhaseInv, ServiceTypes
  <2>2. StageRefusal(r) # "complete"
    BY StageRefusals, Zenon
  <2>3. StageRefusal(r) = "none" => OpenlyRead(r)
    BY StageRefusals, Zenon
  <2> QED
    BY <2>1, <2>2, <2>3, Zenon DEF EvidenceInv, BeforeRead, OpenlyRead
<1>6. CASE StartRelational(r)
  <2>1. /\ h[r] = "begin" /\ h'[r] = "read" /\ answer[r] = "none"
        /\ UNCHANGED <<req, lease, reads, mismatch, answer, got, leaf>>
    BY <1>6, Zenon DEF StartRelational, Begin, AnswerInv, Goto, Answer, AnswerOr, streamvars, xvars,
       PhaseInv, ServiceTypes
  <2>2. job'[r] = req[r] \/ (x'[r] = "returned" /\ err'[r] # NoErr)
    BY <1>6, Zenon
       DEF StartRelational, Begin, Readers, ReaderTypes, RowTypes, Goto, Answer, AnswerOr,
       streamvars, xvars, PhaseInv, ServiceTypes
  <2>3. \A i \in Reader : got[r][i] = 0
    BY <2>1, Zenon DEF EvidenceInv, BeforeRead, NoRows
  <2> QED
    BY <2>1, <2>2, <2>3, Zenon DEF EvidenceInv, BeforeRead, OpenlyRead
<1>7. CASE ReadFailed(r) \/ EvidenceFailed(r)
  BY <1>7, FailedEvidence
<1>8. CASE Finish(r)
  BY <1>8, FinishEvidence
<1>9. CASE Return(r)
  <2>1. /\ h'[r] = "done" /\ answer'[r] = "none" /\ reads'[r] = 0 /\ route'[r] = "none"
    BY <1>9, Zenon
       DEF Return, Forget, Goto, Answer, AnswerOr, streamvars, xvars, PhaseInv, ServiceTypes
  <2> QED
    BY <2>1, SMTT(10), SMTT(30) DEF EvidenceInv, BeforeRead
<1> QED
  BY <1>1, <1>2, <1>3, <1>4, <1>5, <1>6, <1>7, <1>8, <1>9, Zenon DEF OutOfRead

\* Steps that leave what the evidence is about alone.
LEMMA EvidenceStays ==
  ASSUME NEW r \in Req, EvidenceInv(r), h'[r] = h[r], req'[r] = req[r], lease'[r] = lease[r],
         answer'[r] = answer[r], reads'[r] = reads[r], mismatch'[r] = mismatch[r],
         cited'[r] = cited[r], x'[r] = x[r], err'[r] = err[r], route'[r] = route[r],
         job'[r] = job[r], leaf'[r] = leaf[r], got'[r] = got[r]
  PROVE  EvidenceInv(r)'
BY Zenon DEF EvidenceInv, EvidenceOf, OpenlyRead, Single, Sources, Targets

\* The rows a read has taken: those of a leaf only after it was opened.
LEMMA RowsStep ==
  ASSUME PhaseInv, ReaderTypes, RowTypes, NEW r \in Req,
         ReadStep(r) \/ \E ok \in BOOLEAN : Deliver(r, ok)
  PROVE  /\ RowTypes'
         /\ \A q \in Req : q # r => got'[q] = got[q] /\ err'[q] = err[q]
<1>1. CASE TakeSlot(r) \/ Enqueue(r) \/ TurnAway(r)
  BY <1>1, Zenon DEF TakeSlot, Enqueue, TurnAway, Refused, RowTypes
<1>2. CASE ReleaseSlot(r)
  BY <1>2, SMTT(30) DEF ReleaseSlot, NoRows, RowTypes
<1>3. CASE OpenSingle(r)
  BY <1>3, Zenon DEF OpenSingle, Refused, RowTypes
<1>4. CASE OpenDatabase(r) \/ OpenMemory(r)
  BY <1>4, Zenon DEF OpenDatabase, OpenMemory, GiveUp, RowTypes
<1>5. CASE \E i \in Reader : OpenLeaf(r, i)
  BY <1>5, Zenon DEF OpenLeaf, DalgoReportsOrGoesOn, RowTypes
<1>6. CASE \E i \in Reader : LeafNext(r, i)
  <2>1. PICK i \in Reader : LeafNext(r, i)
    BY <1>6
  <2>2. /\ UNCHANGED got \/ (got' = [got EXCEPT ![r][i] = @ + 1])
        /\ UNCHANGED err \/ (err' = [err EXCEPT ![r] = "dalgo"])
    BY <2>1, Zenon DEF LeafNext, DalgoReportsOrGoesOn
  <2> QED
    BY <2>2 DEF RowTypes
<1>7. CASE \E i \in Reader : CloseReader(r, i)
  BY <1>7, Zenon DEF CloseReader, CloseError, RowTypes
<1>8. CASE OverBudget(r) \/ ReadEnds(r) \/ ContextEnds(r) \/ ReaderFails(r) \/ ReaderTruncated(r)
  BY <1>8, Zenon
     DEF OverBudget, ReadEnds, ContextEnds, ReaderFails, ReaderTruncated, StopReading, RowTypes
<1>9. CASE AllClosed(r) \/ EndTx(r)
  BY <1>9, Zenon DEF AllClosed, EndTx, RowTypes
<1>10. CASE \E ok \in BOOLEAN : Deliver(r, ok)
  <2>1. /\ UNCHANGED got \/ (got' = [got EXCEPT ![r][1] = @ + 1])
        /\ UNCHANGED err \/ (err' = [err EXCEPT ![r] = "callback"])
    BY <1>10, Zenon DEF Deliver
  <2> QED
    BY <2>1, Indices DEF RowTypes
<1> QED
  BY <1>1, <1>2, <1>3, <1>4, <1>5, <1>6, <1>7, <1>8, <1>9, <1>10, Zenon DEF ReadStep

LEMMA UnreadStep ==
  ASSUME PhaseInv, ReaderTypes, RowTypes, NEW r \in Req,
         route[r] = "in-memory" => \A i \in Reader : leaf[r][i] = "unread" => got[r][i] = 0,
         ReadStep(r) \/ \E ok \in BOOLEAN : Deliver(r, ok), route'[r] = "in-memory"
  PROVE  \A i \in Reader : leaf'[r][i] = "unread" => got'[r][i] = 0
<1>1. CASE ReleaseSlot(r) /\ Retries(r)
  BY <1>1 DEF ReleaseSlot, NoRows, RowTypes, ReaderTypes, PhaseInv
<1>2. ASSUME UNCHANGED <<route, leaf, got>>
      PROVE  \A i \in Reader : leaf'[r][i] = "unread" => got'[r][i] = 0
  BY <1>2
<1>3. CASE TakeSlot(r) \/ Enqueue(r) \/ TurnAway(r) \/ (ReleaseSlot(r) /\ ~Retries(r))
             \/ OpenMemory(r) \/ OverBudget(r) \/ ReadEnds(r) \/ ContextEnds(r) \/ ReaderFails(r)
             \/ ReaderTruncated(r) \/ AllClosed(r) \/ EndTx(r)
  BY <1>2, <1>3, Zenon
     DEF TakeSlot, Enqueue, TurnAway, Refused, ReleaseSlot, OpenMemory, GiveUp, OverBudget,
     ReadEnds, ContextEnds, ReaderFails, ReaderTruncated, StopReading, AllClosed, EndTx
<1>4. CASE OpenSingle(r) \/ OpenDatabase(r)
  <2>1. route'[r] # "in-memory"
    BY <1>4, Zenon DEF OpenSingle, OpenDatabase, Fits, RowTypes, ReaderTypes, PhaseInv
  <2> QED
    BY <2>1
<1>5. CASE \E i \in Reader : OpenLeaf(r, i) \/ CloseReader(r, i)
  <2>1. PICK i \in Reader : OpenLeaf(r, i) \/ CloseReader(r, i)
    BY <1>5
  <2>2. /\ UNCHANGED <<route, got>>
        /\ \E l \in {"open", "closed"} : leaf' = [leaf EXCEPT ![r][i] = l]
    BY <2>1, Zenon DEF OpenLeaf, CloseReader, Opened
  <2> QED
    BY <2>2
<1>6. CASE \E i \in Reader : LeafNext(r, i)
  <2>1. PICK i \in Reader : LeafNext(r, i)
    BY <1>6
  <2>2. /\ UNCHANGED route /\ leaf[r][i] = "open"
        /\ \/ UNCHANGED leaf /\ got' = [got EXCEPT ![r][i] = @ + 1]
           \/ /\ UNCHANGED got
              /\ \E l \in {"failed", "drained"} : leaf' = [leaf EXCEPT ![r][i] = l]
    BY <2>1, Zenon DEF LeafNext
  <2> QED
    BY <2>2 DEF RowTypes, ReaderTypes, PhaseInv
<1>7. CASE \E ok \in BOOLEAN : Deliver(r, ok)
  BY <1>2, <1>7, Zenon DEF Deliver
<1> QED
  BY <1>1, <1>3, <1>4, <1>5, <1>6, <1>7, Zenon DEF ReadStep

\* A step of the read of r.
LEMMA ReadStepEvidence ==
  ASSUME PhaseInv, ReaderTypes, RowTypes, NEW r \in Req, AnswerInv(r), EvidenceInv(r),
         h[r] = "read", x[r] \notin Resting, ReadStep(r) \/ \E ok \in BOOLEAN : Deliver(r, ok),
         UNCHANGED <<h, req, lease, answer, reads, mismatch>>, UNCHANGED job
  PROVE  EvidenceInv(r)'
<1>1. route[r] = "single" => route'[r] = "single"
  <2>1. TakeSlot(r) \/ ReleaseSlot(r) \/ Moves(r)
    BY ReadStepMoves, DeliverMoves, Zenon
  <2>2. ReleaseSlot(r) => route[r] # "single"
    BY Zenon DEF ReleaseSlot, PhaseInv, Fits, Gated
  <2> QED
    BY <2>1, <2>2, Zenon DEF TakeSlot, Moves
<1>2. job[r] = req[r] /\ answer[r] = "none"
  BY Zenon DEF EvidenceInv, AnswerInv, Resting
<1>3. route'[r] = "in-memory" => \A i \in Reader : leaf'[r][i] = "unread" => got'[r][i] = 0
  BY UnreadStep, Zenon DEF EvidenceInv
<1> QED
  BY <1>1, <1>2, <1>3, Zenon DEF EvidenceInv, BeforeRead, OpenlyRead

Evidenced == RowTypes /\ \A r \in Req : EvidenceInv(r)

LEMMA OutOfReadRows ==
  ASSUME RowTypes, PhaseInv, NEW r \in Req, OutOfRead(r)
  PROVE  RowTypes' /\ \A q \in Req : q # r => got'[q] = got[q] /\ err'[q] = err[q]
<1>1. CASE UNCHANGED xvars
  BY <1>1 DEF RowTypes, xvars
<1>2. CASE BeginSingle(r, req[r])
  BY <1>2, Zenon DEF BeginSingle, RowTypes
<1>3. CASE Begin(r, req[r], lease[r], JoinEngines, NativeEngines)
  BY <1>3, Zenon DEF Begin, RowTypes
<1>4. CASE Forget(r)
  BY <1>4, Zenon DEF Forget, RowTypes, NoRows
<1> QED
  BY <1>1, <1>2, <1>3, <1>4, OutOfReadMoves, Zenon

LEMMA EvidenceStep ==
  ASSUME ReadInv, ServiceInv, Evidenced, [Next]_vars
  PROVE  Evidenced'
<1> PhaseInv /\ Readers /\ ReaderTypes /\ LeaseFacts /\ ServiceTypes
    /\ (\A r \in Req : AnswerInv(r)) /\ \A r \in Req : CacheInv(r)
  BY DEF ReadInv, GateInv, Readers, ServiceInv, Answered, Caches
<1>1. ASSUME UNCHANGED <<h, req, lease, answer, reads, mismatch, cited, x, err, route, job, leaf,
                         got>>
      PROVE  Evidenced'
  BY <1>1, EvidenceStays, Zenon DEF RowTypes, Evidenced
<1>2. CASE \E r \in Req : OutOfRead(r)
  <2>1. PICK r \in Req : OutOfRead(r)
    BY <1>2
  <2>2. HandlerOnlyOf(r) /\ OnlyOf(r) /\ EvidenceInv(r)'
    BY <2>1, HandlersAreOnlyOf, OutOfReadIsOnlyOf, OutOfReadEvidence, Zenon DEF Evidenced
  <2>3. RowTypes' /\ \A q \in Req : q # r => got'[q] = got[q] /\ err'[q] = err[q]
    BY <2>1, OutOfReadRows DEF Evidenced
  <2>4. \A q \in Req : q # r => EvidenceInv(q)'
    BY <2>2, <2>3, EvidenceStays, Zenon DEF HandlerOnlyOf, OnlyOf, Evidenced
  <2> QED
    BY <2>2, <2>3, <2>4 DEF Evidenced
<1>3. CASE \E r \in Req : Step(r)
  <2>1. PICK r \in Req : Step(r)
    BY <1>3
  <2>2. /\ h[r] = "read" /\ ReadStep(r)
        /\ UNCHANGED <<h, req, lease, answer, reads, mismatch, cited>>
    BY <2>1 DEF Step, svars
  <2>3. UNCHANGED job /\ x[r] \notin Resting /\ OnlyOf(r)
    BY <2>2, ReadStepKeepsReaders, ReadStepIsOnlyOf, Zenon DEF Readers
  <2>4. EvidenceInv(r)'
    BY <2>2, <2>3, ReadStepEvidence, Zenon DEF Evidenced
  <2>5. RowTypes' /\ \A q \in Req : q # r => got'[q] = got[q] /\ err'[q] = err[q]
    BY <2>2, RowsStep, Zenon DEF Evidenced
  <2>6. \A q \in Req : q # r => EvidenceInv(q)'
    BY <2>2, <2>3, <2>5, EvidenceStays, Zenon DEF OnlyOf, Evidenced
  <2> QED
    BY <2>4, <2>5, <2>6 DEF Evidenced
<1>4. CASE \E r \in Req, how \in RowOutcomes : WriteRow(r, how)
  <2>1. PICK r \in Req, how \in RowOutcomes : WriteRow(r, how)
    BY <1>4
  <2>2. /\ h[r] = "read" /\ (\E ok \in BOOLEAN : Deliver(r, ok)) /\ x[r] \notin Resting
        /\ UNCHANGED <<h, req, lease, answer, reads, mismatch, cited, job, route, leaf>>
        /\ UNCHANGED x \/ (x' = [x EXCEPT ![r] = "close"])
    BY <2>1, Zenon DEF WriteRow, Deliver, RowReady, Reading, Resting
  <2>3. EvidenceInv(r)'
    BY <2>2, ReadStepEvidence, Zenon DEF Evidenced
  <2>4. RowTypes' /\ \A q \in Req : q # r => got'[q] = got[q] /\ err'[q] = err[q]
    BY <2>2, RowsStep, Zenon DEF Evidenced
  <2>5. \A q \in Req : q # r => x'[q] = x[q]
    BY <2>2, Zenon DEF PhaseInv
  <2>6. \A q \in Req : q # r => EvidenceInv(q)'
    BY <2>2, <2>4, <2>5, EvidenceStays, Zenon DEF Evidenced
  <2> QED
    BY <2>3, <2>4, <2>6 DEF Evidenced
<1>5. CASE \E r \in Req, kind \in {"new", "repeat", "invalid"} : Observe(r, kind)
  <2>1. PICK r \in Req, kind \in {"new", "repeat", "invalid"} : Observe(r, kind)
    BY <1>5
  <2>2. /\ h[r] = "read" /\ ~mismatch[r]
        /\ UNCHANGED <<h, req, lease, answer, cited, x, err, route, job, leaf, got>>
        /\ \/ reads'[r] = reads[r] + 1 /\ (~mismatch'[r] => ~(reads[r] + 1 > 1))
           \/ reads'[r] = reads[r]
    BY <2>1, Zenon DEF Observe, xvars, ServiceTypes, MaxReads
  <2>3. answer[r] = "none"
    BY <2>2, Zenon DEF AnswerInv
  <2>4. reads'[r] \in Nat /\ (~mismatch'[r] => reads'[r] <= 1)
    <3>1. reads[r] \in Nat /\ reads[r] <= 1
      BY <2>2, Zenon DEF EvidenceInv, Evidenced
    <3> QED
      BY <2>2, <3>1
  <2>5. EvidenceInv(r)'
    BY <2>2, <2>3, <2>4, Zenon DEF EvidenceInv, Evidenced, OpenlyRead
  <2>6. HandlerOnlyOf(r)
    BY <2>1, HandlersAreOnlyOf
  <2>7. \A q \in Req : q # r => EvidenceInv(q)'
    BY <2>2, <2>6, EvidenceStays, Zenon DEF HandlerOnlyOf, Evidenced
  <2> QED
    BY <2>2, <2>5, <2>7, Zenon DEF RowTypes, Evidenced
<1>6. CASE \E r \in Req : Environment(r) \/ GoroutineEnds(r)
  BY <1>1, <1>6, Zenon DEF Environment, Cancelled, Expires, GoroutineEnds, TxEnds, svars
<1>7. CASE \E b \in DB : Unmount(b) \/ CloseDrained(b)
  BY <1>1, <1>7, Zenon DEF Unmount, CloseDrained, streamvars, xvars
<1>8. CASE UNCHANGED vars
  BY <1>1, <1>8, Zenon DEF vars, svars, xvars
<1> QED
  BY <1>2, <1>3, <1>4, <1>5, <1>6, <1>7, <1>8, NextCases, Zenon

LEMMA EvidenceInit == Init => Evidenced
BY DEF Init, XInit, SInit, Evidenced, RowTypes, EvidenceInv, NoRows, BeforeRead

\* A complete answer of the read of one collection of a provider database is of exactly one
\* live fetch, a relational one reads a provider database only where it has no request profile
\* and its engine is listed, and the sources a licensed answer cites are those the document
\* names, with every source a row was taken from.
THEOREM EvidenceIsTrue == Spec => []EvidenceIsOfTheRead
<1>1. Spec => []Evidenced
  BY EvidenceInit, EvidenceStep, ReadInvariant, ServiceInvariant, PTL DEF Spec
<1>2. Evidenced => EvidenceIsOfTheRead
  BY Zenon DEF Evidenced, EvidenceInv, EvidenceOf, OpenlyRead, EvidenceIsOfTheRead
<1> QED
  BY <1>1, <1>2, PTL

(***************************************************************************)
(* The header of a refusal.                                                *)
(***************************************************************************)
HeaderInv(r) ==
  cache[r] # "no-store" => answer[r] # "failed" /\ (answer[r] \in Refusals => unwritten[r])

\* The evidence that fails is that of a provider, whose responses no cache keeps, or the rights
\* of a read of one collection: what a document reads it names.
LEMMA EvidenceFailedHeader ==
  ASSUME PhaseInv, LeaseFacts, ServiceTypes, NEW r \in Req, CacheInv(r), EvidenceInv(r),
         EvidenceFailed(r)
  PROVE  HeaderInv(r)'
<1>1. /\ h[r] = "read" /\ err[r] = NoErr /\ ~RightsAndEvidence(r)
      /\ UNCHANGED <<req, started, unwritten>> /\ cache'[r] = HeaderAtEnd(r)
      /\ \/ started[r] /\ Query[req[r]].errorStream /\ answer'[r] = "failed"
         \/ started[r] /\ answer'[r] = "aborted"
         \/ ~started[r] /\ answer'[r] = "422"
  BY Zenon DEF EvidenceFailed, ReadSucceeded, FailAnswer, ServiceTypes
<1>2. CASE started[r]
  BY <1>1, <1>2, Zenon DEF HeaderInv, CacheInv, Refusals, HeaderAtEnd
<1>3. CASE ~started[r] /\ RightsFail(r)
  BY <1>1, <1>3, Zenon DEF HeaderInv, CacheInv, HeaderAtEnd
<1>4. CASE ~started[r] /\ ~RightsFail(r)
  <2>1. CASE Single(r)
    <3>1. ~ProviderFinish(r)
      BY <1>1, <1>4, <2>1, Zenon DEF RightsAndEvidence
    <3>2. Query[req[r]].endpoint \in lease[r] \cap NoRetention
      BY <1>1, <2>1, <3>1, StartupAssumption, Zenon DEF CacheInv, Single, ProviderFinish
    <3>3. cache'[r] = "no-store"
      BY <1>1, <1>4, <3>2, CacheControlFacts, Zenon DEF HeaderAtEnd
    <3> QED
      BY <3>3, Zenon DEF HeaderInv
  <2>2. CASE ~Single(r)
    <3>1. job[r] = req[r] /\ req[r] \in DOMAIN Query
      BY <1>1, Zenon DEF EvidenceInv, LeaseFacts
    <3>2. CaptureUsed(r)
      BY <3>1, SourcesAreNamed, Zenon DEF CaptureUsed
    <3> QED
      BY <1>1, <1>4, <2>2, <3>2, Zenon DEF RightsAndEvidence
  <2> QED
    BY <2>1, <2>2
<1> QED
  BY <1>2, <1>3, <1>4

LEMMA OutOfReadHeader ==
  ASSUME PhaseInv, LeaseFacts, ServiceTypes, NEW r \in Req, AnswerInv(r), CacheInv(r),
         EvidenceInv(r), OutOfRead(r)
  PROVE  HeaderInv(r)'
<1>1. CASE \/ \E q \in Asked(r) : Arrive(r, q)
           \/ RouteSingle(r) \/ SettleTargets(r) \/ LeaseNext(r) \/ Stages(r) \/ StartRelational(r)
  <2>1. h[r] \notin {"read", "end"} /\ UNCHANGED cache
    BY <1>1, Zenon
       DEF Arrive, RouteSingle, SettleTargets, LeaseNext, Stages, StartRelational, streamvars
  <2> QED
    BY <2>1, Zenon DEF HeaderInv, CacheInv
<1>2. CASE ReadFailed(r)
  <2>1. /\ h[r] = "read" /\ UNCHANGED <<req, cache, unwritten>>
        /\ \/ started[r] /\ Query[req[r]].errorStream /\ answer'[r] = "failed"
           \/ started[r] /\ answer'[r] = "aborted"
           \/ ~started[r] /\ answer'[r] # "failed"
    <3>1. MappedStatus(r) # "failed" /\ RelationalStatus(r) # "failed"
      BY DEF MappedStatus, RelationalStatus
    <3> QED
      BY <1>2, <3>1, Zenon DEF ReadFailed, FailAnswer, ServiceTypes, streamvars
  <2> QED
    BY <2>1, Zenon DEF HeaderInv, CacheInv, Refusals
<1>3. CASE EvidenceFailed(r)
  BY <1>3, EvidenceFailedHeader
<1>4. CASE Finish(r)
  <2>1. /\ h[r] = "read" /\ cache'[r] = HeaderAtEnd(r) /\ UNCHANGED req
        /\ \/ answer'[r] \in {"complete", "aborted"}
           \/ started[r] /\ Query[req[r]].errorStream /\ answer'[r] = "failed"
           \/ answer'[r] \in {"500", "422"} /\ unwritten'[r]
    BY <1>4, Zenon DEF Finish, ReadSucceeded, FailAnswer, ServiceTypes
  <2> QED
    BY <2>1, Zenon DEF HeaderInv, HeaderAtEnd, CacheInv, Refusals
<1>5. CASE Return(r)
  BY <1>5, Zenon DEF Return, ServiceTypes, HeaderInv
<1> QED
  BY <1>1, <1>2, <1>3, <1>4, <1>5, Zenon DEF OutOfRead

Headers == \A r \in Req : HeaderInv(r)

LEMMA HeaderStep ==
  ASSUME ReadInv, ServiceInv, Evidenced, Headers, [Next]_vars
  PROVE  Headers'
<1> PhaseInv /\ LeaseFacts /\ ServiceTypes /\ (\A r \in Req : AnswerInv(r))
    /\ (\A r \in Req : CacheInv(r)) /\ \A r \in Req : EvidenceInv(r)
  BY DEF ReadInv, GateInv, ServiceInv, Answered, Caches, Evidenced
<1>1. ASSUME UNCHANGED <<answer, cache, unwritten>> PROVE Headers'
  BY <1>1, Zenon DEF Headers, HeaderInv
<1>2. CASE \E r \in Req : OutOfRead(r)
  <2>1. PICK r \in Req : OutOfRead(r)
    BY <1>2
  <2>2. HandlerOnlyOf(r) /\ HeaderInv(r)'
    BY <2>1, HandlersAreOnlyOf, OutOfReadHeader
  <2> QED
    BY <2>2, Zenon DEF HandlerOnlyOf, Headers, HeaderInv
<1>3. CASE \E r \in Req, how \in RowOutcomes : WriteRow(r, how)
  <2>1. PICK r \in Req, how \in RowOutcomes : WriteRow(r, how)
    BY <1>3
  <2>2. HandlerOnlyOf(r)
    BY <2>1, HandlersAreOnlyOf
  <2>3. UNCHANGED answer /\ answer[r] = "none"
    BY <2>1, Zenon DEF WriteRow, AnswerInv
  <2> QED
    BY <2>2, <2>3, Zenon DEF HandlerOnlyOf, Headers, HeaderInv, Refusals
<1>4. CASE \E r \in Req : Step(r) \/ Environment(r) \/ GoroutineEnds(r)
  BY <1>1, <1>4, Zenon DEF Step, Environment, GoroutineEnds, svars
<1>5. CASE \E r \in Req, kind \in {"new", "repeat", "invalid"} : Observe(r, kind)
  BY <1>1, <1>5, Zenon DEF Observe
<1>6. CASE \E b \in DB : Unmount(b) \/ CloseDrained(b)
  BY <1>1, <1>6, Zenon DEF Unmount, CloseDrained, streamvars
<1>7. CASE UNCHANGED vars
  BY <1>1, <1>7, Zenon DEF vars, svars
<1> QED
  BY <1>2, <1>3, <1>4, <1>5, <1>6, <1>7, NextCases, Zenon

\* A response that ended with an error terminal is never marked public, and a refusal only when
\* the header was set for a row or a footer that then could not be written.
THEOREM OnlyCompleteIsCacheable == Spec => []CacheableIsComplete
<1>1. Init => Headers
  BY DEF Init, SInit, Headers, HeaderInv
<1>2. Spec => []Evidenced
  BY EvidenceInit, EvidenceStep, ReadInvariant, ServiceInvariant, PTL DEF Spec
<1>3. Spec => []Headers
  BY <1>1, <1>2, HeaderStep, ReadInvariant, ServiceInvariant, PTL DEF Spec
<1>4. Headers => CacheableIsComplete
  BY Zenon DEF Headers, HeaderInv, CacheableIsComplete
<1> QED
  BY <1>3, <1>4, PTL

(***************************************************************************)
(* The whole result.  The rows of a read are accounted for from the leaves *)
(* to the client, and an error that stops them is never lost on the way.   *)
(***************************************************************************)
Early == {"idle", "admit", "queued", "open", "sopen"}
Ended == {"endtx", "release", "returned"}

Whole(r) ==
  IF Query[job[r]].limited
  THEN sent[r] >= 1 \/ Rows(r, 1) = 0
  ELSE /\ sent[r] = Rows(r, 1)
       /\ route[r] = "in-memory" /\ sent[r] > 0 => \A i \in Sources(r) : got[r][i] = Rows(r, i)

Fresh(r) ==
  /\ emitted[r] = 0 /\ pending[r] = 0 /\ got[r] = NoRows /\ leaf[r] = Unread
  /\ ~broken[r]

\* While it reads: the rows of the base were delivered or wait to be, a leaf that ended has
\* given all its rows, and a leaf that failed has told the guard.
Accounted(r) ==
  IF route[r] # "in-memory" THEN got[r][1] = emitted[r]
  ELSE /\ got[r][1] = emitted[r] + pending[r]
       /\ \A i \in Sources(r) :
            /\ leaf[r][i] = "drained" => got[r][i] = Rows(r, i)
            /\ leaf[r][i] \in {"failed", "closed"} => fault[r] # NoErr

Succeeded(r) ==
  /\ h[r] = "read" /\ err[r] = NoErr /\ ~wrapped[r]
  /\ x[r] \in Ended \/ (x[r] = "close" /\ fault[r] = NoErr)

\* A failed write is never retried, and nothing but the guard of the in-memory route holds a
\* failure beside err.
WholeInv(r) ==
  /\ sent[r] = emitted[r] /\ emitted[r] <= MaxResultRows
  /\ broken[r] /\ h[r] = "read" =>
       /\ x[r] \in Ended \cup {"close"} /\ err[r] # NoErr
       /\ route[r] = "database" => err[r] # "unsupported"
  /\ route[r] # "in-memory" => fault[r] = NoErr /\ pending[r] = 0
  /\ x[r] \in Early => Fresh(r)
  /\ x[r] \in {"read", "sread"} => Accounted(r)
  /\ Succeeded(r) => Whole(r)
  /\ answer[r] = "complete" /\ ~wrapped[r] => err[r] = NoErr /\ ~broken[r] /\ Whole(r)

StreamTypes ==
  /\ emitted \in [Req -> Nat] /\ pending \in [Req -> Nat]
  /\ DOMAIN fault = Req /\ DOMAIN wrapped = Req /\ DOMAIN sent = Req /\ DOMAIN broken = Req

WholeReads == StreamTypes /\ \A r \in Req : WholeInv(r)

\* What was sent is whole as long as it, the reads and the rows are the same.
LEMMA WholeSame ==
  ASSUME NEW r \in Req, job'[r] = job[r], sent'[r] = sent[r], route'[r] = route[r],
         got'[r] = got[r], Sources(r)' = Sources(r), \A i : Rows(r, i)' = Rows(r, i)
  PROVE  Whole(r)' <=> Whole(r)
<1>1. Query[job'[r]].limited <=> Query[job[r]].limited
  BY Zenon
<1>2. (sent[r] >= 1 \/ Rows(r, 1) = 0)' <=> (sent[r] >= 1 \/ Rows(r, 1) = 0)
  BY Zenon
<1>3. (sent[r] = Rows(r, 1))' <=> sent[r] = Rows(r, 1)
  BY Zenon
<1>4. (route[r] = "in-memory" /\ sent[r] > 0)' <=> (route[r] = "in-memory" /\ sent[r] > 0)
  BY Zenon
<1>5. (\A i \in Sources(r) : got[r][i] = Rows(r, i))'
      <=> \A i \in Sources(r) : got[r][i] = Rows(r, i)
  BY Zenon
<1> QED
  BY <1>1, <1>2, <1>3, <1>4, <1>5, Zenon DEF Whole

LEMMA WholeStays ==
  ASSUME NEW r \in Req, WholeInv(r), h'[r] = h[r], answer'[r] = answer[r], x'[r] = x[r],
         route'[r] = route[r], job'[r] = job[r], err'[r] = err[r], fault'[r] = fault[r],
         leaf'[r] = leaf[r], got'[r] = got[r], pending'[r] = pending[r],
         emitted'[r] = emitted[r], sent'[r] = sent[r], broken'[r] = broken[r],
         wrapped'[r] = wrapped[r]
  PROVE  WholeInv(r)'
<1>1. Sources(r)' = Sources(r) /\ \A i : Rows(r, i)' = Rows(r, i)
  BY Zenon DEF Sources, Rows
<1>2. Whole(r)' <=> Whole(r)
  BY <1>1, WholeSame, Zenon
<1>3. Accounted(r)' <=> Accounted(r)
  BY <1>1, Zenon DEF Accounted
<1> QED
  BY <1>2, <1>3, Zenon DEF WholeInv, Fresh, Succeeded

\* The read of r ends with an error.
LEMMA FailsWhole ==
  ASSUME NEW r \in Req, WholeInv(r), ~broken[r], answer[r] = "none",
         answer'[r] = answer[r], sent'[r] = sent[r], broken'[r] = broken[r],
         emitted'[r] = emitted[r], pending'[r] = pending[r], route'[r] = route[r],
         route[r] # "in-memory" => fault'[r] = fault[r],
         x'[r] \in Ended \cup {"close"}, err'[r] # NoErr
  PROVE  WholeInv(r)'
<1>1. x'[r] \notin Early /\ x'[r] \notin {"read", "sread"}
  BY Zenon DEF Early, Ended
<1> QED
  BY <1>1, Zenon DEF WholeInv, Succeeded

\* The read of r is over, and goes on to return.
LEMMA OverWhole ==
  ASSUME NEW r \in Req, WholeInv(r), h[r] = "read", answer[r] = "none", h'[r] = h[r],
         answer'[r] = answer[r], sent'[r] = sent[r], broken'[r] = broken[r],
         emitted'[r] = emitted[r], pending'[r] = pending[r], route'[r] = route[r],
         job'[r] = job[r], got'[r] = got[r], wrapped'[r] = wrapped[r],
         route[r] # "in-memory" => fault'[r] = fault[r],
         x[r] \in Ended \cup {"close"}, x'[r] \in Ended \cup {"close"},
         err[r] # NoErr => err'[r] # NoErr,
         route[r] = "database" /\ err[r] # NoErr => err'[r] = err[r],
         Succeeded(r)' => Succeeded(r)
  PROVE  WholeInv(r)'
<1>1. x'[r] \notin Early /\ x'[r] \notin {"read", "sread"}
  BY Zenon DEF Early, Ended
<1>2. Sources(r)' = Sources(r) /\ \A i : Rows(r, i)' = Rows(r, i)
  BY Zenon DEF Sources, Rows
<1>3. Whole(r)' <=> Whole(r)
  BY <1>2, WholeSame, Zenon
<1> QED
  BY <1>1, <1>3, Zenon DEF WholeInv

\* A step of the read alone: the handler waits for it.
Waits(r) ==
  /\ h[r] = "read" /\ answer[r] = "none" /\ job[r] \in DOMAIN Query
  /\ UNCHANGED <<h, answer, sent, broken, job>>

WholeTypes == PhaseInv /\ ReaderTypes /\ RowTypes /\ StreamTypes

LEMMA AdmitWhole ==
  ASSUME WholeTypes, NEW r \in Req, WholeInv(r), Waits(r),
         TakeSlot(r) \/ Enqueue(r) \/ TurnAway(r) \/ ReleaseSlot(r)
  PROVE  WholeInv(r)'
<1>1. CASE TakeSlot(r) \/ Enqueue(r)
  <2>1. /\ x[r] \in Early /\ x'[r] \in Early
        /\ UNCHANGED <<route, fault, leaf, got, pending, emitted, err, wrapped>>
    BY <1>1, Zenon DEF TakeSlot, Enqueue, Early, WholeTypes, PhaseInv
  <2>2. /\ x'[r] \notin {"read", "sread"} /\ ~Succeeded(r)' /\ ~broken[r]
        /\ Fresh(r)' <=> Fresh(r)
    BY <2>1, Zenon DEF Early, Ended, Succeeded, Fresh, Waits, WholeInv
  <2> QED
    BY <2>1, <2>2, Zenon DEF WholeInv, Waits
<1>2. CASE TurnAway(r)
  <2>1. /\ x[r] \in Early /\ x'[r] = "returned" /\ err'[r] = "capacity"
        /\ UNCHANGED <<route, fault, pending, emitted>>
    BY <1>2, Zenon DEF TurnAway, Refused, Early, WholeTypes, PhaseInv, RowTypes
  <2>2. ~broken[r]
    BY <2>1, Zenon DEF WholeInv, Fresh
  <2> QED
    BY <2>1, <2>2, FailsWhole, Zenon DEF Waits, Ended, NoErr
<1>3. CASE ReleaseSlot(r) /\ Retries(r)
  <2>1. /\ emitted[r] = 0 /\ route[r] = "database" /\ err[r] = "unsupported" /\ x[r] = "release"
    BY <1>3, Zenon DEF ReleaseSlot, Retries, RetryInMemory
  <2>2. /\ x'[r] = "admit" /\ route'[r] = "in-memory" /\ fault'[r] = NoErr /\ leaf'[r] = Unread
        /\ got'[r] = NoRows /\ emitted'[r] = 0 /\ pending' = pending
    <3>1. /\ x' = [x EXCEPT ![r] = "admit"] /\ route' = [route EXCEPT ![r] = "in-memory"]
          /\ fault' = [fault EXCEPT ![r] = NoErr] /\ leaf' = [leaf EXCEPT ![r] = Unread]
          /\ got' = [got EXCEPT ![r] = NoRows] /\ emitted' = [emitted EXCEPT ![r] = 0]
          /\ pending' = pending
      BY <1>3, Zenon DEF ReleaseSlot
    <3>2. /\ DOMAIN x = Req /\ DOMAIN route = Req /\ DOMAIN fault = Req /\ DOMAIN leaf = Req
          /\ DOMAIN got = Req /\ DOMAIN emitted = Req
      BY Zenon DEF WholeTypes, PhaseInv, RowTypes, ReaderTypes, StreamTypes
    <3> QED
      BY <3>1, <3>2, Zenon
  <2>3. pending[r] = 0 /\ ~broken[r]
    BY <2>1, Zenon DEF WholeInv, Waits
  <2>4. Fresh(r)' /\ ~Succeeded(r)' /\ x'[r] \notin {"read", "sread"}
    BY <2>2, <2>3, Zenon DEF Fresh, Succeeded, Ended, Waits
  <2>5. sent'[r] = emitted'[r] /\ emitted'[r] <= MaxResultRows
    BY <2>1, <2>2, Zenon DEF WholeInv, Waits
  <2> QED
    BY <2>2, <2>3, <2>4, <2>5, Zenon DEF WholeInv, Waits
<1>4. CASE ReleaseSlot(r) /\ ~Retries(r)
  <2>1. /\ x[r] = "release" /\ x'[r] = "returned"
        /\ UNCHANGED <<route, fault, leaf, got, pending, emitted, err, wrapped>>
    BY <1>4, Zenon DEF ReleaseSlot, WholeTypes, PhaseInv
  <2>2. Succeeded(r)' => Succeeded(r)
    BY <2>1, Zenon DEF Succeeded, Ended, Waits
  <2> QED
    BY <2>1, <2>2, OverWhole, Zenon DEF Ended, Waits
<1> QED
  BY <1>1, <1>2, <1>3, <1>4

LEMMA OpenWhole ==
  ASSUME WholeTypes, NEW r \in Req, WholeInv(r), Waits(r),
         OpenSingle(r) \/ OpenDatabase(r) \/ OpenMemory(r)
  PROVE  WholeInv(r)'
<1>1. /\ x[r] \in Early /\ UNCHANGED <<route, fault, got, pending, emitted, wrapped>>
  BY Zenon DEF OpenSingle, OpenDatabase, OpenMemory, Early
<1>2. Fresh(r)
  BY <1>1, Zenon DEF WholeInv
<1>3. CASE x'[r] \in {"release", "endtx", "returned"} /\ err'[r] # NoErr
  BY <1>1, <1>2, <1>3, FailsWhole, Zenon DEF Waits, Fresh, Ended
<1>4. CASE x'[r] \in {"read", "sread"} /\ (route[r] = "in-memory" => UNCHANGED leaf)
  <2>1. got[r][1] = 0
    BY <1>2, Indices, Zenon DEF Fresh, NoRows
  <2>2. route[r] = "in-memory" => \A i \in Sources(r) : leaf'[r][i] = "unread"
    <3>1. Sources(r) \subseteq Reader
      BY SourcesOfQuery, Zenon DEF Sources, Waits
    <3> QED
      BY <1>2, <1>4, <3>1, Zenon DEF Fresh, Unread
  <2>3. Accounted(r)'
    <3>1. got'[r][1] = 0 /\ emitted'[r] = 0 /\ pending'[r] = 0 /\ route'[r] = route[r]
      BY <1>1, <1>2, <2>1, Zenon DEF Fresh
    <3>2. Sources(r)' = Sources(r)
      BY Zenon DEF Sources, Waits
    <3> QED
      BY <2>2, <3>1, <3>2 DEF Accounted
  <2>4. x'[r] \notin Early /\ ~Succeeded(r)' /\ ~broken'[r]
    BY <1>2, <1>4, Zenon DEF Early, Ended, Succeeded, Fresh, Waits
  <2> QED
    BY <1>1, <2>3, <2>4, Zenon DEF WholeInv, Waits
<1>5. CASE OpenSingle(r)
  <2>1. route[r] # "in-memory"
    BY <1>5, Zenon DEF OpenSingle, WholeTypes, PhaseInv, Fits
  <2> QED
    BY <1>3, <1>4, <1>5, <2>1, Zenon DEF OpenSingle, Refused, NoErr, WholeTypes, PhaseInv, RowTypes
<1>6. CASE OpenDatabase(r)
  BY <1>3, <1>4, <1>6, Zenon DEF OpenDatabase, GiveUp, NoErr, WholeTypes, PhaseInv, RowTypes
<1>7. CASE OpenMemory(r)
  BY <1>3, <1>4, <1>7, Zenon DEF OpenMemory, GiveUp, NoErr, WholeTypes, PhaseInv, RowTypes
<1> QED
  BY <1>5, <1>6, <1>7

\* One leaf of the in-memory route goes on.  The others are as they were.
LEMMA OneLeafWhole ==
  ASSUME WholeTypes, NEW r \in Req, WholeInv(r), Waits(r), x[r] = "read", route[r] = "in-memory",
         UNCHANGED <<route, emitted, wrapped>>, NEW i \in Sources(r),
         \/ UNCHANGED <<x, err>>
         \/ x'[r] = "close" /\ err'[r] = "dalgo",
         fault[r] # NoErr => fault'[r] # NoErr,
         \A k \in Sources(r) \ {i} : leaf'[r][k] = leaf[r][k] /\ got'[r][k] = got[r][k],
         UNCHANGED pending \/ x'[r] = "read",
         got'[r][1] = emitted[r] + pending'[r],
         leaf'[r][i] = "drained" => got'[r][i] = Rows(r, i),
         leaf'[r][i] \in {"failed", "closed"} => fault'[r] # NoErr
  PROVE  WholeInv(r)'
<1>1. ~broken[r] /\ Accounted(r) /\ sent[r] = emitted[r] /\ emitted[r] <= MaxResultRows
  BY Zenon DEF WholeInv, Waits, Ended
<1>2. CASE x'[r] = "close" /\ err'[r] = "dalgo"
  BY <1>1, <1>2, FailsWhole, Zenon DEF Waits, NoErr
<1>3. CASE UNCHANGED <<x, err>>
  <2>1. Sources(r)' = Sources(r) /\ \A k : Rows(r, k)' = Rows(r, k)
    BY Zenon DEF Sources, Rows, Waits
  <2>2. \A k \in Sources(r) :
          /\ leaf'[r][k] = "drained" => got'[r][k] = Rows(r, k)
          /\ leaf'[r][k] \in {"failed", "closed"} => fault'[r] # NoErr
    BY <1>1, Zenon DEF Accounted
  <2>3. Accounted(r)'
    BY <2>1, <2>2, ZenonT(60) DEF Accounted
  <2>4. x'[r] = "read" /\ ~Succeeded(r)' /\ x'[r] \notin Early
    BY <1>3, Zenon DEF Succeeded, Ended, Early
  <2> QED
    BY <1>1, <2>3, <2>4, Zenon DEF WholeInv, Waits
<1> QED
  BY <1>2, <1>3, ZenonT(60)

LEMMA LeafWhole ==
  ASSUME WholeTypes, NEW r \in Req, WholeInv(r), Waits(r), NEW i \in Reader,
         OpenLeaf(r, i) \/ LeafNext(r, i)
  PROVE  WholeInv(r)'
<1>1. /\ x[r] = "read" /\ route[r] = "in-memory" /\ i \in Sources(r)
      /\ UNCHANGED <<route, emitted, wrapped>>
  BY Zenon DEF OpenLeaf, LeafNext, InMemoryRead
<1>2. Accounted(r) /\ 1 \in Reader
  BY <1>1, Indices, Zenon DEF WholeInv
<1>3. got[r][1] = emitted[r] + pending[r] /\ Sources(r) \subseteq Reader
  BY <1>1, <1>2, SourcesOfQuery, Zenon DEF Accounted, Sources, Waits
<1>4. ASSUME NEW l \in {"open", "failed", "closed", "drained"}, leaf' = [leaf EXCEPT ![r][i] = l],
             UNCHANGED <<got, pending>>, UNCHANGED <<x, err>> \/ (x'[r] = "close" /\ err'[r] = "dalgo"),
             UNCHANGED fault \/ fault'[r] # NoErr, l \in {"failed", "closed"} => fault'[r] # NoErr,
             l = "drained" => got[r][i] = Rows(r, i)
      PROVE  WholeInv(r)'
  <2>1. leaf'[r][i] = l /\ \A k \in Sources(r) \ {i} : leaf'[r][k] = leaf[r][k]
    BY <1>3, <1>4, Zenon DEF WholeTypes, ReaderTypes
  <2> QED
    BY <1>1, <1>3, <1>4, <2>1, OneLeafWhole, Zenon
<1>5. CASE OpenLeaf(r, i)
  <2>1. \/ /\ leaf' = [leaf EXCEPT ![r][i] = "open"] /\ UNCHANGED <<fault, x, err, got, pending>>
        \/ /\ leaf' = [leaf EXCEPT ![r][i] = "closed"] /\ UNCHANGED <<got, pending>>
           /\ fault'[r] # NoErr
           /\ UNCHANGED <<x, err>> \/ (x'[r] = "close" /\ err'[r] = "dalgo")
    BY <1>5, Zenon DEF OpenLeaf, Opened, GuardFail, DalgoReportsOrGoesOn, NoErr, WholeTypes,
       PhaseInv, RowTypes, StreamTypes
  <2> QED
    BY <1>4, <2>1, Zenon
<1>6. CASE LeafNext(r, i)
  <2>1. \/ /\ leaf' = [leaf EXCEPT ![r][i] = "failed"] /\ UNCHANGED <<got, pending>>
           /\ fault'[r] # NoErr
           /\ UNCHANGED <<x, err>> \/ (x'[r] = "close" /\ err'[r] = "dalgo")
        \/ /\ UNCHANGED <<leaf, fault, x, err>> /\ leaf[r][i] = "open"
           /\ got' = [got EXCEPT ![r][i] = @ + 1]
           /\ pending' = [pending EXCEPT ![r] = IF i = 1 THEN @ + 1 ELSE @]
        \/ /\ leaf' = [leaf EXCEPT ![r][i] = "drained"] /\ got[r][i] = Rows(r, i)
           /\ UNCHANGED <<got, pending, fault, x, err>>
    BY <1>6, Zenon DEF LeafNext, GuardFail, DalgoReportsOrGoesOn, NoErr, WholeTypes,
       PhaseInv, RowTypes, StreamTypes
  <2>2. CASE /\ UNCHANGED <<leaf, fault, x, err>> /\ leaf[r][i] = "open"
             /\ got' = [got EXCEPT ![r][i] = @ + 1]
             /\ pending' = [pending EXCEPT ![r] = IF i = 1 THEN @ + 1 ELSE @]
    <3>1. \A k \in Reader : got'[r][k] = IF k = i THEN got[r][k] + 1 ELSE got[r][k]
      BY <2>2, ZenonT(60) DEF WholeTypes, RowTypes
    <3>2. pending'[r] = IF i = 1 THEN pending[r] + 1 ELSE pending[r]
      BY <2>2, Zenon DEF WholeTypes, StreamTypes
    <3>3. got'[r][1] = emitted[r] + pending'[r]
      BY <1>2, <1>3, <3>1, <3>2, SMTT(10), SMTT(30) DEF WholeTypes, RowTypes, StreamTypes
    <3>4. \A k \in Sources(r) \ {i} : leaf'[r][k] = leaf[r][k] /\ got'[r][k] = got[r][k]
      BY <1>3, <2>2, <3>1, Zenon
    <3>5. leaf'[r][i] = "open" /\ x'[r] = "read"
      BY <1>1, <2>2
    <3> QED
      BY <1>1, <2>2, <3>3, <3>4, <3>5, OneLeafWhole, Zenon
  <2> QED
    BY <1>4, <2>1, <2>2, Zenon
<1> QED
  BY <1>5, <1>6

\* The loop ends.
LEMMA StopWhole ==
  ASSUME WholeTypes, NEW r \in Req, WholeInv(r), Waits(r),
         \/ OverBudget(r) \/ ReadEnds(r) \/ ContextEnds(r)
         \/ ReaderFails(r) \/ ReaderTruncated(r)
  PROVE  WholeInv(r)'
<1>1. /\ x[r] \in {"read", "sread"} /\ x'[r] = "close"
      /\ UNCHANGED <<route, fault, leaf, got, pending, emitted>>
  BY Zenon DEF OverBudget, ReadEnds, ContextEnds, ReaderFails, ReaderTruncated, StopReading,
     RowReady, AtEnd, Reading, WholeTypes, PhaseInv
<1>2. Accounted(r) /\ ~broken[r] /\ sent[r] = emitted[r]
  BY <1>1, Zenon DEF WholeInv, Waits, Ended
<1>3. ASSUME err'[r] # NoErr PROVE WholeInv(r)'
  BY <1>1, <1>2, <1>3, FailsWhole, Zenon DEF Waits
<1>4. CASE OverBudget(r) \/ ContextEnds(r) \/ ReaderFails(r)
  BY <1>3, <1>4, Zenon DEF OverBudget, ContextEnds, ReaderFails, StopReading, NoErr, WholeTypes,
     RowTypes
<1>5. ASSUME err'[r] = NoErr, ~wrapped'[r] => Whole(r)' PROVE WholeInv(r)'
  <2>1. x'[r] \notin Early /\ x'[r] \notin {"read", "sread"}
    BY <1>1, Zenon DEF Early
  <2> QED
    BY <1>1, <1>2, <1>5, <2>1, Zenon DEF WholeInv, Succeeded, Waits
<1>6. CASE ReaderTruncated(r)
  <2>1. err'[r] = NoErr => wrapped'[r]
    BY <1>6, Zenon DEF ReaderTruncated, TruncatedError, StopReading, NoErr, WholeTypes,
       RowTypes, StreamTypes
  <2> QED
    BY <1>3, <1>5, <2>1, Zenon
<1>7. CASE ReadEnds(r)
  <2>1. err'[r] = NoErr /\ AtEnd(r) /\ UNCHANGED wrapped
    BY <1>7, Zenon DEF ReadEnds, StopReading, WholeTypes, RowTypes
  <2>2. emitted[r] \in Nat /\ pending[r] \in Nat /\ \A i \in Reader : got[r][i] \in Nat
    BY Zenon DEF WholeTypes, RowTypes, StreamTypes
  <2>3. 1 \in Sources(r) /\ Sources(r) \subseteq Reader
    BY SourcesOfQuery, Zenon DEF Sources, Waits
  <2>4. Sources(r)' = Sources(r) /\ \A i : Rows(r, i)' = Rows(r, i)
    BY Zenon DEF Sources, Rows, Waits
  <2>5. sent'[r] = emitted[r] /\ got' = got /\ route' = route /\ job' = job
    BY <1>1, <1>2, Zenon DEF Waits
  <2>6. ASSUME Query[job[r]].limited, emitted[r] > 0 PROVE Whole(r)'
    BY <2>2, <2>5, <2>6 DEF Whole
  <2>7. ASSUME route[r] # "in-memory", got[r][1] = Rows(r, 1) PROVE Whole(r)'
    <3>1. emitted[r] = Rows(r, 1)
      BY <1>2, <2>7, Zenon DEF Accounted
    <3> QED
      BY <2>2, <2>4, <2>5, <2>7, <3>1, SMTT(10), SMTT(30) DEF Whole
  <2>8. CASE /\ route[r] = "in-memory" /\ pending[r] = 0 /\ Over(leaf[r][1])
             /\ got[r][1] = 0 \/ \A i \in Sources(r) : Over(leaf[r][i])
    <3>1. got[r][1] = emitted[r]
      <4>1. got[r][1] = emitted[r] + pending[r] /\ pending[r] = 0
        BY <1>2, <2>8, Zenon DEF Accounted
      <4> QED
        BY <2>2, <4>1
    <3>2. ASSUME fault[r] = NoErr, NEW i \in Sources(r), Over(leaf[r][i])
          PROVE  got[r][i] = Rows(r, i)
      BY <1>2, <2>8, <3>2, Zenon DEF Accounted, Over
    <3>3. ASSUME fault[r] = NoErr PROVE Whole(r)'
      <4>1. got[r][1] = Rows(r, 1)
        BY <2>3, <2>8, <3>2, <3>3, Zenon
      <4>2. got[r][1] > 0 => \A i \in Sources(r) : got[r][i] = Rows(r, i)
        <5>1. got[r][1] > 0 => got[r][1] # 0
          OBVIOUS
        <5> QED
          BY <5>1, <2>8, <3>2, <3>3, Zenon
      <4>3. sent'[r] = Rows(r, 1)' /\ sent'[r] = got[r][1]
        BY <2>4, <2>5, <3>1, <4>1, Zenon
      <4>4. sent'[r] >= 1 \/ Rows(r, 1)' = 0
        BY <2>2, <2>3, <4>3
      <4>5. sent'[r] > 0 => \A i \in Sources(r)' : got'[r][i] = Rows(r, i)'
        BY <2>4, <2>5, <4>2, <4>3, Zenon
      <4> QED
        BY <4>3, <4>4, <4>5, Zenon DEF Whole
    <3>4. CASE fault[r] # NoErr
      <4>1. ~Succeeded(r)' /\ x'[r] \notin Early /\ x'[r] \notin {"read", "sread"}
        BY <1>1, <3>4, Zenon DEF Succeeded, Ended, Early
      <4> QED
        BY <1>1, <1>2, <4>1, Zenon DEF WholeInv, Waits
    <3> QED
      BY <1>5, <2>1, <3>3, <3>4, Zenon
  <2> QED
    BY <1>5, <2>1, <2>6, <2>7, <2>8, Zenon DEF AtEnd
<1> QED
  BY <1>4, <1>6, <1>7

\* The readers are closed, and the read returns.
LEMMA CloseWhole ==
  ASSUME WholeTypes, NEW r \in Req, WholeInv(r), Waits(r),
         (\E i \in Reader : CloseReader(r, i)) \/ AllClosed(r) \/ EndTx(r)
  PROVE  WholeInv(r)'
<1>1. CASE \E i \in Reader : CloseReader(r, i)
  <2>1. /\ x[r] = "close" /\ UNCHANGED <<x, route, got, pending, emitted, wrapped>>
        /\ \/ UNCHANGED <<fault, err>>
           \/ route[r] = "in-memory" /\ fault'[r] # NoErr /\ UNCHANGED err
           \/ /\ route[r] # "in-memory" /\ UNCHANGED fault
              /\ err'[r] = IF err[r] = NoErr THEN "source" ELSE err[r]
    BY <1>1, Zenon DEF CloseReader, CloseError, GuardFail, NoErr, WholeTypes, RowTypes, StreamTypes
  <2>2. Succeeded(r)' => Succeeded(r)
    BY <2>1, Zenon DEF Succeeded, Waits, NoErr, Ended
  <2> QED
    BY <2>1, <2>2, OverWhole, Zenon DEF Waits, NoErr
<1>2. CASE AllClosed(r)
  <2>1. /\ x[r] = "close" /\ UNCHANGED <<route, fault, got, pending, emitted, wrapped>>
        /\ x'[r] \in Ended
        /\ \/ err'[r] = Classified(r)
           \/ err'[r] = IF Classified(r) = NoErr THEN "source" ELSE Classified(r)
    BY <1>2 DEF AllClosed, Ended, WholeTypes, PhaseInv, RowTypes
  <2>2. /\ Classified(r) = NoErr => err[r] = NoErr /\ fault[r] = NoErr
        /\ route[r] = "database" /\ err[r] # NoErr => Classified(r) = err[r]
    BY Zenon DEF Classified, WholeInv
  <2>3. Succeeded(r)' => Succeeded(r)
    BY <2>1, <2>2, Zenon DEF Succeeded, Waits, NoErr
  <2> QED
    BY <2>1, <2>2, <2>3, OverWhole, Zenon DEF Waits, NoErr
<1>3. CASE EndTx(r)
  <2>1. /\ x[r] = "endtx" /\ x'[r] = "release"
        /\ UNCHANGED <<route, fault, got, pending, emitted, wrapped>>
        /\ UNCHANGED err \/ (err[r] = NoErr /\ err'[r] = "source")
    BY <1>3, Zenon DEF EndTx, WholeTypes, PhaseInv, RowTypes
  <2>2. Succeeded(r)' => Succeeded(r)
    BY <2>1, Zenon DEF Succeeded, Waits, NoErr, Ended
  <2> QED
    BY <2>1, <2>2, OverWhole, Zenon DEF Waits, NoErr, Ended
<1> QED
  BY <1>1, <1>2, <1>3

\* One row more is written and one less is pending.
LEMMA OneRow ==
  /\ \A a, m \in Nat : a < m => a + 1 <= m
  /\ \A a, b \in Nat : a + b = (a + 1) + (b - 1)
  OBVIOUS

\* A row is written, or the write fails.
LEMMA WriteRowWhole ==
  ASSUME WholeTypes, NEW r \in Req, NEW how \in RowOutcomes, WholeInv(r), answer[r] = "none",
         WriteRow(r, how)
  PROVE  WholeInv(r)'
<1>1. /\ h[r] = "read" /\ x[r] \in {"read", "sread"} /\ emitted[r] < MaxResultRows /\ RowReady(r)
      /\ UNCHANGED <<h, answer, job, route, fault, leaf, wrapped>>
  BY Zenon DEF WriteRow, Deliver, RowReady, Reading
<1>2. Accounted(r) /\ ~broken[r] /\ sent[r] = emitted[r]
  BY <1>1, Zenon DEF WholeInv, Ended
<1>3. emitted[r] \in Nat /\ pending[r] \in Nat /\ MaxResultRows \in Nat /\ got[r][1] \in Nat
  BY ExecutorAssumption, Indices DEF WholeTypes, StreamTypes, RowTypes
<1>4. /\ route[r] = "in-memory" => pending'[r] = pending[r] - 1 /\ UNCHANGED got
      /\ route[r] # "in-memory" => got'[r][1] = got[r][1] + 1 /\ UNCHANGED pending
  <2>1. /\ route[r] = "in-memory" => pending' = [pending EXCEPT ![r] = @ - 1] /\ UNCHANGED got
        /\ route[r] # "in-memory" => got' = [got EXCEPT ![r][1] = @ + 1] /\ UNCHANGED pending
    BY Zenon DEF WriteRow, Deliver
  <2> QED
    BY <2>1, Indices, SMTT(10), SMTT(30) DEF WholeTypes, StreamTypes, RowTypes
<1>5. CASE how = "written"
  <2>1. /\ emitted'[r] = emitted[r] + 1 /\ sent'[r] = sent[r] + 1
        /\ UNCHANGED <<x, err>> /\ ~broken'[r]
    <3>1. emitted' = [emitted EXCEPT ![r] = @ + 1] /\ UNCHANGED <<x, err>>
      BY <1>5 DEF WriteRow, Deliver
    <3>2. sent'[r] = sent[r] + 1 /\ ~broken'[r]
      BY <1>2, <1>5 DEF WriteRow, WholeTypes, StreamTypes
    <3> QED
      BY <3>1, <3>2, Zenon DEF WholeTypes, StreamTypes
  <2>2. sent'[r] = emitted'[r] /\ emitted'[r] <= MaxResultRows
    BY <1>1, <1>2, <1>3, <2>1, OneRow, Zenon
  <2>3. route[r] = "in-memory" => got[r][1] = emitted'[r] + pending'[r]
    BY <1>2, <1>3, <1>4, <2>1, OneRow, Zenon DEF Accounted
  <2>4. route[r] # "in-memory" => got'[r][1] = emitted'[r]
    BY <1>2, <1>4, <2>1, Zenon DEF Accounted
  <2>5. Sources(r)' = Sources(r) /\ \A k : Rows(r, k)' = Rows(r, k)
    BY <1>1, Zenon DEF Sources, Rows
  <2>6. Accounted(r)'
    BY <1>1, <1>2, <1>4, <2>3, <2>4, <2>5, Zenon DEF Accounted
  <2>7. x'[r] \notin Early /\ ~Succeeded(r)'
    BY <1>1, <2>1, Zenon DEF Early, Ended, Succeeded
  <2> QED
    BY <1>1, <1>2, <1>4, <2>1, <2>2, <2>6, <2>7, Zenon DEF WholeInv
<1>6. CASE how # "written"
  <2>1. /\ x'[r] = "close" /\ err'[r] = "callback" /\ UNCHANGED emitted /\ sent'[r] = sent[r]
    <3>1. /\ x' = [x EXCEPT ![r] = "close"] /\ err' = [err EXCEPT ![r] = "callback"]
          /\ UNCHANGED emitted
      BY <1>6 DEF WriteRow, Deliver
    <3>2. sent'[r] = sent[r]
      BY <1>6 DEF WriteRow, WholeTypes, StreamTypes
    <3> QED
      BY <3>1, <3>2, Zenon DEF WholeTypes, PhaseInv, RowTypes
  <2>2. x'[r] \notin Early /\ x'[r] \notin {"read", "sread"} /\ ~Succeeded(r)'
    BY <2>1, Zenon DEF Early, Succeeded, NoErr
  <2> QED
    BY <1>1, <1>2, <1>4, <2>1, <2>2, Zenon DEF WholeInv, NoErr
<1> QED
  BY <1>5, <1>6

\* The handler outside its read answers "complete" at its end alone.
LEMMA OnlyFinishCompletes ==
  ASSUME PhaseInv, ServiceTypes, NEW r \in Req, AnswerInv(r), OutOfRead(r), ~Finish(r), ~Return(r)
  PROVE  answer'[r] # "complete" /\ UNCHANGED <<sent, broken>>
<1>1. CASE \E q \in Asked(r) : Arrive(r, q)
  BY <1>1, Zenon DEF Arrive, AnswerInv, Goto, Answer, streamvars, ServiceTypes
<1>2. CASE RouteSingle(r)
  <2>1. SingleRefusal(req[r]) # "complete"
    BY Zenon DEF SingleRefusal, PrepareImmutableQuery
  <2> QED
    BY <1>2, <2>1, Zenon
       DEF RouteSingle, AnswerInv, Goto, Answer, AnswerOr, streamvars, ServiceTypes
<1>3. CASE SettleTargets(r)
  <2>1. TargetRefusal(req[r]) # "complete"
    BY TargetRefusalHides, Zenon DEF Silent
  <2> QED
    BY <1>3, <2>1, Zenon DEF SettleTargets, AnswerInv, Goto, Answer, AnswerOr, streamvars,
       ServiceTypes
<1>4. CASE LeaseNext(r)
  BY <1>4, Zenon DEF LeaseNext, AnswerInv, Goto, Answer, streamvars, ServiceTypes
<1>5. CASE Stages(r)
  <2>1. StageRefusal(r) # "complete"
    BY StageRefusals, Zenon
  <2> QED
    BY <1>5, <2>1, Zenon DEF Stages, AnswerInv, Goto, Answer, AnswerOr, streamvars, ServiceTypes
<1>6. CASE StartRelational(r)
  BY <1>6, Zenon DEF StartRelational, AnswerInv, streamvars
<1>7. CASE ReadFailed(r) \/ EvidenceFailed(r)
  <2>1. MappedStatus(r) # "complete" /\ RelationalStatus(r) # "complete"
    BY DEF MappedStatus, RelationalStatus
  <2> QED
    BY <1>7, <2>1, Zenon DEF ReadFailed, EvidenceFailed, FailAnswer, ServiceTypes, streamvars
<1> QED
  BY <1>1, <1>2, <1>3, <1>4, <1>5, <1>6, <1>7, Zenon DEF OutOfRead

LEMMA FinishWhole ==
  ASSUME WholeTypes, ServiceTypes, NEW r \in Req, WholeInv(r), Finish(r)
  PROVE  WholeInv(r)'
<1>1. /\ h[r] = "read" /\ x[r] = "returned" /\ err[r] = NoErr /\ h'[r] = "end"
      /\ UNCHANGED <<xvars, sent>>
  BY Zenon DEF Finish, ReadSucceeded, Goto, WholeTypes, PhaseInv
<1>2. answer'[r] = "complete" => UNCHANGED broken
  BY Zenon DEF Finish, FailAnswer, ServiceTypes
<1>3. ~broken[r] /\ (~wrapped[r] => Whole(r))
  BY <1>1, Zenon DEF WholeInv, Succeeded, Ended
<1>4. Whole(r)' <=> Whole(r)
  <2>1. UNCHANGED <<job, route, got, sent>>
    BY <1>1, Zenon DEF xvars
  <2>2. Sources(r)' = Sources(r) /\ \A i : Rows(r, i)' = Rows(r, i)
    BY <2>1, Zenon DEF Sources, Rows
  <2> QED
    BY <2>1, <2>2, WholeSame, Zenon
<1>5. x'[r] \notin Early /\ x'[r] \notin {"read", "sread"} /\ ~Succeeded(r)'
  BY <1>1, Zenon DEF Early, Succeeded, xvars
<1> QED
  BY <1>1, <1>2, <1>3, <1>4, <1>5, Zenon DEF WholeInv, xvars

LEMMA OutOfReadWhole ==
  ASSUME WholeTypes, ServiceTypes, NEW r \in Req, AnswerInv(r), CacheInv(r), WholeInv(r),
         OutOfRead(r)
  PROVE  WholeInv(r)'
<1>0. PhaseInv
  BY DEF WholeTypes
<1>1. CASE Finish(r)
  BY <1>1, FinishWhole
<1>2. CASE Return(r)
  <2>1. /\ h'[r] = "done" /\ x'[r] = "returned" /\ route'[r] = "none" /\ answer'[r] = "none"
        /\ sent'[r] = 0 /\ broken'[r] = FALSE /\ fault'[r] = NoErr /\ pending'[r] = 0
        /\ emitted'[r] = 0
    BY <1>2, Zenon DEF Return, Forget, Goto, WholeTypes, PhaseInv, StreamTypes, ServiceTypes
  <2>2. 0 <= MaxResultRows
    BY ExecutorAssumption
  <2>3. x'[r] \notin Early /\ x'[r] \notin {"read", "sread"} /\ ~Succeeded(r)'
    BY <2>1, Zenon DEF Early, Succeeded
  <2> QED
    BY <2>1, <2>2, <2>3, Zenon DEF WholeInv
<1>3. CASE ~Finish(r) /\ ~Return(r)
  <2>1. answer'[r] # "complete" /\ UNCHANGED <<sent, broken>>
    BY <1>0, <1>3, OnlyFinishCompletes
  <2>2. CASE UNCHANGED xvars /\ h'[r] # "read"
    <3>1. /\ ~Succeeded(r)' /\ (Fresh(r)' <=> Fresh(r))
          /\ UNCHANGED <<job, route, got, leaf, pending, emitted, fault, x>>
      BY <2>1, <2>2, Zenon DEF Succeeded, Fresh, xvars
    <3>2. x[r] \notin {"read", "sread"}
      BY <1>0, OutOfReadMoves, Zenon DEF Resting
    <3> QED
      BY <2>1, <2>2, <3>1, <3>2, Zenon DEF WholeInv
  <2>3. CASE BeginSingle(r, req[r]) \/ Begin(r, req[r], lease[r], JoinEngines, NativeEngines)
    <3>1. /\ x[r] = "idle" /\ UNCHANGED <<fault, leaf, got, pending, emitted, wrapped>>
          /\ \/ x'[r] \in {"sopen", "admit"}
             \/ x'[r] = "returned" /\ err'[r] # NoErr
      BY <2>3, Zenon DEF BeginSingle, Begin, NoErr, WholeTypes, PhaseInv, RowTypes
    <3>2. Fresh(r) /\ fault[r] = NoErr
      <4>1. h[r] # "read" /\ route[r] # "in-memory"
        <5>1. h[r] \in BeforeRead
          BY <1>3, <3>1, Zenon
             DEF OutOfRead, Arrive, RouteSingle, SettleTargets, LeaseNext, Stages, StartRelational,
             ReadFailed, EvidenceFailed, ReadSucceeded, BeforeRead
        <5> QED
          BY <5>1, Zenon DEF CacheInv, BeforeRead
      <4> QED
        BY <3>1, <4>1, Zenon DEF WholeInv, Early
    <3>3. Fresh(r)'
      BY <2>1, <3>1, <3>2, Zenon DEF Fresh
    <3>4. x'[r] \notin {"read", "sread"} /\ ~Succeeded(r)'
      BY <3>1, Zenon DEF Succeeded, Ended
    <3> QED
      BY <2>1, <3>1, <3>2, <3>3, <3>4, Zenon DEF WholeInv, Fresh
  <2>4. h'[r] # "done"
    BY <1>3, <1>0, Zenon
       DEF OutOfRead, Arrive, RouteSingle, SettleTargets, LeaseNext, Stages, StartRelational,
       ReadFailed, EvidenceFailed, ReadSucceeded, AnswerOr, Answer, Goto, PhaseInv
  <2> QED
    BY <1>0, <2>2, <2>3, <2>4, OutOfReadMoves, Zenon
<1> QED
  BY <1>1, <1>2, <1>3

\* What one request does leaves the rows of the others alone.
StreamOnlyOf(r) ==
  \A q \in Req : q # r =>
    /\ emitted'[q] = emitted[q] /\ pending'[q] = pending[q] /\ fault'[q] = fault[q]
    /\ wrapped'[q] = wrapped[q] /\ sent'[q] = sent[q] /\ broken'[q] = broken[q]

LEMMA ReadStepStream ==
  ASSUME StreamTypes, NEW r \in Req, ReadStep(r), UNCHANGED <<sent, broken>>
  PROVE  StreamTypes' /\ StreamOnlyOf(r)
<1>1. ASSUME UNCHANGED <<emitted, pending>>,
             UNCHANGED fault \/ \E v : fault' = [fault EXCEPT ![r] = v],
             UNCHANGED wrapped \/ \E v : wrapped' = [wrapped EXCEPT ![r] = v]
      PROVE  StreamTypes' /\ StreamOnlyOf(r)
  BY <1>1, Zenon DEF StreamTypes, StreamOnlyOf
<1>2. CASE TakeSlot(r) \/ Enqueue(r) \/ TurnAway(r) \/ OpenSingle(r) \/ OpenDatabase(r)
             \/ OpenMemory(r) \/ AllClosed(r) \/ EndTx(r)
  BY <1>1, <1>2, Zenon DEF TakeSlot, Enqueue, TurnAway, OpenSingle, OpenDatabase, OpenMemory,
     AllClosed, EndTx
<1>3. CASE ReleaseSlot(r)
  <2>1. /\ emitted' = [emitted EXCEPT ![r] = 0] \/ emitted' = emitted
        /\ fault' = [fault EXCEPT ![r] = NoErr] \/ fault' = fault
        /\ pending' = pending /\ wrapped' = wrapped
    BY <1>3, Zenon DEF ReleaseSlot
  <2>2. emitted' \in [Req -> Nat] /\ DOMAIN fault' = Req
    BY <2>1 DEF StreamTypes
  <2>3. \A q \in Req : q # r => emitted'[q] = emitted[q] /\ fault'[q] = fault[q]
    BY <2>1, Zenon DEF StreamTypes
  <2> QED
    BY <2>1, <2>2, <2>3, Zenon DEF StreamTypes, StreamOnlyOf
<1>4. CASE OverBudget(r) \/ ReadEnds(r) \/ ContextEnds(r) \/ ReaderFails(r) \/ ReaderTruncated(r)
  BY <1>1, <1>4, Zenon DEF OverBudget, ReadEnds, ContextEnds, ReaderFails, ReaderTruncated,
     StopReading
<1>5. CASE \E i \in Reader : OpenLeaf(r, i) \/ CloseReader(r, i)
  BY <1>1, <1>5, Zenon DEF OpenLeaf, CloseReader, CloseError, GuardFail
<1>6. CASE \E i \in Reader : LeafNext(r, i)
  <2>1. /\ UNCHANGED <<emitted, wrapped>>
        /\ UNCHANGED fault \/ \E v : fault' = [fault EXCEPT ![r] = v]
        /\ \/ UNCHANGED pending \/ pending' = [pending EXCEPT ![r] = @ + 1]
           \/ pending' = [pending EXCEPT ![r] = @]
    BY <1>6, Zenon DEF LeafNext, GuardFail
  <2>2. pending' \in [Req -> Nat] /\ \A q \in Req : q # r => pending'[q] = pending[q]
    BY <2>1 DEF StreamTypes
  <2> QED
    BY <2>1, <2>2, Zenon DEF StreamTypes, StreamOnlyOf
<1> QED
  BY <1>2, <1>3, <1>4, <1>5, <1>6, Zenon DEF ReadStep

LEMMA WriteRowStream ==
  ASSUME StreamTypes, NEW r \in Req, NEW how \in RowOutcomes, WriteRow(r, how)
  PROVE  StreamTypes' /\ StreamOnlyOf(r)
<1>1. /\ UNCHANGED <<fault, wrapped>>
      /\ \E v : sent' = [sent EXCEPT ![r] = v]
      /\ \E v : broken' = [broken EXCEPT ![r] = v]
      /\ UNCHANGED emitted \/ (emitted' = [emitted EXCEPT ![r] = @ + 1])
      /\ UNCHANGED pending \/ (pending[r] > 0 /\ pending' = [pending EXCEPT ![r] = @ - 1])
  BY Zenon DEF WriteRow, Deliver, RowReady
<1>2. emitted' \in [Req -> Nat] /\ pending' \in [Req -> Nat]
  BY <1>1 DEF StreamTypes
<1> QED
  BY <1>1, <1>2, Zenon DEF StreamTypes, StreamOnlyOf

LEMMA OutOfReadStream ==
  ASSUME PhaseInv, StreamTypes, ServiceTypes, NEW r \in Req, AnswerInv(r), OutOfRead(r)
  PROVE  StreamTypes' /\ StreamOnlyOf(r)
<1>1. /\ \/ UNCHANGED <<emitted, pending, fault, wrapped>>
         \/ /\ emitted' = [emitted EXCEPT ![r] = 0] /\ pending' = [pending EXCEPT ![r] = 0]
            /\ fault' = [fault EXCEPT ![r] = NoErr] /\ wrapped' = [wrapped EXCEPT ![r] = FALSE]
  BY OutOfReadMoves, Zenon DEF BeginSingle, Begin, Forget, xvars
<1>2. /\ UNCHANGED sent \/ (sent' = [sent EXCEPT ![r] = 0])
      /\ UNCHANGED broken \/ \E v : broken' = [broken EXCEPT ![r] = v]
  <2>1. CASE Finish(r) \/ Return(r)
    BY <2>1, Zenon DEF Finish, Return
  <2>2. CASE ~Finish(r) /\ ~Return(r)
    BY <2>2, OnlyFinishCompletes, Zenon
  <2> QED
    BY <2>1, <2>2
<1>3. /\ DOMAIN fault' = Req /\ DOMAIN wrapped' = Req
      /\ DOMAIN sent' = Req /\ DOMAIN broken' = Req
  BY <1>1, <1>2, Zenon DEF StreamTypes
<1>4. emitted' \in [Req -> Nat] /\ pending' \in [Req -> Nat]
  <2>1. 0 \in Nat
    OBVIOUS
  <2> QED
    BY <1>1, <2>1, ZenonT(60) DEF StreamTypes
<1>5. StreamTypes'
  BY <1>3, <1>4, Zenon DEF StreamTypes
<1>6. ASSUME NEW q \in Req, q # r
      PROVE  /\ emitted'[q] = emitted[q] /\ pending'[q] = pending[q] /\ fault'[q] = fault[q]
             /\ wrapped'[q] = wrapped[q] /\ sent'[q] = sent[q] /\ broken'[q] = broken[q]
  <2>1. /\ emitted'[q] = emitted[q] /\ pending'[q] = pending[q] /\ fault'[q] = fault[q]
        /\ wrapped'[q] = wrapped[q]
    <3>1. CASE UNCHANGED <<emitted, pending, fault, wrapped>>
      BY <3>1, Zenon
    <3>2. CASE /\ emitted' = [emitted EXCEPT ![r] = 0] /\ pending' = [pending EXCEPT ![r] = 0]
               /\ fault' = [fault EXCEPT ![r] = NoErr] /\ wrapped' = [wrapped EXCEPT ![r] = FALSE]
      BY <1>6, <3>2, Zenon DEF StreamTypes
    <3> QED
      BY <1>1, <3>1, <3>2, Zenon
  <2>2. sent'[q] = sent[q]
    BY <1>2, <1>6, Zenon DEF StreamTypes
  <2>3. broken'[q] = broken[q]
    BY <1>2, <1>6, Zenon DEF StreamTypes
  <2> QED
    BY <2>1, <2>2, <2>3, Zenon
<1> QED
  BY <1>5, <1>6, Zenon DEF StreamOnlyOf

LEMMA WholeStep ==
  ASSUME ReadInv, ServiceInv, Evidenced, WholeReads, [Next]_vars
  PROVE  WholeReads'
<1> PhaseInv /\ Readers /\ ReaderTypes /\ LeaseFacts /\ ServiceTypes /\ StreamTypes /\ RowTypes
    /\ WholeTypes /\ (\A r \in Req : AnswerInv(r)) /\ \A r \in Req : CacheInv(r)
  BY DEF ReadInv, GateInv, Readers, ServiceInv, Answered, Caches, Evidenced, WholeReads, WholeTypes
<1>1. ASSUME UNCHANGED <<h, answer, x, route, job, err, fault, leaf, got, pending, emitted, sent,
                         broken, wrapped>>
      PROVE  WholeReads'
  BY <1>1, WholeStays, Zenon DEF StreamTypes, WholeReads
<1>2. CASE \E r \in Req : OutOfRead(r)
  <2>1. PICK r \in Req : OutOfRead(r)
    BY <1>2
  <2>2. HandlerOnlyOf(r) /\ OnlyOf(r) /\ WholeInv(r)' /\ StreamTypes' /\ StreamOnlyOf(r)
    BY <2>1, HandlersAreOnlyOf, OutOfReadIsOnlyOf, OutOfReadWhole, OutOfReadStream, Zenon
       DEF WholeReads
  <2>3. \A q \in Req : q # r => got'[q] = got[q] /\ err'[q] = err[q]
    BY <2>1, OutOfReadRows, Zenon
  <2>4. \A q \in Req : q # r => WholeInv(q)'
    BY <2>2, <2>3, WholeStays, Zenon DEF HandlerOnlyOf, OnlyOf, StreamOnlyOf, WholeReads
  <2> QED
    BY <2>2, <2>4, Zenon DEF WholeReads
<1>3. CASE \E r \in Req : Step(r)
  <2>1. PICK r \in Req : Step(r)
    BY <1>3
  <2>2. h[r] = "read" /\ ReadStep(r) /\ UNCHANGED <<h, answer, sent, broken>>
    BY <2>1, Zenon DEF Step, svars
  <2>3. UNCHANGED job /\ x[r] \notin Resting /\ OnlyOf(r)
    BY <2>2, ReadStepKeepsReaders, ReadStepIsOnlyOf, Zenon DEF Readers
  <2>4. Waits(r)
    BY <2>2, <2>3, Zenon DEF Waits, AnswerInv, Readers, ReaderInv
  <2>5. WholeInv(r)'
    BY <2>2, <2>4, AdmitWhole, OpenWhole, LeafWhole, StopWhole, CloseWhole, Zenon
       DEF ReadStep, WholeReads
  <2>6. StreamTypes' /\ StreamOnlyOf(r) /\ \A q \in Req : q # r => got'[q] = got[q] /\ err'[q] = err[q]
    BY <2>2, RowsStep, ReadStepStream, Zenon
  <2>7. \A q \in Req : q # r => WholeInv(q)'
    BY <2>2, <2>3, <2>6, WholeStays, Zenon DEF OnlyOf, StreamOnlyOf, WholeReads
  <2> QED
    BY <2>5, <2>6, <2>7, Zenon DEF WholeReads
<1>4. CASE \E r \in Req, how \in RowOutcomes : WriteRow(r, how)
  <2>1. PICK r \in Req, how \in RowOutcomes : WriteRow(r, how)
    BY <1>4
  <2>2. /\ h[r] = "read" /\ (\E ok \in BOOLEAN : Deliver(r, ok))
        /\ UNCHANGED <<h, answer, job, route, leaf>>
        /\ UNCHANGED x \/ (x' = [x EXCEPT ![r] = "close"])
    BY <2>1, Zenon DEF WriteRow, Deliver
  <2>3. WholeInv(r)' /\ StreamTypes' /\ StreamOnlyOf(r)
    BY <2>1, <2>2, WriteRowWhole, WriteRowStream, Zenon DEF AnswerInv, WholeReads
  <2>4. \A q \in Req : q # r => got'[q] = got[q] /\ err'[q] = err[q] /\ x'[q] = x[q]
    BY <2>2, RowsStep, Zenon DEF PhaseInv
  <2>5. \A q \in Req : q # r => WholeInv(q)'
    BY <2>2, <2>3, <2>4, WholeStays, Zenon DEF StreamOnlyOf, WholeReads
  <2> QED
    BY <2>3, <2>5, Zenon DEF WholeReads
<1>5. CASE \E r \in Req, kind \in {"new", "repeat", "invalid"} : Observe(r, kind)
  BY <1>1, <1>5, Zenon DEF Observe, xvars
<1>6. CASE \E r \in Req : Environment(r) \/ GoroutineEnds(r)
  BY <1>1, <1>6, Zenon DEF Environment, Cancelled, Expires, GoroutineEnds, TxEnds, svars
<1>7. CASE \E b \in DB : Unmount(b) \/ CloseDrained(b)
  BY <1>1, <1>7, Zenon DEF Unmount, CloseDrained, streamvars, xvars
<1>8. CASE UNCHANGED vars
  BY <1>1, <1>8, Zenon DEF vars, svars, xvars
<1> QED
  BY <1>2, <1>3, <1>4, <1>5, <1>6, <1>7, <1>8, NextCases, Zenon

LEMMA WholeInit == Init => WholeReads
<1> SUFFICES ASSUME Init PROVE WholeReads
  OBVIOUS
<1>1. StreamTypes
  BY DEF Init, XInit, SInit, StreamTypes
<1>2. ASSUME NEW r \in Req PROVE WholeInv(r)
  <2>1. /\ sent[r] = 0 /\ emitted[r] = 0 /\ ~broken[r] /\ route[r] = "none" /\ fault[r] = NoErr
        /\ pending[r] = 0 /\ x[r] = "idle" /\ answer[r] = "none" /\ got[r] = NoRows
        /\ leaf[r] = Unread /\ h[r] = "idle"
    BY Zenon DEF Init, XInit, SInit
  <2>2. 0 <= MaxResultRows
    BY ExecutorAssumption
  <2> QED
    BY <2>1, <2>2, Zenon DEF WholeInv, Fresh, Succeeded
<1> QED
  BY <1>1, <1>2, Zenon DEF WholeReads

\* A response that says it is complete holds the whole result, each row once and within the
\* bound, whatever failed, was retried in memory or ended meanwhile; but for the read of one
\* collection whose driver failed with an error that wraps io.EOF.
THEOREM CompleteStaysWhole == Spec => []CompleteIsWhole
<1>1. Spec => []Evidenced
  BY EvidenceInit, EvidenceStep, ReadInvariant, ServiceInvariant, PTL DEF Spec
<1>2. Spec => []WholeReads
  BY <1>1, WholeInit, WholeStep, ReadInvariant, ServiceInvariant, PTL DEF Spec
<1>3. WholeReads => CompleteIsWhole
  BY Zenon DEF WholeReads, WholeInv, Whole, CompleteIsWhole
<1> QED
  BY <1>2, <1>3, PTL
===============================================================================

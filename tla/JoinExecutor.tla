----------------------------- MODULE JoinExecutor -----------------------------
(***************************************************************************)
(* The reads of a query: pkg/joinexec, which runs a relational document,   *)
(* and the reader of one collection in pkg/core, with the transaction of a *)
(* native PostgreSQL mount that a goroutine keeps open beneath a reader.   *)
(*                                                                         *)
(* A request reads on one of three routes.  "single" is the read of one    *)
(* collection (core.executeDalQueryStreamOn), which no gate admits.        *)
(* "database" hands the document to the database in one read transaction,  *)
(* and "in-memory" lets DALgo join above one guarded leaf per source; both *)
(* hold a slot of the gate while they read.                                *)
(*                                                                         *)
(* x[r] is where request r is.  leaf[r][i] is the reader of source i (the  *)
(* reader of the database itself is reader 1), got[r][i] the rows it       *)
(* delivered, and hold[r][i] the read transaction beneath it; hold[r][0]   *)
(* is the transaction of the database route.  fault[r] is the first        *)
(* failure the guard recorded and err[r] the error the read goes on with.  *)
(* The caller's callback and DALgo are the environment: DALgo asks the     *)
(* leaves in any order, may go on after a leaf has failed, and reads an    *)
(* error whose chain holds io.EOF as the end of a stream.                  *)
(***************************************************************************)
EXTENDS Integers, FiniteSets, Sequences, Functions

CONSTANTS
  Req,            \* the requests
  DB,             \* the ids of databases
  NoDB,           \* the database of a source that names none
  NoJob,          \* the job of a request that is not reading
  Query,          \* what each query asks: the database of its endpoint (or NoDB), its
                  \* sources (a database or NoDB, a collection, a scan clause), the
                  \* features of its document, the collections the caller may not read
  Engine,         \* [DB -> engine]: Database.Engine
  Policies,       \* the databases with access policies
  Queryable,      \* the databases whose engine is cleared (CanQuery)
  Declared,       \* the pairs <<database, collection>> a document may name
  TooLong,        \* the pairs whose name is longer than the engine keeps
  Native,         \* the native PostgreSQL mounts, which read in a transaction
  Holds,          \* [collection -> Nat]: the rows a collection holds
  Capacity,       \* [gated route -> Nat]: QueryLimits.InMemory and Database
  MaxSources,     \* the most sources of a document
  MaxSourceRows,  \* Limits.MaxSourceRows
  MaxResultRows,  \* MaxResultRows, and ResultBufferBytes of one collection
  MayFail         \* the requests whose sources, drivers and budgets may fail

Gated == {"database", "in-memory"}
Routes == Gated \cup {"none", "single"}
Idx == 0 .. MaxSources
Reader == 1 .. MaxSources
NoErr == "none"

Phases == {"idle", "admit", "queued", "open", "read", "sopen", "sread", "close",
           "endtx", "release", "returned"}
Contexts == {"live", "late", "gone"}  \* not done, past its deadline, cancelled
LeafStates == {"unread", "open", "drained", "failed", "closed"}
HoldStates == {"none", "held", "freed", "ended"}
Errors == {NoErr, "no_database", "denied", "unknown", "not_queryable", "not_joinable",
           "scan_protected", "capacity", "invalid", "budget", "unsupported", "source",
           "truncated", "ended", "callback", "skipped", "dalgo", "undeclared"}

ASSUME ExecutorAssumption ==
  /\ MaxSources \in Nat \ {0}
  /\ MaxSourceRows \in Nat /\ MaxResultRows \in Nat
  /\ Capacity \in [Gated -> Nat]
  /\ IsFiniteSet(Req)

VARIABLES
  job,      \* [Req -> the query being read, or NoJob]
  x,        \* [Req -> Phases]
  route,    \* [Req -> Routes]
  used,     \* [Gated -> Nat]: the slots taken (the length of the channel)
  holding,  \* the requests with a release function they have not called
  live,     \* [Req -> Contexts]: the context of the read
  fault,    \* [Req -> Errors]: Guard.failure
  leaf,     \* [Req -> [Reader -> LeafStates]]
  got,      \* [Req -> [Reader -> Nat]]
  hold,     \* [Req -> [Idx -> HoldStates]]
  pending,  \* [Req -> Nat]: rows DALgo has made and not delivered
  emitted,  \* [Req -> Nat]: rows the callback took
  err,      \* [Req -> Errors]
  wrapped   \* [Req -> BOOLEAN]: a read of one collection met an error that
            \* wraps io.EOF (history)

xvars == <<job, x, route, used, holding, live, fault, leaf, got, hold, pending, emitted,
           err, wrapped>>

Done(r) == live[r] # "live"

Unread == [i \in Reader |-> "unread"]
NoRows == [i \in Reader |-> 0]
NoHold == [i \in Idx |-> "none"]

XInit ==
  /\ job = [r \in Req |-> NoJob]
  /\ x = [r \in Req |-> "idle"]
  /\ route = [r \in Req |-> "none"]
  /\ used = [g \in Gated |-> 0]
  /\ holding = {}
  /\ live = [r \in Req |-> "live"]
  /\ fault = [r \in Req |-> NoErr]
  /\ leaf = [r \in Req |-> Unread]
  /\ got = [r \in Req |-> NoRows]
  /\ hold = [r \in Req |-> NoHold]
  /\ pending = [r \in Req |-> 0]
  /\ emitted = [r \in Req |-> 0]
  /\ err = [r \in Req |-> NoErr]
  /\ wrapped = [r \in Req |-> FALSE]

(***************************************************************************)
(* The preflight of ExecuteStream, over a query q.                         *)
(***************************************************************************)

\* settle: the sources with the database of each.
Settled ==
  [q \in DOMAIN Query |->
     [i \in DOMAIN Query[q].sources |->
        [Query[q].sources[i] EXCEPT !.db = IF @ = NoDB THEN Query[q].endpoint ELSE @]]]

Databases(q) == {Settled[q][i].db : i \in DOMAIN Settled[q]}
Reads(q) == {<<Settled[q][i].db, Settled[q][i].coll>> : i \in DOMAIN Settled[q]}
Cleared(q, b, coll) == <<b, coll>> \notin Query[q].denied

\* settle refuses a source without a database, and a document of several databases that
\* does not name the database of every source.
SettleRefused(q) ==
  \/ NoDB \in Databases(q)
  \/ /\ Cardinality(Databases(q)) > 1
     /\ \E i \in DOMAIN Query[q].sources : Query[q].sources[i].db = NoDB

\* checkEngines: an engine that cannot be queried comes before one outside the join set.
CheckEngines(q, joinEngines) ==
  IF ~(Databases(q) \subseteq Queryable) THEN "not_queryable"
  ELSE IF \E b \in Databases(q) : Engine[b] \notin joinEngines THEN "not_joinable"
  ELSE NoErr

ScanRefused(q) ==
  \E i \in DOMAIN Settled[q] : Settled[q][i].scan /\ Settled[q][i].db \in Policies

\* ExecuteStream up to the choice of the route: the first refusal of the steps, in their
\* order, of which the authorisation of every source comes before any database is resolved.
\* A document names a database by its id: one that the routes know by an alias as well, which
\* resolveSources refuses as another's (ErrRegistryMismatch), is not told apart here.
Preflight(q, registry, joinEngines) ==
  IF SettleRefused(q) THEN "no_database"
  ELSE IF \E t \in Reads(q) : ~Cleared(q, t[1], t[2]) THEN "denied"
  ELSE IF ~(Databases(q) \subseteq registry) THEN "unknown"
  ELSE IF CheckEngines(q, joinEngines) # NoErr THEN CheckEngines(q, joinEngines)
  ELSE IF ScanRefused(q) THEN "scan_protected"
  ELSE NoErr

\* config.route, and the money arithmetic that stays in DALgo's exact evaluator.
RouteOf(q, nativeEngines) ==
  IF /\ Cardinality(Databases(q)) = 1
     /\ ~Query[q].subquery /\ ~Query[q].null /\ ~Query[q].money
     /\ \A i \in DOMAIN Settled[q] : ~Settled[q][i].scan
     /\ \A b \in Databases(q) : Engine[b] \in nativeEngines /\ b \notin Policies
  THEN "database" ELSE "in-memory"

\* The request enters ExecuteStream with a document the classifier passed.
Begin(r, q, registry, joinEngines, nativeEngines) ==
  LET why == Preflight(q, registry, joinEngines)
  IN  /\ x[r] = "idle"
      /\ IF why # NoErr
         THEN /\ x' = [x EXCEPT ![r] = "returned"]
              /\ err' = [err EXCEPT ![r] = why]
              /\ UNCHANGED <<job, route>>
         ELSE /\ x' = [x EXCEPT ![r] = "admit"]
              /\ job' = [job EXCEPT ![r] = q]
              /\ route' = [route EXCEPT ![r] = RouteOf(q, nativeEngines)]
              /\ UNCHANGED err
      /\ UNCHANGED <<used, holding, live, fault, leaf, got, hold, pending, emitted, wrapped>>

(***************************************************************************)
(* The gate (server/querylimits.go) and attemptStream around it.           *)
(***************************************************************************)

Refused(r, why) ==
  /\ x' = [x EXCEPT ![r] = "returned"]
  /\ err' = [err EXCEPT ![r] = why]

\* acquire takes a free slot.  A queued request whose slot and context are both ready takes
\* either branch of the select.
TakeSlot(r) ==
  /\ \/ x[r] = "admit" /\ ~Done(r)
     \/ x[r] = "queued"
  /\ used[route[r]] < Capacity[route[r]]
  /\ used' = [used EXCEPT ![route[r]] = @ + 1]
  /\ holding' = holding \cup {r}
  /\ x' = [x EXCEPT ![r] = "open"]
  /\ UNCHANGED <<job, route, live, fault, leaf, got, hold, pending, emitted, err, wrapped>>

\* acquire finds no slot and waits.
Enqueue(r) ==
  /\ x[r] = "admit" /\ ~Done(r)
  /\ used[route[r]] >= Capacity[route[r]]
  /\ x' = [x EXCEPT ![r] = "queued"]
  /\ UNCHANGED <<job, route, used, holding, live, fault, leaf, got, hold, pending, emitted,
                 err, wrapped>>

\* The wait ran out, or the context ended: nothing was read.
TurnAway(r) ==
  /\ \/ x[r] = "queued"
     \/ x[r] = "admit" /\ Done(r)
  /\ Refused(r, "capacity")
  /\ UNCHANGED <<job, route, used, holding, live, fault, leaf, got, hold, pending, emitted,
                 wrapped>>

\* retryInMemory: the whole-document denial of an adapter, for a join that does not aggregate.
RetryInMemory(r) ==
  /\ Len(Query[job[r]].sources) >= 2
  /\ ~Query[job[r]].aggregates
  /\ err[r] = "unsupported"

\* Fault: a row that was delivered does not keep the document from being read again.
RetriesAnyway(r) == err[r] # NoErr /\ route[r] = "database" /\ RetryInMemory(r)

\* attemptStream returns: its slot is given back once, and a document the database could not
\* compile is read again in memory if no row of it was delivered.
Retries(r) ==
  err[r] # NoErr /\ emitted[r] = 0 /\ route[r] = "database" /\ RetryInMemory(r)

\* Fault: the retry runs inside the first attempt, whose deferred release has not run.
ReleaseSlotLate(r) ==
  /\ x[r] = "release"
  /\ IF Retries(r)
     THEN /\ x' = [x EXCEPT ![r] = "admit"]
          /\ route' = [route EXCEPT ![r] = "in-memory"]
          /\ err' = [err EXCEPT ![r] = NoErr]
          /\ UNCHANGED <<used, holding>>
     ELSE /\ x' = [x EXCEPT ![r] = "returned"]
          /\ used' = [used EXCEPT ![route[r]] = @ - 1]
          /\ holding' = holding \ {r}
          /\ UNCHANGED <<route, err>>
  /\ UNCHANGED <<job, live, fault, leaf, got, hold, pending, emitted, wrapped>>

ReleaseSlot(r) ==
  /\ x[r] = "release"
  /\ used' = [used EXCEPT ![route[r]] = @ - 1]
  /\ holding' = holding \ {r}
  /\ IF Retries(r)
     THEN /\ x' = [x EXCEPT ![r] = "admit"]
          /\ route' = [route EXCEPT ![r] = "in-memory"]
          /\ err' = [err EXCEPT ![r] = NoErr]
          /\ fault' = [fault EXCEPT ![r] = NoErr]
          /\ leaf' = [leaf EXCEPT ![r] = Unread]
          /\ got' = [got EXCEPT ![r] = NoRows]
          /\ hold' = [hold EXCEPT ![r] = NoHold]
          /\ live' = [live EXCEPT ![r] = IF @ = "late" THEN "live" ELSE @]
          /\ emitted' = [emitted EXCEPT ![r] = 0]
          /\ UNCHANGED <<job, pending, wrapped>>
     ELSE /\ x' = [x EXCEPT ![r] = "returned"]
          /\ UNCHANGED <<job, route, live, fault, leaf, got, hold, pending, emitted, err,
                         wrapped>>

(***************************************************************************)
(* Opening.                                                                *)
(***************************************************************************)
Targets(r) == Settled[job[r]]
Sources(r) == DOMAIN Query[job[r]].sources
Rows(r, i) == Holds[Query[job[r]].sources[i].coll]

\* The reader of source i is opened; on a native PostgreSQL mount openInReadTx begins the
\* transaction that the goroutine then keeps open beneath it.
Opened(r, i) ==
  /\ leaf' = [leaf EXCEPT ![r][i] = "open"]
  /\ hold' = [hold EXCEPT ![r][i] = IF Targets(r)[i].db \in Native THEN "held" ELSE @]

\* StreamTugQLQuery and StreamQuery: a collection whose name is too long or that the database
\* does not declare, and an engine that is not cleared, are refused before the driver is asked.
BeginSingle(r, q) ==
  LET t == Settled[q][1]
      why == IF <<t.db, t.coll>> \in TooLong THEN "invalid"
             ELSE IF <<t.db, t.coll>> \notin Declared THEN "undeclared"
             ELSE IF t.db \notin Queryable THEN "not_queryable"
             ELSE NoErr
  IN  /\ x[r] = "idle"
      /\ job' = [job EXCEPT ![r] = q]
      /\ route' = [route EXCEPT ![r] = "single"]
      /\ x' = [x EXCEPT ![r] = IF why = NoErr THEN "sopen" ELSE "returned"]
      /\ err' = [err EXCEPT ![r] = why]
      /\ UNCHANGED <<used, holding, live, fault, leaf, got, hold, pending, emitted, wrapped>>

\* ExecuteQueryToRecordsReader of one collection.  A reader that could not be opened has
\* ended its transaction before the error is returned.
OpenSingle(r) ==
  /\ x[r] = "sopen"
  /\ \/ /\ x' = [x EXCEPT ![r] = "sread"]
        /\ Opened(r, 1)
        /\ UNCHANGED err
     \/ /\ r \in MayFail
        /\ \E why \in {"source", "unsupported"} : Refused(r, why)
        /\ UNCHANGED <<leaf, hold>>
  /\ UNCHANGED <<job, route, used, holding, live, fault, got, pending, emitted, wrapped>>

\* The attempt ends with why before anything is open.
GiveUp(r, why) ==
  /\ x' = [x EXCEPT ![r] = "release"]
  /\ err' = [err EXCEPT ![r] = why]
  /\ UNCHANGED <<leaf, hold>>

\* databaseStream: CheckRead, then ReadTx, whose callback opens the reader of the document.
\* A transaction that cannot begin, and a driver that never runs the callback, open nothing;
\* a query the adapter cannot compile fails inside the transaction.
OpenDatabase(r) ==
  /\ x[r] = "open" /\ route[r] = "database"
  /\ \/ /\ x' = [x EXCEPT ![r] = "read"]
        /\ leaf' = [leaf EXCEPT ![r][1] = "open"]
        /\ hold' = [hold EXCEPT ![r][0] = "held"]
        /\ UNCHANGED err
     \/ /\ r \in MayFail
        /\ \E why \in {"invalid", "source", "skipped"} : GiveUp(r, why)
     \/ /\ r \in MayFail
        /\ \E why \in {"unsupported", "source"} : err' = [err EXCEPT ![r] = why]
        /\ x' = [x EXCEPT ![r] = "endtx"]
        /\ hold' = [hold EXCEPT ![r][0] = "held"]
        /\ UNCHANGED leaf
  /\ UNCHANGED <<job, route, used, holding, live, fault, got, pending, emitted, wrapped>>

\* inMemory up to the executor of DALgo: a document whose names the scope check refuses
\* reads nothing.
OpenMemory(r) ==
  /\ x[r] = "open" /\ route[r] = "in-memory"
  /\ \/ /\ x' = [x EXCEPT ![r] = "read"]
        /\ UNCHANGED <<err, leaf, hold>>
     \/ r \in MayFail /\ GiveUp(r, "invalid")
  /\ UNCHANGED <<job, route, used, holding, live, fault, got, pending, emitted, wrapped>>

(***************************************************************************)
(* The guarded leaves of the in-memory route.                              *)
(***************************************************************************)

\* Guard.fail: the first failure is kept.
GuardFail(r, why) == fault' = [fault EXCEPT ![r] = IF @ = NoErr THEN why ELSE @]

\* What DALgo does with the error of a leaf: it reports it, and consume closes the reader,
\* or it goes on with its other reads.
DalgoReportsOrGoesOn(r) ==
  \/ x' = [x EXCEPT ![r] = "close"] /\ err' = [err EXCEPT ![r] = "dalgo"]
  \/ UNCHANGED <<x, err>>

InMemoryRead(r) == x[r] = "read" /\ route[r] = "in-memory"

\* leaf.ExecuteQueryToRecordsReader, with the second authorisation of the collection.
OpenLeaf(r, i) ==
  LET t == Targets(r)[i]
      why == IF fault[r] # NoErr THEN fault[r]
             ELSE IF ~Cleared(job[r], t.db, t.coll) THEN "denied"
             ELSE IF Done(r) THEN "ended"
             ELSE NoErr
  IN  /\ InMemoryRead(r)
      /\ i \in Sources(r) /\ leaf[r][i] = "unread"
      /\ \/ why = NoErr /\ Opened(r, i) /\ UNCHANGED <<fault, x, err>>
         \/ /\ why # NoErr \/ r \in MayFail
            /\ GuardFail(r, IF why # NoErr THEN why ELSE "source")
            /\ leaf' = [leaf EXCEPT ![r][i] = "closed"]
            /\ DalgoReportsOrGoesOn(r)
            /\ UNCHANGED hold
      /\ UNCHANGED <<job, route, used, holding, live, got, pending, emitted, wrapped>>

\* The rows charged to the budget of the request: every row a leaf delivered.
Charged(r) == SumFunction(got[r])

\* countingReader.Next of leaf i: a recorded failure, the end of the context, the next row
\* (charged, and withheld when it would cross the budget), the end of the source, or an
\* error of the source, whether or not it wraps io.EOF.
LeafNext(r, i) ==
  /\ InMemoryRead(r)
  /\ i \in Sources(r) /\ leaf[r][i] = "open"
  /\ LET why == IF fault[r] # NoErr THEN fault[r]
                ELSE IF Done(r) THEN "ended"
                ELSE IF got[r][i] < Rows(r, i) /\ Charged(r) + 1 > MaxSourceRows THEN "budget"
                ELSE NoErr
     IN  \/ /\ why # NoErr \/ r \in MayFail
            /\ GuardFail(r, IF why # NoErr THEN why ELSE "source")
            /\ leaf' = [leaf EXCEPT ![r][i] = "failed"]
            /\ DalgoReportsOrGoesOn(r)
            /\ UNCHANGED <<got, pending>>
         \/ /\ why = NoErr /\ got[r][i] < Rows(r, i)
            /\ got' = [got EXCEPT ![r][i] = @ + 1]
            /\ pending' = [pending EXCEPT ![r] = IF i = 1 THEN @ + 1 ELSE @]
            /\ UNCHANGED <<leaf, fault, x, err>>
         \/ /\ why = NoErr /\ got[r][i] = Rows(r, i)
            /\ leaf' = [leaf EXCEPT ![r][i] = "drained"]
            /\ UNCHANGED <<got, pending, fault, x, err>>
  /\ UNCHANGED <<job, route, used, holding, live, hold, emitted, wrapped>>

(***************************************************************************)
(* The loop of consume, and of executeDalQueryStreamOn on the single route.*)
(***************************************************************************)
Reading(r) == x[r] \in {"read", "sread"}
Over(s) == s \in {"drained", "failed", "closed"}

\* DALgo delivers a row of a join once it has read the sources beside the base.
RowReady(r) ==
  /\ Reading(r)
  /\ IF route[r] = "in-memory"
     THEN pending[r] > 0 /\ \A i \in Sources(r) \ {1} : Over(leaf[r][i])
     ELSE got[r][1] < Rows(r, 1)

\* A limited document ends early; otherwise the read ends when its sources have, of which
\* DALgo need not read those beside a base without rows.
AtEnd(r) ==
  /\ Reading(r)
  /\ \/ Query[job[r]].limited /\ emitted[r] > 0
     \/ IF route[r] = "in-memory"
        THEN /\ pending[r] = 0 /\ Over(leaf[r][1])
             /\ got[r][1] = 0 \/ \A i \in Sources(r) : Over(leaf[r][i])
        ELSE got[r][1] = Rows(r, 1)

\* The loop ends, with why.
StopReading(r, why) ==
  /\ x' = [x EXCEPT ![r] = "close"]
  /\ err' = [err EXCEPT ![r] = why]
  /\ UNCHANGED <<job, route, used, holding, live, fault, leaf, got, hold, pending, emitted>>

\* One row, given to the callback, which took it (ok) or failed.
Deliver(r, ok) ==
  /\ RowReady(r) /\ ~Done(r)
  /\ emitted[r] < MaxResultRows
  /\ IF route[r] = "in-memory"
     THEN pending' = [pending EXCEPT ![r] = @ - 1] /\ UNCHANGED got
     ELSE got' = [got EXCEPT ![r][1] = @ + 1] /\ UNCHANGED pending
  /\ IF ok
     THEN emitted' = [emitted EXCEPT ![r] = @ + 1] /\ UNCHANGED <<x, err>>
     ELSE /\ x' = [x EXCEPT ![r] = "close"]
          /\ err' = [err EXCEPT ![r] = "callback"]
          /\ UNCHANGED emitted
  /\ UNCHANGED <<job, route, used, holding, live, fault, leaf, hold, wrapped>>

\* resultCap, and ResultBufferBytes: the row that would cross the bound ends the read.
OverBudget(r) ==
  /\ RowReady(r) /\ ~Done(r)
  /\ emitted[r] = MaxResultRows
  /\ StopReading(r, "budget") /\ UNCHANGED wrapped

ReadEnds(r) ==
  /\ AtEnd(r) /\ ~Done(r)
  /\ StopReading(r, NoErr) /\ UNCHANGED wrapped

ContextEnds(r) ==
  /\ Reading(r) /\ Done(r)
  /\ StopReading(r, "ended") /\ UNCHANGED wrapped

\* Next of the database's own reader fails.
ReaderFails(r) ==
  /\ Reading(r) /\ route[r] # "in-memory" /\ r \in MayFail /\ ~Done(r)
  /\ \E why \in {"source", "unsupported"} : StopReading(r, why)
  /\ UNCHANGED wrapped

\* Next fails with an error whose chain holds io.EOF: resultCap makes it ErrReadTruncated on
\* the database route, and the read of one collection takes it for the end of the result.
TruncatedError(r) == IF route[r] = "single" THEN NoErr ELSE "truncated"

ReaderTruncated(r) ==
  /\ Reading(r) /\ route[r] # "in-memory" /\ r \in MayFail /\ ~Done(r)
  /\ StopReading(r, TruncatedError(r))
  /\ wrapped' = [wrapped EXCEPT ![r] = (route[r] = "single")]

(***************************************************************************)
(* Closing: every reader that is open, one after another.  A reader above  *)
(* a native transaction frees it and waits for the goroutine to end it.    *)
(***************************************************************************)
IsOpen(s) == s \in {"open", "drained", "failed"}
NoneFreed(r) == \A i \in Idx : hold[r][i] # "freed"

\* The error of a Close: a leaf records it on the guard, consume and the single read keep it
\* if the read had none.
CloseError(r) ==
  IF route[r] = "in-memory"
  THEN GuardFail(r, "source") /\ UNCHANGED err
  ELSE err' = [err EXCEPT ![r] = IF @ = NoErr THEN "source" ELSE @] /\ UNCHANGED fault

\* Fault: finish waits for the goroutine without letting it go.
CloseReaderKept(r, i) ==
  /\ x[r] = "close" /\ IsOpen(leaf[r][i]) /\ NoneFreed(r)
  /\ leaf' = [leaf EXCEPT ![r][i] = "closed"]
  /\ UNCHANGED <<job, x, route, used, holding, live, fault, got, hold, pending, emitted, err,
                 wrapped>>

CloseReader(r, i) ==
  /\ x[r] = "close" /\ IsOpen(leaf[r][i]) /\ NoneFreed(r)
  /\ leaf' = [leaf EXCEPT ![r][i] = "closed"]
  /\ hold' = [hold EXCEPT ![r][i] = IF @ = "held" THEN "freed" ELSE @]
  /\ \/ UNCHANGED <<fault, err>>
     \/ r \in MayFail /\ CloseError(r)
  /\ UNCHANGED <<job, x, route, used, holding, live, got, pending, emitted, wrapped>>

\* The goroutine of openInReadTx leaves its callback, because the reader was closed or the
\* context ended, and the transaction ends.
TxEnds(r, i) ==
  /\ i # 0
  /\ \/ hold[r][i] = "freed"
     \/ hold[r][i] = "held" /\ Done(r)
  /\ hold' = [hold EXCEPT ![r][i] = "ended"]
  /\ UNCHANGED <<job, x, route, used, holding, live, fault, leaf, got, pending, emitted,
                 err, wrapped>>

\* Fault: finish lets the goroutine go and does not wait for it.
TxNotAwaited(r) == TRUE

\* readTxHold.finish: Close of the reader returns when the transaction has ended, with the
\* error of its commit if there is one.
TxAwaited(r) == \A i \in Reader : hold[r][i] \notin {"held", "freed"}

\* consume and the single read return.  The error of the loop or of Close comes first, then
\* the context (consume only), and the failure the guard recorded wins over both.
Classified(r) ==
  IF route[r] = "single" THEN err[r]
  ELSE IF fault[r] # NoErr THEN fault[r]
  ELSE IF err[r] # NoErr THEN err[r]
  ELSE IF Done(r) THEN "ended"
  ELSE NoErr

AllClosed(r) ==
  /\ x[r] = "close"
  /\ \A i \in Reader : ~IsOpen(leaf[r][i])
  /\ TxAwaited(r)
  /\ \/ err' = [err EXCEPT ![r] = Classified(r)]
     \/ /\ r \in MayFail /\ \E i \in Reader : hold[r][i] = "ended"
        /\ err' = [err EXCEPT ![r] = IF Classified(r) = NoErr THEN "source" ELSE Classified(r)]
  /\ x' = [x EXCEPT ![r] = CASE route[r] = "single" -> "returned"
                             [] route[r] = "database" -> "endtx"
                             [] OTHER -> "release"]
  /\ UNCHANGED <<job, route, used, holding, live, fault, leaf, got, hold, pending, emitted,
                 wrapped>>

\* ReadTx returns: the callback failed and the transaction is rolled back, or it commits, and
\* a commit that fails fails the read.
EndTx(r) ==
  /\ x[r] = "endtx"
  /\ hold' = [hold EXCEPT ![r][0] = "ended"]
  /\ \/ UNCHANGED err
     \/ /\ r \in MayFail /\ err[r] = NoErr
        /\ err' = [err EXCEPT ![r] = "source"]
  /\ x' = [x EXCEPT ![r] = "release"]
  /\ UNCHANGED <<job, route, used, holding, live, fault, leaf, got, pending, emitted, wrapped>>

(***************************************************************************)
(* The client goes away, or the deadline of the read passes.               *)
(***************************************************************************)
Cancelled(r) ==
  /\ r \in MayFail /\ live[r] = "live" /\ x[r] \notin {"idle", "returned"}
  /\ live' = [live EXCEPT ![r] = "gone"]
  /\ UNCHANGED <<job, x, route, used, holding, fault, leaf, got, hold, pending, emitted, err,
                 wrapped>>

Expires(r) ==
  /\ r \in MayFail /\ live[r] = "live"
  /\ x[r] \in {"open", "read", "sopen", "sread", "close", "endtx"}
  /\ live' = [live EXCEPT ![r] = "late"]
  /\ UNCHANGED <<job, x, route, used, holding, fault, leaf, got, hold, pending, emitted, err,
                 wrapped>>

\* The steps of a read that the request itself takes, but for Deliver and Begin, which its
\* caller joins.
ReadStep(r) ==
  \/ TakeSlot(r) \/ Enqueue(r) \/ TurnAway(r) \/ ReleaseSlot(r)
  \/ OpenSingle(r) \/ OpenDatabase(r) \/ OpenMemory(r)
  \/ \E i \in Reader : OpenLeaf(r, i) \/ LeafNext(r, i) \/ CloseReader(r, i)
  \/ OverBudget(r) \/ ReadEnds(r) \/ ContextEnds(r)
  \/ ReaderFails(r) \/ ReaderTruncated(r)
  \/ AllClosed(r) \/ EndTx(r)

\* The request is over, and what it held in memory is gone; a reader or a transaction it
\* left open would stay.
Abandoned(r) ==
  \/ \E i \in Reader : IsOpen(leaf[r][i])
  \/ \E i \in Idx : hold[r][i] \in {"held", "freed"}

Forget(r) ==
  /\ IF Abandoned(r)
     THEN UNCHANGED <<job, leaf, hold>>
     ELSE /\ job' = [job EXCEPT ![r] = NoJob]
          /\ leaf' = [leaf EXCEPT ![r] = Unread]
          /\ hold' = [hold EXCEPT ![r] = NoHold]
  /\ x' = [x EXCEPT ![r] = "returned"]
  /\ route' = [route EXCEPT ![r] = "none"]
  /\ live' = [live EXCEPT ![r] = "gone"]
  /\ fault' = [fault EXCEPT ![r] = NoErr]
  /\ got' = [got EXCEPT ![r] = NoRows]
  /\ pending' = [pending EXCEPT ![r] = 0]
  /\ emitted' = [emitted EXCEPT ![r] = 0]
  /\ err' = [err EXCEPT ![r] = NoErr]
  /\ wrapped' = [wrapped EXCEPT ![r] = FALSE]
  /\ UNCHANGED <<used, holding>>
===============================================================================

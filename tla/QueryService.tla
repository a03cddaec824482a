----------------------------- MODULE QueryService -----------------------------
(***************************************************************************)
(* The HTTP handlers of a query (pkg/server): POST and GET                 *)
(* /v1/databases/{db}/tugql and /query, and /v1/tugql, from the lease of   *)
(* their databases to the last byte of the response, above the reads of    *)
(* JoinExecutor and beside an unmount of the databases they read.          *)
(*                                                                         *)
(* A request asks one of the queries of Asked(r), whose record says beside *)
(* its document whether it is a /query, carries paging headers, orders its *)
(* rows, has the shape that a request profile asks for and an execution id *)
(* that is no id, asks for the media type with an error terminal and is a  *)
(* GET.  h[r] is where its handler is; started, sent and broken are the    *)
(* stream of its response, cache the Cache-Control header and answer what  *)
(* the client gets.                                                        *)
(***************************************************************************)
EXTENDS JoinExecutor

CONSTANTS
  Asked(_),        \* the queries request r may ask
  NoRequest,       \* the request of a handler that has none yet
  Unmountable,     \* the databases an operator unmounts
  NoRetention,     \* the databases with retention "none"
  Profiled,        \* the bounded immutable databases (a read profile)
  Ordinary,        \* those of them whose profile allows ordinary queries
  Provider,        \* the HTTP databases with a provider profile
  Restricted,      \* those of them whose profile has a request profile
  Planned,         \* the pairs of a provider and the collection of its profile
  BrokenRights,    \* the databases whose source rights cannot be captured, or
                   \* leave no room for the evidence of a provider
  Licensed,        \* the databases with source rights
  Cacheable,       \* the databases with a cache_ttl of whole seconds
  ReadOnlyNoAuth,  \* the server is read-only and has no authentication
  Listed,          \* the operator's list of join engines
  AlwaysCleared    \* the engines the allow-list of core clears

\* Checked when a server starts (validateProviderProfiles, core.checkRetention): a provider
\* profile needs an HTTP database that keeps nothing and has rights, and such a database has no
\* cache_ttl.
ASSUME StartupAssumption ==
  /\ NoDB \notin DB
  /\ Provider \subseteq DB \cap NoRetention \cap Licensed
  /\ Restricted \subseteq Provider
  /\ \A b \in Provider : Engine[b] = "http"
  /\ NoRetention \cap Cacheable = {}

\* A query for the reader of one collection, which handleTugQL does not send to
\* serveRelationalTugQL.
IsSingle(q) == Query[q].endpoint # NoDB /\ Query[q].plain

\* A document reads at least one source, and a plain one reads one collection of the database
\* of its endpoint, whose own name withoutOwnDatabase has taken out.
ASSUME QueryAssumption ==
  /\ \A r \in Req : Asked(r) \subseteq DOMAIN Query
  /\ \A q \in DOMAIN Query :
       /\ \E n \in 1 .. MaxSources :
            Query[q].sources \in [1 .. n -> [db : DB \cup {NoDB}, coll : STRING, scan : BOOLEAN]]
       /\ IsSingle(q) => DOMAIN Query[q].sources = {1} /\ Query[q].sources[1].db = NoDB

MaxReads == 1

VARIABLES
  req,       \* [Req -> a request or NoRequest]
  h,         \* [Req -> where the handler is]
  lease,     \* [Req -> SUBSET DB]: the databases counted in flight for r
  mounted,   \* the databases requests are routed to
  closed,    \* the databases Unmount has closed
  started,   \* [Req -> BOOLEAN]: the 200 and its header are written
  sent,      \* [Req -> Nat]: rows written
  broken,    \* [Req -> BOOLEAN]: a write or a flush failed (transportErr)
  unwritten, \* [Req -> BOOLEAN]: a row or the footer could not be encoded, or the
             \* footer is too long: it failed before a byte of it was written
  cache,     \* [Req -> {"no-store", "public"}]
  answer,    \* [Req -> Answers]
  reads,     \* [Req -> 0 .. 2]: observations the collector keeps
  mismatch,  \* [Req -> BOOLEAN]: providerCapture.err or Collector.err is set
  cited      \* [Req -> the sources usedSourceIds names]

svars == <<req, h, lease, mounted, closed, started, sent, broken, unwritten, cache, answer,
           reads, mismatch, cited>>
vars == <<xvars, svars>>

Refusals == {"400", "403", "404", "422", "500", "501", "503", "504"}
Answers == {"none", "complete", "failed", "aborted", "paged"} \cup Refusals
Handler == {"idle", "routed", "targets", "lease", "begin", "read", "end", "done"}

SInit ==
  /\ req = [r \in Req |-> NoRequest]
  /\ h = [r \in Req |-> "idle"]
  /\ lease = [r \in Req |-> {}]
  /\ mounted = DB
  /\ closed = {}
  /\ started = [r \in Req |-> FALSE]
  /\ sent = [r \in Req |-> 0]
  /\ broken = [r \in Req |-> FALSE]
  /\ unwritten = [r \in Req |-> FALSE]
  /\ cache = [r \in Req |-> "no-store"]
  /\ answer = [r \in Req |-> "none"]
  /\ reads = [r \in Req |-> 0]
  /\ mismatch = [r \in Req |-> FALSE]
  /\ cited = [r \in Req |-> {}]

Init == XInit /\ SInit

streamvars == <<started, sent, broken, unwritten, cache, reads, mismatch, cited>>

\* The handler goes on at next.
Goto(r, next) == h' = [h EXCEPT ![r] = next]

\* The handler answers and returns, before its stream was started.
Answer(r, status) ==
  /\ answer' = [answer EXCEPT ![r] = status]
  /\ Goto(r, "end")

\* The handler answers status, or goes on at next when there is none.
AnswerOr(r, status, next) ==
  IF status = "none" THEN Goto(r, next) /\ UNCHANGED answer ELSE Answer(r, status)

(***************************************************************************)
(* The request arrives.                                                    *)
(***************************************************************************)
\* Server.db: the database of the path is leased, or the answer is 404.
Arrive(r, q) ==
  /\ h[r] = "idle"
  /\ req' = [req EXCEPT ![r] = q]
  /\ IF Query[q].endpoint = NoDB
     THEN Goto(r, "targets") /\ UNCHANGED <<lease, answer>>
     ELSE IF Query[q].endpoint \in mounted
     THEN /\ lease' = [lease EXCEPT ![r] = {Query[q].endpoint}]
          /\ Goto(r, IF IsSingle(q) THEN "routed" ELSE "targets")
          /\ UNCHANGED answer
     ELSE Answer(r, "404") /\ UNCHANGED lease
  /\ UNCHANGED <<xvars, mounted, closed, streamvars>>

\* What Server.db and handleTugQL refuse of the request itself, before it is authorised: a
\* request profile admits the reads of one collection that have its shape (native fields, an
\* explicit limit), and a database that keeps nothing no paging headers.
GuardProviderRequest(q) ==
  Query[q].endpoint \in Restricted => IsSingle(q) /\ Query[q].shaped /\ ~Query[q].paging
GuardRetentionRead(q) == Query[q].endpoint \in NoRetention => ~Query[q].paging
GuardRefused(q) == ~GuardProviderRequest(q) \/ ~GuardRetentionRead(q)

\* prepareImmutableQuery: what the read profile of an immutable database admits.
PrepareImmutableQuery(q) ==
  LET b == Query[q].endpoint
  IN  IF b \notin Profiled THEN "none"
      ELSE IF b \notin Ordinary THEN "422"
      ELSE IF Query[q].ordered THEN "400"
      ELSE IF Query[q].paging THEN "422"
      ELSE IF <<b, Query[q].sources[1].coll>> \notin Declared THEN "404"
      ELSE "none"

\* The refusals of handleTugQL and of executeQuery before the read of one collection, in
\* their order: the guards, the capability, what a /query cannot read, the read profile, the
\* paging headers, the source rights, whose failure a database with access policies reports
\* only after its read, and beginProviderRead.
SingleRefusal(q) ==
  LET b == Query[q].endpoint
      read == <<b, Query[q].sources[1].coll>>
      json == Query[q].json
  IN  IF GuardRefused(q) THEN "422"
      ELSE IF read \in Query[q].denied THEN "403"
      ELSE IF json /\ b \in Native THEN "501"
      ELSE IF json /\ b \in Profiled THEN "422"
      ELSE IF PrepareImmutableQuery(q) # "none" THEN PrepareImmutableQuery(q)
      ELSE IF Query[q].paging /\ ~json THEN "paged"
      ELSE IF b \in BrokenRights /\ (Engine[b] = "http" \/ b \notin Policies) THEN "422"
      ELSE IF b \in Provider /\ read \notin Planned THEN "422"
      ELSE IF b \in Provider /\ Query[q].badId THEN "400"
      ELSE "none"

\* handleTugQL and executeQuery up to the read; a paged query goes on in handlePagedTugQL.
RouteSingle(r) ==
  /\ h[r] = "routed"
  /\ AnswerOr(r, SingleRefusal(req[r]), "read")
  /\ IF SingleRefusal(req[r]) = "none" THEN BeginSingle(r, req[r]) ELSE UNCHANGED xvars
  /\ UNCHANGED <<req, lease, mounted, closed, streamvars>>

(***************************************************************************)
(* A relational document: serveRelationalTugQL.                            *)
(***************************************************************************)
\* Fault: the capability is left to the executor, which asks it after the databases are
\* leased and the stages are passed.
TargetRefusalUncleared(q) ==
  IF GuardRefused(q) THEN "422"
  ELSE IF NoDB \in Databases(q) THEN "400"
  ELSE IF Query[q].endpoint # NoDB /\ Databases(q) # {Query[q].endpoint} THEN "400"
  ELSE "none"

\* The guards of the endpoint, relationalTargets, and the authorisation of every target.
TargetRefusal(q) ==
  IF GuardRefused(q) THEN "422"
  ELSE IF NoDB \in Databases(q) THEN "400"
  ELSE IF Query[q].endpoint # NoDB /\ Databases(q) # {Query[q].endpoint} THEN "400"
  ELSE IF Reads(q) \cap Query[q].denied # {} THEN "403"
  ELSE "none"

SettleTargets(r) ==
  /\ h[r] = "targets"
  /\ AnswerOr(r, TargetRefusal(req[r]), "lease")
  /\ UNCHANGED <<xvars, req, lease, mounted, closed, streamvars>>

\* leaseRelationalDatabases: the next database the document names, or a 404.
LeaseNext(r) ==
  /\ h[r] = "lease"
  /\ \E b \in Databases(req[r]) \ lease[r] :
       IF b \in mounted
       THEN lease' = [lease EXCEPT ![r] = @ \cup {b}] /\ UNCHANGED <<h, answer>>
       ELSE Answer(r, "404") /\ UNCHANGED lease
  /\ UNCHANGED <<xvars, req, mounted, closed, streamvars>>

\* engineCleared, joinEngines and nativeEngines ask the databases that are mounted now.
EngineCleared(e) == e \in AlwaysCleared \/ \E b \in mounted \cap Queryable : Engine[b] = e
JoinEngines ==
  {e \in Listed : EngineCleared(e)}
    \cup (IF mounted \cap Native \cap Queryable # {} THEN {"postgres"} ELSE {})
NativeEngines == {"sqlite"} \cup (IF EngineCleared("postgres") THEN {"postgres"} ELSE {})

\* The first source of the document that cannot be read: its name is too long, or names
\* nothing the database declares.
SourceRefusal(q) ==
  LET unread == {i \in DOMAIN Settled[q] : <<Settled[q][i].db, Settled[q][i].coll>> \notin Declared}
      first == CHOOSE i \in unread : \A j \in unread : i <= j
  IN  IF unread = {} THEN "none"
      ELSE IF <<Settled[q][first].db, Settled[q][first].coll>> \in TooLong THEN "400"
      ELSE "404"

\* The refusals of serveRelationalTugQL once the databases are leased, in their order.
StageRefusal(r) ==
  LET q == req[r]
      dbs == lease[r]
      paging == Query[q].paging
  IN  IF dbs \cap Restricted # {} THEN "422"
      ELSE IF dbs \cap NoRetention # {} /\ paging THEN "422"
      ELSE IF dbs \cap Policies # {} THEN "422"
      ELSE IF dbs \cap Profiled # {} THEN "422"
      ELSE IF SourceRefusal(q) # "none" THEN SourceRefusal(q)
      ELSE IF paging THEN "422"
      ELSE IF ~(dbs \subseteq Queryable) THEN "501"
      ELSE IF \E b \in dbs : Engine[b] \notin JoinEngines THEN "422"
      ELSE IF dbs \cap BrokenRights # {} THEN "422"
      ELSE "none"

Stages(r) ==
  /\ h[r] = "lease"
  /\ Databases(req[r]) \subseteq lease[r]
  /\ AnswerOr(r, StageRefusal(r), "begin")
  /\ UNCHANGED <<xvars, req, lease, mounted, closed, streamvars>>

\* The options are made, the engines asked once more, and the executor is called with the
\* leased databases as its registry.
StartRelational(r) ==
  /\ h[r] = "begin"
  /\ Goto(r, "read")
  /\ Begin(r, req[r], lease[r], JoinEngines, NativeEngines)
  /\ UNCHANGED <<req, lease, mounted, closed, answer, streamvars>>

(***************************************************************************)
(* The read, and the stream of its rows.                                   *)
(***************************************************************************)
Single(r) == route[r] = "single"

\* Fault: a response with an error terminal is cacheable like any other.
CacheControlAnyStream(r) ==
  IF /\ ReadOnlyNoAuth /\ Query[req[r]].get
     /\ lease[r] # {}
     /\ lease[r] \subseteq Cacheable \ (Policies \cup NoRetention \cup Profiled)
  THEN "public" ELSE "no-store"

\* cacheReadResponse of one collection, relationalCacheControl over all of them, and neither
\* for a response that may end with an error terminal.
CacheControl(r) ==
  IF /\ ~Query[req[r]].errorStream /\ ReadOnlyNoAuth /\ Query[req[r]].get
     /\ lease[r] # {}
     /\ lease[r] \subseteq Cacheable \ (Policies \cup NoRetention \cup Profiled)
  THEN "public" ELSE "no-store"

\* How the write of a row ends.
RowOutcomes == {"written", "unencoded", "cut off"}

\* The callback of a row sets the header with the first one and writes the row.  A row that
\* cannot be encoded (a number that is not finite) fails before the response is started, and
\* a failed write or flush has started it all the same.
WriteRow(r, how) ==
  /\ h[r] = "read"
  /\ how = "written" \/ r \in MayFail
  /\ Deliver(r, how = "written")
  /\ started' = [started EXCEPT ![r] = @ \/ how # "unencoded"]
  /\ cache' = [cache EXCEPT ![r] = IF started[r] THEN @ ELSE CacheControl(r)]
  /\ sent' = [sent EXCEPT ![r] = IF how = "written" THEN @ + 1 ELSE @]
  /\ broken' = [broken EXCEPT ![r] = @ \/ how = "cut off"]
  /\ unwritten' = [unwritten EXCEPT ![r] = @ \/ how = "unencoded"]
  /\ UNCHANGED <<req, h, lease, mounted, closed, answer, reads, mismatch, cited>>

Step(r) ==
  /\ h[r] = "read"
  /\ ReadStep(r)
  /\ UNCHANGED svars

\* The HTTP driver reports a fetch to the observer of beginProviderRead: one that is not the
\* live fetch it should be, one reported before, or a new one, which the collector keeps and
\* then validates against MaxReads.  The first error sticks.
Observe(r, kind) ==
  /\ h[r] = "read" /\ x[r] \in {"sopen", "sread"}
  /\ Query[req[r]].endpoint \in Provider
  /\ ~mismatch[r]
  /\ \/ /\ kind = "new"
        /\ reads' = [reads EXCEPT ![r] = @ + 1]
        /\ mismatch' = [mismatch EXCEPT ![r] = reads[r] + 1 > MaxReads]
     \/ kind = "repeat" /\ reads[r] > 0 /\ UNCHANGED <<reads, mismatch>>
     \/ /\ kind = "invalid" /\ r \in MayFail
        /\ mismatch' = [mismatch EXCEPT ![r] = TRUE] /\ UNCHANGED reads
  /\ UNCHANGED <<xvars, req, h, lease, mounted, closed, started, sent, broken, unwritten,
                 cache, answer, cited>>

(***************************************************************************)
(* The end of the response.                                                *)
(***************************************************************************)

\* hiddenAsDenied: a database with access policies does not say which collections it declares.
Hidden(r) == err[r] = "undeclared" /\ Query[req[r]].endpoint \in Policies

\* writeMappedError, of the read of one collection; it knows no timeout.
MappedStatus(r) ==
  IF Hidden(r) THEN "403"
  ELSE IF err[r] = "undeclared" THEN "404"
  ELSE IF err[r] = "invalid" THEN "400"
  ELSE IF err[r] = "not_queryable" THEN "501"
  ELSE IF err[r] \in {"budget", "unsupported"} THEN "422"
  ELSE "500"

\* writeRelationalErrorMode.
RelationalStatus(r) ==
  CASE err[r] \in {"no_database", "invalid"} -> "400"
    [] err[r] = "denied" -> "403"
    [] err[r] = "unknown" -> "404"
    [] err[r] = "not_queryable" -> "501"
    [] err[r] \in {"not_joinable", "scan_protected", "budget", "unsupported"} -> "422"
    [] err[r] = "capacity" -> "503"
    [] err[r] = "ended" /\ live[r] = "late" -> "504"
    [] OTHER -> "500"

\* finishStreamErrorOrAbort: a response that was started ends with an error terminal if the
\* client asked for one and every write succeeded, and else the connection is aborted.
FailAnswer(r, status) ==
  \/ /\ started[r] /\ Query[req[r]].errorStream /\ ~broken[r]
     /\ answer' = [answer EXCEPT ![r] = "failed"]
  \/ /\ started[r] /\ (~Query[req[r]].errorStream \/ broken[r] \/ r \in MayFail)
     /\ answer' = [answer EXCEPT ![r] = "aborted"]
  \/ /\ ~started[r]
     /\ answer' = [answer EXCEPT ![r] = status]

ReadFailed(r) ==
  /\ h[r] = "read" /\ x[r] = "returned" /\ err[r] # NoErr
  /\ FailAnswer(r, IF Single(r) THEN MappedStatus(r) ELSE RelationalStatus(r))
  /\ Goto(r, "end")
  /\ UNCHANGED <<xvars, req, lease, mounted, closed, streamvars>>

\* Execution.Sources: the sources of the document on the database route, what the leaves
\* read in memory; the read of one collection reads that collection.
SourcesRead(r) ==
  {<<Targets(r)[i].db, Targets(r)[i].coll>> :
     i \in {i \in Sources(r) : route[r] # "in-memory" \/ leaf[r][i] # "unread"}}

\* Fault: an answer without any observation is taken for one that needs none.
ProviderFinishUnseen(r) == Query[req[r]].endpoint \in Provider => ~mismatch[r]

\* What fails a response whose read succeeded: rights that a database with access policies
\* could not capture, provider evidence that is not of exactly one live fetch, and a relational
\* read of what its rights were not captured for.
ProviderFinish(r) == Query[req[r]].endpoint \in Provider => ~mismatch[r] /\ reads[r] > 0
RightsFail(r) == Single(r) /\ Query[req[r]].endpoint \in BrokenRights
CaptureUsed(r) == lease[r] \cap Licensed # {} => SourcesRead(r) \subseteq Reads(req[r])
RightsAndEvidence(r) == ~RightsFail(r) /\ IF Single(r) THEN ProviderFinish(r) ELSE CaptureUsed(r)

\* The header is set before the evidence is looked at, if no row has set it.
HeaderAtEnd(r) == IF started[r] \/ RightsFail(r) THEN cache[r] ELSE CacheControl(r)

ReadSucceeded(r) == h[r] = "read" /\ x[r] = "returned" /\ err[r] = NoErr

EvidenceFailed(r) ==
  /\ ReadSucceeded(r)
  /\ ~RightsAndEvidence(r)
  /\ cache' = [cache EXCEPT ![r] = HeaderAtEnd(r)]
  /\ FailAnswer(r, "422")
  /\ Goto(r, "end")
  /\ UNCHANGED <<xvars, req, lease, mounted, closed, started, sent, broken, unwritten, reads,
                 mismatch, cited>>

\* rightsCapture.used and allUsed: the sources an answer with source rights cites.
Cites(r) == IF lease[r] \cap Licensed = {} THEN {} ELSE SourcesRead(r)

\* jsonRowStream.Finish: the footer with the sources that were used.  A footer that cannot be
\* encoded, is over its bound or makes a licensed response too large fails before a byte of it
\* is written, which an empty response has then not started, and a failed write leaves the
\* response cut off.
Finish(r) ==
  /\ ReadSucceeded(r)
  /\ RightsAndEvidence(r)
  /\ cache' = [cache EXCEPT ![r] = HeaderAtEnd(r)]
  /\ \/ /\ answer' = [answer EXCEPT ![r] = "complete"]
        /\ cited' = [cited EXCEPT ![r] = Cites(r)]
        /\ started' = [started EXCEPT ![r] = TRUE]
        /\ UNCHANGED <<broken, unwritten>>
     \/ /\ r \in MayFail
        /\ FailAnswer(r, "500") \/ (lease[r] \cap Licensed # {} /\ FailAnswer(r, "422"))
        /\ unwritten' = [unwritten EXCEPT ![r] = TRUE]
        /\ UNCHANGED <<started, broken, cited>>
     \/ /\ r \in MayFail
        /\ answer' = [answer EXCEPT ![r] = "aborted"]
        /\ started' = [started EXCEPT ![r] = TRUE]
        /\ broken' = [broken EXCEPT ![r] = TRUE]
        /\ UNCHANGED <<cited, unwritten>>
  /\ Goto(r, "end")
  /\ UNCHANGED <<xvars, req, lease, mounted, closed, sent, reads, mismatch>>

\* The handler returns or panics with ErrAbortHandler: the deferred release of its leases
\* runs, and the server ends the context of the request.
Return(r) ==
  /\ h[r] = "end"
  /\ Goto(r, "done")
  /\ lease' = [lease EXCEPT ![r] = {}]
  /\ req' = [req EXCEPT ![r] = NoRequest]
  /\ started' = [started EXCEPT ![r] = FALSE]
  /\ sent' = [sent EXCEPT ![r] = 0]
  /\ broken' = [broken EXCEPT ![r] = FALSE]
  /\ unwritten' = [unwritten EXCEPT ![r] = FALSE]
  /\ cache' = [cache EXCEPT ![r] = "no-store"]
  /\ answer' = [answer EXCEPT ![r] = "none"]
  /\ reads' = [reads EXCEPT ![r] = 0]
  /\ mismatch' = [mismatch EXCEPT ![r] = FALSE]
  /\ cited' = [cited EXCEPT ![r] = {}]
  /\ Forget(r)
  /\ UNCHANGED <<mounted, closed>>

(***************************************************************************)
(* Unmount: a database leaves the routes, and is closed when the requests  *)
(* counted in flight on it are done (MountRegistry has the whole of it).   *)
(***************************************************************************)
Unmount(b) ==
  /\ b \in mounted \cap Unmountable
  /\ mounted' = mounted \ {b}
  /\ UNCHANGED <<xvars, req, h, lease, closed, answer, streamvars>>

CloseDrained(b) ==
  /\ b \in DB \ (mounted \cup closed)
  /\ \A r \in Req : b \notin lease[r]
  /\ closed' = closed \cup {b}
  /\ UNCHANGED <<xvars, req, h, lease, mounted, answer, streamvars>>

(***************************************************************************)
(* The specification.                                                      *)
(***************************************************************************)
Environment(r) ==
  /\ h[r] = "read"
  /\ Cancelled(r) \/ Expires(r)
  /\ UNCHANGED svars

GoroutineEnds(r) == \E i \in Idx : TxEnds(r, i) /\ UNCHANGED svars

Handle(r) ==
  \/ RouteSingle(r) \/ SettleTargets(r) \/ LeaseNext(r) \/ Stages(r) \/ StartRelational(r)
  \/ Step(r) \/ \E how \in RowOutcomes : WriteRow(r, how)
  \/ ReadFailed(r) \/ EvidenceFailed(r) \/ Finish(r) \/ Return(r)

Finished ==
  /\ \A r \in Req : h[r] = "done"
  /\ DB \ mounted \subseteq closed
  /\ UNCHANGED vars

Next ==
  \/ \E r \in Req :
       \/ h[r] = "idle" /\ \E q \in Asked(r) : Arrive(r, q)
       \/ Handle(r)
       \/ \E kind \in {"new", "repeat", "invalid"} : Observe(r, kind)
       \/ Environment(r) \/ GoroutineEnds(r)
  \/ \E b \in DB : Unmount(b) \/ CloseDrained(b)
  \/ Finished

Spec == Init /\ [][Next]_vars

\* What runs goes on: the goroutine of a handler (the wait of the gate ends with its timer),
\* that of a transaction, and that which closes a drained database.  No step repeats, so it
\* is enough that some one of them is taken while one can be.
System ==
  \/ \E r \in Req : Handle(r) \/ GoroutineEnds(r)
  \/ \E b \in DB : CloseDrained(b)

Fairness == WF_vars(System)

FairSpec == Spec /\ Fairness

(***************************************************************************)
(* Properties.                                                             *)
(***************************************************************************)

\* A response that says it is complete holds the whole result: every source its rows are
\* made of was read to its end, each row of the result was written exactly once and within the bound,
\* whatever failed, was retried in memory or ended meanwhile (ExecuteStream, consume,
\* Guard.Classify, jsonRowStream).  The read of one collection is excepted where its driver
\* failed with an error that wraps io.EOF, which executeDalQueryStreamOn takes for the end.
CompleteIsWhole ==
  \A r \in Req :
    answer[r] = "complete" /\ ~wrapped[r] =>
      /\ err[r] = NoErr /\ ~broken[r]
      /\ sent[r] <= MaxResultRows
      /\ IF Query[job[r]].limited
         THEN sent[r] >= 1 \/ Rows(r, 1) = 0
         ELSE /\ sent[r] = Rows(r, 1)
              /\ route[r] = "in-memory" /\ sent[r] > 0 =>
                   \A i \in Sources(r) : got[r][i] = Rows(r, i)

\* An answer that tells of a collection, of an engine, of a policy, of a profile or of a
\* database beside the endpoint's own is given only to a caller who was cleared to read
\* everything the document names (serveRelationalTugQL: authorisation comes before the lease
\* and before every stage; handleTugQL: before the read profile and the read).  Before it come
\* the 404 of the endpoint's own database and the 422 of its guards, which look at the request.
NothingLearnt ==
  \A r \in Req :
    answer[r] \notin {"none", "400", "403"} =>
      \/ Reads(req[r]) \cap Query[req[r]].denied = {}
      \/ answer[r] = "404" /\ Query[req[r]].endpoint \notin mounted /\ lease[r] = {}
      \/ answer[r] = "422" /\ GuardRefused(req[r]) /\ lease[r] \subseteq {Query[req[r]].endpoint}

\* While a reader is open, or a transaction beneath one has not ended, the request is counted
\* in flight on the database and Unmount has not closed it: readTxHold.finish keeps Close of a
\* reader from returning before the goroutine has left the transaction.
ReadsAreLeased ==
  \A r \in Req :
    /\ \A i \in Reader :
         IsOpen(leaf[r][i]) \/ hold[r][i] \in {"held", "freed"} =>
           i \in Sources(r) /\ Targets(r)[i].db \in lease[r] \ closed
    /\ hold[r][0] \in {"held", "freed"} => Targets(r)[1].db \in lease[r] \ closed

\* The slots of a pool that are taken are those of the requests reading on its route, never
\* more than the pool has, and a request that waits, retries or has returned holds none
\* (queryGate.acquire, attemptStream).
GateAccounting ==
  /\ \A g \in Gated :
       /\ used[g] = Cardinality({r \in holding : route[r] = g})
       /\ used[g] <= Capacity[g]
  /\ \A r \in Req : r \in holding <=>
       \/ x[r] \in {"open", "read", "endtx", "release"}
       \/ x[r] = "close" /\ route[r] # "single"

\* A complete answer of the read of one collection of a provider database is of exactly one
\* live fetch that the observer accepted.  A relational document, for which no evidence is
\* collected, reads a provider database only without a request profile and where the operator
\* listed its engine.  The sources a licensed answer cites are those the document names, with
\* every source a row was taken from among them (Collector.Add and Finish, rightsCapture.used).
EvidenceIsOfTheRead ==
  \A r \in Req :
    answer[r] = "complete" =>
      /\ Single(r) /\ Query[req[r]].endpoint \in Provider => reads[r] = 1 /\ ~mismatch[r]
      /\ ~Single(r) => \A b \in lease[r] \cap Provider : b \notin Restricted /\ Engine[b] \in Listed
      /\ lease[r] \cap Licensed # {} =>
           /\ cited[r] \subseteq Reads(req[r])
           /\ \A i \in Sources(r) :
                got[r][i] > 0 => <<Targets(r)[i].db, Targets(r)[i].coll>> \in cited[r]

\* A response that ended with an error terminal under the status 200 of its first row is never
\* marked public, and a refusal only when the header was set for a row or a footer that then
\* could not be encoded: every refusal before the first row, and every failure of the read or
\* of its evidence, leaves the no-store of the request (cacheReadResponse, setCache).
CacheableIsComplete ==
  \A r \in Req :
    cache[r] = "public" =>
      answer[r] # "failed" /\ (answer[r] \in Refusals => unwritten[r])

\* What docs/api.md says of the header, of a read that failed: a successful response is public
\* and every other one is no-store.  Of the first row that cannot be encoded WriteRow returns
\* the error after the header was set and before the response is started, and the error
\* response that follows keeps the header.
OnlySuccessIsPublic ==
  \A r \in Req :
    answer[r] \in Refusals \cup {"failed"} /\ err[r] # NoErr => cache[r] = "no-store"

\* Every request that arrived is answered and gives its leases back, and every database that
\* was unmounted is closed, whatever fails and whoever goes away: the service is always at
\* rest again (the queue of the gate, readTxHold.finish, the drain of Unmount).
AtRest ==
  /\ \A r \in Req : h[r] \in {"idle", "done"}
  /\ DB \ mounted \subseteq closed

RequestsEnd == []<>AtRest
===============================================================================

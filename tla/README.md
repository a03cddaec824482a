# A formal model of OpenVaultDB

OpenVaultDB (`openvaultdb-go`) is an HTTP server that mounts databases of
several engines (inGitDB, SQLite, PostgreSQL, MySQL, Firestore, HTTP sources),
checks who may do what on them, runs queries and write batches, and hands out
tokens to applications. This directory holds TLA+ specifications translated from
the Go source, the TLC configurations that check them on small instances, and
TLAPS proofs of their safety properties for every instance.

Section 1 says what the system consists of, section 2 which module models what,
section 3 what TLC checks, section 4 what is proved, section 5 where code and
documentation disagree, section 6 what is not modelled. `PROJECT.json` maps
every definition to the lines it models.

To check a run: `tlc -config Provisioning.cfg MCProvisioning` (the modules and
configurations are listed in `PROJECT.json`). To check a proof:
`tlapm ProvisioningProofs.tla`.

## 1. The system

| component | state | what is hard | module |
|---|---|---|---|
| mount registry (`server/server.go`, `read_profiles.go`) | routes, in-flight WaitGroups, retiring instances | a lease racing a removal; aliases of one instance; a caller that gives up while requests drain | MountRegistry, DatabaseLife |
| snapshot spool (`server/tugql_pages.go`) | slots, snapshots, files, timers | five removal paths and a timer that cannot be stopped; failing removals; crashes | SnapshotSpool, PagedQueries |
| page arithmetic (same file) | byte offset, rows of the file | the boundaries of three limits, newline and metadata | SnapshotPages |
| policy store (`policystore/store.go`) | lock file, generations, active pointer | several processes; a kill or power loss between any two file operations | PolicyStore, PolicyRegister |
| policy controller (`controller.go`, `lease.go`) | admitted generation, RWMutex | failure after the publication point; a stream of leases | PolicyController |
| grant store (`auth/store.go`, `server/connect.go`, `tokens.go`) | grants in memory and on file, pending codes | saves that fail, expiry, restart | AuthStore |
| write batches (`core/core.go`, `updates.go`, `write_guard.go`, `collection_names.go`, `schema`) | records, write mutex | validation and write are apart; no roll-back on inGitDB; one collection spelt in several ways | WritePath, WriteBatch |
| git push (`mount/gitpush.go`) | signal channel, pusher goroutine | coalescing; close with a signal pending | WritePath |
| documents (`server/tugql*.go`, `core` guards, `joinexec` walk, scope and aliases) | none | six walks over one tree, each with its own count of depth; names with several readings | QueryWalks, QueryScope, Documents |
| reads (`joinexec`, `core/query.go`, `native_read_tx.go`, `server/querylimits.go`) | slots, readers, transactions | retry on another route; a source that fails after DALgo went on; a goroutine beneath a reader | JoinExecutor |
| query handlers (`server/tugql*.go`, `stream_json.go`, `retention.go`, `provider_request.go`, `providerreads`) | the response | failure after the first row; rights, retention and caching decided before the outcome is known | QueryService |
| mounting (`mount/mount.go`, `mount/all.go`) | open databases | a worker pool with optional and required specs, duplicates, failures in the middle | MountFiles |
| database creation (`server/databases_create.go`) | manifests, map, grants | a failure or kill between manifest, mount and mint; an id created anew while it drains | Provisioning |
| inferred catalogue (`inferred/inferred.go`) | statistics in memory and on file | memory ahead of the file | Catalogue, Provisioning |

A request takes a lease on its database from the registry and keeps it until its
handler returns; a paged query also takes a spool slot, and leaves a snapshot
that outlives the request but not the mount. A relational query waits for a slot
of the gate and reads under the leases of all its databases. An unmount unroutes
the database, sweeps its snapshots and waits for the leases before it closes the
database, whose Close waits for the git pusher. Protected transactions run under
a lease on the policy generation that the controller admitted, and the
controller follows the store that other processes publish to. Creation writes a
manifest, mounts it and mints a grant; a restart mounts what the directory holds.

## 2. Modules

**MountRegistry** has one action per critical section of `Server.mu`. A
WaitGroup of `Server.inflight` is identified by its instance and an epoch, which
`UnmountFinal` advances when it takes it out of the map; `lease[r]` is the set of
WaitGroups a request counts on. `UnmountContext` is split where the code leaves
its lock: `UnmountAlias` or `UnmountFinal`, `SweepSnapshots`, `StartDrain`, then
the goroutine (`Drained`, `CloseDB`) beside the caller (`ReturnClosed`,
`ReturnCtxErr`). The refusals of `Mount` that depend on the instance alone are
the constant `Inadmissible`. **DatabaseLife** is what all this promises about an
instance, without ids, aliases and goroutines: it is served for one stretch of
time, requests begin to use it only then, and it is closed once, unused. An
instance is served in `MountRegistry` while any id routes to it, and its users
are the requests with a lease on it (`Status`, `Users`).

**SnapshotSpool** follows a capture from `reserveSnapshotSlot` to its removal.
Every removal is `RemoveLocked`; a timer is off, armed or firing, and a firing
one is past `Stop`. `RemoveFiles` may fail, `Crash` leaves the files, `Restart`
is `prepareSnapshotDir`, which sees only the age of a file (`stale`).
**PagedQueries** extends both and composes their actions: a capture runs inside a
request with a lease, `Publish` looks again whether its database is routed, and
the sweep of an unmount takes the snapshots of that database.
**SnapshotPages** is the byte arithmetic of one result: a row is known by where
it ends in the file, `ReadRow` is a turn of the loop of `serveSnapshotPage`, and
the client follows `nextPageToken` and asks again when a page is lost
(`PageLost`).

**PolicyStore** is `Store.Activate`, one step per file-system effect. `log` is
the history of `active.json`; `rootSync` and `gensSync` say what a sync has made
durable. `PowerLoss` keeps what is synced and any prefix of the rest, per
directory. **PolicyRegister** is the abstract specification: a compare-and-set
register whose unacknowledged tail may be lost. `PolicyStore` instantiates it
with the mapping `asked <- req, history <- log, kept <- acked`. **PolicyController** puts a
controller and its leases on top of the store, in serving processes, next to
administrators that use the store directly.

**AuthStore** keeps the grants map, the file and the pending codes; `Saved` is
what `saveLocked` writes, with its pruning, and `OpenStore` what a start reads,
with its own.

**WritePath** is `Database.apply` over time: its mutex, the transaction one
operation at a time, the observation, the hook of each push policy, the pusher
goroutine and `Close`. Records are present or absent. **WriteBatch** is what one
batch does to the contents: the spellings of a collection, the guard, the
simulation and schema validation of `validateOps`, and the updates handed to the
driver. The simulation starts from what `Get` returns, which `coerceToSchema` has
given the declared spelling of its fields and its booleans (`Loads`); the driver
starts from what is stored. Where several keys fold to one declared field, Go's
map order decides, so `CoerceToSchema` is a set of outcomes. `drifted` says, as
history, whether the last batch read a record otherwise than it is stored.
Numbers are counted in halves, so that an increment may have a fraction. In both
the driver is external.

**QueryWalks** has a document as a tree and each walk as an operator from the
tree to its trace: what it visits and why it refuses. **QueryScope** adds the
scope check and the rewriting of aliases (`ResolveQuery`); `Meaning` is what a
name of the document means, `Plans` and `PlanValue` where each executor reads it.
**Documents** builds the trees, one level or clause at a time.

**JoinExecutor** is one read: preflight, route, gate, the readers of its sources,
the retry in memory, `consume`, the transactions beneath the readers, and the
closing of everything. DALgo, which joins the rows, is external: it asks the
leaves in any order, may go on after one has failed, and takes an error whose
chain holds `io.EOF` for the end. **QueryService** puts the handlers above it:
the refusals in the order the code makes them, leases, the stream of the
response, retention, rights, provider evidence and the cache header, beside an
unmount. `Restricted` are the mounts with a request profile, `Planned` the
collections a provider read can be planned for, `TooLong` the names an engine
does not keep whole. A relational document reads an HTTP provider where the
operator lists the engine and the provider has no request profile; otherwise it
is refused before a fetch. A row may fail to be encoded, before anything of it is
sent, or be cut off while it is written (`RowOutcomes`); `unwritten` is history
and says that a row or the footer could not be encoded.

**Catalogue** is `Observe` on the statistics of a collection. **MountFiles** is
`File`, `Dir`, `DirReport` and `All`. **Provisioning** composes the two with the
creation handler, one step per file-system effect, with `Server.Mount`, an
embedder that mounts and unmounts, writers, kills and restarts. `log`,
`acknowledged`, `redone`, `unserved`, `kept` and `shared` are history: the code
does not keep them, and no guard reads them.

Operators commented `Fault:` are not part of the specifications. Each is a
plausible slip in the definition that follows it, kept to show that the
property named for it in `PROJECT.json` notices. The `MC` modules give constants
that a configuration cannot express; `MCSnapshots` lets a behaviour be about the
spool or about the pages of one capture, which share no variable.

Two steps are coarser than the code, without a difference in what can follow: a
worker of `All` receives its path and reads the `required` flag in one step
(`Take`), since nobody sees the path it holds in between; and the refusals of
`Server.Mount` other than a taken id, which depend on the manifest and the
options only, are not told apart from it in `MountServed`, since they end a
creation in the same way.

## 3. What TLC checks

| run | states | properties | shows |
|---|---|---|---|
| `mounts` | 77,492 | `NoUseAfterClose`, `RemovedIsClosed`, `ImplementsLife` | no handler runs on a closed database, also when an alias of it is removed; every removal ends in a close, whether or not its caller waited; the registry implements `DatabaseLife` |
| `snapshots` | 49,965 | `SlotAccounting`, `OwnFilesBounded`, `CapacityReturns`, `PagesPartitionResult`, `FailsOnlyAtBudget` | the removal paths, in any order, give a slot back exactly once; files stay bounded; a full spool frees up without its clients; the pages a client collects are the result, row by row; an admitted capture fails to be served at one length only |
| `paged_queries` | 77,797 | `SweptForGood`, `RemovedIsCleaned` | a capture that races the unmount of its database leaves nothing |
| `policy_controller` | 400,472 | `LeasePinsActive`, `AdmitsPointerOrNothing`, `RefinesRegister`, `ControllerReturns` | publication is compare-and-set across processes, kills and power losses; a transaction keeps its generation; after any error a process admits what the pointer names, or nothing; reloads are not starved |
| `auth_store` | 248,402 | `IssuedIsKept`, `RevokedIsRefused`, `CodeYieldsOne` | tokens survive saves, pruning and restarts until they expire or are revoked; a code is worth one token |
| `write_path` | 285,880 | `BatchIsAtomic`, `CommitIsPushed` | a validated batch is applied whole or not at all, on an engine without roll-back too, unless the driver itself fails; no signalled commit is lost between signals, pushes and Close |
| `documents` | 41,910 | `ClassifierListsEveryRead`, `WalkAdmitsClassified`, `GuardsNest`, `HandedIsPlain`, `NamesReadAsMeant`, `StoredIsValid`, `StoredIsStaged` | what is authorised is what is read; the walks agree at their bounds; no executor reads a name from elsewhere; what is stored is valid, and is what was simulated unless `Get` showed a record otherwise than it is stored |
| `query_service` | 370,255 | `CompleteIsWhole`, `NothingLearnt`, `ReadsAreLeased`, `GateAccounting`, `EvidenceIsOfTheRead`, `CacheableIsComplete`, `RequestsEnd` | a response that says it is complete is; refusals tell nothing; slots, transactions and leases are given back on every path; every request ends |
| `provisioning` | 147,741 | `AcknowledgedIsOnFile`, `AcknowledgedIsServed`, `OpenIsOwned`, `MountingIsWhole`, `CatalogueDescribes`, `ObservedIsKept`, `WorkEnds` | what was answered 201 is there and served after kills, failures and restarts; nothing open is lost track of; catalogues describe what was written |

`policy_durability`, `cache_header` and `provisioning_retry` are expected to be
violated; section 5 says why. Deadlock is checked except where the system may really stop: all
databases unmounted, a database closed, a document written, the events of an instance used up.

**Bounds.** `mounts`: one profiled instance with two aliases, a second instance
that inherits its profile and a plain one; two requests and two unmount callers
are what it takes to race a lease with a drain and an unmount with another.
`snapshots`: three ids on two slots, so that the limit is met and a slot
reused; pages of 7 bytes, results of up to 4 rows and 18 bytes, rows of 1 to 8
bytes, so that every limit is met exactly and passed by one, with and without
metadata. `paged_queries`: two instances of one id in turn, one slot, two
snapshots, without crashes and failing removals, which `snapshots` has.
`policy_controller`: one serving process with two overlapping
workers and one administrator, two generations and two pointer renames
(`MaxPublish`), enough for a conflict, a reuse, a return to an earlier generation
and the loss of a tail. `auth_store`: three grants of which one never expires, two
codes, two clients. `write_path`: three writers (one push running, one pending,
one coalesced), two keys and every batch of one or two operations from every
initial store. `documents`: the bounds of the walks are scaled down (a subquery
depth of 1 for 4, three sources for 8, nesting of 3 for 16 and 64) so that
documents reach and pass them; `BoundsAssumption` is the relation between them
that the code's numbers satisfy. Every feature of a document is wrapped in two
levels, and every document of one level with one clause is enumerated. Batches
have one or two operations, numbers stay within `MaxHalves`; fields have two
spellings, one of them declared, and one declared field is a boolean.
`query_service`: 44 shapes of query by one request whose sources, drivers and
budgets may fail at any step, beside a request that contends for its slot and its
databases, and an unmount; collections of 0 to 3 rows against bounds of 2.
`provisioning`: two ids, three paths, two creators, a writer, an embedder and two
workers, from four directories; `MaxEvents` = 5 bounds the failures, kills, writes
and unmounts of a behaviour together.

**Fairness.** Goroutines that are runnable run: the code of an unmount and its
drain, the pusher, `Close`, handlers, the goroutine of a read transaction, the
workers of `All`. Handlers end, because each bounds its work by a context, and
`git push` has a timeout of two minutes. Clocks and runtime timers advance. A
process that holds the publication lock goes on with its local file operations;
for the controller, the context its caller passed ends if the lock stays taken.
In `QueryService` and `Provisioning` it is enough that some step of the running
code is taken while one can be (`WF_vars(System)`), because none of them
repeats. Nobody is assumed to send a request, create, mount, unmount, publish,
close a snapshot, kill or restart.

## 4. What is proved

Each proof module shows its theorems for every value of the constants that
satisfies the named assumptions of the module it extends. The pattern is the
same: an inductive invariant, that `Init` gives it, one lemma or step per action,
and the property from it.

The assumptions give the constants their types. Those that say more state what
the code establishes before the modelled part starts: `RegistryAssumption`, that
only profiled instances are mounted under several ids at start;
`ProvisioningAssumption`, that two ids have two manifest paths;
`StartupAssumption`, what `validateProviderProfiles` and `checkRetention` demand;
`BatchAssumption`, that a batch and the updates of an operation are sequences and
the data of an operation a record of fields.

- **PagedQueriesProofs** has the registry, the spool, their composition and the
  pages of a result.
  *Registry*: `LeasedNeverClosed`, `RoutedNeverDrained`, `ClosedOnce`,
  `ReturnsAfterClose`. The properties alone are not inductive: one has to know
  that an instance's WaitGroup leaves the map at most once (`RetiredOnce`), that
  from then on it has no route and can get none, so that every lease counts on
  the first WaitGroup (`LeaseEpoch`), and that one call or one drain works on it
  (`Exclusive`). `RegistryImplementsLife`: each step maps to a step of
  `DatabaseLife` or to a stutter; this needs besides that an instance the server
  owns and does not route to has retired (`UnroutedIsRetired`), so that `Mount`
  can add a route to a served instance but never serve a retired one again.
  *Spool*: `SlotsAccounted`, `RegisteredComplete`,
  `OwnDiskBounded`. The slot counter is tied to the cardinality of the set of
  holders; the file bound follows because each file is an orphan or belongs to a
  holder (`FileOwners`). *Composition*: each step is a step of the registry or
  leaves it alone, and the same of the spool (`PagedUsesRegistry`,
  `PagedUsesSpool`), so the theorems of both hold of it. `SweptStaysSwept`: a
  database that was unrouted for good gets no route back, so that a capture that
  ends after the sweep finds it gone. *Pages*: `PagesPartition`, `FailsAtBudget`,
  `PagesFit`, `PagesBringOn`, for results, page sizes and limits of any size.
  `PagesFit` counts what surrounds the rows only where a capture has metadata,
  as `serveSnapshotPage` does.
  `PagesInv` says that the ends of the rows ascend (`Ascending`) by lengths that
  were admitted (`Admitted`), and that what the client has (`Received`) and the
  page being filled (`Collected`) account for the rows up to the token and from
  there to the offset; so an offset is always the start of a row, which is what
  makes a retry return the same page.
- **StoreProofs** has what is kept in files: the policy store with its
  controllers, and the grants. *Policy store*: `AcknowledgedDurable`, `DanglingIsReuse`, `CheckedCurrent`,
  `StoreRefinesRegister`: the invariant says who holds the lock in which step,
  that the expected generation is the current one from the check to the rename,
  and that a generation put in place is synced or marked as reused; each step
  maps to a step of `PolicyRegister` or to a stutter, under the mapping that
  `Register` names. *Controllers*, `ControllerUsesStore`: every step of the composition is a
  step of the store or leaves it alone, so the store's theorems hold of it,
  `ControllerRefinesRegister` among them.
  `LeasesPin` and `AdmittedIsCurrent` are inductive together with the types
  (`CtlInv`).
  *Grants*: `IssuedKept`, `RevokedRefused`, `CodeOnce`. The invariant (`AuthInv`)
  relates map and file grant by grant, and spent codes to the tokens they
  yielded.
- **WriteProofs** has the steps of a batch and its contents. *Steps*:
  `ClosePushesAll`: a commit no push has covered is still in its writer's hands
  or has a signal in the channel, and the pusher leaves only an empty, closed
  channel. `BatchStaysAtomic`: the store at each step of the transaction is what
  the simulation of `validateOps` had at that operation, which is shown by
  induction along the batch (`Staged`), so that the driver refuses nothing that
  the simulation passed. *Contents*: `ContentsInv` has both properties of the
  stored records. That the driver leaves what was simulated is an induction
  along the updates of an operation and along the operations of a batch
  (`UpdatesSame`, `RunsSame`): an increment that the simulation applied is by a
  number, and `toDalUpdates` leaves a whole number as it is. This is so where
  both start from the same record; in strict mode a stored record has declared
  fields only, so that `Get` changes nothing if no two of them differ in case
  only (`StrictIsRead`; the manifest does not refuse such fields, so
  `FieldsFoldApart` is a hypothesis of the property). Where `Get` did change
  something, the two runs differ, but the stored record stays covered by the
  simulated one: `Covers` and `SafeFor` say that each declared field of it fits
  its type or fails as that of the simulated one does. Each update
  keeps that (`ChangeSafe`, `DeleteSafe`, `UpdatesSafe`, `RunsSafe`), and a record
  covered by a valid one is valid (`SafeIsValid`). A record that the
  batch does not name stays as it was (`RunFrame`), so that it suffices to
  validate the others. The key that the adapter is given has the canonical name
  of its collection, which is its own canonical name (`CanonicalIsCanonical`),
  because `newCollectionNames` refuses spellings of two tables; hence
  `StoredStaysStaged` and `StoredStaysValid`.
- **QueryReadProofs** and **QueryAnswerProofs**, four layers. `GateInv` says
  which routes a phase may be on, from which `GateCounts` follows: phase and
  route tell who holds a slot. `ReadInv` adds what each reader and each
  transaction may be in each phase, and that a handler keeps its leases until it
  returns: `ReadsLeased`. `ServiceInv` adds what has been checked when the
  handler is where it is: `NothingIsLearnt`, `OnlyCompleteIsCacheable`, and with
  a count of the collector's observations (`EvidenceInv`) `EvidenceIsTrue`.
  `CompleteStaysWhole` rests on all of them and on `WholeInv`: a source that was
  not read to its end has left an error or a limit behind, the rows that were
  written and those still to come are the rows that are due, and the terminal of
  a complete response is written in one step only, which looks at both.
- **ProvisioningProofs.** `FileInv`: a creation holds the lock and has its
  manifest on file once that is written, whence `AcknowledgedStaysOnFile`.
  `KeptInv`: the catalogue in memory is never behind the file while one instance
  has the storage, whence `ObservedStays`.
- **OwnershipProofs.** `OwnershipInv`: what each mounting has settled and what
  each worker is at (`StartInv`), that a server that is not up has nothing left
  over (`RestInv`), and who has an open database (`OwnInv`); from it
  `MountingStaysWhole`, `OpenStaysOwned` and, with the health of each path,
  `AcknowledgedStaysServed`.
- **CatalogueProofs.** `CatalogueStaysTrue`: a catalogue counts what its log
  holds, field by field (`Counts`). That a further record adds its own weight
  to each total needs sums over finite sets, which are developed first: from
  induction over the natural numbers to induction over the subsets of a finite
  set, that the recursive function behind `SumFunction` exists, and that sums add
  (`SumAdds`).

The induction theorems of the library take an operator as a parameter, which the
provers cannot instantiate. The lemmas `Induction` and `SubsetInduction` here
take a set instead: the set of the numbers, or of the subsets, of which the claim
holds.

Model-checked only:

- the liveness properties (`RemovedIsClosed`, `CapacityReturns`,
  `RemovedIsCleaned`, `ControllerReturns`, `CommitIsPushed`, `RequestsEnd`,
  `WorkEnds`): fairness is outside the prover;
- the properties of `QueryWalks`, `QueryScope` and `Documents`, which are built
  from recursive operators over documents of any depth, of which the prover
  accepts none.

## 5. Where code and documentation disagree

Three configurations check a sentence of the documentation that the code does not
keep; TLC prints the behaviour.

- `policy_durability` / `AcknowledgedLoads`: "synchronizes immutable files, then
  atomically replaces the active pointer". A generation left by a publisher that
  was killed before `syncDir` is reused without a sync, and after a power loss
  the acknowledged pointer names nothing. `DanglesOnlyIfReused`, which is
  proved, says that this is the only way.
- `provisioning_retry` / `AcknowledgedIsKept`: "On restart the data-dir is
  rescanned and all created databases are remounted". When a created database
  failed to mount at the restart, a second creation of its id truncates its
  manifest: it is gone when the process is killed or the write fails then, and it
  is removed when mounting fails again.
- `cache_header` / `OnlySuccessIsPublic`: "Successful GET ... responses then send
  `Cache-Control: public`", the others `no-store`. The header is set before the
  first row is encoded; when that fails (an infinite REAL of SQLite), the 500
  that follows carries it. `CacheableIsComplete`, which is proved, says that a
  row or footer that cannot be encoded is the only way to a public refusal.

The others are exceptions that a passing property states, because without them
it would not hold, or facts met on the way:

- `OwnFilesBounded` leaves out the files of a crash: the startup sweep removes
  only files older than six minutes ("The most disk a server can use for
  snapshots is Slots * Bytes").
- `FailsOnlyAtBudget`: a row of exactly the row budget is admitted without its
  newline and refused with it.
- `RevokedIsRefused` holds, but "the revoked grant stays persisted for the audit
  trail" does not: `OpenStore` drops it once it has expired.
- `StoredIsValid` needs increments without a fraction: the driver is given the
  integer part, the simulation another value.
- `StoredIsStaged` leaves out batches that read a record otherwise than it is
  stored. "Document engines (inGitDB) round-trip natively and are unaffected",
  says the comment of `coerceToSchema`, but in partial mode an undeclared field
  that differs from a declared one in case only is renamed there too.
- `NamesReadAsMeant` leaves out the key in the ORDER BY of an aggregating query,
  which a comment of `scope.go` says is refused.
- `CompleteIsWhole` leaves out the read of one collection whose driver failed
  with an error that wraps `io.EOF`: it is taken for the end, which a comment of
  `execute_errors.go` warns against for the other route. A comment of
  `Execute` names `Guard.Collect`, which nothing calls.
- `CatalogueDescribes`: a record that names one path twice adds two to
  `SampleCount`, "the number of collection records in which this field was
  present".
- `ObservedIsKept` leaves out a storage that two open databases have had: an id
  that still drains can be created anew on its directory, and each instance has
  its own write mutex and catalogue.
- `CommitIsPushed`: a batch whose observation fails after the commit returns
  before the hook, so it is pushed only with a later write.

## 6. What is not modelled

- Set-up, formatting and pure I/O, which have no state and no order of steps to
  get wrong: manifests (their verdict is left free in `MountFiles`), licences,
  the connection strings and SQL text of the engine mounts, PostgreSQL value
  formats, HTML pages, CORS, the clients and the conformance journey.
- Access plans: read-only reports of decisions that DALgo's access library,
  outside the repository, makes.
- DALgo and the drivers: only what the code relies on. That the rows of a join
  are those of its definition is theirs to show.
- Capabilities: which collections a caller may read is data of a query; the
  syntax of a capability is not modelled. The record handlers take lease,
  capability check and write in the same order as the query handlers and keep no
  state of their own.
- In the query handlers, the keys-only unsorted branch of `/query` is folded into
  the general read, and the 503 of an unreachable database into the general
  error.
- In schema validation, the formats of strings and dates; in the catalogue, times
  and array elements.
- Data races: each shared structure above is used under its mutex.
- When a request that is running notices the revocation of its token: the
  middleware hands it a copy of the grant, and nothing in the repository says
  otherwise.

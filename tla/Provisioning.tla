----------------------------- MODULE Provisioning -----------------------------
(***************************************************************************)
(* Databases created at run time and what a restart makes of them: the     *)
(* handler of POST /v1/databases in pkg/server/databases_create.go,        *)
(* Server.Mount and Unmount as it meets them, writes that are observed in  *)
(* the catalogue, and the kill and restart of the process.                 *)
(*                                                                         *)
(* A request that is refused before the lock (no capability, no data       *)
(* directory, a body or an id that is not valid) changes nothing and is    *)
(* left out.  The embedder, outside the repository, mounts the manifests   *)
(* of the directory at the start and may mount and unmount while it runs.  *)
(***************************************************************************)
EXTENDS MountFiles

CONSTANTS
  PathOf,        \* <id>.yaml in the data directory
  InitialFiles,  \* what the directory may hold at first
  Creator, App,  \* clients that create databases; those that are not the owner
  Writer,        \* clients that write
  NoOne,
  Unmountable    \* ids that the embedder may unmount

ASSUME ProvisioningAssumption ==
  /\ PathOf \in [Id -> Path]
  /\ \A d, e \in Id : PathOf[d] = PathOf[e] => d = e
  /\ InitialFiles \subseteq [Path -> Manifest \cup {NoFile, Partial}]
  /\ App \subseteq Creator /\ NoOne \notin Creator \cup Doc

VARIABLES
  server,        \* down, starting or up
  mounted,       \* Server.dbs: the instance served under each id, 0 for none
  retiring,      \* instances that left the map and are not closed
  createMu,      \* Server.createMu
  creator,       \* each client's creation: where it is, of which id, the instance it opened
  embedder,      \* the embedder's own mount: the instance it opened, 0 for none
  writer,        \* each client's write: the instance it holds and the data, or idle
  acknowledged,  \* ids whose creation was answered 201
  redone,        \* those that a later creation began anew
  unserved,      \* ids that the embedder has unmounted since the start
  grants,        \* ids with a persisted grant
  kept,          \* the writes of each storage that were answered as done
  shared         \* storages that two open databases have had at one time

answerVars == <<acknowledged, redone, grants>>
writeVars == <<writer, kept>>
vars == <<diskVars, inst, events, mountVars, server, mounted, retiring, createMu, creator,
          embedder, answerVars, unserved, writeVars, shared>>

NoCreation == [at |-> "idle", id |-> NoOne, inst |-> 0]
NoWrite == [inst |-> 0, doc |-> NoOne]
Created(d) == [id |-> d, by |-> "create"]

Init ==
  /\ files \in InitialFiles
  /\ saved = [m \in Manifest |-> Empty]
  /\ inst = [i \in Instance |-> Shut]
  /\ events = 0
  /\ MountInit
  /\ server = "down"
  /\ mounted = [d \in Id |-> 0]
  /\ retiring = {} /\ createMu = NoOne /\ embedder = 0
  /\ creator = [c \in Creator |-> NoCreation]
  /\ writer = [w \in Writer |-> NoWrite]
  /\ acknowledged = {} /\ redone = {} /\ unserved = {} /\ grants = {}
  /\ kept = [m \in Manifest |-> [doc \in Doc |-> 0]]
  /\ shared = {}
-----------------------------------------------------------------------------
(* The process. *)

\* The storages that two instances have once an opening step is done.
Shares ==
  shared' = shared \cup {m \in Manifest : \E i, j \in Instance : i # j /\ inst'[i].of = m /\ inst'[j].of = m}

Start ==
  /\ server = "down" /\ Event
  /\ server' = "starting"
  /\ \E mode \in {"dir", "report", "all"} : StartMounting(mode, Listed)
  /\ UNCHANGED <<diskVars, inst, mounted, retiring, createMu, creator, embedder,
                 answerVars, unserved, writeVars, shared>>

Mounting ==
  /\ server = "starting" /\ MountStep
  /\ Shares
  /\ UNCHANGED <<diskVars, server, mounted, retiring, createMu, creator, embedder,
                 answerVars, unserved, writeVars>>

\* New over the databases that were mounted; the process leaves when there was
\* an error.
Serve ==
  /\ server = "starting" /\ how \in {"mounted", "failed"}
  /\ server' = IF how = "mounted" THEN "up" ELSE "down"
  /\ mounted' = [d \in Id |->
                   LET at == {p \in Path : opened[p] # 0 /\ IdOf(opened[p]) = d}
                   IN  IF at = {} THEN 0 ELSE opened[Min(at)]]
  /\ how' = "none" /\ opened' = [p \in Path |-> 0]
  /\ unserved' = {}
  /\ UNCHANGED <<diskVars, inst, events, todo, worker, required, health, retiring, createMu, creator, embedder,
                 answerVars, writeVars, shared>>

Kill ==
  /\ server = "up" /\ events < MaxEvents
  /\ server' = "down"
  /\ inst' = [i \in Instance |-> Shut]
  /\ mounted' = [d \in Id |-> 0]
  /\ retiring' = {} /\ createMu' = NoOne /\ embedder' = 0
  /\ creator' = [c \in Creator |-> NoCreation]
  /\ writer' = [w \in Writer |-> NoWrite]
  /\ StartMounting("none", {})
  /\ UNCHANGED <<diskVars, events, answerVars, unserved, kept, shared>>
-----------------------------------------------------------------------------
(* handleDatabaseCreate. *)

At(c, place) == server = "up" /\ creator[c].at = place
Moves(c, place) == creator' = [creator EXCEPT ![c].at = place]
Writes(c, content) == files' = [files EXCEPT ![PathOf[creator[c].id]] = content]

\* Fault: the lock is kept.
ReturnLocked(c) ==
  /\ UNCHANGED createMu
  /\ creator' = [creator EXCEPT ![c] = NoCreation]

\* The handler returns; the deferred Unlock.
Return(c) ==
  /\ createMu' = NoOne
  /\ creator' = [creator EXCEPT ![c] = NoCreation]

\* Fault: creations are not serialised.
EnterUnlocked(c, d) ==
  /\ At(c, "idle") /\ Event
  /\ IF mounted[d] # 0
     THEN UNCHANGED <<creator, redone>>
     ELSE /\ creator' = [creator EXCEPT ![c] = [at |-> "directory", id |-> d, inst |-> 0]]
          /\ redone' = redone \cup (acknowledged \cap {d})
  /\ UNCHANGED <<diskVars, inst, mountVars, server, mounted, retiring, createMu, embedder,
                 acknowledged, grants, unserved, writeVars, shared>>

\* Under the lock, an id that is mounted is refused.
Enter(c, d) ==
  /\ At(c, "idle") /\ createMu = NoOne /\ Event
  /\ IF mounted[d] # 0
     THEN UNCHANGED <<createMu, creator, redone>>
     ELSE /\ createMu' = c
          /\ creator' = [creator EXCEPT ![c] = [at |-> "directory", id |-> d, inst |-> 0]]
          /\ redone' = redone \cup (acknowledged \cap {d})
  /\ UNCHANGED <<diskVars, inst, mountVars, server, mounted, retiring, embedder,
                 acknowledged, grants, unserved, writeVars, shared>>

\* The directory is made, and git init tried; WriteFile truncates the manifest.
Truncate(c) ==
  /\ At(c, "directory")
  /\ Moves(c, "writing")
  /\ Writes(c, Partial)
  /\ UNCHANGED <<saved, inst, events, mountVars, server, mounted, retiring, createMu, embedder,
                 answerVars, unserved, writeVars, shared>>

\* The directory cannot be made, or the manifest not be written: what is on
\* disk of it stays.
ProvisionFails(c) ==
  /\ At(c, "directory") \/ At(c, "writing")
  /\ Event
  /\ Return(c)
  /\ UNCHANGED <<diskVars, inst, mountVars, server, mounted, retiring, embedder,
                 answerVars, unserved, writeVars, shared>>

WriteManifest(c) ==
  /\ At(c, "writing")
  /\ Moves(c, "mounting")
  /\ Writes(c, Created(creator[c].id))
  /\ UNCHANGED <<saved, inst, events, mountVars, server, mounted, retiring, createMu, embedder,
                 answerVars, unserved, writeVars, shared>>

\* mount.File on the manifest just written.
MountCreated(c) ==
  /\ At(c, "mounting")
  /\ \E i \in Instance :
       /\ OpenFile(PathOf[creator[c].id], i)
       /\ creator' = [creator EXCEPT ![c].at = "opened", ![c].inst = i]
  /\ Shares
  /\ UNCHANGED <<diskVars, events, mountVars, server, mounted, retiring, createMu, embedder,
                 answerVars, unserved, writeVars>>

\* mount.File fails: the manifest is rolled back, if it can be removed.
MountCreatedFails(c) ==
  /\ At(c, "mounting")
  /\ OpenFails(PathOf[creator[c].id])
  /\ Writes(c, NoFile) \/ UNCHANGED files
  /\ Return(c)
  /\ UNCHANGED <<saved, inst, mountVars, server, mounted, retiring, embedder,
                 answerVars, unserved, writeVars, shared>>

\* Fault: the database that could not be mounted is left open.
MountLeaves(c) ==
  /\ At(c, "opened")
  /\ LET d == creator[c].id i == creator[c].inst IN
       IF mounted[d] = 0
       THEN /\ mounted' = [mounted EXCEPT ![d] = i]
            /\ creator' = [creator EXCEPT ![c].at = "mounted", ![c].inst = 0]
            /\ UNCHANGED <<inst, createMu>>
       ELSE /\ Return(c)
            /\ UNCHANGED <<mounted, inst>>
  /\ UNCHANGED <<diskVars, events, mountVars, server, retiring, embedder, answerVars,
                 unserved, writeVars, shared>>

\* Server.Mount; an id taken meanwhile closes the database and leaves the
\* manifest.  Its other refusals (an id with a provider or read profile, licence
\* terms without a rights server) end the creation in the same way, and do not
\* depend on what others do; they are in MountRegistry as Inadmissible.
MountServed(c) ==
  /\ At(c, "opened")
  /\ LET d == creator[c].id i == creator[c].inst IN
       IF mounted[d] = 0
       THEN /\ mounted' = [mounted EXCEPT ![d] = i]
            /\ creator' = [creator EXCEPT ![c].at = "mounted", ![c].inst = 0]
            /\ UNCHANGED <<inst, createMu>>
       ELSE /\ CloseAll({i})
            /\ Return(c)
            /\ UNCHANGED mounted
  /\ UNCHANGED <<diskVars, events, mountVars, server, retiring, embedder, answerVars,
                 unserved, writeVars, shared>>

\* 201, for an app with the grant that mintDatabaseToken has persisted.
Answer(c) ==
  /\ At(c, "mounted")
  /\ LET d == creator[c].id IN
       /\ acknowledged' = acknowledged \cup {d}
       /\ grants' = grants \cup (IF c \in App THEN {d} ELSE {})
  /\ Return(c)
  /\ UNCHANGED <<diskVars, inst, events, mountVars, server, mounted, retiring, embedder,
                 redone, unserved, writeVars, shared>>

\* The token cannot be made or persisted: 500, with the database mounted.
MintFails(c) ==
  /\ At(c, "mounted") /\ c \in App
  /\ Event
  /\ Return(c)
  /\ UNCHANGED <<diskVars, inst, mountVars, server, mounted, retiring, embedder,
                 answerVars, unserved, writeVars, shared>>
-----------------------------------------------------------------------------
(* The embedder, and writes. *)

EmbedderOpens(p) ==
  /\ server = "up" /\ embedder = 0 /\ Event
  /\ \E i \in Instance : OpenFile(p, i) /\ embedder' = i
  /\ Shares
  /\ UNCHANGED <<diskVars, mountVars, server, mounted, retiring, createMu, creator,
                 answerVars, unserved, writeVars>>

\* Server.Mount, which the embedder answers as the handler does.
EmbedderMounts ==
  /\ server = "up" /\ embedder # 0
  /\ LET d == IdOf(embedder) IN
       IF mounted[d] = 0
       THEN mounted' = [mounted EXCEPT ![d] = embedder] /\ UNCHANGED inst
       ELSE CloseAll({embedder}) /\ UNCHANGED mounted
  /\ embedder' = 0
  /\ UNCHANGED <<diskVars, events, mountVars, server, retiring, createMu, creator,
                 answerVars, unserved, writeVars, shared>>

Unmount(d) ==
  /\ server = "up" /\ d \in Unmountable /\ mounted[d] # 0 /\ Event
  /\ mounted' = [mounted EXCEPT ![d] = 0]
  /\ retiring' = retiring \cup {mounted[d]}
  /\ unserved' = unserved \cup {d}
  /\ UNCHANGED <<diskVars, inst, mountVars, server, createMu, creator, embedder,
                 answerVars, writeVars, shared>>

\* The requests that held the database have returned; it is closed.
Drained(i) ==
  /\ i \in retiring /\ \A w \in Writer : writer[w].inst # i
  /\ retiring' = retiring \ {i}
  /\ CloseAll({i})
  /\ UNCHANGED <<diskVars, events, mountVars, server, mounted, createMu, creator, embedder,
                 answerVars, unserved, writeVars, shared>>

\* A request leases the database it names and commits its write.
Write(w, d, doc) ==
  /\ server = "up" /\ writer[w] = NoWrite /\ mounted[d] # 0 /\ Event
  /\ writer' = [writer EXCEPT ![w] = [inst |-> mounted[d], doc |-> doc]]
  /\ UNCHANGED <<diskVars, inst, mountVars, server, mounted, retiring, createMu, creator,
                 embedder, answerVars, unserved, kept, shared>>

\* Catalogue.Observe, in memory and then in the file; the write is answered.
Observes(w) ==
  /\ server = "up" /\ writer[w] # NoWrite
  /\ LET i == writer[w].inst
         m == inst[i].of
         cat == Observe(inst[i].cat, writer[w].doc)
     IN  /\ inst' = [inst EXCEPT ![i].cat = cat]
         /\ saved' = [saved EXCEPT ![m] = cat]
         /\ kept' = [kept EXCEPT ![m][writer[w].doc] = @ + 1]
  /\ writer' = [writer EXCEPT ![w] = NoWrite]
  /\ UNCHANGED <<files, events, mountVars, server, mounted, retiring, createMu, creator, embedder,
                 answerVars, unserved, shared>>

\* persist fails: the observation stays in memory, and the write is answered
\* with an error.
PersistFails(w) ==
  /\ server = "up" /\ writer[w] # NoWrite
  /\ Event
  /\ LET i == writer[w].inst IN
       inst' = [inst EXCEPT ![i].cat = Observe(@, writer[w].doc)]
  /\ writer' = [writer EXCEPT ![w] = NoWrite]
  /\ UNCHANGED <<diskVars, mountVars, server, mounted, retiring, createMu, creator, embedder,
                 answerVars, unserved, kept, shared>>

CreateStep(c) ==
  Truncate(c) \/ ProvisionFails(c) \/ WriteManifest(c) \/ MountCreated(c) \/ MountCreatedFails(c)
  \/ MountServed(c) \/ Answer(c) \/ MintFails(c)

System ==
  \/ Mounting \/ Serve
  \/ \E c \in Creator : CreateStep(c)
  \/ EmbedderMounts
  \/ \E i \in retiring : Drained(i)
  \/ \E w \in Writer : Observes(w) \/ PersistFails(w)

Environment ==
  \/ Start \/ Kill
  \/ \E c \in Creator, d \in Id : Enter(c, d)
  \/ \E p \in Path : EmbedderOpens(p)
  \/ \E d \in Id : Unmount(d)
  \/ \E w \in Writer, d \in Id, doc \in Doc : Write(w, d, doc)

Next == System \/ Environment

Spec == Init /\ [][Next]_vars

\* What runs goes on: handlers, workers and the closing of a database.  No step
\* of theirs repeats, so it is enough that some one of them is taken while one
\* can be; kills and restarts need not come.
FairSpec == Spec /\ WF_vars(System)
-----------------------------------------------------------------------------
(* Properties. *)

\* The manifest of a database whose creation was answered 201 is on disk as the
\* creation wrote it, through kills, failures and the creations of others, as
\* long as nobody creates that id anew.
AcknowledgedIsOnFile ==
  \A d \in acknowledged \ redone : files[PathOf[d]] = Created(d)

\* "On restart the data-dir is rescanned and all created databases are
\* remounted": the manifest of every database whose creation was answered 201
\* is there to be scanned once the creations have returned.  A creation of the
\* same id, where the first is not mounted, truncates that manifest: it is gone
\* when the process is killed or the write fails after that, and when the mount
\* fails, which removes the file.
AcknowledgedIsKept ==
  createMu = NoOne => \A d \in acknowledged : files[PathOf[d]] \in Manifest

\* A server that is up serves every database whose creation was answered 201,
\* from the storage that the creation made, unless the embedder unmounted it, or
\* its mount failed at the start or found the id taken by another manifest.
AcknowledgedIsServed ==
  server = "up" =>
    \A d \in acknowledged \ (redone \cup unserved) :
      \/ mounted[d] # 0 /\ inst[mounted[d]].of = Created(d)
      \/ health[PathOf[d]] \in {"failed", "duplicate"}

Owners(i) ==
  {<<"path", p>> : p \in {q \in Path : server = "starting" /\ opened[q] = i}}
  \cup {<<"map", d>> : d \in {e \in Id : mounted[e] = i}}
  \cup {<<"retiring", j>> : j \in retiring \cap {i}}
  \cup {<<"creation", c>> : c \in {b \in Creator : creator[b].inst = i}}
  \cup {<<"embedder", j>> : j \in {embedder} \cap {i}}

\* Every open database has one owner that closes it or passes it on: a path
\* being mounted, the map of the server, a retirement, a creation or the
\* embedder.
OpenIsOwned ==
  \A i \in Instance : Cardinality(Owners(i)) = IF Opened(i) THEN 1 ELSE 0

\* The statistics of every catalogue, in memory and on disk, are those of the
\* records it has observed; they add up as long as no record names a path twice.
CatalogueDescribes ==
  \A cat \in {inst[i].cat : i \in Instance} \cup {saved[m] : m \in Manifest} :
    /\ Describes(cat)
    /\ (\A doc \in Doc : cat.log[doc] > 0 => NamesOnce(doc)) => AddsUp(cat)

\* A record that was written whole and answered as done is in the catalogue of
\* its storage, through failures to save it, unmounts, kills and restarts, unless
\* two open databases have had the storage at one time.  An update is not
\* observed at all ("Updates are not observed in MVP"): Observe sees the data of
\* inserts and sets, which are what a writer here writes.
ObservedIsKept ==
  \A m \in Manifest \ shared : \A doc \in Doc : kept[m][doc] <= saved[m].log[doc]

\* Creations, mounts, retirements and writes come to an end.
AtRest ==
  \/ server = "down"
  \/ /\ server = "up" /\ createMu = NoOne /\ embedder = 0 /\ retiring = {}
     /\ \A c \in Creator : creator[c] = NoCreation
     /\ \A w \in Writer : writer[w] = NoWrite
WorkEnds == []<>AtRest
===============================================================================

---------------------------- MODULE OwnershipProofs ----------------------------
(***************************************************************************)
(* What is proved of who has an open database, for any files, creators,    *)
(* writers and crashes: every database that is open has one owner, which   *)
(* will close it or serves it, mounting all of a directory mounts all or   *)
(* none, and a creation that was answered is served.                       *)
(***************************************************************************)
EXTENDS ProvisioningProofs

(* Who has an open database. *)

RestInv ==
  server # "up" =>
    /\ retiring = {} /\ embedder = 0
    /\ \A d \in Id : mounted[d] = 0
    /\ \A c \in Creator : creator[c].inst = 0
    /\ \A w \in Writer : writer[w] = NoWrite

Owned(i) ==
  \/ \E d \in Id : mounted[d] = i
  \/ i \in retiring
  \/ \E c \in Creator : creator[c].inst = i
  \/ embedder = i

\* An open database has one owner, and a write only goes to one that the server has.
OwnInv ==
  /\ retiring \subseteq Instance
  /\ server = "up" => \A i \in Instance : Opened(i) <=> Owned(i)
  /\ \A d, e \in Id : mounted[d] # 0 /\ mounted[d] = mounted[e] => d = e
  /\ \A d \in Id : mounted[d] # 0 =>
       /\ mounted[d] \notin retiring /\ mounted[d] # embedder
       /\ \A c \in Creator : creator[c].inst # mounted[d]
  /\ embedder \notin retiring
  /\ \A c \in Creator : creator[c].inst # 0 =>
       creator[c].inst \notin retiring /\ creator[c].inst # embedder
  /\ \A c \in Creator : creator[c].at = "opened" <=> creator[c].inst # 0
  /\ \A w \in Writer : writer[w] # NoWrite =>
       writer[w].inst \in retiring \/ \E d \in Id : mounted[d] = writer[w].inst

\* What is open is the database of a manifest.
OfManifest == \A i \in Instance : Opened(i) => inst[i].of \in Manifest

\* What a step does to the set of open instances.
LEMMA OpensOne ==
  ASSUME DOMAIN inst = Instance, NEW p, NEW i \in Instance, OpenFile(p, i)
  PROVE  /\ ~ Opened(i) /\ i # 0 /\ files[p] \in Manifest /\ inst'[i].of = files[p]
         /\ \A j \in Instance : Opened(j)' <=> Opened(j) \/ j = i
         /\ \A j \in Instance : j # i => inst'[j] = inst[j]
<1>1. ~ Opened(i)
  <2> DEFINE free == {n \in Instance : ~ Opened(n)}
  <2>1. free # {} /\ i = Min(free)
    BY DEF OpenFile
  <2>2. free \subseteq Nat
    BY MountAssumption DEF Instance
  <2>3. i \in free
    BY <2>1, <2>2, MinIsMember
  <2> QED
    BY <2>3
<1>2. /\ files[p] \in Manifest /\ inst'[i].of = files[p]
      /\ \A j \in Instance : j # i => inst'[j] = inst[j]
  BY DEF OpenFile
<1>3. Shut.of = NoFile
  BY DEF Shut
<1>4. Opened(i)'
  BY <1>2, <1>3, NotAManifest DEF Opened
<1> QED
  BY <1>1, <1>2, <1>4, Slots DEF Opened

LEMMA ClosesSome ==
  ASSUME NEW s, CloseAll(s)
  PROVE  \A j \in Instance : /\ Opened(j)' <=> Opened(j) /\ j \notin s
                             /\ j \notin s => inst'[j] = inst[j]
BY DEF CloseAll, Opened

LEMMA ObservesOpen ==
  ASSUME KeptTypes, HolderTypes, OfManifest, OwnInv, NEW w \in Writer,
         Observes(w) \/ PersistFails(w)
  PROVE  \A j \in Instance : (Opened(j)' <=> Opened(j)) /\ inst'[j].of = inst[j].of
<1>0. PICK i : i = writer[w].inst
  OBVIOUS
<1>1. server = "up" /\ writer[w] # NoWrite
  BY Zenon DEF Observes, PersistFails
<1>2. PICK cat : inst' = [inst EXCEPT ![i].cat = cat]
  BY <1>0, Zenon DEF Observes, PersistFails
<1>3. i \in Instance /\ Owned(i)
  BY <1>0, <1>1, Zenon DEF HolderTypes, OwnInv, Owned
<1>4. inst[i].of \in Manifest /\ Opened(i)
  BY <1>1, <1>3, Zenon DEF OwnInv, OfManifest
<1>5. inst'[i].of = inst[i].of /\ \A j \in Instance : j # i => inst'[j] = inst[j]
  BY <1>2, <1>3 DEF KeptTypes
<1>6. Opened(i)'
  <2>1. Shut.of = NoFile
    BY DEF Shut
  <2> QED
    BY <1>4, <1>5, <2>1, NotAManifest DEF Opened
<1> QED
  BY <1>4, <1>5, <1>6 DEF Opened

LEMMA OfManifestStep ==
  ASSUME KeptTypes, HolderTypes, OfManifest, OwnInv, [Next]_vars
  PROVE  OfManifest'
<1>1. ASSUME NEW p, NEW i \in Instance, OpenFile(p, i)
      PROVE  OfManifest'
  BY <1>1, OpensOne, Zenon DEF KeptTypes, OfManifest
<1>2. ASSUME NEW s, CloseAll(s)
      PROVE  OfManifest'
  BY <1>2, ClosesSome DEF OfManifest
<1>3. ASSUME UNCHANGED inst
      PROVE  OfManifest'
  BY <1>3 DEF OfManifest, Opened
<1>4. ASSUME NEW w \in Writer, Observes(w) \/ PersistFails(w)
      PROVE  OfManifest'
  BY <1>4, ObservesOpen DEF OfManifest
<1> QED
  BY <1>1, <1>2, <1>3, <1>4, InstanceCases

\* The steps of a server that is up.
UpStep ==
  \/ \E c \in Creator : CreateStep(c)
  \/ EmbedderMounts
  \/ \E i \in retiring : Drained(i)
  \/ \E w \in Writer : Observes(w) \/ PersistFails(w)
  \/ \E c \in Creator, d \in Id : Enter(c, d)
  \/ \E p \in Path : EmbedderOpens(p)
  \/ \E d \in Id : Unmount(d)
  \/ \E w \in Writer, d \in Id, doc \in Doc : Write(w, d, doc)

LEMMA UpFrame ==
  ASSUME StartInv, RestInv, UpStep
  PROVE  server = "up" /\ UNCHANGED <<mountVars, server>> /\ StartInv' /\ RestInv'
<1>1. server = "up" /\ UNCHANGED <<mountVars, server>>
  <2>1. CASE \E c \in Creator : CreateStep(c)
    BY <2>1, Zenon DEF CreateStep, Truncate, ProvisionFails, WriteManifest, MountCreated,
                MountCreatedFails, MountServed, Answer, MintFails, At
  <2>2. CASE EmbedderMounts \/ \E p \in Path : EmbedderOpens(p)
    BY <2>2, Zenon DEF EmbedderMounts, EmbedderOpens
  <2>3. CASE \E i \in retiring : Drained(i)
    BY <2>3 DEF Drained, RestInv
  <2>4. CASE \E w \in Writer : Observes(w) \/ PersistFails(w)
    BY <2>4, Zenon DEF Observes, PersistFails, mountVars
  <2>5. CASE \/ \E c \in Creator, d \in Id : Enter(c, d)
             \/ \E d \in Id : Unmount(d)
             \/ \E w \in Writer, d \in Id, doc \in Doc : Write(w, d, doc)
    BY <2>5, Zenon DEF Enter, At, Unmount, Write
  <2> QED
    BY <2>1, <2>2, <2>3, <2>4, <2>5, Zenon DEF UpStep
<1>2. UNCHANGED <<how, todo, worker, required, opened, health>>
  BY <1>1 DEF mountVars
<1>3. StartInv'
  BY <1>1, <1>2, Zenon DEF StartInv, StartTypes, SkipInv
<1>4. RestInv'
  BY <1>1 DEF RestInv
<1> QED
  BY <1>1, <1>3, <1>4

LEMMA NextIs ==
  ASSUME [Next]_vars
  PROVE  Start \/ Mounting \/ Serve \/ Kill \/ UpStep \/ UNCHANGED vars
BY DEF Next, System, Environment, UpStep

OwnershipInv == StartInv /\ RestInv /\ OwnInv /\ OfManifest

LEMMA OwnershipInit == Init => OwnershipInv
<1> SUFFICES ASSUME Init PROVE OwnershipInv
  OBVIOUS
<1>1. /\ server = "down" /\ how = "none" /\ retiring = {} /\ embedder = 0
      /\ \A p \in Path : opened[p] = 0 /\ health[p] = "none"
      /\ \A d \in Id : mounted[d] = 0
      /\ \A c \in Creator : creator[c].inst = 0 /\ creator[c].at = "idle"
      /\ \A w \in Writer : writer[w] = NoWrite
      /\ \A i \in Instance : ~ Opened(i)
  BY Zenon DEF Init, MountInit, NoCreation, Opened
<1>2. StartTypes
  BY DEF Init, MountInit, StartTypes, Idle
<1>3. StartInv
  BY <1>1, <1>2 DEF StartInv, SkipInv
<1>4. RestInv /\ OfManifest
  BY <1>1 DEF RestInv, OfManifest
<1>5. OwnInv
  BY <1>1, Zenon DEF OwnInv
<1> QED
  BY <1>3, <1>4, <1>5 DEF OwnershipInv

LEMMA StartOwnership ==
  ASSUME OwnershipInv, Start
  PROVE  StartInv' /\ RestInv' /\ OwnInv'
<1>1. /\ server = "down" /\ server' = "starting"
      /\ UNCHANGED <<files, inst, mounted, retiring, creator, embedder, writer>>
  BY DEF Start, diskVars, writeVars
<1>2. PICK mode \in {"dir", "report", "all"} : StartMounting(mode, Listed)
  BY DEF Start
<1>3. /\ how' = mode /\ todo' = Listed /\ required' = FALSE
      /\ worker' = [w \in Worker |-> Idle]
      /\ \A p \in Path : opened'[p] = 0 /\ health'[p] = "none"
      /\ DOMAIN health' = Path
  BY <1>2 DEF StartMounting
<1>4. Listed' = Listed /\ \A i \in Instance : ~ Opened(i)'
  BY <1>1 DEF OwnershipInv, StartInv, Listed, Opened
<1>5. StartTypes' /\ SkipInv'
  BY <1>3 DEF StartTypes, SkipInv, Idle
<1>6. OpenedInv'
  BY <1>3, <1>4 DEF OpenedInv
<1>7. ScanInv' /\ FailedInv'
  BY <1>3, <1>4 DEF ScanInv, FailedInv, DistinctIds
<1>8. AllInv'
  <2>1. \A w \in Worker : worker'[w] = Idle
    BY <1>3
  <2>2. todo' \subseteq Path
    BY <1>3 DEF Listed
  <2> QED
    BY <1>3, <1>4, <2>1, <2>2, Zenon DEF AllInv, WorkerInv, Idle
<1>9. StartInv'
  BY <1>1, <1>3, <1>4, <1>5, <1>6, <1>7, <1>8 DEF StartInv, MountingInv
<1>10. RestInv' /\ OwnInv'
  BY <1>1, Zenon DEF OwnershipInv, RestInv, OwnInv
<1> QED
  BY <1>9, <1>10

LEMMA MountingOwnership ==
  ASSUME HolderTypes, KeptTypes, OwnershipInv, Mounting
  PROVE  StartInv' /\ RestInv' /\ OwnInv'
<1>1. /\ server = "starting" /\ server' = "starting" /\ MountStep
      /\ UNCHANGED <<files, mounted, retiring, creator, embedder, writer>>
  BY DEF Mounting, diskVars, writeVars
<1>2. MountFacts
  BY <1>1 DEF OwnershipInv, StartInv, MountFacts, Mode
<1>3. MountFacts'
  BY <1>1, <1>2, MountStepFacts DEF KeptTypes
<1>4. StartInv'
  BY <1>1, <1>3 DEF StartInv, MountFacts, Mode
<1>5. RestInv' /\ OwnInv'
  BY <1>1, Zenon DEF OwnershipInv, RestInv, OwnInv
<1> QED
  BY <1>4, <1>5

\* New serves each database that was opened under its id.
LEMMA ServeMaps ==
  ASSUME HolderTypes, OwnershipInv, Serve
  PROVE  /\ \A d \in Id : mounted'[d] # 0 =>
              \E p \in Path : mounted'[d] = opened[p] /\ opened[p] # 0 /\ IdOf(opened[p]) = d
         /\ \A p \in Path : opened[p] # 0 => mounted'[IdOf(opened[p])] = opened[p]
<1>1. ASSUME NEW d \in Id, NEW at, at = {p \in Path : opened[p] # 0 /\ IdOf(opened[p]) = d}
      PROVE  mounted'[d] = IF at = {} THEN 0 ELSE opened[Min(at)]
  BY <1>1, Zenon DEF Serve
<1>2. ASSUME NEW d \in Id, mounted'[d] # 0
      PROVE  \E p \in Path : mounted'[d] = opened[p] /\ opened[p] # 0 /\ IdOf(opened[p]) = d
  <2> DEFINE at == {p \in Path : opened[p] # 0 /\ IdOf(opened[p]) = d}
  <2>1. at # {} /\ mounted'[d] = opened[Min(at)]
    BY <1>1, <1>2
  <2>2. Min(at) \in at
    BY <2>1, MinPath
  <2> QED
    BY <2>1, <2>2, Zenon
<1>3. ASSUME NEW p \in Path, opened[p] # 0
      PROVE  mounted'[IdOf(opened[p])] = opened[p]
  <2> DEFINE d == IdOf(opened[p])
             at == {q \in Path : opened[q] # 0 /\ IdOf(opened[q]) = d}
  <2>1. server = "starting" /\ how \in {"mounted", "failed"} /\ MountingInv
    BY Zenon DEF Serve, OwnershipInv, StartInv
  <2>2. how = "mounted"
    BY <1>3, <2>1 DEF MountingInv, FailedInv
  <2>3. d \in Id
    BY <1>3, <2>1, Zenon DEF MountingInv, OpenedInv, IdOf, Manifest
  <2>4. at = {p}
    BY <1>3, <2>1, <2>2 DEF MountingInv, ScanInv, DistinctIds
  <2>5. Min(at) = p
    BY <2>4, MinPath
  <2> QED
    BY <1>1, <2>3, <2>4, <2>5
<1> QED
  BY <1>2, <1>3

LEMMA ServeOwnership ==
  ASSUME HolderTypes, OwnershipInv, Serve
  PROVE  StartInv' /\ RestInv' /\ OwnInv'
<1>1. /\ server = "starting" /\ how \in {"mounted", "failed"}
      /\ server' = (IF how = "mounted" THEN "up" ELSE "down")
      /\ how' = "none" /\ \A p \in Path : opened'[p] = 0
      /\ UNCHANGED <<inst, worker, health, retiring, creator, embedder, writer>>
  BY DEF Serve, writeVars
<1>2. MountingInv /\ retiring = {} /\ embedder = 0 /\ (\A c \in Creator : creator[c].inst = 0)
      /\ \A w \in Writer : writer[w] = NoWrite
  BY <1>1 DEF OwnershipInv, StartInv, RestInv
<1>3. \A i \in Instance : Opened(i)' <=> Opened(i)
  BY <1>1 DEF Opened
<1>4. how = "failed" => \A i \in Instance : ~ Opened(i)
  BY <1>2, Slots, Zenon DEF MountingInv, OpenedInv, FailedInv
<1>5. StartTypes' /\ SkipInv'
  BY <1>1, Zenon DEF OwnershipInv, StartInv, StartTypes, SkipInv
<1>6. StartInv'
  BY <1>1, <1>3, <1>4, <1>5 DEF StartInv
<1>7. \A i \in Instance : Opened(i) <=> \E p \in Path : opened[p] = i
  BY <1>2, Slots, Zenon DEF MountingInv, OpenedInv
<1>8. \A p \in Path : opened[p] # 0 => IdOf(opened[p]) \in Id
  BY <1>2, Zenon DEF MountingInv, OpenedInv, IdOf, Manifest
<1>9. \A i \in Instance : Opened(i) <=> \E d \in Id : mounted'[d] = i
  <2>1. ASSUME NEW i \in Instance, NEW p \in Path, opened[p] = i
        PROVE  IdOf(opened[p]) \in Id /\ mounted'[IdOf(opened[p])] = i
    BY <1>8, <2>1, Slots, ServeMaps
  <2>2. ASSUME NEW i \in Instance, NEW d \in Id, mounted'[d] = i
        PROVE  \E p \in Path : opened[p] = i
    BY <2>2, Slots, ServeMaps
  <2> QED
    BY <1>7, <2>1, <2>2
<1>10. \A d, e \in Id : mounted'[d] # 0 /\ mounted'[d] = mounted'[e] => d = e
  BY ServeMaps
<1>11. \A i \in Instance : Opened(i)' <=> Owned(i)'
  BY <1>1, <1>2, <1>3, <1>9, Slots DEF Owned
<1>12. how = "failed" => \A d \in Id : mounted'[d] = 0
  BY <1>2, ServeMaps DEF MountingInv, FailedInv
<1>13. RestInv'
  BY <1>1, <1>2, <1>12 DEF RestInv
<1>14. OwnInv'
  BY <1>1, <1>2, <1>10, <1>11, Zenon DEF OwnershipInv, OwnInv
<1> QED
  BY <1>6, <1>13, <1>14

LEMMA KillOwnership ==
  ASSUME OwnershipInv, Kill
  PROVE  StartInv' /\ RestInv' /\ OwnInv'
<1>1. /\ server' = "down" /\ how' = "none" /\ retiring' = {} /\ embedder' = 0
      /\ \A p \in Path : opened'[p] = 0 /\ health'[p] = "none"
      /\ \A d \in Id : mounted'[d] = 0
      /\ \A c \in Creator : creator'[c].inst = 0 /\ creator'[c].at = "idle"
      /\ \A w \in Writer : writer'[w] = NoWrite
      /\ \A i \in Instance : ~ Opened(i)'
  BY Zenon DEF Kill, StartMounting, NoCreation, Opened
<1>2. StartTypes'
  BY DEF Kill, StartMounting, StartTypes, Idle
<1>3. StartInv'
  BY <1>1, <1>2 DEF StartInv, SkipInv
<1>4. RestInv'
  BY <1>1 DEF RestInv
<1>5. OwnInv'
  BY <1>1, Zenon DEF OwnInv
<1> QED
  BY <1>3, <1>4, <1>5

\* The steps that neither open nor close a database, nor pass one on.
LEMMA OwnFrame ==
  ASSUME OwnInv, UNCHANGED <<server, inst, mounted, retiring, embedder, writer>>,
         \A c \in Creator : /\ creator'[c].inst = creator[c].inst
                            /\ creator'[c].at = "opened" <=> creator[c].at = "opened"
  PROVE  OwnInv'
<1>1. \A i \in Instance : (Opened(i)' <=> Opened(i)) /\ (Owned(i)' <=> Owned(i))
  BY DEF Opened, Owned
<1> QED
  BY <1>1, Zenon DEF OwnInv

\* A creation that is not at "opened" returns, or moves on to another place.
LEMMA CreatorFrame ==
  ASSUME FileInv, OwnInv, NEW c \in Creator, creator[c].at # "opened",
         \/ \E place \in Underway \ {"opened"} : Moves(c, place)
         \/ Return(c)
  PROVE  \A b \in Creator : /\ creator'[b].inst = creator[b].inst
                            /\ creator'[b].at = "opened" <=> creator[b].at = "opened"
<1>1. creator[c].inst = 0
  BY Zenon DEF OwnInv
<1>2. CASE \E place \in Underway \ {"opened"} : Moves(c, place)
  BY <1>2 DEF Moves, FileInv
<1>3. CASE Return(c)
  BY <1>1, <1>3, Zenon DEF Return, FileInv, NoCreation
<1> QED
  BY <1>2, <1>3

\* OwnInv by what it says of mounted databases and of creations.
LEMMA MountedApart ==
  ASSUME OwnInv
  PROVE  /\ \A d, e \in Id : mounted[d] # 0 /\ mounted[d] = mounted[e] => d = e
         /\ \A d \in Id : mounted[d] # 0 =>
              /\ mounted[d] \notin retiring /\ mounted[d] # embedder
              /\ \A c \in Creator : creator[c].inst # mounted[d]
  BY Zenon DEF OwnInv

LEMMA CreationsApart ==
  ASSUME OwnInv
  PROVE  /\ \A c \in Creator : creator[c].inst # 0 =>
              creator[c].inst \notin retiring /\ creator[c].inst # embedder
         /\ \A c \in Creator : creator[c].at = "opened" <=> creator[c].inst # 0
  BY Zenon DEF OwnInv

LEMMA CreateOwnership ==
  ASSUME FileInv, HolderTypes, KeptTypes, OwnInv, NEW c \in Creator, CreateStep(c)
  PROVE  OwnInv'
<1>0. server = "up" /\ UNCHANGED <<server, retiring, embedder, writer>>
  BY Zenon DEF CreateStep, Truncate, ProvisionFails, WriteManifest, MountCreated,
         MountCreatedFails, MountServed, Answer, MintFails, At, writeVars
<1>1. CASE Truncate(c) \/ WriteManifest(c)
  <2>1. /\ creator[c].at # "opened" /\ UNCHANGED <<inst, mounted>>
        /\ \E place \in Underway \ {"opened"} : Moves(c, place)
    BY <1>1, Zenon DEF Truncate, WriteManifest, At, Underway
  <2> QED
    BY <1>0, <2>1, CreatorFrame, OwnFrame, Zenon
<1>2. CASE ProvisionFails(c) \/ MountCreatedFails(c) \/ Answer(c) \/ MintFails(c)
  <2>1. creator[c].at # "opened" /\ UNCHANGED <<inst, mounted>> /\ Return(c)
    BY <1>2, Zenon DEF ProvisionFails, MountCreatedFails, Answer, MintFails, At
  <2> QED
    BY <1>0, <2>1, CreatorFrame, OwnFrame, Zenon
<1>3. CASE MountCreated(c)
  <2>1. creator[c].at = "mounting" /\ UNCHANGED mounted
    BY <1>3 DEF MountCreated, At
  <2>0. PICK p : p = PathOf[creator[c].id]
    OBVIOUS
  <2>2. PICK i \in Instance :
          OpenFile(p, i) /\ creator' = [creator EXCEPT ![c].at = "opened", ![c].inst = i]
    BY <1>3, <2>0, Zenon DEF MountCreated
  <2>3. /\ ~ Opened(i) /\ i # 0
        /\ \A j \in Instance : Opened(j)' <=> Opened(j) \/ j = i
    BY <2>2, OpensOne, Zenon DEF KeptTypes
  <2>4. /\ creator'[c].at = "opened" /\ creator'[c].inst = i
        /\ \A b \in Creator \ {c} : creator'[b] = creator[b]
        /\ creator[c].inst = 0
    BY <2>1, <2>2, Zenon DEF FileInv, OwnInv
  <2>5. ~ Owned(i)
    BY <1>0, <2>3, Zenon DEF OwnInv
  <2>6. \A j \in Instance : Owned(j)' <=> Owned(j) \/ j = i
    BY <1>0, <2>1, <2>4, Slots, Zenon DEF Owned
  <2>7. \A d \in Id : mounted[d] # i
    BY <2>5 DEF Owned
  <2>8. i \notin retiring /\ i # embedder
    BY <2>5 DEF Owned
  <2>9. \A d \in Id : mounted[d] # 0 =>
          /\ mounted[d] \notin retiring /\ mounted[d] # embedder
          /\ \A b \in Creator : creator'[b].inst # mounted[d]
    BY <2>4, <2>7, MountedApart
  <2>10. \A b \in Creator : creator'[b].inst # 0 =>
           creator'[b].inst \notin retiring /\ creator'[b].inst # embedder
    BY <2>4, <2>8, CreationsApart
  <2>11. \A b \in Creator : creator'[b].at = "opened" <=> creator'[b].inst # 0
    BY <2>3, <2>4, CreationsApart
  <2> QED
    BY <1>0, <2>1, <2>3, <2>6, <2>9, <2>10, <2>11, Zenon DEF OwnInv
<1>4. CASE MountServed(c)
  <2>0. PICK i, d : i = creator[c].inst /\ d = creator[c].id
    OBVIOUS
  <2>1. /\ creator[c].at = "opened" /\ i # 0 /\ i \in Instance /\ d \in Id
        /\ \A b \in Creator \ {c} : creator[b].inst = 0
    BY <1>4, <2>0, Zenon DEF MountServed, At, OwnInv, FileInv
  <2>2. /\ i \notin retiring /\ i # embedder /\ \A e \in Id : mounted[e] # i
    BY <2>0, <2>1, Zenon DEF OwnInv
  <2>3. CASE mounted[d] = 0
    <3>1. /\ mounted' = [mounted EXCEPT ![d] = i] /\ UNCHANGED inst
          /\ creator' = [creator EXCEPT ![c].at = "mounted", ![c].inst = 0]
      BY <1>4, <2>0, <2>3, Zenon DEF MountServed
    <3>2. mounted'[d] = i /\ \A e \in Id \ {d} : mounted'[e] = mounted[e]
      BY <2>1, <3>1 DEF HolderTypes
    <3>3. /\ creator'[c].inst = 0 /\ creator'[c].at = "mounted"
          /\ \A b \in Creator \ {c} : creator'[b] = creator[b]
      BY <3>1 DEF FileInv
    <3>4. \A j \in Instance : (Opened(j)' <=> Opened(j)) /\ (Owned(j)' <=> Owned(j))
      <4>1. \A j \in Instance :
              (\E e \in Id : mounted'[e] = j) <=> (\E e \in Id : mounted[e] = j) \/ j = i
        BY <2>1, <2>3, <3>2, Slots
      <4>2. \A j \in Instance : ~ \E b \in Creator : creator'[b].inst = j
        BY <2>1, <3>3, Slots
      <4>3. \A j \in Instance : (\E b \in Creator : creator[b].inst = j) <=> j = i
        BY <2>0, <2>1, Slots
      <4>4. \A j \in Instance : Owned(j)' <=> Owned(j)
        BY <1>0, <4>1, <4>2, <4>3 DEF Owned
      <4> QED
        BY <3>1, <4>4 DEF Opened
    <3>5. \A e \in Id : mounted[e] # 0 => mounted'[e] = mounted[e]
      BY <2>3, <3>2
    <3>6. \A w \in Writer : writer[w] # NoWrite =>
            writer[w].inst \in retiring \/ \E e \in Id : mounted'[e] = writer[w].inst
      BY <3>5, Slots, ZenonT(60) DEF OwnInv, HolderTypes
    <3>7. \A b \in Creator : creator'[b].inst = 0
      BY <2>1, <3>3
    <3>8. \A b \in Creator : creator'[b].at # "opened"
      BY <2>1, <3>3, Zenon DEF OwnInv
    <3>9. \A e \in Id : mounted'[e] = i <=> e = d
      BY <2>2, <3>2
    <3>10. \A e, f \in Id : mounted'[e] # 0 /\ mounted'[e] = mounted'[f] => e = f
      BY <3>2, <3>9, MountedApart
    <3>11. \A e \in Id : mounted'[e] # 0 => mounted'[e] \notin retiring /\ mounted'[e] # embedder
      BY <2>2, <3>2, MountedApart
    <3> QED
      BY <1>0, <3>4, <3>6, <3>7, <3>8, <3>10, <3>11, Zenon DEF OwnInv
  <2>4. CASE mounted[d] # 0
    <3>1. CloseAll({i}) /\ Return(c) /\ UNCHANGED mounted
      BY <1>4, <2>0, <2>4 DEF MountServed
    <3>2. \A j \in Instance : Opened(j)' <=> Opened(j) /\ j # i
      BY <3>1, ClosesSome
    <3>3. \A b \in Creator : creator'[b].inst = 0 /\ creator'[b].at # "opened"
      BY <2>1, <3>1, Zenon DEF Return, NoCreation, FileInv, OwnInv
    <3>4. \A j \in Instance : Owned(j)' <=> Owned(j) /\ j # i
      BY <1>0, <2>0, <2>1, <2>2, <3>1, <3>3, Slots, Zenon DEF Owned
    <3> QED
      BY <1>0, <3>1, <3>2, <3>3, <3>4, Zenon DEF OwnInv
  <2> QED
    BY <2>3, <2>4
<1> QED
  BY <1>1, <1>2, <1>3, <1>4 DEF CreateStep

LEMMA EmbedderMountsOwnership ==
  ASSUME FileInv, HolderTypes, KeptTypes, OwnershipInv, UpStep,
         OwnInv /\ OfManifest /\ server = "up" /\ server' = "up",
         EmbedderMounts
  PROVE  OwnInv'
<1>1. /\ embedder # 0 /\ embedder' = 0 /\ UNCHANGED <<retiring, creator, writer>>
  BY DEF EmbedderMounts, writeVars
<1>2. PICK i, d : i = embedder /\ d = IdOf(embedder)
  OBVIOUS
<1>3. i \in Instance /\ Opened(i) /\ inst[i].of \in Manifest
  BY <1>1, <1>2, Zenon DEF HolderTypes, Slot, OwnInv, Owned, OfManifest
<1>4. d \in Id
  BY <1>2, <1>3 DEF IdOf, Manifest
<1>5. /\ i \notin retiring /\ (\A e \in Id : mounted[e] # i)
      /\ \A c \in Creator : creator[c].inst # i
  BY <1>1, <1>2, Zenon DEF OwnInv
<1>6. CASE mounted[d] = 0
  <2>1. mounted' = [mounted EXCEPT ![d] = i] /\ UNCHANGED inst
    BY <1>2, <1>6 DEF EmbedderMounts
  <2>2. mounted'[d] = i /\ \A e \in Id \ {d} : mounted'[e] = mounted[e]
    BY <1>4, <2>1 DEF HolderTypes
  <2>3. \A j \in Instance : (Opened(j)' <=> Opened(j)) /\ (Owned(j)' <=> Owned(j))
    BY <1>1, <1>2, <1>4, <1>6, <2>1, <2>2, Slots, Zenon DEF Opened, Owned
  <2>4. \A e \in Id : mounted'[e] = i <=> e = d
    BY <1>5, <2>2
  <2>5. \A e \in Id : mounted[e] # 0 => mounted'[e] = mounted[e]
    BY <1>6, <2>2
  <2>6. \A w \in Writer : writer[w] # NoWrite =>
          writer[w].inst \in retiring \/ \E e \in Id : mounted'[e] = writer[w].inst
    BY <2>5, Slots, SMTT(30) DEF OwnInv, HolderTypes
  <2>7. 0 \notin retiring
    BY Slots, Zenon DEF OwnInv
  <2>8. i # 0
    BY <1>1, <1>2
  <2>9. \A e \in Id : mounted'[e] # 0 =>
          /\ mounted'[e] \notin retiring
          /\ \A c \in Creator : creator[c].inst # mounted'[e]
    BY <1>5, <2>2, MountedApart
  <2>10. \A e, f \in Id : mounted'[e] # 0 /\ mounted'[e] = mounted'[f] => e = f
    BY <2>2, <2>4, MountedApart
  <2> QED
    BY <1>1, <2>3, <2>6, <2>7, <2>9, <2>10, Zenon DEF OwnInv
<1>7. CASE mounted[d] # 0
  <2>1. CloseAll({i}) /\ UNCHANGED mounted
    BY <1>2, <1>7 DEF EmbedderMounts
  <2>2. \A j \in Instance : Opened(j)' <=> Opened(j) /\ j # i
    BY <2>1, ClosesSome
  <2>3. \A j \in Instance : Owned(j)' <=> Owned(j) /\ j # i
    BY <1>1, <1>2, <1>5, <2>1, Slots, Zenon DEF Owned
  <2>4. 0 \notin retiring
    BY Slots, Zenon DEF OwnInv
  <2> QED
    BY <1>1, <2>1, <2>2, <2>3, <2>4, Zenon DEF OwnInv
<1> QED
  BY <1>6, <1>7

LEMMA DrainedOwnership ==
  ASSUME FileInv, HolderTypes, KeptTypes, OwnershipInv, UpStep,
         OwnInv /\ OfManifest /\ server = "up" /\ server' = "up",
         \E i \in retiring : Drained(i)
  PROVE  OwnInv'
<1>1. PICK i \in retiring : Drained(i)
  OBVIOUS
<1>2. /\ (\A w \in Writer : writer[w].inst # i) /\ retiring' = retiring \ {i} /\ CloseAll({i})
      /\ UNCHANGED <<mounted, creator, embedder, writer>>
  BY <1>1, Zenon DEF Drained, writeVars
<1>3. i \in Instance /\ i # embedder /\ (\A e \in Id : mounted[e] # i)
      /\ \A c \in Creator : creator[c].inst # i
  BY <1>1, Slots, Zenon DEF OwnInv
<1>4. \A j \in Instance : Opened(j)' <=> Opened(j) /\ j # i
  BY <1>2, ClosesSome, Zenon
<1>5. \A j \in Instance : Owned(j)' <=> Owned(j) /\ j # i
  BY <1>2, <1>3, Zenon DEF Owned
<1> QED
  BY <1>2, <1>4, <1>5, Zenon DEF OwnInv

LEMMA ObservesOwnership ==
  ASSUME FileInv, HolderTypes, KeptTypes, OwnershipInv, UpStep,
         OwnInv /\ OfManifest /\ server = "up" /\ server' = "up",
         \E w \in Writer : Observes(w) \/ PersistFails(w)
  PROVE  OwnInv'
<1>1. PICK w \in Writer : Observes(w) \/ PersistFails(w)
  OBVIOUS
<1>2. /\ writer' = [writer EXCEPT ![w] = NoWrite]
      /\ UNCHANGED <<mounted, retiring, creator, embedder>>
  BY <1>1, Zenon DEF Observes, PersistFails
<1>3. \A j \in Instance : (Opened(j)' <=> Opened(j)) /\ (Owned(j)' <=> Owned(j))
  BY <1>1, <1>2, ObservesOpen, Zenon DEF Owned
<1>4. \A v \in Writer : writer'[v] # NoWrite => writer'[v] = writer[v]
  BY <1>2 DEF HolderTypes
<1>5. ASSUME NEW v \in Writer, writer'[v] # NoWrite
      PROVE  writer'[v].inst \in retiring \/ \E d \in Id : mounted[d] = writer'[v].inst
  <2>1. writer'[v] = writer[v] /\ writer[v] # NoWrite
    BY <1>4, <1>5, Zenon
  <2> QED
    BY <2>1, Zenon DEF OwnInv
<1> QED
  BY <1>2, <1>3, <1>5, Zenon DEF OwnInv

LEMMA EnterOwnership ==
  ASSUME FileInv, HolderTypes, KeptTypes, OwnershipInv, UpStep,
         OwnInv /\ OfManifest /\ server = "up" /\ server' = "up",
         \E c \in Creator, d \in Id : Enter(c, d)
  PROVE  OwnInv'
<1>1. PICK c \in Creator, d \in Id : Enter(c, d)
  OBVIOUS
<1>2. /\ creator[c].at = "idle" /\ UNCHANGED <<server, inst, mounted, retiring, embedder, writer>>
      /\ \/ UNCHANGED creator
         \/ creator' = [creator EXCEPT ![c] = [at |-> "directory", id |-> d, inst |-> 0]]
  BY <1>1, Zenon DEF Enter, At, writeVars
<1>3. \A b \in Creator : /\ creator'[b].inst = creator[b].inst
                         /\ creator'[b].at = "opened" <=> creator[b].at = "opened"
  <2>1. creator[c].inst = 0
    BY <1>2, Zenon DEF OwnInv
  <2>2. CASE creator' = [creator EXCEPT ![c] = [at |-> "directory", id |-> d, inst |-> 0]]
    <3>1. /\ creator'[c].inst = 0 /\ creator'[c].at = "directory"
          /\ \A b \in Creator \ {c} : creator'[b] = creator[b]
      BY <2>2, Zenon DEF FileInv
    <3> QED
      BY <1>2, <2>1, <3>1, Zenon
  <2> QED
    BY <1>2, <2>2, Zenon
<1> QED
  BY <1>2, <1>3, OwnFrame, Zenon

LEMMA EmbedderOpensOwnership ==
  ASSUME FileInv, HolderTypes, KeptTypes, OwnershipInv, UpStep,
         OwnInv /\ OfManifest /\ server = "up" /\ server' = "up",
         \E p \in Path : EmbedderOpens(p)
  PROVE  OwnInv'
<1>1. PICK p \in Path, i \in Instance : OpenFile(p, i) /\ embedder' = i
  BY DEF EmbedderOpens
<1>2. embedder = 0 /\ UNCHANGED <<mounted, retiring, creator, writer>>
  BY DEF EmbedderOpens, writeVars
<1>3. /\ ~ Opened(i) /\ i # 0
      /\ \A j \in Instance : Opened(j)' <=> Opened(j) \/ j = i
  BY <1>1, OpensOne, Zenon DEF KeptTypes
<1>4. ~ Owned(i)
  BY <1>3, Zenon DEF OwnInv
<1>5. \A j \in Instance : Owned(j)' <=> Owned(j) \/ j = i
  BY <1>1, <1>2, Slots DEF Owned
<1>6. i \notin retiring /\ (\A d \in Id : mounted[d] # i) /\ \A c \in Creator : creator[c].inst # i
  BY <1>4 DEF Owned
<1> QED
  BY <1>1, <1>2, <1>3, <1>5, <1>6, Zenon DEF OwnInv

LEMMA UnmountOwnership ==
  ASSUME FileInv, HolderTypes, KeptTypes, OwnershipInv, UpStep,
         OwnInv /\ OfManifest /\ server = "up" /\ server' = "up",
         \E d \in Id : Unmount(d)
  PROVE  OwnInv'
<1>1. PICK d \in Id : Unmount(d)
  OBVIOUS
<1>2. /\ mounted[d] # 0 /\ mounted' = [mounted EXCEPT ![d] = 0]
      /\ retiring' = retiring \cup {mounted[d]}
      /\ UNCHANGED <<inst, creator, embedder, writer>>
  BY <1>1, Zenon DEF Unmount, writeVars
<1>3. PICK i \in Instance : i = mounted[d]
  BY <1>2 DEF HolderTypes, Slot
<1>4. /\ i # embedder /\ (\A c \in Creator : creator[c].inst # i)
      /\ \A e \in Id : mounted[e] = i => e = d
  BY <1>2, <1>3, Zenon DEF OwnInv
<1>5. mounted'[d] = 0 /\ \A e \in Id \ {d} : mounted'[e] = mounted[e]
  BY <1>2 DEF HolderTypes
<1>6. \A j \in Instance : (Opened(j)' <=> Opened(j)) /\ (Owned(j)' <=> Owned(j))
  BY <1>2, <1>3, <1>5, Slots, Zenon DEF Opened, Owned
<1>7. \A w \in Writer : writer[w] # NoWrite =>
        writer[w].inst \in retiring' \/ \E e \in Id : mounted'[e] = writer[w].inst
  <2> SUFFICES ASSUME NEW w \in Writer, writer[w].inst \notin retiring,
                      NEW e \in Id, mounted[e] = writer[w].inst
               PROVE  writer[w].inst \in retiring' \/ mounted'[e] = writer[w].inst
    BY <1>2, Zenon DEF OwnInv
  <2> QED
    BY <1>2, <1>5, Zenon
<1>8. \A e \in Id : mounted'[e] # 0 => mounted'[e] = mounted[e] /\ mounted'[e] # i
  BY <1>4, <1>5, Zenon
<1>9. \A e, f \in Id : mounted'[e] # 0 /\ mounted'[e] = mounted'[f] => e = f
  BY <1>8, MountedApart, Zenon
<1>10. \A e \in Id : mounted'[e] # 0 =>
         /\ mounted'[e] \notin retiring' /\ mounted'[e] # embedder
         /\ \A c \in Creator : creator[c].inst # mounted'[e]
  BY <1>2, <1>3, <1>8, MountedApart, SMTT(10), SMTT(30)
<1>11. retiring' \subseteq Instance /\ embedder \notin retiring'
  BY <1>2, <1>3, <1>4, Zenon DEF OwnInv
<1>12. \A c \in Creator : creator[c].inst # 0 =>
         creator[c].inst \notin retiring' /\ creator[c].inst # embedder
  BY <1>2, <1>3, <1>4, CreationsApart, Zenon
<1>13. /\ \A j \in Instance : Opened(j)' <=> Owned(j)'
       /\ \A c \in Creator : creator[c].at = "opened" <=> creator[c].inst # 0
  BY <1>6, Zenon DEF OwnInv
<1>14. creator' = creator /\ embedder' = embedder /\ writer' = writer
  BY <1>2
<1> QED
  BY <1>7, <1>9, <1>10, <1>11, <1>12, <1>13, <1>14, ZenonT(60) DEF OwnInv

LEMMA WriteOwnership ==
  ASSUME FileInv, HolderTypes, KeptTypes, OwnershipInv, UpStep,
         OwnInv /\ OfManifest /\ server = "up" /\ server' = "up",
         \E w \in Writer, d \in Id, doc \in Doc : Write(w, d, doc)
  PROVE  OwnInv'
<1>1. PICK w \in Writer, d \in Id, doc \in Doc : Write(w, d, doc)
  OBVIOUS
<1>2. /\ writer' = [writer EXCEPT ![w] = [inst |-> mounted[d], doc |-> doc]]
      /\ UNCHANGED <<inst, mounted, retiring, creator, embedder>>
  BY <1>1, Zenon DEF Write
<1>3. writer'[w].inst = mounted[d] /\ \A v \in Writer \ {w} : writer'[v] = writer[v]
  BY <1>2, Zenon DEF HolderTypes
<1>4. \A j \in Instance : (Opened(j)' <=> Opened(j)) /\ (Owned(j)' <=> Owned(j))
  BY <1>2, Zenon DEF Opened, Owned
<1>5. \A v \in Writer : writer'[v] # NoWrite =>
        writer'[v].inst \in retiring \/ \E e \in Id : mounted[e] = writer'[v].inst
  BY <1>1, <1>3, ZenonT(60) DEF OwnInv
<1> QED
  BY <1>2, <1>4, <1>5, Zenon DEF OwnInv

LEMMA UpOwnership ==
  ASSUME FileInv, HolderTypes, KeptTypes, OwnershipInv, UpStep
  PROVE  OwnInv'
<1>0. OwnInv /\ OfManifest /\ server = "up" /\ server' = "up"
  BY UpFrame DEF OwnershipInv
<1>1. CASE \E c \in Creator : CreateStep(c)
  BY <1>0, <1>1, CreateOwnership
<1>2. CASE EmbedderMounts
  BY <1>0, <1>2, EmbedderMountsOwnership
<1>3. CASE \E i \in retiring : Drained(i)
  BY <1>0, <1>3, DrainedOwnership
<1>4. CASE \E w \in Writer : Observes(w) \/ PersistFails(w)
  BY <1>0, <1>4, ObservesOwnership
<1>5. CASE \E c \in Creator, d \in Id : Enter(c, d)
  BY <1>0, <1>5, EnterOwnership
<1>6. CASE \E p \in Path : EmbedderOpens(p)
  BY <1>0, <1>6, EmbedderOpensOwnership
<1>7. CASE \E d \in Id : Unmount(d)
  BY <1>0, <1>7, UnmountOwnership
<1>8. CASE \E w \in Writer, d \in Id, doc \in Doc : Write(w, d, doc)
  BY <1>0, <1>8, WriteOwnership
<1> QED
  BY <1>1, <1>2, <1>3, <1>4, <1>5, <1>6, <1>7, <1>8, Zenon DEF UpStep

LEMMA OwnershipStep ==
  ASSUME FileInv, HolderTypes, KeptInv, OwnershipInv, [Next]_vars
  PROVE  OwnershipInv'
<1>1. KeptTypes
  BY DEF KeptInv
<1>2. OfManifest'
  BY <1>1, OfManifestStep DEF OwnershipInv
<1>3. CASE UpStep
  BY <1>1, <1>2, <1>3, UpFrame, UpOwnership DEF OwnershipInv
<1>4. CASE Start \/ Mounting \/ Serve \/ Kill
  BY <1>1, <1>2, <1>4, StartOwnership, MountingOwnership, ServeOwnership, KillOwnership, Zenon
     DEF OwnershipInv
<1>5. CASE UNCHANGED vars
  <2>1. UNCHANGED <<files, inst, how, todo, worker, required, opened, health, server, mounted,
                    retiring, creator, embedder, writer>>
    BY <1>5, Zenon DEF vars, diskVars, mountVars, writeVars
  <2>2. OwnInv'
    BY <2>1, OwnFrame, Zenon DEF OwnershipInv
  <2>3. RestInv'
    BY <2>1, Zenon DEF OwnershipInv, RestInv
  <2>4. StartTypes' /\ SkipInv' /\ (MountingInv => MountingInv')
    <3>1. StartTypes' /\ SkipInv'
      BY <2>1, Zenon DEF OwnershipInv, StartInv, StartTypes, SkipInv
    <3>2. Listed' = Listed /\ (OpenedInv => OpenedInv')
      BY <2>1, Zenon DEF OpenedInv, Listed, Opened
    <3>3. (ScanInv => ScanInv') /\ (FailedInv => FailedInv')
      BY <2>1, <3>2, Zenon DEF ScanInv, DistinctIds, IdOf, Settled, FailedInv
    <3>4. AllInv => AllInv'
      <4>1. \A w \in Worker : WorkerInv(w) => WorkerInv(w)'
        BY <2>1, <3>2, Zenon DEF WorkerInv
      <4> QED
        BY <2>1, <3>2, <4>1, Zenon DEF AllInv
    <3> QED
      BY <2>1, <3>1, <3>2, <3>3, <3>4, Zenon DEF MountingInv
  <2>5. StartInv'
    BY <2>1, <2>4, Zenon DEF OwnershipInv, StartInv, Opened
  <2> QED
    BY <1>2, <2>2, <2>3, <2>5 DEF OwnershipInv
<1> QED
  BY <1>3, <1>4, <1>5, NextIs

\* The inductive invariant behind mounting and serving: what a mounting has settled, and who has
\* each open database (mount.Dir, mount.All, Server.Mount and Unmount).
THEOREM OwnershipInvariant == Spec => []OwnershipInv
<1>1. Spec => []KeptInv
  BY KeptInit, KeptStep, HoldersTyped, PTL DEF Spec
<1> QED
  BY <1>1, OwnershipInit, OwnershipStep, FileInvariant, HoldersTyped, PTL DEF Spec

\* Dir, DirReport and All keep their promises, whatever the order in which the workers of All take,
\* open and fail the paths.
THEOREM MountingStaysWhole == Spec => []MountingIsWhole
<1>1. OwnershipInv => MountingIsWhole
  <2> SUFFICES ASSUME OwnershipInv PROVE MountingIsWhole
    OBVIOUS
  <2>1. how \in {"mounted", "failed"} => MountingInv
    BY DEF OwnershipInv, StartInv
  <2>2. ASSUME how = "mounted"
        PROVE  (\A p \in Listed : health[p] # "skipped") /\ DistinctIds
    BY <2>1, <2>2, Zenon DEF MountingInv, ScanInv, Listed
  <2>3. ASSUME how = "failed"
        PROVE  /\ \A i \in Instance : ~ Opened(i)
               /\ \E p \in Listed : health[p] \in {"failed", "duplicate"}
    BY <2>1, <2>3, Slots, Zenon DEF MountingInv, FailedInv, OpenedInv
  <2>4. SkipInv
    BY DEF OwnershipInv, StartInv
  <2> QED
    BY <2>2, <2>3, <2>4, Zenon DEF MountingIsWhole, DistinctIds, SkipInv
<1> QED
  BY <1>1, OwnershipInvariant, PTL

LEMMA OneOwner ==
  ASSUME FileInv, HolderTypes, OwnershipInv, NEW i \in Instance
  PROVE  IF Opened(i) THEN \E o : Owners(i) = {o} ELSE Owners(i) = {}
<1> DEFINE paths == {q \in Path : server = "starting" /\ opened[q] = i}
           ids == {e \in Id : mounted[e] = i}
           creators == {b \in Creator : creator[b].inst = i}
<1>0. i # 0 /\ OwnInv /\ RestInv /\ StartInv
  BY Slots DEF OwnershipInv
<1>1. \A p, q \in paths : p = q
  BY <1>0, Zenon DEF StartInv, MountingInv, OpenedInv
<1>2. \A d, e \in ids : d = e
  BY <1>0, ZenonT(60) DEF OwnInv
<1>3. \A b, c \in creators : b = c
  BY <1>0, Zenon DEF OwnInv, FileInv
<1>4. ids # {} => i \notin retiring /\ embedder # i /\ creators = {}
  BY <1>0, MountedApart
<1>5. i \in retiring => embedder # i /\ creators = {}
  BY <1>0, Zenon DEF OwnInv
<1>6. creators # {} => embedder # i
  BY <1>0, ZenonT(60) DEF OwnInv
<1>7. paths # {} => ids = {} /\ i \notin retiring /\ creators = {} /\ embedder # i
  BY <1>0 DEF RestInv
<1>8. Opened(i) <=> paths # {} \/ ids # {} \/ i \in retiring \/ creators # {} \/ embedder = i
  <2>1. CASE server = "up"
    BY <1>0, <2>1, Zenon DEF OwnInv, Owned
  <2>2. CASE server = "starting"
    BY <1>0, <2>2, SMTT(30) DEF RestInv, StartInv, MountingInv, OpenedInv
  <2>3. CASE server = "down"
    BY <1>0, <2>3, Zenon DEF RestInv, StartInv
  <2> QED
    BY <1>0, <2>1, <2>2, <2>3, Zenon DEF StartInv
<1>9. Owners(i) = {<<"path", p>> : p \in paths} \cup {<<"map", d>> : d \in ids}
                  \cup {<<"retiring", j>> : j \in retiring \cap {i}}
                  \cup {<<"creation", c>> : c \in creators}
                  \cup {<<"embedder", j>> : j \in {embedder} \cap {i}}
  BY Zenon DEF Owners
<1> HIDE DEF paths, ids, creators
<1>10. CASE paths # {}
  <2>1. PICK p \in paths : TRUE
    BY <1>10
  <2>2. Owners(i) = {<<"path", p>>}
    BY <1>1, <1>7, <1>9, <1>10, <2>1, ZenonT(60)
  <2> QED
    BY <1>8, <1>10, <2>2, Zenon
<1>11. CASE paths = {} /\ ids # {}
  <2>1. PICK d \in ids : TRUE
    BY <1>11
  <2>2. Owners(i) = {<<"map", d>>}
    BY <1>2, <1>4, <1>9, <1>11, <2>1
  <2> QED
    BY <1>8, <1>11, <2>2, Zenon
<1>12. CASE paths = {} /\ ids = {} /\ i \in retiring
  <2>1. Owners(i) = {<<"retiring", i>>}
    BY <1>5, <1>9, <1>12, Zenon
  <2> QED
    BY <1>8, <1>12, <2>1, Zenon
<1>13. CASE paths = {} /\ ids = {} /\ i \notin retiring /\ creators # {}
  <2>1. PICK c \in creators : TRUE
    BY <1>13
  <2>2. Owners(i) = {<<"creation", c>>}
    BY <1>3, <1>6, <1>9, <1>13, <2>1
  <2> QED
    BY <1>8, <1>13, <2>2, Zenon
<1>14. CASE paths = {} /\ ids = {} /\ i \notin retiring /\ creators = {} /\ embedder = i
  <2>1. Owners(i) = {<<"embedder", i>>}
    BY <1>9, <1>14
  <2> QED
    BY <1>8, <1>14, <2>1, Zenon
<1>15. CASE paths = {} /\ ids = {} /\ i \notin retiring /\ creators = {} /\ embedder # i
  <2>1. Owners(i) = {}
    BY <1>9, <1>15
  <2> QED
    BY <1>8, <1>15, <2>1
<1> QED
  BY <1>10, <1>11, <1>12, <1>13, <1>14, <1>15, Zenon
-----------------------------------------------------------------------------
(* What is served. *)

Serves(d) == mounted[d] # 0 /\ inst[mounted[d]].of = Created(d)

\* A creation carries the database of its manifest to the map, and the embedder may take it out
\* before the creation is answered.
ServedInv ==
  /\ AcknowledgedIsServed
  /\ server # "up" => \A c \in Creator : creator[c].at = "idle"
  /\ \A c \in Creator : creator[c].at = "opened" =>
       inst[creator[c].inst].of = Created(creator[c].id)
  /\ \A c \in Creator : creator[c].at = "mounted" =>
       creator[c].id \in unserved \/ Serves(creator[c].id)

LEMMA ServedInit == Init => ServedInv
BY SMTT(10), SMTT(30) DEF Init, ServedInv, AcknowledgedIsServed, NoCreation

LEMMA OfStays ==
  ASSUME KeptTypes, HolderTypes, OfManifest, OwnInv, [Next]_vars, NEW j \in Instance,
         Opened(j), Opened(j)'
  PROVE  inst'[j].of = inst[j].of
<1>1. ASSUME NEW p, NEW i \in Instance, OpenFile(p, i)
      PROVE  inst'[j].of = inst[j].of
  BY <1>1, OpensOne, Zenon DEF KeptTypes
<1>2. ASSUME NEW s, CloseAll(s)
      PROVE  inst'[j].of = inst[j].of
  BY <1>2, ClosesSome
<1>3. ASSUME NEW w \in Writer, Observes(w) \/ PersistFails(w)
      PROVE  inst'[j].of = inst[j].of
  BY <1>3, ObservesOpen, Zenon
<1> QED
  BY <1>1, <1>2, <1>3, InstanceCases, Zenon

\* A step of a server that is up leaves the storage of what it goes on serving, or creating, alone.
LEMMA UpKeeps ==
  ASSUME FileInv, HolderTypes, KeptTypes, OwnershipInv, OwnershipInv', HolderTypes', FileInv',
         UpStep, [Next]_vars
  PROVE  /\ \A d \in Id : Serves(d) /\ mounted'[d] = mounted[d] => Serves(d)'
         /\ \A c \in Creator : creator[c].inst # 0 /\ creator'[c].inst = creator[c].inst =>
              inst'[creator[c].inst].of = inst[creator[c].inst].of
<1>1. server = "up" /\ server' = "up" /\ OwnInv /\ OwnInv' /\ OfManifest
  BY UpFrame DEF OwnershipInv
<1>2. ASSUME NEW d \in Id, Serves(d), mounted'[d] = mounted[d]
      PROVE  Serves(d)'
  <2>1. PICK j : j = mounted[d]
    OBVIOUS
  <2>2. j \in Instance /\ Owned(j) /\ Owned(j)'
    BY <1>2, <2>1, Zenon DEF Serves, HolderTypes, Slot, Owned
  <2>3. inst'[j].of = inst[j].of
    BY <1>1, <2>2, OfStays, Zenon DEF OwnInv
  <2> QED
    BY <1>2, <2>1, <2>3, Zenon DEF Serves, Created
<1>3. ASSUME NEW c \in Creator, creator[c].inst # 0, creator'[c].inst = creator[c].inst
      PROVE  inst'[creator[c].inst].of = inst[creator[c].inst].of
  <2>1. PICK j : j = creator[c].inst
    OBVIOUS
  <2>2. j \in Instance /\ Owned(j) /\ Owned(j)'
    BY <1>3, <2>1, Zenon DEF FileInv, Owned
  <2>3. inst'[j].of = inst[j].of
    BY <1>1, <2>2, OfStays, Zenon DEF OwnInv
  <2> QED
    BY <2>1, <2>3, Zenon
<1> QED
  BY <1>2, <1>3, Zenon

\* Nothing is answered, no creation goes on, and what leaves the map is noted.
LEMMA ServedFrame ==
  ASSUME FileInv, HolderTypes, KeptTypes, OwnershipInv, OwnershipInv', HolderTypes', FileInv',
         ServedInv, UpStep, [Next]_vars, acknowledged' = acknowledged, redone \subseteq redone',
         unserved \subseteq unserved',
         \A d \in Id : mounted'[d] = mounted[d] \/ mounted[d] = 0 \/ d \in unserved',
         \A c \in Creator : \/ creator'[c] = creator[c]
                            \/ creator'[c].at \notin {"opened", "mounted"}
  PROVE  ServedInv'
<1>1. server = "up" /\ server' = "up" /\ health' = health
  BY UpFrame, Zenon DEF OwnershipInv, mountVars
<1>2. \A d \in Id : Serves(d) => d \in unserved' \/ Serves(d)'
  BY UpKeeps, Zenon DEF Serves
<1>3. AcknowledgedIsServed'
  BY <1>1, <1>2, Zenon DEF ServedInv, AcknowledgedIsServed, Serves, FileInv, Created
<1>4. ASSUME NEW c \in Creator, creator'[c].at = "opened"
      PROVE  inst'[creator'[c].inst].of = Created(creator'[c].id)
  <2>1. PICK i : i = creator[c].inst
    OBVIOUS
  <2>2. creator'[c] = creator[c]
    BY <1>4, Zenon
  <2>3. i # 0 /\ i \in Instance /\ inst[i].of = Created(creator[c].id)
    <3>1. OwnInv
      BY Zenon DEF OwnershipInv
    <3>2. i # 0 /\ i \in Slot
      <4>1. i # 0
        BY <1>4, <2>1, <2>2, <3>1, Zenon DEF OwnInv
      <4>2. i \in Slot
        BY <2>1, Zenon DEF FileInv, Slot
      <4> QED
        BY <4>1, <4>2
    <3>3. inst[i].of = Created(creator[c].id)
      BY <1>4, <2>1, <2>2, Zenon DEF ServedInv
    <3> QED
      BY <3>2, <3>3 DEF Slot
  <2> QED
    BY <1>4, <2>1, <2>2, <2>3, UpKeeps, Zenon
<1>5. ASSUME NEW c \in Creator, creator'[c].at = "mounted"
      PROVE  creator'[c].id \in unserved' \/ Serves(creator[c].id)'
  <2>1. PICK d : d = creator[c].id
    BY Zenon
  <2>2. creator'[c] = creator[c] /\ d \in Id
    BY <1>5, <2>1, Zenon DEF FileInv
  <2>3. d \in unserved \/ Serves(d)
    BY <1>5, <2>1, <2>2, Zenon DEF ServedInv
  <2> QED
    BY <1>2, <2>1, <2>2, <2>3, Zenon DEF Serves
<1> QED
  BY <1>1, <1>3, <1>4, <1>5, Zenon DEF ServedInv

LEMMA CreateServes ==
  ASSUME FileInv, HolderTypes, KeptTypes, OwnershipInv, OwnershipInv', HolderTypes', FileInv',
         ServedInv, NEW c \in Creator, CreateStep(c), [Next]_vars
  PROVE  ServedInv'
<1>0. UpStep
  BY DEF UpStep
<1>1. server = "up" /\ server' = "up" /\ health' = health /\ UNCHANGED <<redone, unserved>>
  <2>1. UNCHANGED <<redone, unserved>>
    BY Zenon DEF CreateStep, Truncate, ProvisionFails, WriteManifest, MountCreated,
           MountCreatedFails, MountServed, Answer, MintFails, answerVars
  <2> QED
    BY <1>0, <2>1, UpFrame DEF OwnershipInv, mountVars
<1>2. CASE Truncate(c) \/ WriteManifest(c)
  <2>1. /\ UNCHANGED <<acknowledged, mounted>>
        /\ \E place \in {"writing", "mounting"} : Moves(c, place)
    BY <1>2, Zenon DEF Truncate, WriteManifest, answerVars
  <2>2. \A b \in Creator : creator'[b] = creator[b] \/ creator'[b].at \notin {"opened", "mounted"}
    BY <2>1 DEF Moves, FileInv
  <2> QED
    BY <1>0, <1>1, <2>1, <2>2, ServedFrame, Zenon
<1>3. CASE ProvisionFails(c) \/ MountCreatedFails(c) \/ MintFails(c)
  <2>1. UNCHANGED <<acknowledged, mounted>> /\ Return(c)
    BY <1>3, Zenon DEF ProvisionFails, MountCreatedFails, MintFails, answerVars
  <2>2. \A b \in Creator : creator'[b] = creator[b] \/ creator'[b].at \notin {"opened", "mounted"}
    BY <2>1, Zenon DEF Return, FileInv, NoCreation
  <2> QED
    BY <1>0, <1>1, <2>1, <2>2, ServedFrame, Zenon
<1>4. \A d \in Id : Serves(d) /\ mounted'[d] = mounted[d] => Serves(d)'
  BY <1>0, UpKeeps, Zenon
<1>5. CASE MountCreated(c)
  <2>1. PICK p, d : p = PathOf[d] /\ d = creator[c].id
    OBVIOUS
  <2>2. PICK i \in Instance :
          OpenFile(p, i) /\ creator' = [creator EXCEPT ![c].at = "opened", ![c].inst = i]
    BY <1>5, <2>1, Zenon DEF MountCreated
  <2>3. creator[c].at = "mounting" /\ UNCHANGED <<acknowledged, mounted>>
    BY <1>5, Zenon DEF MountCreated, At, answerVars
  <2>4. files[p] = Created(d)
    BY <2>1, <2>3, Zenon DEF FileInv, OnFile
  <2>5. /\ creator'[c].at = "opened" /\ creator'[c].inst = i /\ creator'[c].id = d
        /\ \A b \in Creator \ {c} : creator'[b] = creator[b] /\ creator[b].at = "idle"
    BY <2>1, <2>2, <2>3 DEF FileInv
  <2>6. inst'[i].of = files[p]
    BY <2>2, OpensOne, Zenon DEF KeptTypes
  <2>7. AcknowledgedIsServed'
    BY <1>1, <1>4, <2>3, Zenon DEF ServedInv, AcknowledgedIsServed, Serves, FileInv, Created
  <2> QED
    BY <1>1, <2>4, <2>5, <2>6, <2>7, Zenon DEF ServedInv, Created
<1>6. CASE MountServed(c)
  <2>1. PICK i, d : i = creator[c].inst /\ d = creator[c].id
    OBVIOUS
  <2>2. /\ creator[c].at = "opened" /\ UNCHANGED acknowledged /\ d \in Id
        /\ inst[i].of = Created(d) /\ i # 0
    BY <1>6, <2>1, Zenon DEF MountServed, At, answerVars, FileInv, ServedInv, OwnershipInv, OwnInv
  <2>3. CASE mounted[d] # 0
    <3>1. Return(c) /\ UNCHANGED mounted
      BY <1>6, <2>1, <2>3, Zenon DEF MountServed
    <3>2. \A b \in Creator : creator'[b] = creator[b] \/ creator'[b].at \notin {"opened", "mounted"}
      BY <3>1, Zenon DEF Return, FileInv, NoCreation
    <3> QED
      BY <1>0, <1>1, <2>2, <3>1, <3>2, ServedFrame, Zenon
  <2>4. CASE mounted[d] = 0
    <3>1. /\ mounted' = [mounted EXCEPT ![d] = i] /\ UNCHANGED inst
          /\ creator' = [creator EXCEPT ![c].at = "mounted", ![c].inst = 0]
      BY <1>6, <2>1, <2>4, Zenon DEF MountServed
    <3>2. mounted'[d] = i /\ \A e \in Id \ {d} : mounted'[e] = mounted[e]
      BY <2>2, <3>1, Zenon DEF HolderTypes
    <3>3. /\ creator'[c].at = "mounted" /\ creator'[c].id = d
          /\ \A b \in Creator \ {c} : creator'[b] = creator[b] /\ creator[b].at = "idle"
      BY <2>1, <2>2, <3>1 DEF FileInv
    <3>4. Serves(d)'
      BY <2>2, <3>1, <3>2 DEF Serves, Created
    <3>5. \A e \in Id : Serves(e) => Serves(e)'
      BY <1>4, <2>4, <3>2, Zenon DEF Serves
    <3>6. AcknowledgedIsServed'
      BY <1>1, <2>2, <3>5, Zenon DEF ServedInv, AcknowledgedIsServed, Serves, FileInv, Created
    <3> QED
      BY <1>1, <3>3, <3>4, <3>6, Zenon DEF ServedInv, Serves
  <2> QED
    BY <2>3, <2>4
<1>7. CASE Answer(c)
  <2>1. PICK d : d = creator[c].id
    OBVIOUS
  <2>2. /\ creator[c].at = "mounted" /\ acknowledged' = acknowledged \cup {d}
        /\ UNCHANGED <<mounted, inst>> /\ Return(c)
    BY <1>7, <2>1, Zenon DEF Answer, At
  <2>3. d \in unserved \/ Serves(d)
    BY <2>1, <2>2, Zenon DEF ServedInv
  <2>4. \A b \in Creator : creator'[b].at = "idle"
    BY <2>2, Zenon DEF Return, NoCreation, FileInv
  <2>5. AcknowledgedIsServed'
    BY <1>1, <2>2, <2>3, Zenon DEF ServedInv, AcknowledgedIsServed, Serves, Created
  <2> QED
    BY <1>1, <2>4, <2>5, Zenon DEF ServedInv
<1> QED
  BY <1>2, <1>3, <1>5, <1>6, <1>7 DEF CreateStep

LEMMA ServeServes ==
  ASSUME FileInv, HolderTypes, OwnershipInv, ServedInv, Serve
  PROVE  ServedInv'
<1>1. /\ server = "starting" /\ how \in {"mounted", "failed"}
      /\ server' = (IF how = "mounted" THEN "up" ELSE "down")
      /\ UNCHANGED <<inst, health, creator, acknowledged, redone, files>>
  BY DEF Serve, answerVars, diskVars
<1>2. \A c \in Creator : creator'[c].at = "idle"
  BY <1>1, Zenon DEF ServedInv
<1>3. ASSUME how = "mounted", NEW d \in acknowledged \ redone
      PROVE  Serves(d)' \/ health[PathOf[d]] \in {"failed", "duplicate"}
  <2>1. PICK p : p = PathOf[d]
    OBVIOUS
  <2>2. d \in Id /\ p \in Path /\ files[p] = Created(d)
    BY <1>3, <2>1, ProvisioningAssumption, Zenon DEF FileInv, AcknowledgedIsOnFile
  <2>3. Created(d) \in Manifest /\ Created(d).id = d
    BY <2>2, Zenon DEF Created, Manifest
  <2>4. p \in Listed
    BY <2>2, <2>3, NotAManifest DEF Listed
  <2>5. MountingInv /\ todo = {} /\ Settled(p)
    BY <1>1, <1>3, <2>4, Zenon DEF OwnershipInv, StartInv, MountingInv, ScanInv
  <2>6. CASE opened[p] # 0
    <3>1. inst[opened[p]].of = Created(d) /\ IdOf(opened[p]) = d
      BY <2>2, <2>3, <2>5, <2>6, Zenon DEF MountingInv, OpenedInv, IdOf
    <3>2. mounted'[d] = opened[p]
      BY <2>2, <2>6, <3>1, ServeMaps, Zenon
    <3> QED
      BY <1>1, <2>6, <3>1, <3>2, Zenon DEF Serves, Created
  <2> QED
    BY <2>1, <2>5, <2>6 DEF Settled
<1>4. AcknowledgedIsServed'
  BY <1>1, <1>3, Zenon DEF AcknowledgedIsServed, Serves
<1> QED
  BY <1>1, <1>2, <1>4, Zenon DEF ServedInv

LEMMA ServedStep ==
  ASSUME FileInv, HolderTypes, KeptTypes, OwnershipInv, OwnershipInv', HolderTypes', FileInv',
         ServedInv, [Next]_vars
  PROVE  ServedInv'
<1>1. CASE \E c \in Creator : CreateStep(c)
  BY <1>1, CreateServes
<1>2. CASE Serve
  BY <1>2, ServeServes
<1>3. CASE Start \/ Mounting
  <2>1. server # "up" /\ server' # "up" /\ UNCHANGED creator
    BY <1>3 DEF Start, Mounting
  <2> QED
    BY <2>1, Zenon DEF ServedInv, AcknowledgedIsServed
<1>4. CASE Kill
  BY <1>4, Zenon DEF Kill, ServedInv, AcknowledgedIsServed, NoCreation
<1>5. CASE EmbedderMounts
  <2>1. UpStep /\ UNCHANGED <<creator, acknowledged, redone, unserved>>
    BY <1>5, Zenon DEF EmbedderMounts, UpStep, answerVars
  <2>2. \A d \in Id : mounted'[d] = mounted[d] \/ mounted[d] = 0
    BY <1>5, Zenon DEF EmbedderMounts, HolderTypes
  <2> QED
    BY <2>1, <2>2, ServedFrame, Zenon
<1>6. CASE \/ \E i \in retiring : Drained(i)
           \/ \E p \in Path : EmbedderOpens(p)
           \/ \E w \in Writer : Observes(w) \/ PersistFails(w)
           \/ \E w \in Writer, d \in Id, doc \in Doc : Write(w, d, doc)
  <2>1. UpStep /\ UNCHANGED <<creator, acknowledged, redone, unserved, mounted>>
    BY <1>6, Zenon DEF Drained, EmbedderOpens, Observes, PersistFails, Write, UpStep, answerVars
  <2> QED
    BY <2>1, ServedFrame, Zenon
<1>7. CASE \E d \in Id : Unmount(d)
  <2>1. PICK d \in Id : Unmount(d)
    BY <1>7
  <2>2. /\ UpStep /\ UNCHANGED <<creator, acknowledged, redone>>
        /\ unserved' = unserved \cup {d} /\ mounted' = [mounted EXCEPT ![d] = 0]
    BY <2>1, Zenon DEF Unmount, UpStep, answerVars
  <2>3. \A e \in Id : mounted'[e] = mounted[e] \/ e \in unserved'
    BY <2>2, Zenon DEF HolderTypes
  <2> QED
    BY <2>2, <2>3, ServedFrame, Zenon
<1>8. CASE \E c \in Creator, d \in Id : Enter(c, d)
  <2>1. PICK c \in Creator, d \in Id : Enter(c, d)
    BY <1>8
  <2>2. /\ UpStep /\ UNCHANGED <<acknowledged, unserved, mounted>> /\ redone \subseteq redone'
        /\ \/ UNCHANGED creator
           \/ creator' = [creator EXCEPT ![c] = [at |-> "directory", id |-> d, inst |-> 0]]
    BY <2>1, Zenon DEF Enter, UpStep
  <2>3. \A b \in Creator : creator'[b] = creator[b] \/ creator'[b].at \notin {"opened", "mounted"}
    BY <2>2 DEF FileInv
  <2> QED
    BY <2>2, <2>3, ServedFrame, Zenon
<1>9. CASE UNCHANGED vars
  BY <1>9, Zenon DEF vars, mountVars, answerVars, ServedInv, AcknowledgedIsServed, Serves
<1> QED
  BY <1>1, <1>2, <1>3, <1>4, <1>5, <1>6, <1>7, <1>8, <1>9, NextIs, Zenon DEF UpStep

\* A database whose creation was answered is served by every server that comes up after it, from
\* the storage the creation made, unless its mount failed or the embedder took it out.
THEOREM AcknowledgedStaysServed == Spec => []AcknowledgedIsServed
<1>1. Spec => []KeptTypes
  <2>1. KeptInv => KeptTypes
    BY DEF KeptInv
  <2> QED
    BY <2>1, KeptStays, PTL
<1>2. Spec => []ServedInv
  BY <1>1, ServedInit, ServedStep, FileInvariant, HoldersTyped, OwnershipInvariant, PTL DEF Spec
<1>3. ServedInv => AcknowledgedIsServed
  BY DEF ServedInv
<1> QED
  BY <1>2, <1>3, PTL
-----------------------------------------------------------------------------
(* One owner, counted. *)

INSTANCE FiniteSetTheorems

\* Every open database is owned once: the handler, the embedder, the server and the mounting pass
\* it on or close it on every path, failures included.
THEOREM OpenStaysOwned == Spec => []OpenIsOwned
<1>1. FileInv /\ HolderTypes /\ OwnershipInv => OpenIsOwned
  <2> SUFFICES ASSUME FileInv, HolderTypes, OwnershipInv, NEW i \in Instance
               PROVE  Cardinality(Owners(i)) = IF Opened(i) THEN 1 ELSE 0
    BY Zenon DEF OpenIsOwned, Owners
  <2>1. CASE Opened(i)
    <3>1. PICK o : Owners(i) = {o}
      BY <2>1, OneOwner
    <3>2. Cardinality({o}) = 1
      BY FS_Singleton
    <3> QED
      BY <2>1, <3>1, <3>2
  <2>2. CASE ~ Opened(i)
    BY <2>2, OneOwner, FS_EmptySet
  <2> QED
    BY <2>1, <2>2
<1> QED
  BY <1>1, FileInvariant, HoldersTyped, OwnershipInvariant, PTL
===============================================================================

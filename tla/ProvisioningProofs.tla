--------------------------- MODULE ProvisioningProofs ---------------------------
(***************************************************************************)
(* What is proved of the databases created at run time: the manifest of a  *)
(* creation that was answered stays on file, the writes that were answered *)
(* stay in the catalogue of their storage, and mounting is whole.          *)
(***************************************************************************)
EXTENDS Provisioning, WellFoundedInduction, TLAPS

-----------------------------------------------------------------------------
(* The smallest of a set of naturals. *)

LEMMA LessThan ==
  \E R : IsWellFoundedOn(R, Nat) /\ \A a, b \in Nat : a < b => <<a, b>> \in R
<1>1. \A a, b \in Nat : a < b => <<a, b>> \in OpToRel(<, Nat)
  BY Zenon DEF OpToRel
<1> WITNESS OpToRel(<, Nat)
<1> QED
  BY <1>1, NatLessThanWellFounded, Zenon

LEMMA MinIsMember ==
  ASSUME NEW S, S \subseteq Nat, S # {}
  PROVE  Min(S) \in S /\ \A y \in S : Min(S) <= y
<1>1. PICK R : IsWellFoundedOn(R, Nat) /\ \A a, b \in Nat : a < b => <<a, b>> \in R
  BY LessThan
<1>2. IsWellFoundedOn(R, Nat)
  BY <1>1
<1>3. \E a \in S : \A b \in S : ~(<<b, a>> \in R)
  BY <1>2, WFMin, Zenon
<1>4. PICK a \in S : \A b \in S : ~(<<b, a>> \in R)
  BY <1>3
<1>5. ASSUME NEW b \in S PROVE a <= b
  <2>1. a \in Nat /\ b \in Nat
    OBVIOUS
  <2>2. ~(b < a)
    BY <2>1, <1>1, <1>4, Zenon
  <2> QED
    BY <2>1, <2>2, SMT
<1> QED
  BY <1>5, Zenon DEF Min

LEMMA MinPath ==
  ASSUME NEW S, S \subseteq Path, S # {}
  PROVE  Min(S) \in S
<1>1. S \subseteq Nat
  BY MountAssumption DEF Path
<1> QED
  BY <1>1, MinIsMember, Zenon
-----------------------------------------------------------------------------
(* Creations and their manifests. *)

Content == Manifest \cup {NoFile, Partial}
OnFile(c) == files[PathOf[creator[c].id]] = Created(creator[c].id)
Underway == {"directory", "writing", "mounting", "opened", "mounted"}

\* A creation holds the lock, is of an id whose last answer it has undone, and
\* has its manifest on file once that is written.
FileInv ==
  /\ files \in [Path -> Content]
  /\ creator \in [Creator -> [at : Underway \cup {"idle"}, id : Id \cup {NoOne},
                              inst : Instance \cup {0}]]
  /\ acknowledged \subseteq Id
  /\ \A c \in Creator :
       creator[c].at # "idle" =>
         createMu = c /\ creator[c].id \in Id \ (acknowledged \ redone)
  /\ \A c \in Creator : creator[c].at \in {"mounting", "opened", "mounted"} => OnFile(c)
  /\ AcknowledgedIsOnFile

LEMMA FileInit == Init => FileInv
BY ProvisioningAssumption
   DEF Init, FileInv, Content, NoCreation, AcknowledgedIsOnFile, Underway

\* The steps that leave the files and the answers alone.
LEMMA FileFrame ==
  ASSUME FileInv, UNCHANGED <<files, creator, createMu, acknowledged, redone>>
  PROVE  FileInv'
BY Zenon DEF FileInv, OnFile, AcknowledgedIsOnFile

\* A handler that returns.
LEMMA FileReturns ==
  ASSUME FileInv, NEW c \in Creator, creator[c].at # "idle", Return(c),
         UNCHANGED <<files, acknowledged, redone>>
  PROVE  FileInv'
<1>1. \A b \in Creator : b # c => creator[b].at = "idle"
  BY DEF FileInv
<1>2. \A b \in Creator : creator'[b].at = "idle"
  BY <1>1, Zenon DEF Return, NoCreation, FileInv
<1>3. creator' \in [Creator -> [at : Underway \cup {"idle"}, id : Id \cup {NoOne},
                                inst : Instance \cup {0}]]
  BY Zenon DEF Return, NoCreation, FileInv
<1> QED
  BY <1>2, <1>3, Zenon DEF FileInv, AcknowledgedIsOnFile

LEMMA FileStep ==
  ASSUME FileInv, [Next]_vars
  PROVE  FileInv'
<1>1. CASE \E c \in Creator, d \in Id : Enter(c, d)
  <2>1. PICK c \in Creator, d \in Id : Enter(c, d)
    BY <1>1
  <2>2. CASE mounted[d] # 0
    BY <2>1, <2>2, FileFrame, Zenon DEF Enter, diskVars
  <2>3. CASE mounted[d] = 0
    <3>1. /\ createMu = NoOne /\ createMu' = c
          /\ creator' = [creator EXCEPT ![c] = [at |-> "directory", id |-> d, inst |-> 0]]
          /\ redone' = redone \cup (acknowledged \cap {d})
          /\ UNCHANGED <<files, acknowledged>>
      BY <2>1, <2>3, Zenon DEF Enter, diskVars
    <3>2. \A b \in Creator : creator[b].at = "idle"
      BY <3>1, ProvisioningAssumption, Zenon DEF FileInv
    <3>3. creator' \in [Creator -> [at : Underway \cup {"idle"}, id : Id \cup {NoOne},
                                    inst : Instance \cup {0}]]
      BY <3>1, Zenon DEF FileInv, Underway
    <3>4. \A b \in Creator : creator'[b].at # "idle" => b = c /\ creator'[b].at = "directory"
      BY <3>1, <3>2, Zenon DEF FileInv
    <3>5. creator'[c].id = d /\ d \notin acknowledged' \ redone'
      BY <3>1, Zenon DEF FileInv
    <3> QED
      BY <3>1, <3>3, <3>4, <3>5, Zenon DEF FileInv, AcknowledgedIsOnFile
  <2> QED
    BY <2>2, <2>3
<1>2. ASSUME NEW c \in Creator, CreateStep(c)
      PROVE  FileInv'
  <2> DEFINE d == creator[c].id
  <2>1. ASSUME creator[c].at \in Underway, NEW content \in Content, NEW place \in Underway,
               Moves(c, place), Writes(c, content), UNCHANGED <<createMu, acknowledged, redone>>,
               place \in {"mounting", "opened", "mounted"} => content = Created(d)
        PROVE  FileInv'
    <3>1. d \in Id \ (acknowledged \ redone) /\ PathOf[d] \in Path /\ createMu = c
      BY <2>1, ProvisioningAssumption, Zenon DEF FileInv, Underway
    <3>2. files' = [files EXCEPT ![PathOf[d]] = content] /\ files' \in [Path -> Content]
      BY <2>1, <3>1, Zenon DEF Writes, FileInv
    <3>3. creator' \in [Creator -> [at : Underway \cup {"idle"}, id : Id \cup {NoOne},
                                    inst : Instance \cup {0}]]
      BY <2>1, Zenon DEF FileInv, Moves
    <3>4. /\ creator'[c].at = place /\ creator'[c].id = d
          /\ \A b \in Creator : b # c => creator'[b].at = "idle"
      BY <2>1, <3>1, Zenon DEF FileInv, Moves
    <3>5. \A e \in acknowledged \ redone : files'[PathOf[e]] = files[PathOf[e]]
      BY <3>1, <3>2, ProvisioningAssumption, Zenon DEF FileInv
    <3>6. AcknowledgedIsOnFile'
      BY <2>1, <3>5, Zenon DEF FileInv, AcknowledgedIsOnFile
    <3>7. place \in {"mounting", "opened", "mounted"} => files'[PathOf[d]] = Created(d)
      BY <2>1, <3>1, <3>2, Zenon DEF FileInv
    <3> QED
      BY <2>1, <3>1, <3>2, <3>3, <3>4, <3>6, <3>7, Zenon DEF FileInv, OnFile
  <2>2. ASSUME creator[c].at \in {"mounting", "opened"}, NEW place \in {"opened", "mounted"},
               NEW i \in Instance \cup {0},
               creator' = [creator EXCEPT ![c].at = place, ![c].inst = i],
               UNCHANGED <<files, createMu, acknowledged, redone>>
        PROVE  FileInv'
    <3>1. creator' \in [Creator -> [at : Underway \cup {"idle"}, id : Id \cup {NoOne},
                                    inst : Instance \cup {0}]]
      BY <2>2, ZenonT(60) DEF FileInv, Underway
    <3>2. /\ creator'[c].at = place /\ creator'[c].id = d
          /\ \A b \in Creator : b # c => creator'[b] = creator[b]
      BY <2>2, Zenon DEF FileInv
    <3>3. OnFile(c) /\ creator[c].at # "idle"
      BY <2>2, Zenon DEF FileInv
    <3> QED
      BY <2>2, <3>1, <3>2, <3>3, Zenon DEF FileInv, OnFile, AcknowledgedIsOnFile
  <2>3. CASE Truncate(c)
    BY <2>1, <2>3, Zenon DEF Truncate, At, answerVars, Content, Underway
  <2>4. CASE WriteManifest(c)
    <3>1. Created(d) \in Content
      BY <2>4, Zenon DEF WriteManifest, At, FileInv, Created, Content, Manifest
    <3> QED
      BY <2>1, <2>4, <3>1, Zenon DEF WriteManifest, At, answerVars, Underway
  <2>5. CASE ProvisionFails(c) \/ MintFails(c)
    BY <2>5, FileReturns, Zenon DEF ProvisionFails, MintFails, At, diskVars, answerVars
  <2>6. CASE MountCreated(c)
    BY <2>2, <2>6, Zenon DEF MountCreated, At, diskVars, answerVars
  <2>7. CASE MountCreatedFails(c)
    <3>1. CASE UNCHANGED files
      BY <2>7, <3>1, FileReturns, Zenon DEF MountCreatedFails, At, answerVars
    <3>2. CASE Writes(c, NoFile)
      <4>1. /\ creator[c].at = "mounting" /\ Return(c)
            /\ UNCHANGED <<acknowledged, redone>>
        BY <2>7, Zenon DEF MountCreatedFails, At, answerVars
      <4>2. d \in Id \ (acknowledged \ redone) /\ PathOf[d] \in Path /\ createMu = c
        BY <4>1, ProvisioningAssumption, Zenon DEF FileInv
      <4>3. files' \in [Path -> Content]
        BY <3>2, <4>2, Zenon DEF Writes, FileInv, Content
      <4>4. \A e \in acknowledged \ redone : files'[PathOf[e]] = files[PathOf[e]]
        BY <3>2, <4>2, ProvisioningAssumption, Zenon DEF FileInv, Writes
      <4>5. \A b \in Creator : creator'[b].at = "idle"
        BY <4>1, <4>2, Zenon DEF FileInv, Return, NoCreation
      <4>6. creator' \in [Creator -> [at : Underway \cup {"idle"}, id : Id \cup {NoOne},
                                      inst : Instance \cup {0}]]
        BY <4>1, Zenon DEF Return, NoCreation, FileInv
      <4> QED
        BY <4>1, <4>3, <4>4, <4>5, <4>6, Zenon DEF FileInv, AcknowledgedIsOnFile
    <3> QED
      BY <2>7, <3>1, <3>2, Zenon DEF MountCreatedFails
  <2>8. CASE MountServed(c)
    <3>1. CASE mounted[d] = 0
      BY <2>2, <2>8, <3>1, Zenon DEF MountServed, At, diskVars, answerVars
    <3>2. CASE mounted[d] # 0
      BY <2>8, <3>2, FileReturns, Zenon DEF MountServed, At, diskVars, answerVars
    <3> QED
      BY <3>1, <3>2
  <2>9. CASE Answer(c)
    <3>1. /\ creator[c].at = "mounted" /\ Return(c)
          /\ acknowledged' = acknowledged \cup {d} /\ UNCHANGED <<files, redone>>
      BY <2>9 DEF Answer, At, diskVars
    <3>2. d \in Id /\ createMu = c /\ files[PathOf[d]] = Created(d)
      BY <3>1, Zenon DEF FileInv, OnFile
    <3>3. \A b \in Creator : creator'[b].at = "idle"
      BY <3>1, <3>2, Zenon DEF FileInv, Return, NoCreation
    <3>4. creator' \in [Creator -> [at : Underway \cup {"idle"}, id : Id \cup {NoOne},
                                    inst : Instance \cup {0}]]
      BY <3>1, Zenon DEF Return, NoCreation, FileInv
    <3>5. AcknowledgedIsOnFile'
      BY <3>1, <3>2, Zenon DEF FileInv, AcknowledgedIsOnFile
    <3> QED
      BY <3>1, <3>2, <3>3, <3>4, <3>5, Zenon DEF FileInv
  <2> QED
    BY <1>2, <2>3, <2>4, <2>5, <2>6, <2>7, <2>8, <2>9 DEF CreateStep
<1>3. CASE Kill
  BY <1>3, Zenon DEF Kill, diskVars, answerVars, FileInv, NoCreation, AcknowledgedIsOnFile
<1>4. CASE \/ Start \/ Mounting \/ Serve \/ EmbedderMounts
           \/ \E p \in Path : EmbedderOpens(p)
           \/ \E d \in Id : Unmount(d)
           \/ \E i \in retiring : Drained(i)
  BY <1>4, FileFrame, Zenon
     DEF Start, Mounting, Serve, EmbedderMounts, EmbedderOpens, Unmount, Drained, diskVars,
         answerVars
<1>5. CASE \/ \E w \in Writer : Observes(w) \/ PersistFails(w)
           \/ \E w \in Writer, d \in Id, doc \in Doc : Write(w, d, doc)
  BY <1>5, FileFrame, Zenon DEF Observes, PersistFails, Write, diskVars, answerVars
<1>6. CASE UNCHANGED vars
  BY <1>6, FileFrame, Zenon DEF vars, diskVars, answerVars
<1> QED
  BY <1>1, <1>2, <1>3, <1>4, <1>5, <1>6, Zenon DEF Next, System, Environment

\* The inductive invariant behind the manifests: createMu lets one creation at a time write the
\* manifest of its id (handleDatabaseCreate).
THEOREM FileInvariant == Spec => []FileInv
BY FileInit, FileStep, PTL DEF Spec

\* The manifest of an answered creation stays on disk as the creation wrote it (provisionDatabase
\* under createMu), whatever fails, is killed or is created beside it, until the id is created
\* anew.
THEOREM AcknowledgedStaysOnFile == Spec => []AcknowledgedIsOnFile
<1>1. FileInv => AcknowledgedIsOnFile
  BY DEF FileInv
<1> QED
  BY <1>1, FileInvariant, PTL
-----------------------------------------------------------------------------
(* Which instances are open, and who holds them. *)

Slot == Instance \cup {0}

HolderTypes ==
  /\ mounted \in [Id -> Slot] /\ opened \in [Path -> Slot] /\ embedder \in Slot
  /\ writer \in [Writer -> [inst : Slot, doc : Doc \cup {NoOne}]]
  /\ \A w \in Writer : writer[w] # NoWrite => writer[w].inst \in Instance /\ writer[w].doc \in Doc

LEMMA Slots == 0 \notin Instance /\ Instance \subseteq Slot /\ 0 \in Slot
BY MountAssumption DEF Slot, Instance

LEMMA HolderInit == Init => HolderTypes
BY Slots DEF Init, MountInit, HolderTypes, NoWrite

\* The steps of a mounting leave all but its own state alone.
LEMMA MountStepOpened ==
  ASSUME HolderTypes, MountStep
  PROVE  opened' \in [Path -> Slot]
<1>1. CASE \E p \in Path : ScanMounts(p)
  BY <1>1, Slots, Zenon DEF ScanMounts, HolderTypes
<1>2. CASE \E p \in Path : ScanDuplicate(p) \/ ScanFails(p)
  BY <1>2, Slots, Zenon DEF ScanDuplicate, ScanFails, ScanError, HolderTypes
<1>3. CASE \E w \in Worker : Take(w) \/ OneFails(w) \/ Require(w)
  BY <1>3, Zenon DEF Take, OneFails, Require, HolderTypes
<1>4. CASE \E w \in Worker : MountsOne(w)
  <2>1. PICK w \in Worker, i \in Instance : opened' = [opened EXCEPT ![worker[w].path] = i]
    BY <1>4, Zenon DEF MountsOne
  <2> QED
    BY <2>1, Slots, Zenon DEF HolderTypes
<1>5. CASE ScanEnds
  BY <1>5 DEF ScanEnds, HolderTypes
<1>6. CASE AllEnds
  <2>1. PICK lost : opened' = [p \in Path |-> IF p \in lost THEN 0 ELSE opened[p]]
    BY <1>6, Zenon DEF AllEnds
  <2> QED
    BY <2>1, Slots DEF HolderTypes
<1> QED
  BY <1>1, <1>2, <1>3, <1>4, <1>5, <1>6, Zenon DEF MountStep

LEMMA HolderStep ==
  ASSUME FileInv, HolderTypes, [Next]_vars
  PROVE  HolderTypes'
<1> USE Slots
<1>1. CASE Start \/ Kill
  BY <1>1 DEF Start, Kill, StartMounting, HolderTypes, writeVars, NoWrite
<1>2. CASE Mounting
  BY <1>2, MountStepOpened, Zenon DEF Mounting, HolderTypes, writeVars
<1>3. CASE Serve
  <2>1. ASSUME NEW d \in Id
        PROVE  mounted'[d] \in Slot
    <3> DEFINE at == {p \in Path : opened[p] # 0 /\ IdOf(opened[p]) = d}
    <3>1. mounted'[d] = IF at = {} THEN 0 ELSE opened[Min(at)]
      BY <1>3, Zenon DEF Serve
    <3>2. at # {} => Min(at) \in at
      BY MinPath
    <3>3. at # {} => Min(at) \in Path
      BY <3>2
    <3> QED
      BY <3>1, <3>3, Zenon DEF HolderTypes
  <2>2. mounted' \in [Id -> Slot]
    BY <1>3, <2>1, Zenon DEF Serve
  <2> QED
    BY <1>3, <2>2, Zenon DEF Serve, HolderTypes, writeVars
<1>4. CASE \E c \in Creator : MountServed(c)
  <2>1. PICK c \in Creator : MountServed(c)
    BY <1>4
  <2>2. /\ mounted' = [mounted EXCEPT ![creator[c].id] = creator[c].inst] \/ UNCHANGED mounted
        /\ UNCHANGED <<opened, embedder, writer>>
    BY <2>1, Zenon DEF MountServed, mountVars, writeVars
  <2>3. creator[c].inst \in Slot
    BY DEF FileInv, Slot
  <2> QED
    BY <2>2, <2>3, Zenon DEF HolderTypes
<1>5. CASE \E c \in Creator : \/ Truncate(c) \/ ProvisionFails(c) \/ WriteManifest(c)
                             \/ MountCreated(c) \/ MountCreatedFails(c) \/ Answer(c)
                             \/ MintFails(c)
  BY <1>5, Zenon
     DEF Truncate, ProvisionFails, WriteManifest, MountCreated, MountCreatedFails, Answer,
         MintFails, HolderTypes, mountVars, writeVars
<1>6. CASE EmbedderMounts \/ \E p \in Path : EmbedderOpens(p)
  BY <1>6, Zenon DEF EmbedderMounts, EmbedderOpens, HolderTypes, mountVars, writeVars
<1>7. CASE \/ \E d \in Id : Unmount(d)
           \/ \E i \in retiring : Drained(i)
           \/ \E c \in Creator, d \in Id : Enter(c, d)
  BY <1>7, Zenon DEF Unmount, Drained, Enter, HolderTypes, mountVars, writeVars
<1>8. CASE \E w \in Writer, d \in Id, doc \in Doc : Write(w, d, doc)
  <2>1. PICK w \in Writer, d \in Id, doc \in Doc : Write(w, d, doc)
    BY <1>8
  <2>2. /\ mounted[d] \in Instance
        /\ writer' = [writer EXCEPT ![w] = [inst |-> mounted[d], doc |-> doc]]
        /\ UNCHANGED <<mounted, opened, embedder>>
    BY <2>1, Zenon DEF Write, HolderTypes, Slot, mountVars
  <2> QED
    BY <2>2, Zenon DEF HolderTypes
<1>9. CASE \E w \in Writer : Observes(w) \/ PersistFails(w)
  <2>1. PICK w \in Writer : Observes(w) \/ PersistFails(w)
    BY <1>9
  <2>2. writer' = [writer EXCEPT ![w] = NoWrite] /\ UNCHANGED <<mounted, opened, embedder>>
    BY <2>1, Zenon DEF Observes, PersistFails, mountVars
  <2> QED
    BY <2>2, Zenon DEF HolderTypes, NoWrite
<1>10. CASE UNCHANGED vars
  BY <1>10, Zenon DEF vars, HolderTypes, mountVars, writeVars
<1> QED
  BY <1>1, <1>2, <1>3, <1>4, <1>5, <1>6, <1>7, <1>8, <1>9, <1>10, Zenon
     DEF Next, System, Environment, CreateStep

-----------------------------------------------------------------------------
(* Writes and the catalogues. *)

KeptTypes ==
  /\ DOMAIN inst = Instance /\ DOMAIN saved = Manifest
  /\ \A i \in Instance : /\ DOMAIN inst[i] = {"of", "cat"}
                         /\ inst[i].cat.log \in [Doc -> Nat]
  /\ \A m \in Manifest : saved[m].log \in [Doc -> Nat]
  /\ kept \in [Manifest -> [Doc -> Nat]]

\* The storage m, as long as no two open databases have had it: one has it at most, and its
\* catalogue in memory has at least what the file has, which has what was answered.
StorageInv(m) ==
  /\ \A i, j \in Instance : inst[i].of = m /\ inst[j].of = m => i = j
  /\ \A doc \in Doc : kept[m][doc] <= saved[m].log[doc]
  /\ \A i \in Instance : inst[i].of = m =>
       \A doc \in Doc : saved[m].log[doc] <= inst[i].cat.log[doc]

KeptInv == KeptTypes /\ \A m \in Manifest \ shared : StorageInv(m)

LEMMA EmptyLog == Empty.log \in [Doc -> Nat] /\ \A doc \in Doc : Empty.log[doc] = 0
BY DEF Empty

LEMMA NotAManifest == \A m \in Manifest : m # NoFile /\ m # Partial
BY DEF Manifest, NoFile, Partial

LEMMA KeptInit == Init => KeptInv
<1> SUFFICES ASSUME Init PROVE KeptInv
  OBVIOUS
<1>1. \A i \in Instance : inst[i] = Shut
  BY DEF Init
<1>2. DOMAIN Shut = {"of", "cat"} /\ Shut.of = NoFile /\ Shut.cat.log = Empty.log
  BY DEF Shut
<1>3. KeptTypes
  BY <1>1, <1>2, EmptyLog, Zenon DEF Init, KeptTypes
<1>4. \A m \in Manifest : StorageInv(m)
  BY <1>1, <1>2, EmptyLog, NotAManifest DEF Init, StorageInv
<1> QED
  BY <1>3, <1>4 DEF KeptInv

\* The record that Observe adds is counted in the log.
LEMMA ObserveLog ==
  ASSUME NEW cat, NEW doc \in Doc, cat.log \in [Doc -> Nat]
  PROVE  /\ Observe(cat, doc).log \in [Doc -> Nat]
         /\ Observe(cat, doc).log[doc] = cat.log[doc] + 1
         /\ \A e \in Doc \ {doc} : Observe(cat, doc).log[e] = cat.log[e]
<1>1. Observe(cat, doc).log = [cat.log EXCEPT ![doc] = @ + 1]
  BY DEF Observe
<1> QED
  BY <1>1

LEMMA InstanceCases ==
  ASSUME [Next]_vars
  PROVE  \/ /\ UNCHANGED <<saved, kept>>
            /\ \/ \E p : \E i \in Instance : OpenFile(p, i) /\ Shares
               \/ shared \subseteq shared' /\ ((\E s : CloseAll(s)) \/ UNCHANGED inst)
         \/ \E w \in Writer : Observes(w) \/ PersistFails(w)
<1>1. CASE Mounting
  <2>1. MountStep /\ Shares /\ UNCHANGED <<saved, kept>>
    BY <1>1 DEF Mounting, diskVars, writeVars
  <2>2. shared \subseteq shared'
    BY <2>1 DEF Shares
  <2>3. CASE \E p \in Path : ScanMounts(p)
    BY <2>1, <2>3, Zenon DEF ScanMounts
  <2>4. CASE \E p \in Path : ScanDuplicate(p) \/ ScanFails(p)
    BY <2>1, <2>2, <2>4, Zenon DEF ScanDuplicate, ScanFails, ScanError
  <2>5. CASE \E w \in Worker : Take(w) \/ OneFails(w) \/ Require(w)
    BY <2>1, <2>2, <2>5, Zenon DEF Take, OneFails, Require
  <2>6. CASE \E w \in Worker : MountsOne(w)
    <3>1. PICK w \in Worker, i \in Instance : OpenFile(worker[w].path, i)
      BY <2>6, Zenon DEF MountsOne
    <3> QED
      BY <2>1, <3>1
  <2>7. CASE ScanEnds \/ AllEnds
    BY <2>1, <2>2, <2>7, Zenon DEF ScanEnds, AllEnds
  <2> QED
    BY <2>1, <2>3, <2>4, <2>5, <2>6, <2>7, Zenon DEF MountStep
<1>2. CASE Kill
  <2>1. CloseAll(Instance)
    BY <1>2 DEF Kill, CloseAll
  <2> QED
    BY <1>2, <2>1 DEF Kill, diskVars
<1>3. CASE \E c \in Creator : MountCreated(c)
  BY <1>3, Zenon DEF MountCreated, diskVars, writeVars
<1>4. CASE \E p \in Path : EmbedderOpens(p)
  BY <1>4 DEF EmbedderOpens, diskVars, writeVars
<1>5. CASE \E c \in Creator : MountServed(c)
  BY <1>5, Zenon DEF MountServed, diskVars, writeVars
<1>6. CASE EmbedderMounts \/ \E i \in retiring : Drained(i)
  BY <1>6, Zenon DEF EmbedderMounts, Drained, diskVars, writeVars
<1>7. CASE \E c \in Creator : \/ Truncate(c) \/ ProvisionFails(c) \/ WriteManifest(c)
                             \/ MountCreatedFails(c) \/ Answer(c) \/ MintFails(c)
  BY <1>7, Zenon DEF Truncate, ProvisionFails, WriteManifest, MountCreatedFails, Answer, MintFails,
              diskVars, writeVars
<1>8. CASE \/ Start \/ Serve \/ \E d \in Id : Unmount(d)
           \/ \E c \in Creator, d \in Id : Enter(c, d)
           \/ \E w \in Writer, d \in Id, doc \in Doc : Write(w, d, doc)
  BY <1>8, Zenon DEF Start, Serve, Unmount, Enter, Write, diskVars, writeVars
<1>9. CASE UNCHANGED vars
  BY <1>9 DEF vars, diskVars, writeVars
<1> QED
  BY <1>1, <1>2, <1>3, <1>4, <1>5, <1>6, <1>7, <1>8, <1>9, Zenon
     DEF Next, System, Environment, CreateStep

\* What Observes and PersistFails do to the instance i, and to the storage of that it has.
Observed(i, of, doc, cat) ==
  /\ inst' = [inst EXCEPT ![i].cat = cat]
  /\ \/ UNCHANGED <<saved, kept>>
     \/ /\ saved' = [saved EXCEPT ![of] = cat]
        /\ kept' = [kept EXCEPT ![of][doc] = @ + 1]
  /\ shared' = shared

LEMMA ObservesIs ==
  ASSUME HolderTypes, NEW w \in Writer, Observes(w) \/ PersistFails(w)
  PROVE  \E i \in Instance, doc \in Doc :
           Observed(i, inst[i].of, doc, Observe(inst[i].cat, doc))
<1>1. writer[w] # NoWrite
  BY Zenon DEF Observes, PersistFails
<1>2. PICK i \in Instance, doc \in Doc : i = writer[w].inst /\ doc = writer[w].doc
  BY <1>1 DEF HolderTypes
<1>3. Observed(i, inst[i].of, doc, Observe(inst[i].cat, doc))
  <2>1. CASE Observes(w)
    BY <1>2, <2>1, Zenon DEF Observed, Observes
  <2>2. CASE PersistFails(w)
    BY <1>2, <2>2, Zenon DEF Observed, PersistFails, diskVars
  <2> QED
    BY <2>1, <2>2
<1> QED
  BY <1>3

\* The instance observes, and its storage either stays or takes the observation: a catalogue in
\* memory is not behind its file, nor the file behind the writes that were answered.
LEMMA ObservedKept ==
  ASSUME KeptInv, NEW i \in Instance, NEW doc \in Doc, NEW cat, NEW of, of = inst[i].of,
         cat = Observe(inst[i].cat, doc), Observed(i, of, doc, cat)
  PROVE  KeptInv'
<1>0. inst' = [inst EXCEPT ![i].cat = cat] /\ shared' = shared
  BY Zenon DEF Observed
<1>1. /\ cat.log \in [Doc -> Nat] /\ cat.log[doc] = inst[i].cat.log[doc] + 1
      /\ \A e \in Doc \ {doc} : cat.log[e] = inst[i].cat.log[e]
  <2>1. inst[i].cat.log \in [Doc -> Nat]
    BY Zenon DEF KeptInv, KeptTypes
  <2> QED
    BY <2>1, ObserveLog, Zenon
<1>2. /\ inst'[i].of = of /\ inst'[i].cat = cat /\ DOMAIN inst'[i] = {"of", "cat"}
      /\ \A j \in Instance \ {i} : inst'[j] = inst[j]
      /\ DOMAIN inst' = Instance /\ shared' = shared
  BY <1>0, Zenon DEF KeptInv, KeptTypes

<1>3. ASSUME NEW m \in Manifest
      PROVE  /\ m # of => saved'[m] = saved[m] /\ kept'[m] = kept[m]
             /\ \/ saved'[m] = saved[m] /\ kept'[m] = kept[m]
                \/ saved'[m] = cat /\ kept'[m] = [kept[m] EXCEPT ![doc] = @ + 1]
  <2>1. CASE UNCHANGED <<saved, kept>>
    BY <2>1
  <2>2. CASE /\ saved' = [saved EXCEPT ![of] = cat]
             /\ kept' = [kept EXCEPT ![of][doc] = @ + 1]
    BY <2>2, Zenon DEF KeptInv, KeptTypes
  <2> QED
    BY <2>1, <2>2, Zenon DEF Observed
<1>4. DOMAIN saved' = Manifest /\ DOMAIN kept' = Manifest
      /\ kept' = [m \in Manifest |-> kept'[m]]
  <2>1. CASE UNCHANGED <<saved, kept>>
    BY <2>1, Zenon DEF KeptInv, KeptTypes
  <2>2. CASE /\ saved' = [saved EXCEPT ![of] = cat]
             /\ kept' = [kept EXCEPT ![of][doc] = @ + 1]
    BY <2>2, Zenon DEF KeptInv, KeptTypes
  <2> QED
    BY <2>1, <2>2, Zenon DEF Observed
<1>5. KeptTypes'
  <2>1. ASSUME NEW m \in Manifest
        PROVE  saved'[m].log \in [Doc -> Nat] /\ kept'[m] \in [Doc -> Nat]
    <3>1. saved[m].log \in [Doc -> Nat] /\ kept[m] \in [Doc -> Nat]
      BY Zenon DEF KeptInv, KeptTypes
    <3>2. CASE saved'[m] = saved[m] /\ kept'[m] = kept[m]
      BY <3>1, <3>2, Zenon
    <3>3. CASE saved'[m] = cat /\ kept'[m] = [kept[m] EXCEPT ![doc] = @ + 1]
      BY <1>1, <3>1, <3>3
    <3> QED
      BY <1>3, <3>2, <3>3, Zenon
  <2>2. \A j \in Instance : DOMAIN inst'[j] = {"of", "cat"} /\ inst'[j].cat.log \in [Doc -> Nat]
    BY <1>1, <1>2, Zenon DEF KeptInv, KeptTypes
  <2>3. kept' \in [Manifest -> [Doc -> Nat]]
    BY <1>4, <2>1
  <2> QED
    BY <1>2, <1>4, <2>1, <2>2, <2>3, Zenon DEF KeptTypes
<1>6. ASSUME NEW m \in Manifest \ shared'
      PROVE  StorageInv(m)'
  <2>1. StorageInv(m) /\ m \in Manifest
    BY <1>2, Zenon DEF KeptInv
  <2>2. \A j, k \in Instance : inst'[j].of = m /\ inst'[k].of = m => j = k
    BY <1>2, <2>1 DEF StorageInv
  <2>3. CASE m # of
    <3>1. saved'[m] = saved[m] /\ kept'[m] = kept[m]
      BY <1>3, <2>1, <2>3, Zenon
    <3>2. \A j \in Instance : inst'[j].of = m => inst[j].of = m /\ inst'[j] = inst[j]
      BY <1>2, <2>3, Zenon
    <3> QED
      BY <2>1, <2>2, <3>1, <3>2, Zenon DEF StorageInv
  <2>4. CASE m = of
    <3>1. \A j \in Instance : inst'[j].of = m => inst'[j].cat = cat
      BY <1>2, <2>2, <2>4, Zenon
    <3>2. ASSUME NEW e \in Doc
          PROVE  kept'[m][e] <= saved'[m].log[e] /\ saved'[m].log[e] <= cat.log[e]
      <4> DEFINE k == kept[m][e]
                 s == saved[m].log[e]
                 c == inst[i].cat.log[e]
      <4>1. k \in Nat /\ s \in Nat /\ c \in Nat /\ kept[m] \in [Doc -> Nat]
        BY <2>1 DEF KeptInv, KeptTypes
      <4>2. k <= s /\ s <= c
        BY <2>1, <2>4, Zenon DEF StorageInv
      <4>3. cat.log[e] = (IF e = doc THEN c + 1 ELSE c)
        BY <1>1, Zenon
      <4>4. CASE saved'[m] = saved[m] /\ kept'[m] = kept[m]
        BY <4>1, <4>2, <4>3, <4>4, SMTT(10), SMTT(30)
      <4>5. CASE saved'[m] = cat /\ kept'[m] = [kept[m] EXCEPT ![doc] = @ + 1]
        <5>1. kept'[m][e] = (IF e = doc THEN k + 1 ELSE k)
          BY <4>1, <4>5, Zenon
        <5>2. saved'[m].log[e] = cat.log[e]
          BY <4>5, Zenon
        <5> HIDE DEF k, s, c
        <5> QED
          BY <4>1, <4>2, <4>3, <5>1, <5>2
      <4> QED
        BY <1>3, <2>1, <4>4, <4>5, Zenon
    <3> QED
      BY <2>2, <3>1, <3>2, Zenon DEF StorageInv
  <2> QED
    BY <2>3, <2>4
<1> QED
  BY <1>5, <1>6 DEF KeptInv

LEMMA KeptStep ==
  ASSUME HolderTypes, KeptInv, [Next]_vars
  PROVE  KeptInv'
<1>0. DOMAIN Shut = {"of", "cat"} /\ Shut.of = NoFile /\ Shut.cat.log = Empty.log
  BY DEF Shut
<1>1. ASSUME NEW p, NEW i \in Instance, OpenFile(p, i), Shares, UNCHANGED <<saved, kept>>
      PROVE  KeptInv'
  <2>1. /\ files[p] \in Manifest
        /\ inst' = [inst EXCEPT ![i] = [of |-> files[p], cat |-> saved[files[p]]]]
    BY <1>1, Zenon DEF OpenFile, Load
  <2>2. /\ inst'[i].of = files[p] /\ inst'[i].cat = saved[files[p]]
        /\ DOMAIN inst'[i] = {"of", "cat"}
        /\ \A j \in Instance \ {i} : inst'[j] = inst[j]
    BY <2>1, Zenon DEF KeptInv, KeptTypes
  <2>3. KeptTypes'
    BY <1>1, <2>1, <2>2, Zenon DEF KeptInv, KeptTypes
  <2>4. ASSUME NEW m \in Manifest \ shared'
        PROVE  StorageInv(m)'
    <3>1. m \notin shared /\ \A j, k \in Instance : inst'[j].of = m /\ inst'[k].of = m => j = k
      BY <1>1, <2>4 DEF Shares
    <3>2. \A doc \in Doc : kept[m][doc] <= saved[m].log[doc]
      BY <3>1, Zenon DEF KeptInv, StorageInv
    <3>3. ASSUME NEW j \in Instance, inst'[j].of = m, NEW doc \in Doc
          PROVE  saved[m].log[doc] <= inst'[j].cat.log[doc]
      <4>1. CASE j = i
        BY <2>2, <3>3, <4>1 DEF KeptInv, KeptTypes
      <4>2. CASE j # i
        BY <2>2, <3>1, <3>3, <4>2, Zenon DEF KeptInv, StorageInv
      <4> QED
        BY <4>1, <4>2, Zenon
    <3> QED
      BY <1>1, <3>1, <3>2, <3>3, Zenon DEF StorageInv
  <2> QED
    BY <2>3, <2>4 DEF KeptInv
<1>2. ASSUME NEW s, CloseAll(s), shared \subseteq shared', UNCHANGED <<saved, kept>>
      PROVE  KeptInv'
  <2>1. \A j \in Instance : inst'[j] = Shut \/ inst'[j] = inst[j]
    BY <1>2 DEF CloseAll
  <2>2. KeptTypes'
    BY <1>0, <1>2, <2>1, EmptyLog, Zenon DEF KeptInv, KeptTypes, CloseAll
  <2>3. ASSUME NEW m \in Manifest \ shared'
        PROVE  StorageInv(m)'
    <3>1. \A j \in Instance : inst'[j].of = m => inst'[j] = inst[j] /\ inst[j].of = m
      BY <1>0, <2>1, NotAManifest
    <3>2. StorageInv(m)
      BY <1>2 DEF KeptInv
    <3> QED
      BY <1>2, <3>1, <3>2, Zenon DEF StorageInv
  <2> QED
    BY <2>2, <2>3 DEF KeptInv
<1>3. ASSUME UNCHANGED <<inst, saved, kept>>, shared \subseteq shared'
      PROVE  KeptInv'
  BY <1>3, Zenon DEF KeptInv, KeptTypes, StorageInv
<1>4. ASSUME NEW w \in Writer, Observes(w) \/ PersistFails(w)
      PROVE  KeptInv'
  <2>1. PICK i \in Instance, doc \in Doc :
          Observed(i, inst[i].of, doc, Observe(inst[i].cat, doc))
    BY <1>4, ObservesIs
  <2> QED
    BY <2>1, ObservedKept
<1> QED
  BY <1>1, <1>2, <1>3, <1>4, InstanceCases, Zenon

\* The map of the server, the paths of a mounting, the embedder and the writers name an instance
\* or none, and a write under way has one.
THEOREM HoldersTyped == Spec => []HolderTypes
BY HolderInit, HolderStep, FileInvariant, PTL DEF Spec

LEMMA KeptStays == Spec => []KeptInv
BY KeptInit, KeptStep, HoldersTyped, PTL DEF Spec

\* A write that was answered is in the catalogue of its storage: Observe saves what the instance
\* has in memory, which is never behind the file while one instance has the storage.
THEOREM ObservedStays == Spec => []ObservedIsKept
<1>1. KeptInv => ObservedIsKept
  BY Zenon DEF KeptInv, StorageInv, ObservedIsKept
<1> QED
  BY <1>1, KeptStays, PTL
-----------------------------------------------------------------------------
(* Mounting. *)

\* The paths that hold an open database hold that of their manifest, each one of its own.
OpenedInv ==
  /\ \A p \in Path : opened[p] # 0 =>
       /\ p \in Listed \ todo /\ files[p] \in Manifest
       /\ Opened(opened[p]) /\ inst[opened[p]].of = files[p]
  /\ \A p, q \in Path : opened[p] # 0 /\ opened[p] = opened[q] => p = q
  /\ \A i \in Instance : Opened(i) => \E p \in Path : opened[p] = i

DistinctIds ==
  \A p, q \in Path : opened[p] # 0 /\ opened[q] # 0 /\ IdOf(opened[p]) = IdOf(opened[q]) => p = q

Settled(p) == health[p] \in {"failed", "duplicate"} \/ (health[p] = "mounted" /\ opened[p] # 0)

\* One path after the other, and a mounting that ended without an error.
ScanInv ==
  /\ how \in {"dir", "report", "mounted"} =>
       /\ DistinctIds
       /\ \A p \in Path : health[p] # "skipped"
       /\ \A p \in Listed \ todo : Settled(p)
  /\ how = "mounted" => todo = {}

\* A worker has a path of its own that is neither open nor skipped; a required path has failed
\* before another one is skipped.
WorkerInv(w) ==
  \/ worker[w] = Idle
  \/ /\ worker[w].path \in Listed \ todo /\ opened[worker[w].path] = 0
     /\ \/ worker[w].at = "mounting" /\ health[worker[w].path] = "none"
        \/ /\ worker[w].at = "failed" /\ health[worker[w].path] = "failed"
           /\ worker[w].path \notin Optional

AllInv ==
  how = "all" =>
    /\ \A p \in todo : health[p] = "none"
    /\ \A w \in Worker : WorkerInv(w)
    /\ \A v, w \in Worker : worker[v].at = "mounting" /\ worker[w].at = "mounting"
                             /\ worker[v].path = worker[w].path => v = w
    /\ \A p \in Listed \ todo :
         \/ health[p] \in {"failed", "skipped"} \/ (health[p] = "opened" /\ opened[p] # 0)
         \/ \E w \in Worker : worker[w] = [path |-> p, at |-> "mounting"]
    /\ \A p \in Path : opened[p] # 0 => health[p] = "opened"
    /\ required => \E p \in Listed \ Optional : health[p] = "failed"
    /\ (\E p \in Path : health[p] = "skipped") => required

FailedInv ==
  how = "failed" =>
    /\ \A p \in Path : opened[p] = 0
    /\ \E p \in Listed : health[p] \in {"failed", "duplicate"}

SkipInv ==
  (\E p \in Path : health[p] = "skipped") => \E p \in Path \ Optional : health[p] = "failed"

StartTypes ==
  /\ DOMAIN health = Path
  /\ worker \in [Worker -> [path : Path \cup {0}, at : {"idle", "mounting", "failed"}]]
  /\ \A w \in Worker : worker[w].at = "idle" => worker[w] = Idle

MountingInv == todo \subseteq Listed /\ OpenedInv /\ ScanInv /\ AllInv /\ FailedInv

StartInv ==
  /\ server \in {"down", "starting", "up"}
  /\ StartTypes /\ SkipInv
  /\ IF server = "starting"
     THEN how \in {"dir", "report", "all", "mounted", "failed"} /\ MountingInv
     ELSE how = "none" /\ \A p \in Path : opened[p] = 0
  /\ server = "down" => \A i \in Instance : ~ Opened(i)

\* FileWithOptions opens the manifest of path p as an instance that was free.
LEMMA Opening ==
  ASSUME HolderTypes, DOMAIN inst = Instance, OpenedInv, NEW p \in Listed, opened[p] = 0,
         NEW i \in Instance, OpenFile(p, i), opened' = [opened EXCEPT ![p] = i],
         files' = files, todo' \subseteq todo, p \notin todo'
  PROVE  /\ OpenedInv' /\ opened'[p] # 0 /\ IdOf(opened[p])' = files[p].id
         /\ \A q \in Path \ {p} : opened'[q] = opened[q]
         /\ \A q \in Path \ {p} : opened[q] # 0 => IdOf(opened[q])' = IdOf(opened[q])
<1>1. ~ Opened(i)
  <2> DEFINE free == {n \in Instance : ~ Opened(n)}
  <2>1. free # {} /\ i = Min(free)
    BY Zenon DEF OpenFile
  <2>2. free \subseteq Nat
    BY MountAssumption DEF Instance
  <2>3. i \in free
    BY <2>1, <2>2, MinIsMember
  <2> QED
    BY <2>3
<1>2. p \in Path /\ files[p] \in Manifest /\ i # 0
  BY Slots, Zenon DEF Listed, OpenFile
<1>3. inst' = [inst EXCEPT ![i] = [of |-> files[p], cat |-> Load(files[p])]]
  BY Zenon DEF OpenFile
<1>4. inst'[i].of = files[p] /\ Opened(i)' /\ \A j \in Instance \ {i} : inst'[j] = inst[j]
  <2>1. inst'[i].of = files[p] /\ \A j \in Instance \ {i} : inst'[j] = inst[j]
    BY <1>3
  <2>2. Shut.of = NoFile
    BY DEF Shut
  <2> QED
    BY <1>2, <2>1, <2>2, NotAManifest DEF Opened
<1>5. opened'[p] = i /\ \A q \in Path \ {p} : opened'[q] = opened[q]
  BY <1>2 DEF HolderTypes
<1>6. \A q \in Path \ {p} : opened[q] # 0 => opened[q] \in Instance \ {i}
  BY <1>1 DEF OpenedInv, HolderTypes, Slot
<1>7. \A q \in Path \ {p} : opened[q] # 0 => inst'[opened[q]] = inst[opened[q]]
  BY <1>4, <1>6, Zenon
<1>8. ASSUME NEW q \in Path, opened'[q] # 0
      PROVE  /\ q \in (Listed \ todo)' /\ files'[q] \in Manifest
             /\ Opened(opened[q])' /\ inst'[opened'[q]].of = files'[q]
  <2>1. Listed' = Listed
    BY DEF Listed
  <2>2. CASE q = p
    BY <1>2, <1>4, <1>5, <2>1, <2>2, Zenon DEF Opened
  <2>3. CASE q # p
    BY <1>5, <1>7, <1>8, <2>1, <2>3 DEF OpenedInv, Opened
  <2> QED
    BY <2>2, <2>3, Zenon
<1>9. \A q, r \in Path : opened'[q] # 0 /\ opened'[q] = opened'[r] => q = r
  BY <1>5, <1>6 DEF OpenedInv
<1>10. ASSUME NEW j \in Instance, Opened(j)'
       PROVE  \E q \in Path : opened'[q] = j
  <2>1. CASE j = i
    BY <1>2, <1>5, <2>1
  <2>2. CASE j # i
    <3>1. Opened(j)
      BY <1>4, <1>10, <2>2 DEF Opened
    <3>2. PICK q \in Path : opened[q] = j
      BY <3>1, Zenon DEF OpenedInv
    <3>3. q # p
      BY <3>2, Slots
    <3> QED
      BY <1>5, <3>2, <3>3
  <2> QED
    BY <2>1, <2>2
<1>11. OpenedInv'
  BY <1>8, <1>9, <1>10, Zenon DEF OpenedInv
<1>12. IdOf(opened[p])' = files[p].id
  BY <1>4, <1>5, Zenon DEF IdOf
<1>13. \A q \in Path \ {p} : opened[q] # 0 => IdOf(opened[q])' = IdOf(opened[q])
  BY <1>5, <1>7, Zenon DEF IdOf
<1> QED
  BY <1>2, <1>5, <1>11, <1>12, <1>13, Zenon

\* The databases of the paths in lost are closed.
LEMMA Closing ==
  ASSUME HolderTypes, DOMAIN inst = Instance, OpenedInv, NEW lost \in SUBSET Path,
         opened' = [p \in Path |-> IF p \in lost THEN 0 ELSE opened[p]],
         CloseAll({opened[p] : p \in lost}), files' = files, todo' \subseteq todo
  PROVE  /\ OpenedInv'
         /\ \A p \in Path : opened'[p] # 0 => /\ p \notin lost /\ opened'[p] = opened[p]
                                              /\ IdOf(opened[p])' = IdOf(opened[p])
<1>1. \A p \in Path : opened'[p] # 0 => p \notin lost /\ opened'[p] = opened[p]
  OBVIOUS
<1>2. \A p \in Path : opened'[p] # 0 => opened[p] \in Instance /\ inst'[opened[p]] = inst[opened[p]]
  BY <1>1 DEF CloseAll, OpenedInv, HolderTypes, Slot
<1>3. Listed' = Listed
  BY DEF Listed
<1>4. \A p \in Path : opened'[p] # 0 =>
        /\ p \in (Listed \ todo)' /\ files'[p] \in Manifest
        /\ Opened(opened[p])' /\ inst'[opened'[p]].of = files'[p]
  BY <1>1, <1>2, <1>3, ZenonT(60) DEF OpenedInv, Opened
<1>5. \A p, q \in Path : opened'[p] # 0 /\ opened'[p] = opened'[q] => p = q
  BY <1>1, Zenon DEF OpenedInv
<1>6. ASSUME NEW i \in Instance, Opened(i)'
      PROVE  \E p \in Path : opened'[p] = i
  <2>1. i \notin {opened[p] : p \in lost} /\ Opened(i)
    BY <1>6 DEF CloseAll, Opened
  <2>2. PICK p \in Path : opened[p] = i
    BY <2>1, Zenon DEF OpenedInv
  <2> QED
    BY <2>1, <2>2
<1>7. OpenedInv'
  BY <1>4, <1>5, <1>6, Zenon DEF OpenedInv
<1>8. \A p \in Path : opened'[p] # 0 => IdOf(opened[p])' = IdOf(opened[p])
  BY <1>1, <1>2, Zenon DEF IdOf
<1> QED
  BY <1>1, <1>7, <1>8

\* A step that opens and closes nothing.
LEMMA OpenedFrame ==
  ASSUME OpenedInv, UNCHANGED <<files, inst, opened>>, todo' \subseteq todo
  PROVE  OpenedInv' /\ Listed' = Listed /\ (DistinctIds => DistinctIds')
BY Zenon DEF OpenedInv, Opened, Listed, DistinctIds, IdOf

Mode == {"dir", "report", "all", "mounted", "failed"}
MountFacts == StartTypes /\ SkipInv /\ MountingInv /\ how \in Mode

LEMMA ScanMountsStep ==
  ASSUME HolderTypes, DOMAIN inst = Instance, MountFacts, NEW p \in Path, ScanMounts(p),
         files' = files
  PROVE  MountFacts'
<1>1. /\ how \in {"dir", "report"} /\ how' = how /\ worker' = worker
      /\ todo # {} /\ p = Min(todo) /\ todo' = todo \ {p} /\ ~ Taken(files[p].id)
      /\ health' = [health EXCEPT ![p] = "mounted"]
  BY Zenon DEF ScanMounts
<1>2. PICK i \in Instance : OpenFile(p, i) /\ opened' = [opened EXCEPT ![p] = i]
  BY Zenon DEF ScanMounts
<1>3. todo \subseteq Path /\ todo \subseteq Listed /\ OpenedInv /\ ScanInv /\ Listed' = Listed
  BY DEF MountFacts, MountingInv, Listed
<1>4. p \in todo /\ p \in Listed /\ opened[p] = 0
  BY <1>1, <1>3, MinPath, Zenon DEF OpenedInv
<1>5. /\ OpenedInv' /\ opened'[p] # 0 /\ IdOf(opened[p])' = files[p].id
      /\ \A q \in Path \ {p} : opened'[q] = opened[q]
      /\ \A q \in Path \ {p} : opened[q] # 0 => IdOf(opened[q])' = IdOf(opened[q])
  BY <1>1, <1>2, <1>3, <1>4, Opening, Zenon
<1>6. health'[p] = "mounted" /\ \A q \in Path \ {p} : health'[q] = health[q]
  BY <1>1 DEF MountFacts, StartTypes
<1>7. \A q \in Path \ {p} : opened[q] # 0 => IdOf(opened[q]) # files[p].id
  BY <1>1 DEF Taken
<1>8. DistinctIds'
  BY <1>1, <1>3, <1>5, <1>7, SMTT(10), SMTT(30) DEF DistinctIds, ScanInv
<1>9. \A q \in Path : health'[q] # "skipped"
  BY <1>1, <1>3, <1>6, Zenon DEF ScanInv
<1>10. \A q \in (Listed \ todo)' : Settled(q)'
  BY <1>1, <1>3, <1>4, <1>5, <1>6, SMTT(10), SMTT(30) DEF Settled, ScanInv, Listed
<1>11. ScanInv'
  BY <1>1, <1>8, <1>9, <1>10 DEF ScanInv
<1>12. MountingInv'
  BY <1>1, <1>3, <1>5, <1>11, Zenon DEF MountingInv, AllInv, FailedInv
<1>13. StartTypes' /\ SkipInv'
  BY <1>1, <1>9, Zenon DEF MountFacts, StartTypes, SkipInv
<1> QED
  BY <1>1, <1>12, <1>13 DEF MountFacts

LEMMA ScanErrorStep ==
  ASSUME HolderTypes, DOMAIN inst = Instance, MountFacts, NEW p \in Path,
         ScanDuplicate(p) \/ ScanFails(p), files' = files
  PROVE  MountFacts'
<1>1. PICK why \in {"failed", "duplicate"} :
        /\ how \in {"dir", "report"} /\ todo # {} /\ p = Min(todo)
        /\ ScanError(p, why) /\ worker' = worker
  BY DEF ScanDuplicate, ScanFails
<1>2. todo' = todo \ {p} /\ health' = [health EXCEPT ![p] = why]
  BY <1>1, Zenon DEF ScanError
<1>3. todo \subseteq Path /\ todo \subseteq Listed /\ OpenedInv /\ ScanInv /\ Listed' = Listed
  BY DEF MountFacts, MountingInv, Listed
<1>4. p \in todo /\ p \in Listed /\ opened[p] = 0
  BY <1>1, <1>3, MinPath, Zenon DEF OpenedInv
<1>5. health'[p] = why /\ \A q \in Path \ {p} : health'[q] = health[q]
  BY <1>2 DEF MountFacts, StartTypes
<1>6. \A q \in Path : health'[q] # "skipped"
  BY <1>1, <1>3, <1>5 DEF ScanInv
<1>7. StartTypes' /\ SkipInv'
  BY <1>1, <1>2, <1>6, Zenon DEF MountFacts, StartTypes, SkipInv
<1>8. CASE how = "dir"
  <2>1. how' = "failed" /\ opened' = [q \in Path |-> 0] /\ CloseAll({opened[q] : q \in Path})
    BY <1>1, <1>8 DEF ScanError
  <2>2. OpenedInv'
    <3>1. opened' = [q \in Path |-> IF q \in Path THEN 0 ELSE opened[q]]
      BY <2>1
    <3> QED
      BY <1>2, <1>3, <2>1, <3>1, Closing, Zenon
  <2>3. FailedInv'
    BY <1>3, <1>4, <1>5, <2>1, Zenon DEF FailedInv
  <2>4. MountingInv'
    BY <1>2, <1>3, <2>1, <2>2, <2>3, Zenon DEF MountingInv, ScanInv, AllInv
  <2> QED
    BY <1>7, <2>1, <2>4 DEF MountFacts, Mode
<1>9. CASE how # "dir"
  <2>1. how' = how /\ how = "report" /\ UNCHANGED <<opened, inst>>
    BY <1>1, <1>9, Zenon DEF ScanError
  <2>2. OpenedInv' /\ DistinctIds'
    BY <1>1, <1>2, <1>3, <2>1, OpenedFrame, Zenon DEF ScanInv
  <2>3. \A q \in (Listed \ todo)' : Settled(q)'
    BY <1>1, <1>2, <1>3, <1>4, <1>5, <2>1, Zenon DEF Settled, ScanInv, Listed
  <2>4. ScanInv'
    BY <1>6, <2>1, <2>2, <2>3 DEF ScanInv
  <2>5. MountingInv'
    BY <1>2, <1>3, <2>1, <2>2, <2>4, Zenon DEF MountingInv, AllInv, FailedInv
  <2> QED
    BY <1>7, <2>1, <2>5 DEF MountFacts
<1> QED
  BY <1>8, <1>9

LEMMA ScanEndsStep ==
  ASSUME MountFacts, ScanEnds, files' = files
  PROVE  MountFacts'
<1>1. /\ how \in {"dir", "report"} /\ todo = {} /\ how' = "mounted"
      /\ UNCHANGED <<inst, todo, worker, opened, health, files>>
  BY DEF ScanEnds
<1>2. OpenedInv /\ ScanInv /\ todo \subseteq Listed
  BY DEF MountFacts, MountingInv
<1>3. OpenedInv' /\ Listed' = Listed /\ DistinctIds'
  BY <1>1, <1>2, OpenedFrame DEF ScanInv
<1>4. ScanInv'
  BY <1>1, <1>2, <1>3 DEF ScanInv, Settled
<1>5. MountingInv'
  BY <1>1, <1>2, <1>3, <1>4, Zenon DEF MountingInv, AllInv, FailedInv
<1> QED
  BY <1>1, <1>5, Zenon DEF MountFacts, StartTypes, SkipInv, Mode

\* What the steps of the workers have in common.
LEMMA WorkerStepFacts ==
  ASSUME MountFacts, how = "all", how' = how, files' = files, StartTypes', OpenedInv',
         todo' \subseteq todo, AllInv'
  PROVE  MountFacts'
<1>1. Listed' = Listed
  BY DEF Listed
<1>2. SkipInv'
  BY <1>1, Zenon DEF AllInv, SkipInv, Listed
<1>3. MountingInv'
  BY <1>1 DEF MountFacts, MountingInv, ScanInv, FailedInv
<1> QED
  BY <1>2, <1>3 DEF MountFacts

LEMMA IdleAt == Idle.at = "idle"
  BY DEF Idle

\* What AllInv says of the workers alone.
LEMMA WorkersApart ==
  ASSUME AllInv, how = "all"
  PROVE  /\ \A v \in Worker : WorkerInv(v)
         /\ \A u, v \in Worker : worker[u].at = "mounting" /\ worker[v].at = "mounting"
                                 /\ worker[u].path = worker[v].path => u = v
  BY Zenon DEF AllInv

LEMMA TakeStep ==
  ASSUME MountFacts, NEW w \in Worker, Take(w), files' = files
  PROVE  MountFacts'
<1> DEFINE p == Min(todo)
<1>1. /\ how = "all" /\ worker[w] = Idle /\ todo # {} /\ todo' = todo \ {p}
      /\ UNCHANGED <<how, required, opened, inst>>
  BY Zenon DEF Take
<1>2. todo \subseteq Path /\ todo \subseteq Listed /\ OpenedInv /\ AllInv /\ StartTypes
  BY DEF MountFacts, MountingInv, Listed
<1>3. p \in todo /\ p \in Path /\ p \in Listed /\ opened[p] = 0 /\ health[p] = "none"
  BY <1>1, <1>2, MinPath, Zenon DEF OpenedInv, AllInv
<1> HIDE DEF p
<1>4. OpenedInv' /\ Listed' = Listed
  BY <1>1, <1>2, OpenedFrame
<1>5. \A v \in Worker : WorkerInv(v) /\ (worker[v] # Idle => worker[v].path # p)
  BY <1>1, <1>2, <1>3, Zenon DEF AllInv, WorkerInv
<1>6. CASE required
  <2>1. health' = [health EXCEPT ![p] = "skipped"] /\ UNCHANGED worker
    BY <1>6 DEF Take, p
  <2>2. health'[p] = "skipped" /\ \A q \in Path \ {p} : health'[q] = health[q]
    BY <1>3, <2>1 DEF MountFacts, StartTypes
  <2>3. StartTypes'
    BY <1>2, <2>1 DEF StartTypes
  <2>4. \A v \in Worker : WorkerInv(v)'
    BY <1>1, <1>4, <1>5, <2>1, <2>2, Zenon DEF WorkerInv, Listed
  <2>5. \A q \in todo' : health'[q] = "none"
    BY <1>1, <1>2, <2>2, Zenon DEF AllInv
  <2>6. \A q \in (Listed \ todo)' :
          \/ health'[q] \in {"failed", "skipped"} \/ (health'[q] = "opened" /\ opened'[q] # 0)
          \/ \E v \in Worker : worker'[v] = [path |-> q, at |-> "mounting"]
    BY <1>1, <1>2, <1>4, <2>1, <2>2, Zenon DEF AllInv, Listed
  <2>7. \A q \in Path : opened'[q] # 0 => health'[q] = "opened"
    BY <1>1, <1>2, <1>3, <2>2, Zenon DEF AllInv
  <2>8. \E q \in Listed \ Optional : health'[q] = "failed"
    BY <1>1, <1>2, <1>3, <1>6, <2>2, Zenon DEF AllInv, Listed
  <2>9. AllInv'
    BY <1>1, <1>2, <1>4, <1>6, <2>1, <2>4, <2>5, <2>6, <2>7, <2>8, Zenon DEF AllInv
  <2> QED
    BY <1>1, <1>4, <2>3, <2>9, WorkerStepFacts
<1>7. CASE ~ required
  <2>1. worker' = [worker EXCEPT ![w] = [path |-> p, at |-> "mounting"]] /\ UNCHANGED health
    BY <1>7 DEF Take, p
  <2>2. /\ worker'[w] = [path |-> p, at |-> "mounting"]
        /\ \A v \in Worker \ {w} : worker'[v] = worker[v]
    BY <1>2, <2>1, Zenon DEF StartTypes
  <2>3. StartTypes'
    BY <1>2, <1>3, <2>1, <2>2, Zenon DEF StartTypes
  <2>4. \A v \in Worker : WorkerInv(v)'
    <3>1. WorkerInv(w)'
      <4>1. worker'[w].path = p /\ worker'[w].at = "mounting"
        BY <2>2
      <4> QED
        BY <1>1, <1>3, <1>4, <2>1, <4>1 DEF WorkerInv
    <3>2. ASSUME NEW v \in Worker \ {w} PROVE WorkerInv(v)'
      <4>1. WorkerInv(v) /\ worker'[v] = worker[v]
        BY <1>5, <2>2, Zenon
      <4> QED
        BY <1>1, <1>4, <2>1, <4>1 DEF WorkerInv
    <3> QED
      BY <3>1, <3>2
  <2>5. \A u, v \in Worker : worker'[u].at = "mounting" /\ worker'[v].at = "mounting"
                             /\ worker'[u].path = worker'[v].path => u = v
    <3>1. \A v \in Worker : worker[v].at = "mounting" => worker[v].path # p
      BY <1>5 DEF Idle
    <3> QED
      BY <1>1, <1>2, <2>2, <3>1, SMTT(10), SMTT(30) DEF AllInv
  <2>6. \A q \in (Listed \ todo)' :
          \/ health'[q] \in {"failed", "skipped"} \/ (health'[q] = "opened" /\ opened'[q] # 0)
          \/ \E v \in Worker : worker'[v] = [path |-> q, at |-> "mounting"]
    <3>1. \A v \in Worker : worker[v].at = "mounting" => worker'[v] = worker[v]
      BY <1>1, <2>2, IdleAt, Zenon
    <3>2. ASSUME NEW q \in Listed \ todo, NEW v \in Worker,
                 worker[v] = [path |-> q, at |-> "mounting"]
          PROVE  worker'[v] = worker[v]
      <4>1. worker[v].at = "mounting"
        BY <3>2, SMTT(10), SMTT(30)
      <4> QED
        BY <3>1, <4>1, Zenon
    <3>3. ASSUME NEW q \in Listed \ todo
          PROVE  \/ health[q] \in {"failed", "skipped"} \/ (health[q] = "opened" /\ opened[q] # 0)
                 \/ \E v \in Worker : worker'[v] = [path |-> q, at |-> "mounting"]
      BY <1>1, <1>2, <3>2, Zenon DEF AllInv
    <3>4. (Listed \ todo)' \subseteq (Listed \ todo) \cup {p}
      BY <1>1, <1>4, Zenon
    <3> QED
      BY <1>1, <2>1, <2>2, <3>3, <3>4, Zenon
  <2>7. AllInv'
    BY <1>1, <1>2, <1>4, <2>1, <2>4, <2>5, <2>6, Zenon DEF AllInv
  <2> QED
    BY <1>1, <1>4, <2>3, <2>7, WorkerStepFacts
<1> QED
  BY <1>6, <1>7

LEMMA MountsOneStep ==
  ASSUME HolderTypes, DOMAIN inst = Instance, MountFacts, NEW w \in Worker, MountsOne(w),
         files' = files
  PROVE  MountFacts'
<1> DEFINE p == worker[w].path
<1>1. /\ how = "all" /\ worker[w].at = "mounting" /\ worker' = [worker EXCEPT ![w] = Idle]
      /\ health' = [health EXCEPT ![p] = "opened"]
      /\ UNCHANGED <<how, todo, required>>
  BY Zenon DEF MountsOne
<1>2. PICK i \in Instance : OpenFile(p, i) /\ opened' = [opened EXCEPT ![p] = i]
  BY Zenon DEF MountsOne
<1>3. OpenedInv /\ AllInv /\ StartTypes
  BY DEF MountFacts, MountingInv
<1>4. p \in Listed \ todo /\ p \in Path /\ opened[p] = 0 /\ health[p] = "none"
  BY <1>1, <1>3, IdleAt, WorkersApart, Zenon DEF WorkerInv, Listed
<1> HIDE DEF p
<1>5. OpenedInv' /\ opened'[p] # 0 /\ \A q \in Path \ {p} : opened'[q] = opened[q]
  BY <1>1, <1>2, <1>3, <1>4, Opening, Zenon
<1>6. health'[p] = "opened" /\ \A q \in Path \ {p} : health'[q] = health[q]
  BY <1>1, <1>3, <1>4, Zenon DEF StartTypes
<1>7. worker'[w] = Idle /\ \A v \in Worker \ {w} : worker'[v] = worker[v]
  BY <1>1, <1>3 DEF StartTypes
<1>8. StartTypes'
  BY <1>1, <1>3, <1>7, Zenon DEF StartTypes, Idle
<1>9. Listed' = Listed
  BY DEF Listed
<1>10. \A v \in Worker \ {w} : worker[v] # Idle => worker[v].path # p
  BY <1>1, <1>3, <1>4, Zenon DEF AllInv, WorkerInv, p
<1>11. \A v \in Worker : WorkerInv(v)'
  <2>1. WorkerInv(w)'
    BY <1>7, Zenon DEF WorkerInv
  <2>2. ASSUME NEW v \in Worker \ {w} PROVE WorkerInv(v)'
    <3>1. WorkerInv(v)
      BY <1>1, <1>3, WorkersApart, Zenon
    <3>2. worker[v] # Idle => worker[v].path # p /\ worker[v].path \in Path \ {p}
      BY <1>10, <3>1, Zenon DEF WorkerInv, Listed
    <3> QED
      BY <1>1, <1>5, <1>6, <1>7, <1>9, <3>1, <3>2, Zenon DEF WorkerInv
  <2> QED
    BY <2>1, <2>2
<1>12. \A u, v \in Worker : worker'[u].at = "mounting" /\ worker'[v].at = "mounting"
                            /\ worker'[u].path = worker'[v].path => u = v
  BY <1>1, <1>3, <1>7, IdleAt, WorkersApart, ZenonT(60)
<1>13. \A q \in (Listed \ todo)' :
         \/ health'[q] \in {"failed", "skipped"} \/ (health'[q] = "opened" /\ opened'[q] # 0)
         \/ \E v \in Worker : worker'[v] = [path |-> q, at |-> "mounting"]
  <2> SUFFICES ASSUME NEW q \in Listed \ todo, q # p
               PROVE  \/ health'[q] \in {"failed", "skipped"}
                      \/ (health'[q] = "opened" /\ opened'[q] # 0)
                      \/ \E v \in Worker : worker'[v] = [path |-> q, at |-> "mounting"]
    BY <1>1, <1>5, <1>6, <1>9, Zenon
  <2>1. health'[q] = health[q] /\ opened'[q] = opened[q]
    BY <1>5, <1>6, Zenon DEF Listed
  <2>2. \A v \in Worker : worker[v] = [path |-> q, at |-> "mounting"] => worker'[v] = worker[v]
    BY <1>7 DEF p
  <2> QED
    BY <1>1, <1>3, <2>1, <2>2, ZenonT(60) DEF AllInv
<1>14. \A q \in Path : opened'[q] # 0 => health'[q] = "opened"
  BY <1>1, <1>3, <1>5, <1>6, Zenon DEF AllInv
<1>15. required => \E q \in Listed \ Optional : health'[q] = "failed"
  BY <1>1, <1>3, <1>4, <1>6, Zenon DEF AllInv, Listed
<1>16. (\E q \in Path : health'[q] = "skipped") => required
  BY <1>1, <1>3, <1>6, Zenon DEF AllInv
<1>17. \A q \in todo : health'[q] = "none"
  BY <1>1, <1>3, <1>4, <1>6, Zenon DEF AllInv, MountFacts, MountingInv, Listed
<1>18. AllInv'
  BY <1>1, <1>9, <1>11, <1>12, <1>13, <1>14, <1>15, <1>16, <1>17, Zenon DEF AllInv
<1> QED
  BY <1>1, <1>5, <1>8, <1>18, WorkerStepFacts, Zenon

LEMMA OneFailsStep ==
  ASSUME MountFacts, NEW w \in Worker, OneFails(w), files' = files
  PROVE  MountFacts'
<1> DEFINE p == worker[w].path
           next == IF p \in Optional THEN Idle ELSE [path |-> p, at |-> "failed"]
<1>1. /\ how = "all" /\ worker[w].at = "mounting" /\ worker' = [worker EXCEPT ![w] = next]
      /\ health' = [health EXCEPT ![p] = "failed"]
      /\ UNCHANGED <<how, todo, required, opened, inst>>
  BY Zenon DEF OneFails
<1>2. OpenedInv /\ AllInv /\ StartTypes
  BY DEF MountFacts, MountingInv
<1>3. p \in Listed \ todo /\ p \in Path /\ opened[p] = 0 /\ health[p] = "none"
  BY <1>1, <1>2, IdleAt, WorkersApart, Zenon DEF WorkerInv, Listed
<1>4. /\ next.at # "mounting"
      /\ next = Idle \/ (next.at = "failed" /\ next.path = p /\ p \notin Optional)
  BY Zenon DEF Idle
<1>5. /\ next \in [path : Path \cup {0}, at : {"idle", "mounting", "failed"}]
      /\ next.at = "idle" => next = Idle
  BY <1>3, Zenon DEF Idle
<1> HIDE DEF p, next
<1>6. OpenedInv' /\ Listed' = Listed
  BY <1>1, <1>2, OpenedFrame
<1>7. health'[p] = "failed" /\ \A q \in Path \ {p} : health'[q] = health[q]
  BY <1>1, <1>2, <1>3 DEF StartTypes
<1>8. worker'[w] = next /\ \A v \in Worker \ {w} : worker'[v] = worker[v]
  BY <1>1, <1>2 DEF StartTypes
<1>9. StartTypes'
  BY <1>1, <1>2, <1>5, <1>8, Zenon DEF StartTypes
<1>10. \A v \in Worker : WorkerInv(v)'
  <2>1. WorkerInv(w)'
    BY <1>1, <1>3, <1>4, <1>6, <1>7, <1>8, Zenon DEF WorkerInv
  <2>2. ASSUME NEW v \in Worker \ {w}
        PROVE  WorkerInv(v)'
    <3>1. WorkerInv(v) /\ (worker[v].at = "mounting" => worker[v].path # p)
      BY <1>1, <1>2, Zenon DEF AllInv, p
    <3> QED
      BY <1>1, <1>3, <1>6, <1>7, <1>8, <3>1, ZenonT(60) DEF WorkerInv, Listed
  <2> QED
    BY <2>1, <2>2
<1>11. \A u, v \in Worker : worker'[u].at = "mounting" /\ worker'[v].at = "mounting"
                            /\ worker'[u].path = worker'[v].path => u = v
  BY <1>1, <1>2, <1>4, <1>8, WorkersApart, ZenonT(60)
<1>12. \A q \in (Listed \ todo)' :
         \/ health'[q] \in {"failed", "skipped"} \/ (health'[q] = "opened" /\ opened'[q] # 0)
         \/ \E v \in Worker : worker'[v] = [path |-> q, at |-> "mounting"]
  <2> SUFFICES ASSUME NEW q \in Listed \ todo, q # p
               PROVE  \/ health'[q] \in {"failed", "skipped"}
                      \/ (health'[q] = "opened" /\ opened'[q] # 0)
                      \/ \E v \in Worker : worker'[v] = [path |-> q, at |-> "mounting"]
    BY <1>1, <1>6, <1>7, Zenon
  <2>1. health'[q] = health[q] /\ opened'[q] = opened[q]
    BY <1>1, <1>7, Zenon DEF Listed
  <2>2. \A v \in Worker : worker[v] = [path |-> q, at |-> "mounting"] => worker'[v] = worker[v]
    BY <1>8 DEF p
  <2> QED
    BY <1>1, <1>2, <2>1, <2>2, ZenonT(60) DEF AllInv
<1>13. \A q \in Path : opened'[q] # 0 => health'[q] = "opened"
  BY <1>1, <1>2, <1>3, <1>7, Zenon DEF AllInv
<1>14. required => \E q \in Listed \ Optional : health'[q] = "failed"
  BY <1>1, <1>2, <1>7, Zenon DEF AllInv, Listed
<1>15. (\E q \in Path : health'[q] = "skipped") => required
  BY <1>1, <1>2, <1>7, Zenon DEF AllInv
<1>16. \A q \in todo : health'[q] = "none"
  BY <1>1, <1>2, <1>3, <1>7, Zenon DEF AllInv, MountFacts, MountingInv, Listed
<1>17. AllInv'
  BY <1>1, <1>6, <1>10, <1>11, <1>12, <1>13, <1>14, <1>15, <1>16, Zenon DEF AllInv
<1> QED
  BY <1>1, <1>6, <1>9, <1>17, WorkerStepFacts

LEMMA RequireStep ==
  ASSUME MountFacts, NEW w \in Worker, Require(w), files' = files
  PROVE  MountFacts'
<1>1. /\ how = "all" /\ worker[w].at = "failed" /\ worker' = [worker EXCEPT ![w] = Idle]
      /\ required' = TRUE /\ UNCHANGED <<how, todo, opened, inst, health>>
  BY DEF Require
<1>2. OpenedInv /\ AllInv /\ StartTypes
  BY DEF MountFacts, MountingInv
<1>3. \E p \in Listed \ Optional : health[p] = "failed"
  BY <1>1, <1>2, IdleAt, WorkersApart, Zenon DEF WorkerInv
<1>4. OpenedInv' /\ Listed' = Listed
  BY <1>1, <1>2, OpenedFrame
<1>5. worker'[w] = Idle /\ \A v \in Worker \ {w} : worker'[v] = worker[v]
  BY <1>1, <1>2 DEF StartTypes
<1>6. StartTypes'
  BY <1>1, <1>2, <1>5, Zenon DEF StartTypes, Idle
<1>7. \A v \in Worker : WorkerInv(v)'
  <2>1. WorkerInv(w)'
    BY <1>5, Zenon DEF WorkerInv
  <2>2. ASSUME NEW v \in Worker \ {w} PROVE WorkerInv(v)'
    <3>1. WorkerInv(v)
      BY <1>1, <1>2, WorkersApart, Zenon
    <3> QED
      BY <1>1, <1>4, <1>5, <3>1, Zenon DEF WorkerInv, Listed
  <2> QED
    BY <2>1, <2>2
<1>8. \A u, v \in Worker : worker'[u].at = "mounting" /\ worker'[v].at = "mounting"
                           /\ worker'[u].path = worker'[v].path => u = v
  BY <1>1, <1>2, <1>5, IdleAt, WorkersApart, ZenonT(60)
<1>9. \A q \in (Listed \ todo)' :
        \/ health'[q] \in {"failed", "skipped"} \/ (health'[q] = "opened" /\ opened'[q] # 0)
        \/ \E v \in Worker : worker'[v] = [path |-> q, at |-> "mounting"]
  <2>1. \A q : \A v \in Worker : worker[v] = [path |-> q, at |-> "mounting"] => v # w
    BY <1>1
  <2> QED
    BY <1>1, <1>2, <1>4, <1>5, <2>1, ZenonT(60) DEF AllInv
<1>10. AllInv'
  BY <1>1, <1>2, <1>3, <1>4, <1>7, <1>8, <1>9, Zenon DEF AllInv
<1> QED
  BY <1>1, <1>4, <1>6, <1>10, WorkerStepFacts

LEMMA AllEndsStep ==
  ASSUME HolderTypes, DOMAIN inst = Instance, MountFacts, AllEnds, files' = files
  PROVE  MountFacts'
<1> DEFINE dups == {p \in Path : Duplicate(p)}
           failure == \E p \in Listed \ Optional : health[p] = "failed" \/ p \in dups
           lost == IF failure THEN Path ELSE dups
<1>1. /\ how = "all" /\ todo = {} /\ \A w \in Worker : worker[w] = Idle
      /\ how' = IF failure THEN "failed" ELSE "mounted"
      /\ health' = [p \in Path |-> IF p \in dups THEN "duplicate"
                                    ELSE IF health[p] # "opened" THEN health[p]
                                    ELSE IF failure THEN "closed" ELSE "mounted"]
      /\ opened' = [p \in Path |-> IF p \in lost THEN 0 ELSE opened[p]]
      /\ CloseAll({opened[p] : p \in lost})
      /\ UNCHANGED <<todo, worker>>
  BY Zenon DEF AllEnds
<1>2. OpenedInv /\ AllInv /\ StartTypes /\ SkipInv /\ Listed' = Listed /\ Listed \subseteq Path
  BY DEF MountFacts, MountingInv, Listed
<1>3. \A p \in dups : p \in Path /\ opened[p] # 0 /\ health[p] = "opened"
  BY <1>1, <1>2, Zenon DEF Duplicate, AllInv
<1>4. \A p \in Path :
        /\ p \in dups => health'[p] = "duplicate"
        /\ p \notin dups /\ health[p] # "opened" => health'[p] = health[p]
        /\ p \notin dups /\ health[p] = "opened" /\ ~ failure => health'[p] = "mounted"
        /\ p \notin dups /\ health[p] = "opened" => health'[p] \in {"closed", "mounted"}
  <2> HIDE DEF dups, failure
  <2> QED
    BY <1>1, Zenon
<1>5. lost \subseteq Path
  OBVIOUS
<1>6. /\ OpenedInv'
      /\ \A p \in Path : opened'[p] # 0 => /\ p \notin lost /\ opened'[p] = opened[p]
                                           /\ IdOf(opened[p])' = IdOf(opened[p])
  <2> HIDE DEF lost
  <2> QED
    BY <1>1, <1>2, <1>5, Closing, Zenon
<1>7. StartTypes'
  BY <1>1, <1>2, Zenon DEF StartTypes
<1>8. \A p \in Path : health'[p] = "skipped" => health[p] = "skipped"
  <2> HIDE DEF dups, failure
  <2> QED
    BY <1>4
<1>9. \A p \in Path : health[p] = "failed" => health'[p] = "failed"
  <2>1. \A p \in Path : health[p] = "failed" => p \notin dups
    BY <1>3
  <2> HIDE DEF dups, failure
  <2> QED
    BY <1>4, <2>1
<1>10. SkipInv'
  BY <1>2, <1>8, <1>9 DEF SkipInv
<1>11. CASE failure
  <2>1. how' = "failed" /\ \A p \in Path : opened'[p] = 0
    BY <1>1, <1>11, Zenon
  <2>2. PICK p \in Listed \ Optional : health[p] = "failed" \/ p \in dups
    BY <1>11
  <2>3. health'[p] \in {"failed", "duplicate"}
    <3> HIDE DEF dups, failure
    <3> QED
      BY <1>2, <1>4, <1>9, <2>2
  <2>4. FailedInv'
    BY <1>2, <2>1, <2>2, <2>3 DEF FailedInv
  <2>5. MountingInv'
    BY <1>1, <1>2, <1>6, <2>1, <2>4, Zenon DEF MountingInv, ScanInv, AllInv
  <2> QED
    BY <1>7, <1>10, <2>1, <2>5 DEF MountFacts, Mode
<1>12. CASE ~ failure
  <2>1. how' = "mounted"
    BY <1>1, <1>12, Zenon
  <2>2. ASSUME NEW p \in Path PROVE health'[p] # "skipped"
    BY <1>1, <1>2, <1>8, <1>12, Zenon DEF AllInv
  <2>3. ASSUME NEW p \in Listed PROVE Settled(p)'
    <3>1. \A w \in Worker : worker[w] # [path |-> p, at |-> "mounting"]
      BY <1>1 DEF Idle
    <3>2. health[p] \in {"failed", "skipped"} \/ (health[p] = "opened" /\ opened[p] # 0)
      BY <1>1, <1>2, <3>1, Zenon DEF AllInv
    <3>3. health[p] # "skipped"
      BY <1>1, <1>2, <1>12, Zenon DEF AllInv
    <3>4. opened'[p] = IF p \in dups THEN 0 ELSE opened[p]
      BY <1>1, <1>2, <1>12, Zenon
    <3> HIDE DEF dups, failure
    <3> QED
      BY <1>2, <1>4, <1>9, <1>12, <3>2, <3>3, <3>4, Zenon DEF Settled
  <2>4. DistinctIds'
    <3> SUFFICES ASSUME NEW p \in Path, NEW q \in Path, opened'[p] # 0, opened'[q] # 0,
                        IdOf(opened[p])' = IdOf(opened[q])', p # q
                 PROVE  FALSE
      BY DEF DistinctIds
    <3>1. /\ p \notin dups /\ q \notin dups /\ opened[p] # 0 /\ opened[q] # 0
          /\ IdOf(opened[p]) = IdOf(opened[q])
      BY <1>6, <1>12, Zenon
    <3>2. p \in 1 .. q - 1 \/ q \in 1 .. p - 1
      BY MountAssumption DEF Path
    <3> QED
      BY <3>1, <3>2, Zenon DEF Duplicate
  <2>5. ScanInv'
    BY <1>1, <1>2, <2>1, <2>2, <2>3, <2>4, Zenon DEF ScanInv
  <2>6. MountingInv'
    BY <1>1, <1>2, <1>6, <2>1, <2>5, Zenon DEF MountingInv, AllInv, FailedInv
  <2> QED
    BY <1>7, <1>10, <2>1, <2>6 DEF MountFacts, Mode
<1> QED
  BY <1>11, <1>12

LEMMA MountStepFacts ==
  ASSUME HolderTypes, DOMAIN inst = Instance, MountFacts, MountStep, files' = files
  PROVE  MountFacts'
BY ScanMountsStep, ScanErrorStep, ScanEndsStep, TakeStep, MountsOneStep, OneFailsStep,
   RequireStep, AllEndsStep, Zenon DEF MountStep
=============================================================================

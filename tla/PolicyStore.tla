----------------------------- MODULE PolicyStore -----------------------------
(***************************************************************************)
(* pkg/policystore/store.go: Store.Activate and Store.Load on a directory  *)
(* that several processes share, one step per file-system effect that      *)
(* another process, a kill or a power loss can come between.               *)
(*                                                                         *)
(* A generation is its digest: content-addressed, immutable and never      *)
(* removed, so Rev stands for the document sets a caller may publish.  Its *)
(* files are written and synced in a .pending- directory nobody refers to, *)
(* so it becomes visible, complete, with one rename.                       *)
(*                                                                         *)
(* The file system keeps a rename across a power loss once the directory   *)
(* it happened in was synced.  Before that it may or may not survive; the  *)
(* renames of one directory are kept in order, those of two directories    *)
(* in any.  active.json lives in the root, generations in generations/.    *)
(***************************************************************************)
EXTENDS Naturals, Sequences

CONSTANTS
  Proc,         \* processes that publish
  Rev,          \* generation digests
  None,         \* the empty expected revision of a first activation
  NoProc,       \* nobody holds .publication.lock
  NoReq,        \* a process outside Activate asks for nothing
  PowerMayFail, \* the machine may lose power
  MaxPublish    \* bound: pointer renames in one behaviour

\* The arguments of Activate that matter here.
Request == [exp : Rev \cup {None}, new : Rev]

ASSUME StoreAssumption ==
  /\ None \notin Rev
  /\ NoProc \notin Proc
  /\ NoReq \notin Request
  /\ PowerMayFail \in BOOLEAN
  /\ MaxPublish \in Nat

VARIABLES
  lock,     \* holder of .publication.lock, which the kernel frees on a kill
  pc,       \* step of each process in Activate
  req,      \* arguments of each process's Activate
  log,      \* values active.json has had; it holds the last one
  rootSync, \* how many of them are synced in the root directory
  gens,     \* generations visible in generations/
  gensSync, \* those whose rename is synced
  reused,   \* generations published on the strength of an unsynced rename
  acked     \* how many values of log a caller was told were published

storeVars == <<lock, pc, req, log, rootSync, gens, gensSync, reused, acked>>

\* Steps taken under the lock; in the first five the pointer is untouched.
Preparing == {"locked", "checked", "renamed", "inPlace", "verified"}
Locked == Preparing \cup {"published"}

TypeOK ==
  /\ lock \in Proc \cup {NoProc}
  /\ pc \in [Proc -> Locked \cup {"idle", "locking"}]
  /\ req \in [Proc -> Request \cup {NoReq}]
  /\ log \in Seq(Rev)
  /\ rootSync \in 0 .. Len(log)
  /\ gens \subseteq Rev
  /\ gensSync \subseteq gens
  /\ reused \subseteq Rev
  /\ acked \in Nat

\* What active.json names, and what Load does with it.
Pointer == IF log = <<>> THEN None ELSE log[Len(log)]

Loads == Pointer \in gens

Init ==
  /\ lock = NoProc
  /\ pc = [p \in Proc |-> "idle"]
  /\ req = [p \in Proc |-> NoReq]
  /\ log = <<>>
  /\ rootSync = 0
  /\ gens = {}
  /\ gensSync = {}
  /\ reused = {}
  /\ acked = 0
-----------------------------------------------------------------------------
\* Activate is called.
Begin(p) ==
  /\ pc[p] = "idle"
  /\ \E r \in Request : req' = [req EXCEPT ![p] = r]
  /\ pc' = [pc EXCEPT ![p] = "locking"]
  /\ UNCHANGED <<lock, log, rootSync, gens, gensSync, reused, acked>>

\* TryLockContext polls until the lock is free.
Lock(p) ==
  /\ pc[p] = "locking"
  /\ lock = NoProc
  /\ lock' = p
  /\ pc' = [pc EXCEPT ![p] = "locked"]
  /\ UNCHANGED <<req, log, rootSync, gens, gensSync, reused, acked>>

\* Activate returns, and its deferred Unlock runs if it holds the lock.
Return(p) ==
  /\ pc' = [pc EXCEPT ![p] = "idle"]
  /\ req' = [req EXCEPT ![p] = NoReq]
  /\ lock' = IF lock = p THEN NoProc ELSE lock

\* Fault: any loadable generation will do.
CheckLoadsOnly(p) ==
  /\ pc[p] = "locked"
  /\ Loads \/ log = <<>>
  /\ pc' = [pc EXCEPT ![p] = "checked"]
  /\ UNCHANGED <<lock, req, log, rootSync, gens, gensSync, reused, acked>>

\* Load and the comparison with expected succeed: the pointer names a
\* generation that loads and is the expected one, or there is no pointer and
\* none was expected.
Check(p) ==
  /\ pc[p] = "locked"
  /\ \/ Loads /\ req[p].exp = Pointer
     \/ log = <<>> /\ req[p].exp = None
  /\ pc' = [pc EXCEPT ![p] = "checked"]
  /\ UNCHANGED <<lock, req, log, rootSync, gens, gensSync, reused, acked>>

\* The active generation is another one: ErrConflict.
Conflict(p) ==
  /\ pc[p] = "locked"
  /\ Loads
  /\ req[p].exp # Pointer
  /\ Return(p)
  /\ UNCHANGED <<log, rootSync, gens, gensSync, reused, acked>>

\* Load fails: a pointer whose generation is missing, or no pointer where one
\* was expected.
LoadFails(p) ==
  /\ pc[p] = "locked"
  /\ ~ Loads
  /\ log = <<>> => req[p].exp # None
  /\ Return(p)
  /\ UNCHANGED <<log, rootSync, gens, gensSync, reused, acked>>

\* The generation does not exist yet: it is staged, synced and renamed into
\* generations/.
StageAndRename(p) ==
  /\ pc[p] = "checked"
  /\ req[p].new \notin gens
  /\ gens' = gens \cup {req[p].new}
  /\ pc' = [pc EXCEPT ![p] = "renamed"]
  /\ UNCHANGED <<lock, req, log, rootSync, gensSync, reused, acked>>

\* syncDir(generations) after the rename.
SyncGenerations(p) ==
  /\ pc[p] = "renamed"
  /\ gensSync' = gens
  /\ pc' = [pc EXCEPT ![p] = "inPlace"]
  /\ UNCHANGED <<lock, req, log, rootSync, gens, reused, acked>>

\* The destination exists: it is used as it is.
Reuse(p) ==
  /\ pc[p] = "checked"
  /\ req[p].new \in gens
  /\ reused' = IF req[p].new \in gensSync THEN reused ELSE reused \cup {req[p].new}
  /\ pc' = [pc EXCEPT ![p] = "inPlace"]
  /\ UNCHANGED <<lock, req, log, rootSync, gens, gensSync, acked>>

\* loadGeneration verifies the generation; the temporary pointer is written,
\* synced and closed.
PreparePointer(p) ==
  /\ pc[p] = "inPlace"
  /\ req[p].new \in gens
  /\ pc' = [pc EXCEPT ![p] = "verified"]
  /\ UNCHANGED <<lock, req, log, rootSync, gens, gensSync, reused, acked>>

\* The rename to active.json: the publication point.
RenamePointer(p) ==
  /\ pc[p] = "verified"
  /\ Len(log) < MaxPublish
  /\ log' = Append(log, req[p].new)
  /\ pc' = [pc EXCEPT ![p] = "published"]
  /\ UNCHANGED <<lock, req, rootSync, gens, gensSync, reused, acked>>

\* syncDir(root) and success.
SyncRoot(p) ==
  /\ pc[p] = "published"
  /\ rootSync' = Len(log)
  /\ acked' = Len(log)
  /\ Return(p)
  /\ UNCHANGED <<log, gens, gensSync, reused>>

\* syncDir(root) or the last checkpoint fails: "generation may be active".
SyncRootFails(p) ==
  /\ pc[p] = "published"
  /\ Return(p)
  /\ UNCHANGED <<log, rootSync, gens, gensSync, reused, acked>>

\* Any other error, or the end of the context, before the publication point.
Fail(p) ==
  /\ pc[p] \in Preparing \cup {"locking"}
  /\ Return(p)
  /\ UNCHANGED <<log, rootSync, gens, gensSync, reused, acked>>

\* The process is killed inside Activate; its caller learns nothing.
Kill(p) ==
  /\ pc[p] # "idle"
  /\ Return(p)
  /\ UNCHANGED <<log, rootSync, gens, gensSync, reused, acked>>

\* The machine loses power and comes back with what it had synced and any of
\* the rest that had reached the disk.
PowerLoss ==
  /\ PowerMayFail
  /\ \E n \in rootSync .. Len(log) : log' = SubSeq(log, 1, n) /\ rootSync' = n
  /\ \E G \in SUBSET gens : gensSync \subseteq G /\ gens' = G /\ gensSync' = G
  /\ pc' = [p \in Proc |-> "idle"]
  /\ req' = [p \in Proc |-> NoReq]
  /\ lock' = NoProc
  /\ UNCHANGED <<reused, acked>>

ActivateStep(p) ==
  \/ Check(p)
  \/ Conflict(p)
  \/ LoadFails(p)
  \/ StageAndRename(p)
  \/ SyncGenerations(p)
  \/ Reuse(p)
  \/ PreparePointer(p)
  \/ RenamePointer(p)
  \/ SyncRoot(p)
  \/ SyncRootFails(p)
  \/ Fail(p)

Next ==
  \/ \E p \in Proc : Begin(p)
  \/ \E p \in Proc : Lock(p)
  \/ \E p \in Proc : ActivateStep(p)
  \/ \E p \in Proc : Kill(p)
  \/ PowerLoss

Spec == Init /\ [][Next]_storeVars
-----------------------------------------------------------------------------
\* The refinement: what the calls ask for, the generations active.json has held,
\* and how many of them their callers know to be published.
Register == INSTANCE PolicyRegister
              WITH asked <- req, history <- log, kept <- acked

\* Publications are compare-and-set: each replaces exactly the generation its
\* caller expected, whoever publishes, fails, is killed or loses power
\* meanwhile, and what was acknowledged survives.
RefinesRegister == Register!Spec

\* A publication that was acknowledged is synced: no power loss takes it back.
AcknowledgedIsDurable == acked <= rootSync

\* The active pointer names a loadable generation, except one that Activate
\* reused before its rename was synced.
DanglesOnlyIfReused == log = <<>> \/ Loads \/ Pointer \in reused

\* Two processes never are between the check of expected and the pointer
\* rename at once, and what the check saw is still so at the rename.
CheckedStillCurrent ==
  \A p \in Proc : pc[p] \in {"checked", "renamed", "inPlace", "verified"} =>
    /\ req[p].exp = Pointer
    /\ \A q \in Proc : pc[q] \in Locked => q = p

\* "Publishing [...] synchronizes immutable files, then atomically replaces
\* the active pointer": a publication that was acknowledged loads.
AcknowledgedLoads == (log # <<>> /\ acked = Len(log)) => Loads
=============================================================================

---------------------------- MODULE SnapshotSpool ----------------------------
(***************************************************************************)
(* The disk spool behind paged TugQL queries, pkg/server/tugql_pages.go:   *)
(* the capacity slots, the captures that fill a temporary file, the        *)
(* registered snapshots, their expiry timers, and what a crash leaves for  *)
(* prepareSnapshotDir to sweep.                                            *)
(*                                                                         *)
(* Every critical section of snapshotMu is one action.  A snapshot is      *)
(* named by its random id, which is never used again.  Which database a    *)
(* snapshot reads, and the lease its capture holds, are in PagedQueries.   *)
(***************************************************************************)
EXTENDS Naturals, FiniteSets

CONSTANTS
  Snap,          \* snapshot ids, one per capture
  Slots,         \* SnapshotLimits.Slots
  RemoveMayFail, \* os.Remove may fail; the code logs or ignores the error
  MayCrash       \* the process may be killed at any point

\* WithSnapshotLimits refuses a limit that is not positive.
ASSUME SpoolAssumption ==
  /\ IsFiniteSet(Snap)
  /\ Slots \in Nat \ {0}
  /\ RemoveMayFail \in BOOLEAN
  /\ MayCrash \in BOOLEAN

VARIABLES
  up,      \* the server runs
  slots,   \* Server.snapshotSlots
  pc,      \* where the handler that owns a capture is, or its registration
  files,   \* snapshot-* files in the spool directory
  orphans, \* files no capture or snapshot of the running server answers for
  timer,   \* the expiry timer of each snapshot
  lapsed,  \* snapshots whose expiresAt has passed
  stale    \* files last written more than snapshotLifetime + 1 minute ago

spoolVars == <<up, slots, pc, files, orphans, timer, lapsed, stale>>

\* reserved: slot taken.  spooling: file created, rows being written.
\* spooled: file complete.  releasing: refused, deferred release to run.
Capturing == {"reserved", "spooling", "spooled", "releasing"}
Holding == Capturing \cup {"registered"}

SpoolTypeOK ==
  /\ up \in BOOLEAN
  /\ slots \in Nat
  /\ pc \in [Snap -> Holding \cup {"unused", "gone"}]
  /\ files \subseteq Snap
  /\ orphans \subseteq Snap
  /\ timer \in [Snap -> {"off", "armed", "firing"}]
  /\ lapsed \subseteq Snap
  /\ stale \subseteq Snap

SpoolInit ==
  /\ up = TRUE
  /\ slots = 0
  /\ pc = [k \in Snap |-> "unused"]
  /\ files = {}
  /\ orphans = {}
  /\ timer = [k \in Snap |-> "off"]
  /\ lapsed = {}
  /\ stale = {}
-----------------------------------------------------------------------------
\* os.Remove of the files of K: some may stay behind when removal can fail.
RemoveFiles(K) ==
  \E left \in SUBSET (K \cap files) :
    /\ left # {} => RemoveMayFail
    /\ files' = files \ (K \ left)
    /\ orphans' = orphans \cup left

\* Fault: the limit is compared with <=.
ReserveOneMore(k) ==
  /\ up
  /\ pc[k] = "unused"
  /\ slots <= Slots
  /\ slots' = slots + 1
  /\ pc' = [pc EXCEPT ![k] = "reserved"]
  /\ UNCHANGED <<up, files, orphans, timer, lapsed, stale>>

\* reserveSnapshotSlot, called by handlePagedTugQL for a first page.
Reserve(k) ==
  /\ up
  /\ pc[k] = "unused"
  /\ slots < Slots
  /\ slots' = slots + 1
  /\ pc' = [pc EXCEPT ![k] = "reserved"]
  /\ UNCHANGED <<up, files, orphans, timer, lapsed, stale>>

\* handlePagedTugQL gives up before spoolTugQL made a file: no spool
\* directory, rights or metadata refusal, temporary file not created.
Abandon(k) ==
  /\ pc[k] = "reserved"
  /\ pc' = [pc EXCEPT ![k] = "releasing"]
  /\ UNCHANGED <<up, slots, files, orphans, timer, lapsed, stale>>

\* spoolTugQL creates the temporary file and starts to stream rows into it.
CreateFile(k) ==
  /\ pc[k] = "reserved"
  /\ pc' = [pc EXCEPT ![k] = "spooling"]
  /\ files' = files \cup {k}
  /\ UNCHANGED <<up, slots, orphans, timer, lapsed, stale>>

\* spoolTugQL fails: a bound, the query, a write, flush or close.  Its own
\* deferred function removes the file before the caller sees the error.
SpoolFails(k) ==
  /\ pc[k] = "spooling"
  /\ pc' = [pc EXCEPT ![k] = "releasing"]
  /\ RemoveFiles({k})
  /\ UNCHANGED <<up, slots, timer, lapsed, stale>>

\* spoolTugQL returns the path of a complete file.
Spooled(k) ==
  /\ pc[k] = "spooling"
  /\ pc' = [pc EXCEPT ![k] = "spooled"]
  /\ UNCHANGED <<up, slots, files, orphans, timer, lapsed, stale>>

\* Fault: a refused capture leaves its file.
DropKeepsFile(k) ==
  /\ pc[k] = "spooled"
  /\ pc' = [pc EXCEPT ![k] = "releasing"]
  /\ UNCHANGED <<up, slots, files, orphans, timer, lapsed, stale>>

\* handlePagedTugQL drops a complete capture: no random id, or its database
\* was unmounted meanwhile.
Drop(k) ==
  /\ pc[k] = "spooled"
  /\ pc' = [pc EXCEPT ![k] = "releasing"]
  /\ RemoveFiles({k})
  /\ UNCHANGED <<up, slots, timer, lapsed, stale>>

\* The deferred releaseSnapshotSlot of a handler that registered nothing.
ReleaseSlot(k) ==
  /\ pc[k] = "releasing"
  /\ slots' = slots - 1
  /\ pc' = [pc EXCEPT ![k] = "gone"]
  /\ UNCHANGED <<up, files, orphans, timer, lapsed, stale>>

\* handlePagedTugQL registers the snapshot and arms its timer; the slot now
\* belongs to the snapshot.
Register(k) ==
  /\ pc[k] = "spooled"
  /\ pc' = [pc EXCEPT ![k] = "registered"]
  /\ timer' = [timer EXCEPT ![k] = "armed"]
  /\ UNCHANGED <<up, slots, files, orphans, lapsed, stale>>

\* removeSnapshotLocked for every snapshot of K.  Stop does nothing to a timer
\* whose function already runs and waits for snapshotMu.
RemoveLocked(K) ==
  /\ pc' = [k \in Snap |-> IF k \in K THEN "gone" ELSE pc[k]]
  /\ slots' = slots - Cardinality(K)
  /\ RemoveFiles(K)

StopTimers(K) ==
  timer' = [k \in Snap |-> IF k \in K /\ timer[k] = "armed" THEN "off" ELSE timer[k]]

\* The clock passes expiresAt.
Lapse(k) ==
  /\ pc[k] = "registered"
  /\ k \notin lapsed
  /\ lapsed' = lapsed \cup {k}
  /\ UNCHANGED <<up, slots, pc, files, orphans, timer, stale>>

\* The timer starts the goroutine of expireSnapshot.
TimerFires(k) ==
  /\ timer[k] = "armed"
  /\ k \in lapsed
  /\ timer' = [timer EXCEPT ![k] = "firing"]
  /\ UNCHANGED <<up, slots, pc, files, orphans, lapsed, stale>>

\* Fault: the timer's removal forgets the slot.
ExpireKeepsSlot(k) ==
  /\ timer[k] = "firing"
  /\ timer' = [timer EXCEPT ![k] = "off"]
  /\ pc' = [pc EXCEPT ![k] = "gone"]
  /\ RemoveFiles({k})
  /\ UNCHANGED <<up, slots, lapsed, stale>>

\* expireSnapshot gets snapshotMu: it removes the snapshot only if it is still
\* the registered one.
ExpireSnapshot(k) ==
  /\ timer[k] = "firing"
  /\ timer' = [timer EXCEPT ![k] = "off"]
  /\ IF pc[k] = "registered"
     THEN RemoveLocked({k})
     ELSE UNCHANGED <<pc, slots, files, orphans>>
  /\ UNCHANGED <<up, lapsed, stale>>

\* closeSnapshot with the token of a registered snapshot.
CloseSnapshot(k) ==
  /\ pc[k] = "registered"
  /\ RemoveLocked({k})
  /\ StopTimers({k})
  /\ UNCHANGED <<up, lapsed, stale>>

\* serveSnapshotPage finds the snapshot expired before its timer did.
ServeLapsed(k) ==
  /\ pc[k] = "registered"
  /\ k \in lapsed
  /\ RemoveLocked({k})
  /\ StopTimers({k})
  /\ UNCHANGED <<up, lapsed, stale>>

\* serveSnapshotPage cannot read the file, or no row fits into a page.
ServeDamaged(k) ==
  /\ pc[k] = "registered"
  /\ k \notin lapsed
  /\ RemoveLocked({k})
  /\ StopTimers({k})
  /\ UNCHANGED <<up, lapsed, stale>>

\* expireSnapshotsForDB, with K the registered snapshots of the database.
ExpireSnapshots(K) ==
  /\ RemoveLocked(K)
  /\ StopTimers(K)
  /\ UNCHANGED <<up, lapsed, stale>>

Registered == {k \in Snap : pc[k] = "registered"}

\* CloseSnapshots on shutdown, "after stopping HTTP serving and draining
\* in-flight requests"; the process then ends.
CloseSnapshots ==
  /\ up
  /\ \A k \in Snap : pc[k] \notin Capturing
  /\ up' = FALSE
  /\ RemoveLocked(Registered)
  /\ timer' = [k \in Snap |-> "off"]
  /\ UNCHANGED <<lapsed, stale>>

\* The process is killed: memory is lost, files stay.
Crash ==
  /\ MayCrash
  /\ up
  /\ up' = FALSE
  /\ slots' = 0
  /\ pc' = [k \in Snap |-> IF pc[k] \in Holding THEN "gone" ELSE pc[k]]
  /\ timer' = [k \in Snap |-> "off"]
  /\ orphans' = orphans \cup files
  /\ UNCHANGED <<files, lapsed, stale>>

\* prepareSnapshotDir of a new server: it removes the files whose modification
\* time lies before the cutoff.
Restart ==
  /\ ~ up
  /\ up' = TRUE
  /\ \E left \in SUBSET (stale \cap files) :
       /\ left # {} => RemoveMayFail
       /\ files' = files \ (stale \ left)
       /\ orphans' = orphans \ (stale \ left)
  /\ UNCHANGED <<slots, pc, timer, lapsed, stale>>

\* A file reaches the cutoff age.  Captures last at most a minute and their
\* snapshots at most five, so a file that old has no live owner.
Age(k) ==
  /\ k \in files \ stale
  /\ pc[k] \notin Holding
  /\ stale' = stale \cup {k}
  /\ UNCHANGED <<up, slots, pc, files, orphans, timer, lapsed>>

CaptureStep(k) ==
  \/ Abandon(k)
  \/ CreateFile(k)
  \/ SpoolFails(k)
  \/ Spooled(k)
  \/ Drop(k)
  \/ ReleaseSlot(k)
  \/ Register(k)

SpoolNext ==
  \/ \E k \in Snap : Reserve(k)
  \/ \E k \in Snap : CaptureStep(k)
  \/ \E k \in Snap : Lapse(k)
  \/ \E k \in Snap : TimerFires(k)
  \/ \E k \in Snap : ExpireSnapshot(k)
  \/ \E k \in Snap : CloseSnapshot(k)
  \/ \E k \in Snap : ServeLapsed(k)
  \/ \E k \in Snap : ServeDamaged(k)
  \/ \E K \in SUBSET Registered : ExpireSnapshots(K)
  \/ CloseSnapshots
  \/ Crash
  \/ Restart
  \/ \E k \in Snap : Age(k)

SpoolSpec == SpoolInit /\ [][SpoolNext]_spoolVars

\* A capture ends within its minute and its handler returns; the clock and the
\* runtime's timers advance.  Nobody is obliged to close a snapshot.
SpoolFairness ==
  \A k \in Snap : /\ WF_spoolVars(CaptureStep(k))
                  /\ WF_spoolVars(Lapse(k))
                  /\ WF_spoolVars(TimerFires(k))
                  /\ WF_spoolVars(ExpireSnapshot(k))

SpoolFairSpec == SpoolSpec /\ SpoolFairness
-----------------------------------------------------------------------------
\* Every slot counted belongs to one capture or one registered snapshot, and
\* back: a snapshot closed, expired, swept and fired upon in any order gives
\* its slot back exactly once, and the limit is never exceeded.
SlotAccounting ==
  /\ slots = Cardinality({k \in Snap : pc[k] \in Holding})
  /\ slots <= Slots

\* A registered snapshot still has its file: no removal path takes the file
\* of a snapshot that can be asked for a page.
RegisteredHasFile == Registered \subseteq files

\* Apart from what a failed removal or a crash left behind, the files on disk
\* are within the slot limit.
OwnFilesBounded == Cardinality(files \ orphans) <= Slots

\* An armed or firing timer is all that will remove a snapshot nobody closes:
\* a registered snapshot never loses it.
RegisteredHasTimer == \A k \in Registered : timer[k] # "off"

\* Capacity comes back: a full spool gets a free slot again even if no client
\* ever closes its snapshot.
CapacityReturns == (slots = Slots) ~> (slots < Slots)
=============================================================================

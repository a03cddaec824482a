------------------------------ MODULE WritePath ------------------------------
(***************************************************************************)
(* Write batches on one database: Database.apply of pkg/core/core.go with  *)
(* its after-write hook, the git push policies of pkg/mount/gitpush.go,    *)
(* and Database.Close.  Writers run in handlers of their own; one mutex    *)
(* orders them.  The asynchronous pusher is a goroutine with a signal      *)
(* channel of capacity one.                                                *)
(*                                                                         *)
(* A record is present or absent; what a schema says of its data is a free *)
(* choice to refuse.  The driver (outside the repository) refuses to       *)
(* insert a record that is present and to update one that is absent; a     *)
(* SQL engine rolls a failed transaction back, inGitDB keeps the files it  *)
(* has written.                                                            *)
(***************************************************************************)
EXTENDS Naturals, Sequences

CONSTANTS
  Writer,        \* requests that write, each once
  NoWriter,
  Key,           \* record keys
  MaxOps,        \* operations of a batch
  DriverMayFail  \* the driver, or the catalogue file, may fail for its own reasons

ASSUME WriteAssumption ==
  /\ NoWriter \notin Writer
  /\ MaxOps \in Nat \ {0}
  /\ DriverMayFail \in BOOLEAN

VARIABLES
  engine, push,  \* of the manifest
  store,         \* keys of the records that are present
  mu,            \* Database.mu
  pc,            \* where each writer is in apply
  ops, at,       \* its batch, and how many of its operations have run
  before,        \* the store when its batch passed validateOps
  ioFailed,      \* writers that met a failure of the driver's own
  committed,     \* writers whose transaction committed
  unobserved,    \* those of them whose Observe failed
  signal,        \* the length of the signal channel
  pusher,        \* the pusher goroutine
  attempted,     \* writers whose commit was there when some push started
  closing        \* Database.Close: open, stopping (in stop's wg.Wait) or closed

writeVars == <<store, mu, pc, ops, at, before, ioFailed, committed, unobserved>>
pushVars == <<signal, pusher, attempted>>
vars == <<engine, push, writeVars, pushVars, closing>>

\* "blank" is a set that names no column, which a SQL adapter cannot write.
Kind == {"set", "insert", "update", "delete"}
        \cup (IF engine = "sql" THEN {"blank"} ELSE {})
Op == [op : Kind, key : Key]
Batch == UNION {[1 .. n -> Op] : n \in 1 .. MaxOps}

Init ==
  /\ engine \in {"sql", "ingitdb"}
  /\ push \in IF engine = "sql" THEN {"none"} ELSE {"none", "sync", "async"}
  /\ store \in SUBSET Key
  /\ mu = NoWriter
  /\ pc = [w \in Writer |-> "idle"]
  /\ ops = [w \in Writer |-> <<>>]
  /\ at = [w \in Writer |-> 0]
  /\ before = [w \in Writer |-> {}]
  /\ ioFailed = {}
  /\ committed = {}
  /\ unobserved = {}
  /\ signal = 0
  /\ pusher = IF push = "async" THEN "waiting" ELSE "exited"
  /\ attempted = {}
  /\ closing = "open"
-----------------------------------------------------------------------------
\* What one operation does to the records that are present.
Effect(op, present) ==
  IF op.op = "delete" THEN present \ {op.key} ELSE present \cup {op.key}

\* The stage of validateOps after the first n operations of batch b on s.
Staged(s, b, n) ==
  LET stage[i \in Nat] == IF i = 0 THEN s ELSE Effect(b[i], stage[i - 1])
  IN  stage[n]

\* An operation fails on the records that are present: tx.Insert, which also
\* carries out a blank set, and tx.Update.
Refuses(op, present) ==
  \/ op.op \in {"insert", "blank"} /\ op.key \in present
  \/ op.op = "update" /\ op.key \notin present

\* Fault: every operation is checked against the store, not the stage.
ValidAgainstStore(s, b) == \A n \in 1 .. Len(b) : ~ Refuses(b[n], s)

\* validateOps accepts the batch, its schema validation apart.
Valid(s, b) == \A n \in 1 .. Len(b) : ~ Refuses(b[n], Staged(s, b, n - 1))

\* apply returns; the deferred Unlock.
Return(w) ==
  /\ mu' = NoWriter
  /\ pc' = [pc EXCEPT ![w] = "done"]
  /\ ops' = [ops EXCEPT ![w] = <<>>]
  /\ at' = [at EXCEPT ![w] = 0]
  /\ before' = [before EXCEPT ![w] = {}]

\* apply takes the write mutex, validates the batch against the store and
\* provisions the collections.
Admit(w, b) ==
  /\ pc[w] = "idle"
  /\ closing = "open"
  /\ mu = NoWriter
  /\ Valid(store, b)
  /\ mu' = w
  /\ pc' = [pc EXCEPT ![w] = "writing"]
  /\ ops' = [ops EXCEPT ![w] = b]
  /\ before' = [before EXCEPT ![w] = store]
  /\ UNCHANGED <<engine, push, store, at, ioFailed, committed, unobserved,
                 pushVars, closing>>

\* apply refuses the batch: guardWrite, validateOps, its schema validation, or
\* a collection that cannot be provisioned.
Refuse(w) ==
  /\ pc[w] = "idle"
  /\ closing = "open"
  /\ mu = NoWriter
  /\ pc' = [pc EXCEPT ![w] = "done"]
  /\ UNCHANGED <<engine, push, store, mu, ops, at, before, ioFailed, committed,
                 unobserved, pushVars, closing>>

\* The transaction carries out the next operation.
RunOp(w) ==
  /\ pc[w] = "writing"
  /\ at[w] < Len(ops[w])
  /\ LET op == ops[w][at[w] + 1] IN
       /\ ~ Refuses(op, store)
       /\ store' = Effect(op, store)
  /\ at' = [at EXCEPT ![w] = @ + 1]
  /\ UNCHANGED <<engine, push, mu, pc, ops, before, ioFailed, committed,
                 unobserved, pushVars, closing>>

\* The transaction fails at the next operation or at its commit.
TxFails(w) ==
  /\ pc[w] = "writing"
  /\ \/ /\ at[w] < Len(ops[w])
        /\ Refuses(ops[w][at[w] + 1], store)
        /\ UNCHANGED ioFailed
     \/ DriverMayFail /\ ioFailed' = ioFailed \cup {w}
  /\ store' = IF engine = "sql" THEN before[w] ELSE store
  /\ Return(w)
  /\ UNCHANGED <<engine, push, committed, unobserved, pushVars, closing>>

\* The transaction commits.
Commit(w) ==
  /\ pc[w] = "writing"
  /\ at[w] = Len(ops[w])
  /\ committed' = committed \cup {w}
  /\ pc' = [pc EXCEPT ![w] = "committed"]
  /\ UNCHANGED <<engine, push, store, mu, ops, at, before, ioFailed, unobserved,
                 pushVars, closing>>

\* Observe fails to save the inferred catalogue: apply returns before the hook.
ObserveFails(w) ==
  /\ pc[w] = "committed"
  /\ DriverMayFail
  /\ unobserved' = unobserved \cup {w}
  /\ Return(w)
  /\ UNCHANGED <<engine, push, store, ioFailed, committed, pushVars, closing>>

\* Fault: the signal is dropped while a push runs.
SignalIfIdle(w) ==
  /\ push = "async" /\ pc[w] = "committed"
  /\ signal' = IF closing = "open" /\ pusher = "waiting" THEN 1 ELSE signal
  /\ Return(w)
  /\ UNCHANGED <<engine, push, store, ioFailed, committed, unobserved, pusher,
                 attempted, closing>>

\* The hook of push: async signals the pusher unless a signal is pending or
\* stop has run; apply returns.
SignalPusher(w) ==
  /\ push = "async" /\ pc[w] = "committed"
  /\ signal' = IF closing = "open" THEN 1 ELSE signal
  /\ Return(w)
  /\ UNCHANGED <<engine, push, store, ioFailed, committed, unobserved, pusher,
                 attempted, closing>>

\* The hook of push: sync runs the push under the mutex; apply returns.
PushSync(w) ==
  /\ push = "sync" /\ pc[w] = "committed"
  /\ attempted' = attempted \cup committed
  /\ Return(w)
  /\ UNCHANGED <<engine, push, store, ioFailed, committed, unobserved, signal,
                 pusher, closing>>

\* push: none has no hook; apply returns.
NoHook(w) ==
  /\ push = "none" /\ pc[w] = "committed"
  /\ Return(w)
  /\ UNCHANGED <<engine, push, store, ioFailed, committed, unobserved, pushVars,
                 closing>>

\* The pusher receives the signal and starts git push.
StartPush ==
  /\ pusher = "waiting" /\ signal = 1
  /\ signal' = 0
  /\ pusher' = "pushing"
  /\ attempted' = attempted \cup committed
  /\ UNCHANGED <<engine, push, writeVars, closing>>

\* git push ends: done, failed and logged, or stopped after two minutes.
EndPush ==
  /\ pusher = "pushing"
  /\ pusher' = "waiting"
  /\ UNCHANGED <<engine, push, writeVars, signal, attempted, closing>>

\* The pusher finds the channel closed and empty.
PusherExits ==
  /\ pusher = "waiting" /\ closing = "stopping" /\ signal = 0
  /\ pusher' = "exited"
  /\ UNCHANGED <<engine, push, writeVars, signal, attempted, closing>>

\* Database.Close once its callers have stopped using the database: the hook's
\* stop, registered last, runs first and closes the channel.
Close ==
  /\ closing = "open"
  /\ \A w \in Writer : pc[w] \in {"idle", "done"}
  /\ closing' = "stopping"
  /\ UNCHANGED <<engine, push, writeVars, pushVars>>

\* stop's wg.Wait returns; the remaining closers release the driver.
Closed ==
  /\ closing = "stopping" /\ pusher = "exited"
  /\ closing' = "closed"
  /\ UNCHANGED <<engine, push, writeVars, pushVars>>

AfterCommit(w) == ObserveFails(w) \/ SignalPusher(w) \/ PushSync(w) \/ NoHook(w)

Next ==
  \/ \E w \in Writer :
       \/ \E b \in Batch : Admit(w, b)
       \/ Refuse(w)
       \/ RunOp(w)
       \/ TxFails(w)
       \/ Commit(w)
       \/ AfterCommit(w)
  \/ StartPush
  \/ EndPush
  \/ PusherExits
  \/ Close
  \/ Closed

Spec == Init /\ [][Next]_vars

\* The code between the commit and the return does not wait; the pusher is a
\* goroutine of its own and git push has a timeout; Close runs on.
FairSpec ==
  /\ Spec
  /\ \A w \in Writer : WF_vars(AfterCommit(w))
  /\ WF_vars(StartPush) /\ WF_vars(EndPush) /\ WF_vars(PusherExits)
  /\ WF_vars(Closed)
-----------------------------------------------------------------------------
\* The transaction of a validated batch leaves exactly the state validateOps
\* simulated, or nothing of the batch.  On inGitDB, which cannot roll back, this
\* rests on the simulation: only a failure of the driver's own may leave part
\* of a batch behind.
BatchIsAtomic ==
  [][\A w \in Writer :
       pc[w] = "writing" /\ pc'[w] # "writing" =>
         \/ store' = IF w \in committed'
                     THEN Staged(before[w], ops[w], Len(ops[w]))
                     ELSE before[w]
         \/ engine = "ingitdb" /\ w \in ioFailed']_vars

\* A committed batch is covered by a push that starts after its commit,
\* whatever pushes were pending or running when it signalled, and whether or
\* not the database is closed meanwhile.  A batch whose Observe failed is not
\* signalled: it waits for a later write.
CommitIsPushed ==
  \A w \in Writer :
    push # "none" /\ w \in committed ~> w \in attempted \cup unobserved

\* Once Close has returned no push runs or is pending, and no signalled commit
\* is left behind.
CloseFinishesPushes ==
  closing = "closed" /\ push # "none" =>
    /\ pusher = "exited" /\ signal = 0
    /\ committed \ unobserved \subseteq attempted
=============================================================================

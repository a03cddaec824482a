----------------------------- MODULE WriteProofs -----------------------------
(***************************************************************************)
(* Proofs about the write batches: WritePath, their steps, for any         *)
(* writers, keys and batches; and WriteBatch, their contents, for any      *)
(* schemas and batches.                                                    *)
(***************************************************************************)
EXTENDS WritePath, WriteBatch, SequenceTheorems, WellFoundedInduction, TLAPS

\* The types of the variables that the pushes depend on.
PushTypes ==
  /\ pc \in [Writer -> {"idle", "writing", "committed", "done"}]
  /\ signal \in {0, 1}
  /\ pusher \in {"waiting", "pushing", "exited"}
  /\ closing \in {"open", "stopping", "closed"}
  /\ push \in {"none", "sync", "async"}

\* Writers have left apply when Close runs.
ClosedUnused ==
  closing # "open" => \A w \in Writer : pc[w] \in {"idle", "done"}

\* The pusher exits only after the channel was closed and emptied, and without
\* push: async there is neither pusher nor signal.
ExitedLast ==
  /\ pusher = "exited" => signal = 0
  /\ pusher = "exited" /\ push = "async" => closing # "open"
  /\ push # "async" => pusher = "exited"
  /\ closing = "closed" => pusher = "exited"

\* A commit that no push has covered is still in the hands of its writer, or a
\* signal is in the channel.
UncoveredIsSignalled ==
  push # "none" =>
    \A w \in committed \ (unobserved \cup attempted) :
      pc[w] = "committed" \/ signal = 1

IInv ==
  /\ PushTypes
  /\ ClosedUnused
  /\ ExitedLast
  /\ committed \subseteq Writer
  /\ UncoveredIsSignalled
-----------------------------------------------------------------------------
(* Induction and recursion over the naturals, said of sets and functions.  *)

LEMMA LessThan ==
  \E R : IsWellFoundedOn(R, Nat) /\ \A a, b \in Nat : a < b => <<a, b>> \in R
<1>1. \A a, b \in Nat : a < b => <<a, b>> \in OpToRel(<, Nat)
  BY Zenon DEF OpToRel
<1> WITNESS OpToRel(<, Nat)
<1> QED
  BY <1>1, NatLessThanWellFounded, Zenon

LEMMA Induction ==
  ASSUME NEW S, 0 \in S, \A n \in Nat : n \in S => n + 1 \in S
  PROVE  Nat \subseteq S
<1> DEFINE rest == Nat \ S
<1> SUFFICES ASSUME rest # {} PROVE FALSE
  OBVIOUS
<1>1. PICK R : IsWellFoundedOn(R, Nat) /\ \A a, b \in Nat : a < b => <<a, b>> \in R
  BY LessThan
<1>2. IsWellFoundedOn(R, Nat) /\ rest \subseteq Nat
  BY <1>1
<1>3. PICK a \in rest : \A b \in rest : ~(<<b, a>> \in R)
  BY <1>2, WFMin, Zenon
<1>4. a \in Nat /\ a # 0
  OBVIOUS
<1>5. a - 1 \in Nat /\ a - 1 < a /\ (a - 1) + 1 = a
  BY <1>4
<1>6. a - 1 \notin rest
  BY <1>1, <1>3, <1>4, <1>5, Zenon
<1> QED
  BY <1>4, <1>5, <1>6

\* The function f starts with a and goes on as step says.
Follows(f, A, a, step) ==
  f \in [Nat -> A] /\ f[0] = a /\ \A n \in Nat : f[n + 1] = step[<<n, f[n]>>]

LEMMA Recursion ==
  ASSUME NEW A, NEW a \in A, NEW step \in [Nat \X A -> A]
  PROVE  \E f : Follows(f, A, a, step)
<1> DEFINE Starts(n, g) == /\ g \in [0 .. n -> A] /\ g[0] = a
                           /\ \A i \in 0 .. n : i < n => g[i + 1] = step[<<i, g[i]>>]
           reach == {n \in Nat : \E g \in [0 .. n -> A] : Starts(n, g)}
<1>1. Nat \subseteq reach
  <2>1. 0 \in reach
    <3>1. Starts(0, [i \in 0 .. 0 |-> a])
      OBVIOUS
    <3> QED
      BY <3>1, Zenon
  <2>2. ASSUME NEW n \in Nat, n \in reach PROVE n + 1 \in reach
    <3>1. PICK g \in [0 .. n -> A] : Starts(n, g)
      BY <2>2
    <3>2. PICK h : h = [i \in 0 .. n + 1 |-> IF i = n + 1 THEN step[<<n, g[n]>>] ELSE g[i]]
      BY Zenon
    <3>3. g[n] \in A /\ step[<<n, g[n]>>] \in A
      BY <3>1
    <3>4. h \in [0 .. n + 1 -> A]
      BY <3>1, <3>2, <3>3
    <3>5. h[0] = a
      BY <3>1, <3>2
    <3>6. ASSUME NEW i \in 0 .. n + 1, i < n + 1 PROVE h[i + 1] = step[<<i, h[i]>>]
      <4>1. CASE i = n
        <5>1. n + 1 \in 0 .. n + 1 /\ n \in 0 .. n + 1 /\ n # n + 1
          OBVIOUS
        <5>2. h[n + 1] = step[<<n, g[n]>>] /\ h[n] = g[n]
          BY <3>2, <5>1, Zenon
        <5> QED
          BY <4>1, <5>2, Zenon
      <4>2. CASE i # n
        <5>1. i \in 0 .. n /\ i < n /\ i + 1 \in 0 .. n + 1 /\ i + 1 # n + 1 /\ i # n + 1
          BY <3>6, <4>2
        <5>2. g[i + 1] = step[<<i, g[i]>>]
          BY <3>1, <5>1, Zenon
        <5> QED
          BY <3>2, <5>1, <5>2
      <4> QED
        BY <4>1, <4>2
    <3> QED
      BY <3>4, <3>5, <3>6, SMTT(30)
  <2> HIDE DEF reach
  <2> QED
    BY <2>1, <2>2, Induction
<1>2. ASSUME NEW m \in Nat, NEW n \in Nat, NEW g, NEW h, m <= n, Starts(m, g), Starts(n, h)
      PROVE  g[m] = h[m]
  <2> DEFINE same == {i \in Nat : i <= m => g[i] = h[i]}
  <2>1. 0 \in same
    BY <1>2
  <2>2. ASSUME NEW i \in Nat, i \in same PROVE i + 1 \in same
    <3> SUFFICES ASSUME i + 1 <= m PROVE g[i + 1] = h[i + 1]
      OBVIOUS
    <3>1. i \in 0 .. m /\ i < m /\ i \in 0 .. n /\ i < n /\ i <= m
      BY <1>2
    <3>2. g[i] = h[i]
      BY <2>2, <3>1
    <3> QED
      BY <1>2, <3>1, <3>2, Zenon
  <2>3. Nat \subseteq same
    <3> HIDE DEF same
    <3> QED
      BY <2>1, <2>2, Induction
  <2> QED
    BY <2>3
<1>3. PICK all : all = [n \in Nat |-> CHOOSE g \in [0 .. n -> A] : Starts(n, g)]
  BY Zenon
<1>4. ASSUME NEW n \in Nat PROVE Starts(n, all[n])
  BY <1>1, <1>3, Zenon
<1>5. PICK f : f = [n \in Nat |-> all[n][n]]
  BY Zenon
<1> HIDE DEF reach
<1>6. f \in [Nat -> A]
  <2>1. ASSUME NEW n \in Nat PROVE all[n][n] \in A
    BY <1>4
  <2> QED
    BY <1>5, <2>1
<1>7. f[0] = a
  BY <1>4, <1>5
<1>8. ASSUME NEW n \in Nat PROVE f[n + 1] = step[<<n, f[n]>>]
  <2>1. Starts(n, all[n]) /\ Starts(n + 1, all[n + 1])
    BY <1>4
  <2>2. all[n][n] = all[n + 1][n]
    <3> HIDE DEF Starts
    <3>1. n + 1 \in Nat /\ n <= n + 1
      OBVIOUS
    <3> QED
      BY <1>2, <2>1, <3>1, Zenon
  <2>3. all[n + 1][n + 1] = step[<<n, all[n + 1][n]>>]
    BY <2>1
  <2> QED
    BY <1>5, <2>2, <2>3
<1> QED
  BY <1>6, <1>7, <1>8, Zenon DEF Follows

-----------------------------------------------------------------------------
LEMMA InitIInv == Init => IInv
BY DEF Init, IInv, PushTypes, ClosedUnused, ExitedLast, UncoveredIsSignalled

\* The steps of a writer up to the end of its transaction.
LEMMA TransactionStep ==
  ASSUME IInv, NEW w \in Writer,
         (\E b \in Batch : Admit(w, b)) \/ Refuse(w) \/ RunOp(w) \/ TxFails(w)
           \/ Commit(w)
  PROVE  IInv'
<1>1. /\ UNCHANGED <<engine, push, signal, pusher, attempted, unobserved, closing>>
      /\ \E c \in {"writing", "committed", "done"} : pc' = [pc EXCEPT ![w] = c]
         \/ UNCHANGED pc
      /\ committed' \in {committed, committed \cup {w}}
      /\ pc[w] # "committed"
      /\ closing = "open" \/ pc[w] = "writing"
      /\ committed' # committed => pc'[w] = "committed"
  BY DEF IInv, PushTypes, Admit, Refuse, RunOp, TxFails, Commit, Return, pushVars
<1>2. closing = "open"
  BY <1>1 DEF IInv, ClosedUnused
<1>3. PushTypes'
  BY <1>1 DEF IInv, PushTypes
<1>4. ClosedUnused' /\ ExitedLast' /\ committed' \subseteq Writer
  BY <1>1, <1>2 DEF IInv, ClosedUnused, ExitedLast
<1>5. UncoveredIsSignalled'
  BY <1>1 DEF IInv, PushTypes, UncoveredIsSignalled
<1> QED  BY <1>3, <1>4, <1>5 DEF IInv

\* What apply does after its commit.
LEMMA AfterCommitStep ==
  ASSUME IInv, NEW w \in Writer, AfterCommit(w)
  PROVE  IInv'
<1>1. /\ UNCHANGED <<engine, push, pusher, committed, closing>>
      /\ pc' = [pc EXCEPT ![w] = "done"]
      /\ pc[w] = "committed"
      /\ \/ unobserved' = unobserved \cup {w} /\ UNCHANGED <<signal, attempted>>
         \/ push = "async" /\ UNCHANGED <<unobserved, attempted>>
            /\ signal' = IF closing = "open" THEN 1 ELSE signal
         \/ push = "sync" /\ UNCHANGED <<unobserved, signal>>
            /\ attempted' = attempted \cup committed
         \/ push = "none" /\ UNCHANGED <<unobserved, signal, attempted>>
  BY DEF AfterCommit, ObserveFails, SignalPusher, PushSync, NoHook, Return, pushVars
<1>2. closing = "open"
  BY <1>1 DEF IInv, ClosedUnused
<1>3. PushTypes'
  BY <1>1 DEF IInv, PushTypes
<1>4. ClosedUnused' /\ ExitedLast' /\ committed' \subseteq Writer
  BY <1>1, <1>2 DEF IInv, ClosedUnused, ExitedLast, PushTypes
<1>5. UncoveredIsSignalled'
  BY <1>1, <1>2 DEF IInv, PushTypes, UncoveredIsSignalled
<1> QED  BY <1>3, <1>4, <1>5 DEF IInv

\* The pusher goroutine and Close.
LEMMA PusherStep ==
  ASSUME IInv, StartPush \/ EndPush \/ PusherExits \/ Close \/ Closed
  PROVE  IInv'
<1>1. UNCHANGED <<push, pc, committed, unobserved>>
  BY DEF StartPush, EndPush, PusherExits, Close, Closed, writeVars
<1>2. PushTypes'
  BY <1>1 DEF IInv, PushTypes, StartPush, EndPush, PusherExits, Close, Closed,
     pushVars
<1>3. ClosedUnused'
  BY <1>1 DEF IInv, ClosedUnused, StartPush, EndPush, PusherExits, Close, Closed
<1>4. ExitedLast'
  BY <1>1 DEF IInv, PushTypes, ExitedLast, StartPush, EndPush, PusherExits, Close,
     Closed, pushVars
<1>5. UncoveredIsSignalled'
  BY <1>1 DEF IInv, PushTypes, UncoveredIsSignalled, StartPush, EndPush,
     PusherExits, Close, Closed, pushVars
<1> QED  BY <1>1, <1>2, <1>3, <1>4, <1>5 DEF IInv

LEMMA NextIInv == IInv /\ [Next]_vars => IInv'
<1> SUFFICES ASSUME IInv, [Next]_vars PROVE IInv'
  OBVIOUS
<1>1. CASE UNCHANGED vars
  BY <1>1 DEF vars, writeVars, pushVars, IInv, PushTypes, ClosedUnused, ExitedLast,
     UncoveredIsSignalled
<1>2. CASE Next
  BY <1>2, TransactionStep, AfterCommitStep, PusherStep DEF Next
<1> QED  BY <1>1, <1>2

\* Every reachable state satisfies the inductive invariant.
THEOREM InductiveInvariant == Spec => []IInv
BY InitIInv, NextIInv, PTL DEF Spec

\* Close leaves no push running or pending and no signalled commit uncovered,
\* whatever writers and pushes preceded it.
THEOREM ClosePushesAll == Spec => []CloseFinishesPushes
<1>1. IInv => CloseFinishesPushes
  BY DEF IInv, CloseFinishesPushes, ClosedUnused, ExitedLast, UncoveredIsSignalled
<1> QED  BY <1>1, InductiveInvariant, PTL
-----------------------------------------------------------------------------
(* Batches: what validateOps simulates is what the transaction does. *)

\* The stage is what the operations leave one after another.
LEMMA StagedSteps ==
  ASSUME NEW s, NEW b
  PROVE  /\ Staged(s, b, 0) = s
         /\ \A n \in Nat : Staged(s, b, n + 1) = Effect(b[n + 1], Staged(s, b, n))
<1> DEFINE A == SUBSET (s \cup {b[i].key : i \in Nat})
           step == [p \in Nat \X A |-> Effect(b[p[1] + 1], p[2])]
           Stages(f) == f = [i \in Nat |-> IF i = 0 THEN s ELSE Effect(b[i], f[i - 1])]
<1>1. step \in [Nat \X A -> A]
  <2> SUFFICES ASSUME NEW n \in Nat, NEW t \in A PROVE Effect(b[n + 1], t) \in A
    OBVIOUS
  <2>1. n + 1 \in Nat
    OBVIOUS
  <2>2. b[n + 1].key \in {b[i].key : i \in Nat}
    BY <2>1, Zenon
  <2> QED
    BY <2>2 DEF Effect
<1>2. s \in A
  BY Zenon
<1>3. PICK f : Follows(f, A, s, step)
  <2> HIDE DEF A, step
  <2> QED
    BY <1>1, <1>2, Recursion, Zenon
<1>4. ASSUME NEW n \in Nat PROVE f[n + 1] = Effect(b[n + 1], f[n])
  <2>1. <<n, f[n]>> \in Nat \X A /\ f[n + 1] = step[<<n, f[n]>>]
    <3> HIDE DEF A, step
    <3> QED
      BY <1>3 DEF Follows
  <2>2. step[<<n, f[n]>>] = Effect(b[n + 1], f[n])
    BY <2>1
  <2> QED
    BY <2>1, <2>2
<1>5. Stages(f)
  <2>1. ASSUME NEW i \in Nat PROVE f[i] = IF i = 0 THEN s ELSE Effect(b[i], f[i - 1])
    <3>1. CASE i = 0
      BY <1>3, <3>1, Zenon DEF Follows
    <3>2. CASE i # 0
      <4>1. i - 1 \in Nat /\ (i - 1) + 1 = i
        BY <3>2
      <4> QED
        BY <1>4, <3>2, <4>1, Zenon
    <3> QED
      BY <3>1, <3>2
  <2>2. f = [i \in Nat |-> f[i]]
    BY <1>3, Zenon DEF Follows
  <2> QED
    BY <2>1, <2>2, Zenon
<1>6. PICK g : Stages(g) /\ \A n \in Nat : Staged(s, b, n) = g[n]
  BY <1>5, Zenon DEF Staged
<1>7. ASSUME NEW n \in Nat PROVE g[n + 1] = Effect(b[n + 1], g[n])
  <2>1. n + 1 \in Nat /\ n + 1 # 0 /\ (n + 1) - 1 = n
    OBVIOUS
  <2> QED
    BY <1>6, <2>1, Zenon
<1>8. g[0] = s
  BY <1>6
<1>9. ASSUME NEW n \in Nat PROVE Staged(s, b, n + 1) = Effect(b[n + 1], Staged(s, b, n))
  <2>1. n + 1 \in Nat
    OBVIOUS
  <2> QED
    BY <1>6, <1>7, <2>1, Zenon
<1> QED
  BY <1>6, <1>8, <1>9, Zenon

\* Where writer w is in its batch.
InBatch(w) ==
  /\ Len(ops[w]) \in Nat /\ at[w] \in 0 .. Len(ops[w])
  /\ Valid(before[w], ops[w])
  /\ store = Staged(before[w], ops[w], at[w])

\* A writer in apply holds the mutex, and what it has written is the stage it
\* has come to.
BatchInv ==
  /\ engine \in {"sql", "ingitdb"}
  /\ pc \in [Writer -> {"idle", "writing", "committed", "done"}]
  /\ DOMAIN ops = Writer /\ DOMAIN at = Writer /\ DOMAIN before = Writer
  /\ \A w \in Writer : pc[w] \in {"writing", "committed"} <=> mu = w
  /\ \A w \in Writer : pc[w] = "idle" => at[w] = 0
  /\ \A w \in Writer : w \in committed => pc[w] \in {"committed", "done"}
  /\ \A w \in Writer : pc[w] = "writing" => InBatch(w)

LEMMA BatchStarts == Init => BatchInv
BY WriteAssumption DEF Init, BatchInv

\* The next operation of a batch that was admitted is not refused.
LEMMA NextIsAccepted ==
  ASSUME NEW w \in Writer, InBatch(w), at[w] < Len(ops[w])
  PROVE  ~ Refuses(ops[w][at[w] + 1], store)
<1>1. at[w] + 1 \in 1 .. Len(ops[w]) /\ (at[w] + 1) - 1 = at[w]
  BY DEF InBatch
<1> QED
  BY <1>1, Zenon DEF InBatch, Valid

\* The writers beside w, which holds the mutex or takes it, are not in a batch.
LEMMA BatchReturn ==
  ASSUME BatchInv, NEW w \in Writer, mu = w, Return(w), UNCHANGED <<engine, committed>>
  PROVE  BatchInv'
<1>1. w # NoWriter
  BY WriteAssumption
<1>2. \A v \in Writer : v # w => pc[v] \in {"idle", "done"}
  BY DEF BatchInv
<1>3. /\ pc'[w] = "done"
      /\ \A v \in Writer : v # w => pc'[v] = pc[v] /\ at'[v] = at[v]
  BY DEF BatchInv, Return
<1>4. /\ pc' \in [Writer -> {"idle", "writing", "committed", "done"}]
      /\ DOMAIN ops' = Writer /\ DOMAIN at' = Writer /\ DOMAIN before' = Writer
  BY DEF BatchInv, Return
<1>5. mu' = NoWriter /\ NoWriter \notin Writer
  BY WriteAssumption DEF Return
<1>6. \A v \in Writer : pc'[v] \in {"idle", "done"}
  BY <1>2, <1>3
<1>7. \A v \in Writer : pc'[v] = "idle" => at'[v] = 0
  BY <1>3 DEF BatchInv
<1>8. \A v \in Writer : v \in committed => pc'[v] \in {"committed", "done"}
  BY <1>3 DEF BatchInv
<1> QED
  BY <1>4, <1>5, <1>6, <1>7, <1>8 DEF BatchInv

LEMMA AdmitBatch ==
  ASSUME BatchInv, NEW w \in Writer, NEW b \in Batch, Admit(w, b)
  PROVE  BatchInv'
<1>1. /\ pc[w] = "idle" /\ mu = NoWriter /\ Valid(store, b) /\ mu' = w
      /\ pc' = [pc EXCEPT ![w] = "writing"] /\ ops' = [ops EXCEPT ![w] = b]
      /\ before' = [before EXCEPT ![w] = store]
      /\ UNCHANGED <<engine, store, at, committed>>
  BY DEF Admit
<1>2. Len(b) \in Nat
  BY DEF Batch
<1>3. /\ pc' \in [Writer -> {"idle", "writing", "committed", "done"}]
      /\ DOMAIN ops' = Writer /\ DOMAIN at' = Writer /\ DOMAIN before' = Writer
  BY <1>1 DEF BatchInv
<1>4. /\ pc'[w] = "writing" /\ ops'[w] = b /\ before'[w] = store
      /\ \A v \in Writer : v # w => pc'[v] = pc[v]
  BY <1>1 DEF BatchInv
<1>5. \A v \in Writer : pc[v] \in {"idle", "done"}
  BY <1>1, WriteAssumption DEF BatchInv
<1>6. InBatch(w)'
  <2>1. Staged(store, b, 0) = store
    BY StagedSteps, Zenon
  <2>2. at'[w] = 0
    BY <1>1 DEF BatchInv
  <2>3. 0 \in 0 .. Len(b)
    BY <1>2
  <2>4. Valid(before'[w], ops'[w])
    BY <1>1, <1>4, Zenon
  <2>5. store' = Staged(before'[w], ops'[w], at'[w])
    BY <1>1, <1>4, <2>1, <2>2, Zenon
  <2>6. Len(ops'[w]) \in Nat /\ at'[w] \in 0 .. Len(ops'[w])
    BY <1>2, <1>4, <2>2, <2>3, Zenon
  <2> QED
    BY <2>4, <2>5, <2>6, Zenon DEF InBatch
<1> QED
  BY <1>1, <1>3, <1>4, <1>5, <1>6, Zenon DEF BatchInv

\* The mutex is held by the one writer in apply.
LEMMA OneInApply ==
  ASSUME BatchInv, NEW w \in Writer, pc[w] \in {"writing", "committed"}
  PROVE  mu = w /\ \A v \in Writer : v # w => pc[v] \in {"idle", "done"}
BY DEF BatchInv

LEMMA RunOpBatch ==
  ASSUME BatchInv, NEW w \in Writer, RunOp(w)
  PROVE  BatchInv'
<1>1. /\ pc[w] = "writing" /\ at[w] < Len(ops[w])
      /\ store' = Effect(ops[w][at[w] + 1], store)
      /\ at' = [at EXCEPT ![w] = @ + 1]
      /\ UNCHANGED <<engine, mu, pc, ops, before, committed>>
  BY Zenon DEF RunOp
<1>2. /\ InBatch(w) /\ at[w] \in Nat /\ at'[w] = at[w] + 1
      /\ \A v \in Writer : v # w => pc[v] # "writing" /\ at'[v] = at[v]
  BY <1>1, OneInApply, SMTT(10), SMTT(30) DEF BatchInv, InBatch
<1>3. InBatch(w)'
  <2>1. Staged(before[w], ops[w], at[w] + 1) = Effect(ops[w][at[w] + 1], store)
    <3>1. store = Staged(before[w], ops[w], at[w])
      BY <1>2, Zenon DEF InBatch
    <3> QED
      BY <1>2, <3>1, StagedSteps, ZenonT(60)
  <2>2. at'[w] \in 0 .. Len(ops[w])
    BY <1>1, <1>2, SMTT(30) DEF InBatch
  <2> QED
    BY <1>1, <1>2, <2>1, <2>2, Zenon DEF InBatch
<1>4. DOMAIN at' = Writer
  BY <1>1 DEF BatchInv
<1>5. \A v \in Writer : pc[v] = "idle" => at'[v] = 0
  BY <1>1, <1>2, Zenon DEF BatchInv
<1> QED
  BY <1>1, <1>2, <1>3, <1>4, <1>5, Zenon DEF BatchInv

LEMMA CommitBatch ==
  ASSUME BatchInv, NEW w \in Writer, Commit(w)
  PROVE  BatchInv'
<1>1. /\ pc[w] = "writing" /\ committed' = committed \cup {w}
      /\ pc' = [pc EXCEPT ![w] = "committed"]
      /\ UNCHANGED <<engine, mu, ops, at, before>>
  BY DEF Commit
<1>2. mu = w /\ \A v \in Writer : v # w => pc[v] \in {"idle", "done"}
  BY <1>1, OneInApply
<1>3. pc'[w] = "committed" /\ \A v \in Writer : v # w => pc'[v] = pc[v]
  BY <1>1 DEF BatchInv
<1> QED
  BY <1>1, <1>2, <1>3 DEF BatchInv

\* A writer that leaves its transaction leaves the whole stage, or what was
\* there before it; or inGitDB met a failure of its own.
LEMMA LeavesBatch ==
  ASSUME BatchInv, NEW w \in Writer, TxFails(w) \/ Commit(w)
  PROVE  \/ store' = IF w \in committed'
                     THEN Staged(before[w], ops[w], Len(ops[w]))
                     ELSE before[w]
         \/ engine = "ingitdb" /\ w \in ioFailed'
<1>1. InBatch(w)
  BY Zenon DEF BatchInv, TxFails, Commit
<1>2. CASE TxFails(w)
  <2>1. /\ DriverMayFail /\ ioFailed' = ioFailed \cup {w}
        /\ store' = (IF engine = "sql" THEN before[w] ELSE store)
        /\ committed' = committed
    BY <1>1, <1>2, NextIsAccepted, Zenon DEF TxFails
  <2>2. w \notin committed
    BY <1>2 DEF BatchInv, TxFails
  <2> QED
    BY <2>1, <2>2 DEF BatchInv
<1>3. CASE Commit(w)
  BY <1>1, <1>3, Zenon DEF Commit, InBatch
<1> QED
  BY <1>2, <1>3

\* The steps of the pusher, of Close, and of a refused writer.
LEMMA BatchFrame ==
  ASSUME BatchInv, UNCHANGED <<engine, store, mu, ops, at, before, committed>>,
         \/ UNCHANGED pc
         \/ \E w \in Writer : pc[w] = "idle" /\ pc' = [pc EXCEPT ![w] = "done"]
  PROVE  BatchInv'
<1>1. /\ pc' \in [Writer -> {"idle", "writing", "committed", "done"}]
      /\ \A w \in Writer : pc'[w] = pc[w] \/ (pc[w] = "idle" /\ pc'[w] = "done")
  BY Zenon DEF BatchInv
<1>2. \A w \in Writer : InBatch(w) => InBatch(w)'
  BY Zenon DEF InBatch
<1> QED
  BY <1>1, <1>2, Zenon DEF BatchInv

LEMMA BatchStep ==
  ASSUME BatchInv, [Next]_vars
  PROVE  BatchInv'
<1>1. ASSUME NEW w \in Writer, TxFails(w) PROVE BatchInv'
  <2>1. mu = w /\ Return(w) /\ UNCHANGED <<engine, committed>>
    BY <1>1, OneInApply, Zenon DEF TxFails
  <2> QED
    BY <2>1, BatchReturn
<1>2. ASSUME NEW w \in Writer, AfterCommit(w) PROVE BatchInv'
  <2>1. mu = w /\ Return(w) /\ UNCHANGED <<engine, committed>>
    BY <1>2, OneInApply DEF AfterCommit, ObserveFails, SignalPusher, PushSync, NoHook
  <2> QED
    BY <2>1, BatchReturn
<1>3. ASSUME NEW w \in Writer, Refuse(w) PROVE BatchInv'
  BY <1>3, BatchFrame, Zenon DEF Refuse
<1>4. CASE UNCHANGED vars \/ StartPush \/ EndPush \/ PusherExits \/ Close \/ Closed
  <2>1. UNCHANGED <<engine, store, mu, ops, at, before, committed, pc>>
    BY <1>4, Zenon DEF vars, writeVars, StartPush, EndPush, PusherExits, Close, Closed
  <2> QED
    BY <2>1, BatchFrame
<1> QED
  BY <1>1, <1>2, <1>3, <1>4, AdmitBatch, RunOpBatch, CommitBatch DEF Next

\* A validated batch is carried out as validateOps simulated it, or leaves
\* nothing: for any number of writers, any keys and batches of any length, on
\* an engine that rolls back and on one that does not.
THEOREM BatchStaysAtomic == Spec => BatchIsAtomic
<1> DEFINE Leaves(w) ==
      pc[w] = "writing" /\ pc'[w] # "writing" =>
        \/ store' = IF w \in committed'
                    THEN Staged(before[w], ops[w], Len(ops[w]))
                    ELSE before[w]
        \/ engine = "ingitdb" /\ w \in ioFailed'
<1>1. ASSUME BatchInv, [Next]_vars, NEW w \in Writer PROVE Leaves(w)
  <2> SUFFICES ASSUME pc[w] = "writing", pc'[w] # "writing"
               PROVE  TxFails(w) \/ Commit(w)
    BY <1>1, LeavesBatch, Zenon
  <2>1. mu = w /\ \A v \in Writer : v # w => pc[v] \in {"idle", "done"}
    BY <1>1, OneInApply
  <2>2. PICK v \in Writer :
          \/ \E b \in Batch : Admit(v, b)
          \/ Refuse(v) \/ RunOp(v) \/ TxFails(v) \/ Commit(v) \/ AfterCommit(v)
    BY <1>1, Zenon DEF Next, StartPush, EndPush, PusherExits, Close, Closed, vars, writeVars
  <2>3. ~ RunOp(v) /\ ~ Refuse(v) /\ \A b \in Batch : ~ Admit(v, b)
    BY <1>1, <2>1, WriteAssumption DEF RunOp, Refuse, Admit
  <2>4. pc[v] = "writing" \/ pc[v] = "committed"
    BY <2>2, <2>3, Zenon DEF TxFails, Commit, AfterCommit, ObserveFails, SignalPusher, PushSync, NoHook
  <2>5. v = w
    BY <2>1, <2>4
  <2> QED
    BY <2>2, <2>3, <2>5, Zenon DEF AfterCommit, ObserveFails, SignalPusher, PushSync, NoHook
<1>2. BatchInv /\ [Next]_vars => [\A w \in Writer : Leaves(w)]_vars
  BY <1>1, Zenon
<1> QED
  BY <1>2, BatchStarts, BatchStep, PTL DEF Spec, BatchIsAtomic

-----------------------------------------------------------------------------
(***************************************************************************)
(* WriteBatch.  What is stored is what was simulated and validated.        *)
(***************************************************************************)

\* The steps up to a number, one after another.
LEMMA UpTo ==
  ASSUME NEW L \in Nat, NEW S, 0 \in S, \A i \in 1 .. L : i - 1 \in S => i \in S
  PROVE  L \in S
<1>1. PICK N : N = {n \in Nat : n <= L => n \in S}
  BY Zenon
<1>2. 0 \in N
  BY <1>1
<1>3. ASSUME NEW n \in Nat, n \in N PROVE n + 1 \in N
  <2>1. n + 1 <= L => n + 1 \in 1 .. L /\ n <= L /\ (n + 1) - 1 = n
    OBVIOUS
  <2>2. n + 1 <= L => n + 1 \in S
    BY <1>1, <1>3, <2>1, Zenon
  <2> QED
    BY <1>1, <2>2
<1>4. L \in N
  BY <1>2, <1>3, Induction
<1> QED
  BY <1>1, <1>4
-----------------------------------------------------------------------------
(* What a list of updates, and a list of operations, leave one by one. *)

AfterUpdate(r, u) == IF r.ok THEN ApplyUpdate(r.data, u) ELSE Failed
AfterOp(r, op, updates, keeps) == IF r.ok THEN OpEffect(r.data, op, updates, keeps) ELSE Failed

RunsUpdates(g, data, updates, n) ==
  g[0] = Done(data) /\ \A i \in 1 .. n : g[i] = AfterUpdate(g[i - 1], updates[i])
RunsOps(g, recs, batch, given, keeps, n) ==
  g[0] = Done(recs) /\ \A i \in 1 .. n : g[i] = AfterOp(g[i - 1], batch[i], given[i], keeps)

LEMMA UpdatesRun ==
  ASSUME NEW data, NEW updates, NEW L \in Nat, L = Len(updates)
  PROVE  \E g : RunsUpdates(g, data, updates, L) /\ ApplyUpdates(data, updates) = g[L]
<1> DEFINE Is(g) == g = [i \in 0 .. L |-> IF i = 0 THEN Done(data)
                                          ELSE IF g[i - 1].ok
                                          THEN ApplyUpdate(g[i - 1].data, updates[i])
                                          ELSE Failed]
<1>1. \E g : RunsUpdates(g, data, updates, L)
  <2>1. PICK N : N = {n \in Nat : \E g : RunsUpdates(g, data, updates, n)}
    BY Zenon
  <2>2. 0 \in N
    <3>1. PICK g : g = [i \in {0} |-> Done(data)]
      BY Zenon
    <3>2. RunsUpdates(g, data, updates, 0)
      BY <3>1 DEF RunsUpdates
    <3> QED
      BY <2>1, <3>2
  <2>3. ASSUME NEW n \in Nat, n \in N PROVE n + 1 \in N
    <3>1. PICK g : RunsUpdates(g, data, updates, n)
      BY <2>1, <2>3, Zenon
    <3>2. PICK v : v = AfterUpdate(g[n], updates[n + 1])
      BY Zenon
    <3>3. PICK h : h = [i \in 0 .. n + 1 |-> IF i = n + 1 THEN v ELSE g[i]]
      BY Zenon
    <3>4. h[n + 1] = v /\ \A i \in 0 .. n : h[i] = g[i]
      BY <3>3
    <3>5. ASSUME NEW i \in 1 .. n + 1 PROVE h[i] = AfterUpdate(h[i - 1], updates[i])
      <4>1. CASE i = n + 1
        <5>1. i - 1 = n /\ n \in 0 .. n
          BY <4>1
        <5> QED
          BY <3>2, <3>4, <4>1, <5>1, Zenon
      <4>2. CASE i # n + 1
        <5>1. i \in 1 .. n /\ i \in 0 .. n /\ i - 1 \in 0 .. n
          BY <4>2
        <5> QED
          BY <3>1, <3>4, <5>1, Zenon DEF RunsUpdates
      <4> QED
        BY <4>1, <4>2
    <3>6. h[0] = Done(data)
      <4>1. 0 \in 0 .. n
        OBVIOUS
      <4> QED
        BY <3>1, <3>4, <4>1, Zenon DEF RunsUpdates
    <3>7. RunsUpdates(h, data, updates, n + 1)
      BY <3>5, <3>6, Zenon DEF RunsUpdates
    <3>8. n + 1 \in Nat
      OBVIOUS
    <3> QED
      BY <2>1, <3>7, <3>8, Zenon
  <2>4. Nat \subseteq N
    BY <2>2, <2>3, Induction
  <2> QED
    BY <2>1, <2>4, Zenon
<1>2. \E g : Is(g)
  <2>1. PICK g : RunsUpdates(g, data, updates, L)
    BY <1>1
  <2>2. PICK h : h = [i \in 0 .. L |-> g[i]]
    BY Zenon
  <2>3. ASSUME NEW i \in 0 .. L
        PROVE  h[i] = IF i = 0 THEN Done(data) ELSE AfterUpdate(h[i - 1], updates[i])
    <3>1. CASE i = 0
      BY <2>1, <2>2, <3>1, Zenon DEF RunsUpdates
    <3>2. CASE i # 0
      <4>1. i \in 1 .. L /\ i - 1 \in 0 .. L
        BY <3>2
      <4> QED
        BY <2>1, <2>2, <3>2, <4>1, Zenon DEF RunsUpdates
    <3> QED
      BY <3>1, <3>2
  <2>4. h = [i \in 0 .. L |-> IF i = 0 THEN Done(data) ELSE AfterUpdate(h[i - 1], updates[i])]
    BY <2>2, <2>3, Zenon
  <2> QED
    BY <2>4, Zenon DEF AfterUpdate
<1>3. ApplyUpdates(data, updates) = (CHOOSE g : Is(g))[L]
  BY Zenon DEF ApplyUpdates
<1>4. PICK g : g = (CHOOSE k : Is(k))
  BY Zenon
<1>5. Is(g)
  BY <1>2, <1>4, Zenon
<1>6. RunsUpdates(g, data, updates, L)
  <2>1. 0 \in 0 .. L /\ \A i \in 1 .. L : i \in 0 .. L /\ i # 0
    OBVIOUS
  <2> QED
    BY <1>5, <2>1, Zenon DEF RunsUpdates, AfterUpdate
<1> QED
  BY <1>3, <1>4, <1>6, Zenon

LEMMA OpsRun ==
  ASSUME NEW recs, NEW batch, NEW given, NEW keeps, NEW L \in Nat, L = Len(batch)
  PROVE  \E g : RunsOps(g, recs, batch, given, keeps, L) /\ RunOps(recs, batch, given, keeps) = g[L]
<1> DEFINE Is(g) == g = [i \in 0 .. L |-> IF i = 0 THEN Done(recs)
                                          ELSE IF g[i - 1].ok
                                          THEN OpEffect(g[i - 1].data, batch[i], given[i], keeps)
                                          ELSE Failed]
<1>1. \E g : RunsOps(g, recs, batch, given, keeps, L)
  <2>1. PICK N : N = {n \in Nat : \E g : RunsOps(g, recs, batch, given, keeps, n)}
    BY Zenon
  <2>2. 0 \in N
    <3>1. PICK g : g = [i \in {0} |-> Done(recs)]
      BY Zenon
    <3>2. RunsOps(g, recs, batch, given, keeps, 0)
      BY <3>1 DEF RunsOps
    <3> QED
      BY <2>1, <3>2
  <2>3. ASSUME NEW n \in Nat, n \in N PROVE n + 1 \in N
    <3>1. PICK g : RunsOps(g, recs, batch, given, keeps, n)
      BY <2>1, <2>3, Zenon
    <3>2. PICK v : v = AfterOp(g[n], batch[n + 1], given[n + 1], keeps)
      BY Zenon
    <3>3. PICK h : h = [i \in 0 .. n + 1 |-> IF i = n + 1 THEN v ELSE g[i]]
      BY Zenon
    <3>4. h[n + 1] = v /\ \A i \in 0 .. n : h[i] = g[i]
      BY <3>3
    <3>5. ASSUME NEW i \in 1 .. n + 1 PROVE h[i] = AfterOp(h[i - 1], batch[i], given[i], keeps)
      <4>1. CASE i = n + 1
        <5>1. i - 1 = n /\ n \in 0 .. n
          BY <4>1
        <5> QED
          BY <3>2, <3>4, <4>1, <5>1, Zenon
      <4>2. CASE i # n + 1
        <5>1. i \in 1 .. n /\ i \in 0 .. n /\ i - 1 \in 0 .. n
          BY <4>2
        <5> QED
          BY <3>1, <3>4, <5>1, Zenon DEF RunsOps
      <4> QED
        BY <4>1, <4>2
    <3>6. h[0] = Done(recs)
      <4>1. 0 \in 0 .. n
        OBVIOUS
      <4> QED
        BY <3>1, <3>4, <4>1, Zenon DEF RunsOps
    <3>7. RunsOps(h, recs, batch, given, keeps, n + 1)
      BY <3>5, <3>6, Zenon DEF RunsOps
    <3>8. n + 1 \in Nat
      OBVIOUS
    <3> QED
      BY <2>1, <3>7, <3>8, Zenon
  <2>4. Nat \subseteq N
    BY <2>2, <2>3, Induction
  <2> QED
    BY <2>1, <2>4, Zenon
<1>2. \E g : Is(g)
  <2>1. PICK g : RunsOps(g, recs, batch, given, keeps, L)
    BY <1>1
  <2>2. PICK h : h = [i \in 0 .. L |-> g[i]]
    BY Zenon
  <2>3. ASSUME NEW i \in 0 .. L
        PROVE  h[i] = IF i = 0 THEN Done(recs) ELSE AfterOp(h[i - 1], batch[i], given[i], keeps)
    <3>1. CASE i = 0
      BY <2>1, <2>2, <3>1, Zenon DEF RunsOps
    <3>2. CASE i # 0
      <4>1. i \in 1 .. L /\ i - 1 \in 0 .. L
        BY <3>2
      <4> QED
        BY <2>1, <2>2, <3>2, <4>1, Zenon DEF RunsOps
    <3> QED
      BY <3>1, <3>2
  <2>4. h = [i \in 0 .. L |->
               IF i = 0 THEN Done(recs) ELSE AfterOp(h[i - 1], batch[i], given[i], keeps)]
    BY <2>2, <2>3, Zenon
  <2> QED
    BY <2>4, Zenon DEF AfterOp
<1>3. RunOps(recs, batch, given, keeps) = (CHOOSE g : Is(g))[L]
  BY Zenon DEF RunOps
<1>4. PICK g : g = (CHOOSE k : Is(k))
  BY Zenon
<1>5. Is(g)
  BY <1>2, <1>4, Zenon
<1>6. RunsOps(g, recs, batch, given, keeps, L)
  <2>1. 0 \in 0 .. L /\ \A i \in 1 .. L : i \in 0 .. L /\ i # 0
    OBVIOUS
  <2> QED
    BY <1>5, <2>1, Zenon DEF RunsOps, AfterOp
<1> QED
  BY <1>3, <1>4, <1>6, Zenon
-----------------------------------------------------------------------------
(* The driver and the simulation do the same. *)

IsUpdates(updates) ==
  /\ Len(updates) \in Nat /\ DOMAIN updates = 1 .. Len(updates)
  /\ \A j \in DOMAIN updates : IsUpdate(updates[j])

WholeUpdates(updates) ==
  \A j \in DOMAIN updates : updates[j].kind = "increment" => updates[j].value.n % 2 = 0

\* toDalUpdates gives the driver as many updates as there are.
LEMMA DalLength ==
  ASSUME NEW updates, IsUpdates(updates)
  PROVE  Len(ToDalUpdates(updates)) = Len(updates)
<1>1. PICK L \in Nat : L = Len(updates)
  BY Zenon DEF IsUpdates
<1>2. PICK f : f = ToDalUpdates(updates)
  BY Zenon
<1>3. PICK S : S = {f[i] : i \in 1 .. L}
  BY Zenon
<1>4. f = [i \in 1 .. L |-> f[i]]
  BY <1>1, <1>2, Zenon DEF ToDalUpdates, IsUpdates
<1>5. f \in [1 .. L -> S]
  BY <1>3, <1>4, Zenon
<1>6. f \in Seq(S)
  BY <1>5, SeqDef, Zenon
<1>7. Len(f) \in Nat /\ DOMAIN f = 1 .. Len(f)
  BY <1>6, LenProperties, Zenon
<1>8. DOMAIN f = 1 .. L
  BY <1>5, Zenon
<1>9. 1 .. Len(f) = 1 .. L
  BY <1>7, <1>8, Zenon
<1>10. PICK M \in Nat : M = Len(f)
  BY <1>7, Zenon
<1>11. \A i \in Nat : i \in 1 .. M <=> i \in 1 .. L
  BY <1>9, <1>10, Zenon
<1>12. M = L
  BY <1>11
<1> QED
  BY <1>1, <1>2, <1>10, <1>12

\* An increment is applied only by a number.
LEMMA IncrementsAreNumbers ==
  ASSUME NEW data, NEW u, ApplyUpdate(data, u).ok, u.kind = "increment"
  PROVE  u.value.t = "number"
<1>1. Failed.ok = FALSE
  BY DEF Failed
<1>2. ASSUME NEW d, NEW x, ChangeLeaf(d, x, u).ok PROVE u.value.t = "number"
  <2>1. PICK old : old = IF x \in DOMAIN d THEN d[x] ELSE Null
    BY Zenon
  <2>2. NewValue(old, u).ok
    BY <1>1, <1>2, <2>1, Zenon DEF ChangeLeaf
  <2>3. NewValue(old, u) = Increment(old, u.value)
    BY DEF NewValue
  <2> QED
    BY <1>1, <2>2, <2>3, Zenon DEF Increment
<1>3. PICK path : path = IF u.name # <<>> THEN u.name ELSE u.path
  BY Zenon
<1>4. "increment" # "delete"
  OBVIOUS
<1>5. ChangeAtPath(data, path, u).ok
  BY <1>1, <1>3, <1>4, Zenon DEF ApplyUpdate
<1> QED
  BY <1>1, <1>2, <1>5, Zenon DEF ChangeAtPath

\* An update without a fraction that the simulation applies is given as it is.
LEMMA DalIsSame ==
  ASSUME NEW updates, NEW j \in DOMAIN updates, IsUpdates(updates), WholeUpdates(updates),
         NEW data, ApplyUpdate(data, updates[j]).ok
  PROVE  ToDalUpdates(updates)[j] = updates[j]
<1>1. PICK u : u = updates[j]
  BY Zenon
<1>2. CASE u.kind # "increment"
  BY <1>1, <1>2, Zenon DEF ToDalUpdates
<1>3. CASE u.kind = "increment"
  <2>1. u.value.t = "number"
    BY <1>1, <1>3, IncrementsAreNumbers, Zenon
  <2>2. IsUpdate(u) /\ u.value.n % 2 = 0
    BY <1>1, <1>3, Zenon DEF IsUpdates, WholeUpdates
  <2>3. PICK n : n = u.value.n
    BY Zenon
  <2>4. n \in Int /\ n % 2 = 0 /\ u.value = Num(n)
    BY <2>1, <2>2, <2>3, Zenon DEF IsUpdate
  <2>5. (IF n >= 0 THEN 2 * (n \div 2) ELSE -(2 * ((-n) \div 2))) = n
    BY <2>4
  <2>6. ToDalUpdates(updates)[j]
          = [u EXCEPT !.value = Num(IF n >= 0 THEN 2 * (n \div 2) ELSE -(2 * ((-n) \div 2)))]
    BY <1>1, <1>3, <2>3, Zenon DEF ToDalUpdates
  <2>7. ToDalUpdates(updates)[j] = [u EXCEPT !.value = Num(n)]
    BY <2>5, <2>6, Zenon
  <2>8. [u EXCEPT !.value = u.value] = u
    <3>1. u = [name |-> u.name, path |-> u.path, kind |-> u.kind, value |-> u.value]
      BY <2>2, Zenon DEF IsUpdate
    <3> QED
      BY <3>1
  <2> QED
    BY <1>1, <2>4, <2>7, <2>8, Zenon
<1> QED
  BY <1>2, <1>3, Zenon

LEMMA UpdatesSame ==
  ASSUME NEW data, NEW updates, IsUpdates(updates), WholeUpdates(updates),
         ApplyUpdates(data, updates).ok
  PROVE  ApplyUpdates(data, ToDalUpdates(updates)) = ApplyUpdates(data, updates)
<1>1. PICK L \in Nat : L = Len(updates)
  BY Zenon DEF IsUpdates
<1>2. PICK given : given = ToDalUpdates(updates)
  BY Zenon
<1>3. PICK g : RunsUpdates(g, data, updates, L) /\ ApplyUpdates(data, updates) = g[L]
  BY <1>1, UpdatesRun, Zenon
<1>4. L = Len(given)
  BY <1>1, <1>2, DalLength, Zenon
<1>5. PICK h : RunsUpdates(h, data, given, L) /\ ApplyUpdates(data, given) = h[L]
  BY <1>4, UpdatesRun, Zenon
<1>6. PICK S : S = {i \in 0 .. L : g[i].ok => h[i] = g[i]}
  BY Zenon
<1>7. 0 \in S
  BY <1>3, <1>5, <1>6 DEF RunsUpdates
<1>8. ASSUME NEW i \in 1 .. L, i - 1 \in S PROVE i \in S
  <2>1. i \in 0 .. L /\ i \in DOMAIN updates
    BY <1>1 DEF IsUpdates
  <2> SUFFICES ASSUME g[i].ok PROVE h[i] = g[i]
    BY <1>6, <2>1, Zenon
  <2>2. g[i] = AfterUpdate(g[i - 1], updates[i]) /\ h[i] = AfterUpdate(h[i - 1], given[i])
    BY <1>3, <1>5, Zenon DEF RunsUpdates
  <2>3. Failed.ok = FALSE
    BY DEF Failed
  <2>4. g[i - 1].ok /\ ApplyUpdate(g[i - 1].data, updates[i]).ok
    BY <2>2, <2>3, Zenon DEF AfterUpdate
  <2>5. given[i] = updates[i]
    BY <1>2, <2>1, <2>4, DalIsSame, Zenon
  <2>6. h[i - 1] = g[i - 1]
    BY <1>6, <1>8, <2>4, Zenon
  <2> QED
    BY <2>2, <2>5, <2>6, Zenon
<1>9. L \in S
  BY <1>7, <1>8, UpTo, Zenon
<1> QED
  BY <1>2, <1>3, <1>5, <1>6, <1>9, Zenon

LEMMA EffectSame ==
  ASSUME NEW recs, NEW op, NEW updates, IsUpdates(updates), WholeUpdates(updates),
         OpEffect(recs, op, updates, FALSE).ok
  PROVE  OpEffect(recs, op, ToDalUpdates(updates), FALSE) = OpEffect(recs, op, updates, FALSE)
<1>1. PICK k : k = AdapterKey(op)
  BY Zenon
<1>2. PICK given : given = ToDalUpdates(updates)
  BY Zenon
<1>3. CASE op.op = "update"
  <2>1. \A u : OpEffect(recs, op, u, FALSE)
                 = IF k \notin DOMAIN recs THEN Failed
                   ELSE IF ApplyUpdates(recs[k], u).ok
                   THEN Done(Extend(recs, k, ApplyUpdates(recs[k], u).data)) ELSE Failed
    BY <1>1, <1>3 DEF OpEffect
  <2>2. Failed.ok = FALSE
    BY DEF Failed
  <2>3. ApplyUpdates(recs[k], updates).ok
    BY <2>1, <2>2, Zenon
  <2>4. ApplyUpdates(recs[k], given) = ApplyUpdates(recs[k], updates)
    BY <1>2, <2>3, UpdatesSame, Zenon
  <2> QED
    BY <1>2, <2>1, <2>4, Zenon
<1>4. CASE op.op # "update"
  BY <1>4 DEF OpEffect
<1> QED
  BY <1>3, <1>4, Zenon

\* On a document engine, a batch whose increments have no fraction leaves what
\* validateOps simulated.
LEMMA RunsSame ==
  ASSUME NEW recs, NEW batch \in Batches, IsWhole(batch), Stage(recs, batch).ok
  PROVE  RunOps(recs, batch, [i \in DOMAIN batch |-> ToDalUpdates(batch[i].updates)], FALSE)
           = Stage(recs, batch)
<1>0. PICK keeps : keeps = FALSE
  BY Zenon
<1>1. PICK L \in Nat : L = Len(batch) /\ DOMAIN batch = 1 .. L
  BY BatchAssumption
<1>2. PICK sent : sent = [i \in DOMAIN batch |-> batch[i].updates]
  BY Zenon
<1>3. PICK given : given = [i \in DOMAIN batch |-> ToDalUpdates(batch[i].updates)]
  BY Zenon
<1>4. PICK g : RunsOps(g, recs, batch, sent, keeps, L) /\ RunOps(recs, batch, sent, keeps) = g[L]
  BY <1>1, OpsRun
<1>5. PICK h : RunsOps(h, recs, batch, given, keeps, L) /\ RunOps(recs, batch, given, keeps) = h[L]
  BY <1>1, OpsRun
<1>6. PICK S : S = {i \in 0 .. L : g[i].ok => h[i] = g[i]}
  BY Zenon
<1>7. 0 \in S
  BY <1>4, <1>5, <1>6 DEF RunsOps
<1>8. ASSUME NEW i \in 1 .. L, i - 1 \in S PROVE i \in S
  <2>1. i \in 0 .. L /\ i \in DOMAIN batch
    BY <1>1
  <2> SUFFICES ASSUME g[i].ok PROVE h[i] = g[i]
    BY <1>6, <2>1, Zenon
  <2>2. PICK updates : updates = batch[i].updates
    BY Zenon
  <2>3. sent[i] = updates /\ given[i] = ToDalUpdates(updates)
    BY <1>2, <1>3, <2>1, <2>2, Zenon
  <2>4. /\ g[i] = AfterOp(g[i - 1], batch[i], updates, keeps)
        /\ h[i] = AfterOp(h[i - 1], batch[i], ToDalUpdates(updates), keeps)
    BY <1>4, <1>5, <2>3, Zenon DEF RunsOps
  <2>5. Failed.ok = FALSE
    BY DEF Failed
  <2>6. g[i - 1].ok /\ OpEffect(g[i - 1].data, batch[i], updates, keeps).ok
    BY <2>4, <2>5, Zenon DEF AfterOp
  <2>7. IsUpdates(updates) /\ WholeUpdates(updates)
    BY <2>1, <2>2, BatchAssumption, Zenon DEF IsUpdates, WholeUpdates, IsWhole
  <2>8. OpEffect(g[i - 1].data, batch[i], ToDalUpdates(updates), keeps)
          = OpEffect(g[i - 1].data, batch[i], updates, keeps)
    BY <1>0, <2>6, <2>7, EffectSame, Zenon
  <2>9. h[i - 1] = g[i - 1]
    BY <1>6, <1>8, <2>6, Zenon
  <2> QED
    BY <2>4, <2>8, <2>9, Zenon DEF AfterOp
<1>9. L \in S
  BY <1>7, <1>8, UpTo, Zenon
<1> QED
  BY <1>0, <1>2, <1>3, <1>4, <1>5, <1>6, <1>9, Zenon DEF Stage
-----------------------------------------------------------------------------
(* A batch leaves alone what it does not touch. *)

SameBut(data, recs, T) ==
  \A k : k \notin T => /\ k \in DOMAIN data <=> k \in DOMAIN recs
                       /\ k \in DOMAIN recs => data[k] = recs[k]

LEMMA EffectFrame ==
  ASSUME NEW recs, NEW op, NEW updates, NEW keeps, OpEffect(recs, op, updates, keeps).ok
  PROVE  SameBut(OpEffect(recs, op, updates, keeps).data, recs, {AdapterKey(op)})
<1>1. PICK k : k = AdapterKey(op)
  BY Zenon
<1>2. PICK e : e = OpEffect(recs, op, updates, keeps)
  BY Zenon
<1>3. \/ \E v : e.data = Extend(recs, k, v)
      \/ e.data = Without(recs, k)
  <2>1. Failed.ok = FALSE /\ \A d : Done(d).data = d
    BY DEF Failed, Done
  <2> QED
    BY <1>1, <1>2, <2>1, Zenon DEF OpEffect
<1>4. \A v : SameBut(Extend(recs, k, v), recs, {k})
  BY Zenon DEF Extend, SameBut
<1>5. SameBut(Without(recs, k), recs, {k})
  BY Zenon DEF Without, SameBut
<1> QED
  BY <1>1, <1>2, <1>3, <1>4, <1>5, Zenon

LEMMA RunFrame ==
  ASSUME NEW recs, NEW batch \in Batches, NEW given, NEW keeps, RunOps(recs, batch, given, keeps).ok
  PROVE  SameBut(RunOps(recs, batch, given, keeps).data, recs, Touched(batch))
<1>1. PICK L \in Nat : L = Len(batch) /\ DOMAIN batch = 1 .. L
  BY BatchAssumption
<1>2. PICK g : RunsOps(g, recs, batch, given, keeps, L) /\ RunOps(recs, batch, given, keeps) = g[L]
  BY <1>1, OpsRun
<1>3. PICK S : S = {i \in 0 .. L : g[i].ok => SameBut(g[i].data, recs, Touched(batch))}
  BY Zenon
<1>4. 0 \in S
  <2>1. 0 \in 0 .. L
    OBVIOUS
  <2>2. g[0].data = recs
    BY <1>2 DEF RunsOps, Done
  <2> QED
    BY <1>3, <2>1, <2>2, Zenon DEF SameBut
<1>5. ASSUME NEW i \in 1 .. L, i - 1 \in S PROVE i \in S
  <2>1. i \in 0 .. L /\ i \in DOMAIN batch
    BY <1>1
  <2> SUFFICES ASSUME g[i].ok PROVE SameBut(g[i].data, recs, Touched(batch))
    BY <1>3, <2>1, Zenon
  <2>2. g[i] = AfterOp(g[i - 1], batch[i], given[i], keeps)
    BY <1>2, Zenon DEF RunsOps
  <2>3. Failed.ok = FALSE
    BY DEF Failed
  <2>4. g[i - 1].ok /\ g[i] = OpEffect(g[i - 1].data, batch[i], given[i], keeps)
    BY <2>2, <2>3, Zenon DEF AfterOp
  <2>5. SameBut(g[i].data, g[i - 1].data, {AdapterKey(batch[i])})
    BY <2>4, EffectFrame, Zenon
  <2>6. AdapterKey(batch[i]) \in Touched(batch)
    BY <2>1, Zenon DEF Touched
  <2>7. SameBut(g[i - 1].data, recs, Touched(batch))
    BY <1>3, <1>5, <2>4, Zenon
  <2> QED
    BY <2>5, <2>6, <2>7, Zenon DEF SameBut
<1>6. L \in S
  BY <1>4, <1>5, UpTo, Zenon
<1> QED
  BY <1>2, <1>3, <1>6, Zenon
-----------------------------------------------------------------------------
(* Records are functions from names to values. *)

IsFcn(f) == f = [x \in DOMAIN f |-> f[x]]
AreRecords(recs) == IsFcn(recs) /\ \A k \in DOMAIN recs : IsFcn(recs[k])

LEMMA FcnExtend ==
  ASSUME NEW f, NEW x, NEW v
  PROVE  IsFcn(Extend(f, x, v)) /\ IsFcn(Without(f, x))
BY Zenon DEF IsFcn, Extend, Without

LEMMA FcnUpdate ==
  ASSUME NEW data, IsFcn(data), NEW u, ApplyUpdate(data, u).ok
  PROVE  IsFcn(ApplyUpdate(data, u).data)
<1>1. Failed.ok = FALSE /\ \A d : Done(d).data = d
  BY DEF Failed, Done
<1>2. PICK path : path = IF u.name # <<>> THEN u.name ELSE u.path
  BY Zenon
<1>3. IsFcn(DeleteAtPath(data, path))
  BY FcnExtend, Zenon DEF DeleteAtPath
<1>4. ASSUME ChangeAtPath(data, path, u).ok PROVE IsFcn(ChangeAtPath(data, path, u).data)
  <2>1. \E x, v : ChangeAtPath(data, path, u).data = Extend(data, x, v)
    <3>1. CASE Len(path) = 1
      <4>1. ChangeAtPath(data, path, u) = ChangeLeaf(data, path[1], u)
        BY <3>1, Zenon DEF ChangeAtPath
      <4> QED
        BY <1>1, <1>4, <4>1, ZenonT(60) DEF ChangeLeaf
    <3>2. CASE Len(path) # 1
      <4>1. PICK x : x = path[1]
        BY Zenon
      <4>2. \E o : ChangeAtPath(data, path, u).data = Extend(data, x, Obj(o))
        BY <1>1, <1>4, <3>2, <4>1, Zenon DEF ChangeAtPath
      <4> QED
        BY <4>2, Zenon
    <3> QED
      BY <3>1, <3>2
  <2> QED
    BY <2>1, FcnExtend, Zenon
<1> QED
  BY <1>1, <1>2, <1>3, <1>4, Zenon DEF ApplyUpdate

LEMMA FcnUpdates ==
  ASSUME NEW data, IsFcn(data), NEW updates, Len(updates) \in Nat, ApplyUpdates(data, updates).ok
  PROVE  IsFcn(ApplyUpdates(data, updates).data)
<1>1. PICK L \in Nat : L = Len(updates)
  BY Zenon
<1>2. PICK g : RunsUpdates(g, data, updates, L) /\ ApplyUpdates(data, updates) = g[L]
  BY <1>1, UpdatesRun, Zenon
<1>3. PICK S : S = {i \in 0 .. L : g[i].ok => IsFcn(g[i].data)}
  BY Zenon
<1>4. 0 \in S
  <2>1. 0 \in 0 .. L
    OBVIOUS
  <2>2. g[0].data = data
    BY <1>2 DEF RunsUpdates, Done
  <2> QED
    BY <1>3, <2>1, <2>2, Zenon
<1>5. ASSUME NEW i \in 1 .. L, i - 1 \in S PROVE i \in S
  <2>1. i \in 0 .. L
    OBVIOUS
  <2> SUFFICES ASSUME g[i].ok PROVE IsFcn(g[i].data)
    BY <1>3, <2>1, Zenon
  <2>2. g[i] = AfterUpdate(g[i - 1], updates[i])
    BY <1>2, Zenon DEF RunsUpdates
  <2>3. Failed.ok = FALSE
    BY DEF Failed
  <2>4. g[i - 1].ok /\ g[i] = ApplyUpdate(g[i - 1].data, updates[i])
    BY <2>2, <2>3, Zenon DEF AfterUpdate
  <2> QED
    BY <1>3, <1>5, <2>4, FcnUpdate, Zenon
<1>6. L \in S
  BY <1>4, <1>5, UpTo, Zenon
<1> QED
  BY <1>2, <1>3, <1>6, Zenon

LEMMA FcnEffect ==
  ASSUME NEW recs, AreRecords(recs), NEW op, IsFcn(op.data), NEW updates, Len(updates) \in Nat,
         NEW keeps, OpEffect(recs, op, updates, keeps).ok
  PROVE  AreRecords(OpEffect(recs, op, updates, keeps).data)
<1>1. PICK k : k = AdapterKey(op)
  BY Zenon
<1>2. PICK e : e = OpEffect(recs, op, updates, keeps)
  BY Zenon
<1>3. Failed.ok = FALSE /\ \A d : Done(d).data = d
  BY DEF Failed, Done
<1>4. \A f, g : IsFcn(Over(f, g))
  BY Zenon DEF IsFcn, Over
<1>5. \/ \E v : e.data = Extend(recs, k, v) /\ IsFcn(v)
      \/ e.data = Without(recs, k)
  <2>1. CASE op.op = "update"
    <3>1. e = IF k \notin DOMAIN recs THEN Failed
              ELSE IF ApplyUpdates(recs[k], updates).ok
              THEN Done(Extend(recs, k, ApplyUpdates(recs[k], updates).data)) ELSE Failed
      BY <1>1, <1>2, <2>1 DEF OpEffect
    <3>2. k \in DOMAIN recs /\ ApplyUpdates(recs[k], updates).ok
      BY <1>2, <1>3, <3>1, Zenon
    <3>3. IsFcn(ApplyUpdates(recs[k], updates).data)
      BY <3>2, FcnUpdates, Zenon DEF AreRecords
    <3> QED
      BY <1>3, <3>1, <3>2, <3>3, Zenon
  <2>2. CASE op.op = "set"
    <3>1. e.data \in {Extend(recs, k, Over(op.data, recs[k])), Extend(recs, k, op.data)}
      BY <1>1, <1>2, <1>3, <2>2 DEF OpEffect
    <3> QED
      BY <1>4, <3>1, Zenon
  <2>3. CASE op.op = "insert"
    <3>1. e.data = Extend(recs, k, op.data)
      BY <1>1, <1>2, <1>3, <2>3 DEF OpEffect
    <3> QED
      BY <3>1, Zenon
  <2>4. CASE op.op = "delete"
    BY <1>1, <1>2, <1>3, <2>4 DEF OpEffect
  <2>5. CASE op.op \notin {"update", "set", "insert", "delete"}
    BY <1>2, <1>3, <2>5 DEF OpEffect
  <2> QED
    BY <2>1, <2>2, <2>3, <2>4, <2>5, Zenon
<1>6. ASSUME NEW v, IsFcn(v) PROVE AreRecords(Extend(recs, k, v))
  <2>1. PICK b : b = Extend(recs, k, v)
    BY Zenon
  <2>2. IsFcn(b)
    BY <2>1, FcnExtend, Zenon
  <2>3. \A l \in DOMAIN b : b[l] = v \/ (l \in DOMAIN recs /\ b[l] = recs[l])
    BY <2>1 DEF Extend
  <2> QED
    BY <1>6, <2>1, <2>2, <2>3, Zenon DEF AreRecords
<1>7. AreRecords(Without(recs, k))
  <2>1. PICK b : b = Without(recs, k)
    BY Zenon
  <2>2. IsFcn(b) /\ \A l \in DOMAIN b : l \in DOMAIN recs /\ b[l] = recs[l]
    BY <2>1, FcnExtend, Zenon DEF Without
  <2> QED
    BY <2>1, <2>2, Zenon DEF AreRecords
<1> QED
  BY <1>2, <1>5, <1>6, <1>7, Zenon

\* The updates that the driver is given with each operation.
AreGiven(given, batch) == \A i \in DOMAIN batch : given[i] = ToDalUpdates(batch[i].updates)

LEMMA FcnRun ==
  ASSUME NEW recs, AreRecords(recs), NEW batch \in Batches, NEW keeps, NEW given,
         AreGiven(given, batch),
         RunOps(recs, batch, given, keeps).ok
  PROVE  AreRecords(RunOps(recs, batch, given, keeps).data)
<1>1. PICK L \in Nat : L = Len(batch) /\ DOMAIN batch = 1 .. L
  BY BatchAssumption
<1>2. PICK g : RunsOps(g, recs, batch, given, keeps, L) /\ RunOps(recs, batch, given, keeps) = g[L]
  BY <1>1, OpsRun
<1>3. PICK S : S = {i \in 0 .. L : g[i].ok => AreRecords(g[i].data)}
  BY Zenon
<1>4. 0 \in S
  <2>1. 0 \in 0 .. L
    OBVIOUS
  <2>2. g[0].data = recs
    BY <1>2 DEF RunsOps, Done
  <2> QED
    BY <1>3, <2>1, <2>2, Zenon
<1>5. ASSUME NEW i \in 1 .. L, i - 1 \in S PROVE i \in S
  <2>1. i \in 0 .. L /\ i \in DOMAIN batch
    BY <1>1
  <2> SUFFICES ASSUME g[i].ok PROVE AreRecords(g[i].data)
    BY <1>3, <2>1, Zenon
  <2>2. PICK updates : updates = batch[i].updates
    BY Zenon
  <2>3. g[i] = AfterOp(g[i - 1], batch[i], ToDalUpdates(updates), keeps)
    BY <1>2, <2>1, <2>2, Zenon DEF RunsOps, AreGiven
  <2>4. Failed.ok = FALSE
    BY DEF Failed
  <2>5. g[i - 1].ok /\ g[i] = OpEffect(g[i - 1].data, batch[i], ToDalUpdates(updates), keeps)
    BY <2>3, <2>4, Zenon DEF AfterOp
  <2>6. IsUpdates(updates) /\ IsFcn(batch[i].data)
    BY <2>1, <2>2, BatchAssumption, Zenon DEF IsUpdates, IsFcn
  <2>7. Len(ToDalUpdates(updates)) \in Nat
    BY <2>6, DalLength, Zenon DEF IsUpdates
  <2> QED
    BY <1>3, <1>5, <2>5, <2>6, <2>7, FcnEffect, Zenon
<1>6. L \in S
  BY <1>4, <1>5, UpTo, Zenon
<1> QED
  BY <1>2, <1>3, <1>6, Zenon
-----------------------------------------------------------------------------
(* The names of collections. *)

\* The canonical name of a spelling, from the table of spellings.
NameIn(table, n) == (CHOOSE s \in table : s[1] = n)[2]

LEMMA NameIsIn ==
  ASSUME NEW n
  PROVE  CanonicalCollection(n) = NameIn(Spellings(SchemaKeys), n)
BY Zenon DEF CanonicalCollection, NameIn

\* A canonical name is its own canonical name.
LEMMA CanonicalIsCanonical ==
  ASSUME ~ NamesConflict(SchemaKeys), NEW n, IsDeclared(n)
  PROVE  CanonicalCollection(CanonicalCollection(n)) = CanonicalCollection(n)
<1>1. PICK table : table = Spellings(SchemaKeys)
  BY Zenon
<1>2. \A s, t \in table : s[1] = t[1] => s[2] = t[2]
  BY <1>1, Zenon DEF NamesConflict
<1>3. PICK c : c = CanonicalCollection(n)
  BY Zenon
<1>4. PICK s \in table : s[1] = n /\ s[2] = c
  BY <1>1, <1>3, Zenon DEF CanonicalCollection, IsDeclared
<1>5. PICK k \in SchemaKeys : c = Canonical(k)
  BY <1>1, <1>4 DEF Spellings
<1>6. PICK t \in table : t[1] = c /\ t[2] = c
  <2>1. <<c, c>> \in table
    BY <1>1, <1>5, Zenon DEF Spellings
  <2> QED
    BY <2>1
<1>7. PICK r \in table : r[1] = c /\ r[2] = CanonicalCollection(c)
  BY <1>1, <1>6, Zenon DEF CanonicalCollection
<1> QED
  BY <1>2, <1>3, <1>6, <1>7, Zenon

\* A document engine's collections are named as they are written.
LEMMA DocumentNames ==
  ASSUME storage = "document", NEW n, IsDeclared(n)
  PROVE  n \in SchemaKeys /\ CanonicalCollection(n) = n
<1>1. PICK table : table = Spellings(SchemaKeys)
  BY Zenon
<1>2. \A k : Canonical(k) = k
  BY DEF Canonical
<1>3. \A s \in table : s[1] = s[2] /\ s[1] \in SchemaKeys
  BY <1>1, <1>2 DEF Spellings
<1>4. PICK s \in table : s[1] = n /\ s[2] = CanonicalCollection(n)
  BY <1>1, Zenon DEF CanonicalCollection, IsDeclared
<1> QED
  BY <1>3, <1>4, Zenon

NamedWell(k) ==
  k = <<k[1], k[2]>> /\ (IsDeclared(k[1]) => CanonicalCollection(k[1]) = k[1])

LEMMA AdapterNames ==
  ASSUME storage \in {"sql", "document"}, ~ NamesConflict(SchemaKeys),
         NEW batch, GuardWrite(batch), NEW k \in Touched(batch)
  PROVE  NamedWell(k)
<1>1. PICK i \in DOMAIN batch : k = AdapterKey(batch[i])
  BY Zenon DEF Touched
<1>2. PICK op : op = batch[i]
  BY Zenon
<1>3. ~ KeyRefused(op) /\ k = AdapterKey(op)
  BY <1>1, <1>2, Zenon DEF GuardWrite
<1>4. k = <<k[1], k[2]>>
  BY <1>3 DEF AdapterKey
<1>5. CASE storage = "sql"
  <2>1. IsDeclared(op.name) /\ k[1] = CanonicalCollection(op.name)
    BY <1>3, <1>5 DEF AdapterKey, KeyRefused
  <2>2. CanonicalCollection(k[1]) = k[1]
    BY <2>1, CanonicalIsCanonical, Zenon
  <2> QED
    BY <1>4, <2>2, Zenon DEF NamedWell
<1>6. CASE storage = "document"
  <2>1. IsDeclared(k[1]) => CanonicalCollection(k[1]) = k[1]
    BY <1>6, DocumentNames, Zenon
  <2> QED
    BY <1>4, <2>1, Zenon DEF NamedWell
<1> QED
  BY <1>5, <1>6
-----------------------------------------------------------------------------
(* What a schema admits on a document engine, without the names. *)

Admitted(m, n, data) ==
  CASE m = "schemaless" -> TRUE
    [] m = "partial" -> n \in SchemaKeys => ValidateFields(SchemaOf[n], data, FALSE)
    [] m = "strict" -> n \in SchemaKeys /\ ValidateFields(SchemaOf[n], data, TRUE)

ModeInv == mode \in {"strict", "partial", "schemaless"}

ValidIsAdmitted ==
  ModeInv /\ storage = "document"
    => \A n, data : ValidateRecord(n, data) <=> Admitted(mode, n, data)

LEMMA DocumentSchema ==
  ASSUME storage = "document", NEW n
  PROVE  /\ HasSchema(n) <=> n \in SchemaKeys
         /\ n \in SchemaKeys => SchemaCollection(n) = SchemaOf[n]
<1>1. HasSchema(n) <=> n \in SchemaKeys
  <2>1. HasSchema(n) => n \in SchemaKeys
    BY DocumentNames, Zenon DEF HasSchema
  <2>2. n \in SchemaKeys => HasSchema(n)
    <3>1. n \in SchemaKeys => <<n, Canonical(n)>> \in Spellings(SchemaKeys)
      BY Zenon DEF Spellings
    <3> QED
      BY <3>1 DEF HasSchema, IsDeclared
  <2> QED
    BY <2>1, <2>2
<1>2. n \in SchemaKeys => SchemaCollection(n) = SchemaOf[n]
  <2>1. n \in SchemaKeys => CanonicalCollection(n) = n
    BY <1>1, DocumentNames, Zenon DEF HasSchema
  <2>2. \A k : Canonical(k) = k
    BY DEF Canonical
  <2> QED
    BY <2>1, <2>2, Zenon DEF SchemaCollection
<1> QED
  BY <1>1, <1>2

LEMMA AdmittedNow == ValidIsAdmitted
<1> SUFFICES ASSUME ModeInv, storage = "document", NEW n, NEW data
             PROVE  ValidateRecord(n, data) <=> Admitted(mode, n, data)
  BY DEF ValidIsAdmitted
<1>1. /\ HasSchema(n) <=> n \in SchemaKeys
      /\ n \in SchemaKeys => SchemaCollection(n) = SchemaOf[n]
  BY DocumentSchema, Zenon
<1> QED
  BY <1>1 DEF ValidateRecord, Admitted, ModeInv

LEMMA AdmittedThen == ValidIsAdmitted'
BY AdmittedNow, PTL
-----------------------------------------------------------------------------
(***************************************************************************)
(* What validateOps simulates on a record that Get coerced speaks for the  *)
(* record that is stored.                                                  *)
(***************************************************************************)

At(data, x) == IF x \in DOMAIN data THEN data[x] ELSE Null
Fits(f, v) == IF v # Null THEN MatchesType(v, f.type) ELSE ~ f.required

\* The value r fits the field, or c is no better: they are one, or both are of a
\* kind that the field does not take.
Covers(f, c, r) ==
  \/ Fits(f, r)
  \/ r = c
  \/ r.t = "number" /\ c.t = "number" /\ f.type \notin {"any", "number", "integer"}
  \/ r.t = "object" /\ c.t = "object" /\ f.type \notin {"any", "object"}

SafeFor(schema, reject, c, r) ==
  /\ reject => DOMAIN r \subseteq DOMAIN c \cup DOMAIN schema \cup {"id"}
  /\ \A x \in DOMAIN schema : Covers(schema[x], At(c, x), At(r, x))

LEMMA Fitting ==
  ASSUME NEW schema, NEW data, NEW reject
  PROVE  ValidateFields(schema, data, reject)
           <=> /\ \A x \in DOMAIN schema : Fits(schema[x], At(data, x))
               /\ reject => DOMAIN data \subseteq DOMAIN schema \cup {"id"}
<1>1. ASSUME NEW x \in DOMAIN schema
      PROVE  (IF IsSet(data, x) THEN MatchesType(data[x], schema[x].type) ELSE ~ schema[x].required)
               <=> Fits(schema[x], At(data, x))
  <2>1. CASE x \in DOMAIN data
    <3>1. At(data, x) = data[x]
      BY <2>1, Zenon DEF At
    <3> QED
      BY <2>1, <3>1, Zenon DEF Fits, IsSet
  <2>2. CASE x \notin DOMAIN data
    <3>1. At(data, x) = Null
      BY <2>2, Zenon DEF At
    <3> QED
      BY <2>2, <3>1, Zenon DEF Fits, IsSet
  <2> QED
    BY <2>1, <2>2
<1> QED
  BY <1>1, Zenon DEF ValidateFields

LEMMA SafeIsValid ==
  ASSUME NEW schema, NEW reject, NEW c, NEW r,
         SafeFor(schema, reject, c, r), ValidateFields(schema, c, reject)
  PROVE  ValidateFields(schema, r, reject)
<1>1. ASSUME NEW f, NEW v, NEW w, Covers(f, v, w), Fits(f, v) PROVE Fits(f, w)
  <2>1. v.t = "number" => v # Null /\ (MatchesType(v, f.type) => f.type \in {"any", "number", "integer"})
    BY DEF Null, MatchesType
  <2>2. v.t = "object" => v # Null /\ (MatchesType(v, f.type) => f.type \in {"any", "object"})
    BY DEF Null, MatchesType
  <2> QED
    BY <1>1, <2>1, <2>2, Zenon DEF Covers, Fits
<1>2. /\ \A x \in DOMAIN schema : Fits(schema[x], At(c, x))
      /\ reject => DOMAIN c \subseteq DOMAIN schema \cup {"id"}
  BY Fitting, Zenon
<1>3. \A x \in DOMAIN schema : Fits(schema[x], At(r, x))
  BY <1>1, <1>2, Zenon DEF SafeFor
<1>4. reject => DOMAIN r \subseteq DOMAIN schema \cup {"id"}
  BY <1>2, Zenon DEF SafeFor
<1> QED
  BY <1>3, <1>4, Fitting, Zenon

LEMMA ValidIsSafe ==
  ASSUME NEW schema, NEW reject, NEW c, NEW r, ValidateFields(schema, r, reject)
  PROVE  SafeFor(schema, reject, c, r)
<1>1. /\ \A x \in DOMAIN schema : Fits(schema[x], At(r, x))
      /\ reject => DOMAIN r \subseteq DOMAIN schema \cup {"id"}
  BY Fitting, Zenon
<1> QED
  BY <1>1, Zenon DEF SafeFor, Covers

LEMMA SameIsSafe ==
  ASSUME NEW schema, NEW reject, NEW c
  PROVE  SafeFor(schema, reject, c, c)
BY Zenon DEF SafeFor, Covers

\* An update of the field x leaves the records safe when it leaves x so.
LEMMA SafeStep ==
  ASSUME NEW schema, NEW reject, NEW c, NEW r, SafeFor(schema, reject, c, r),
         NEW x, NEW cc, NEW rr,
         \A y : y # x => /\ y \in DOMAIN cc <=> y \in DOMAIN c
                         /\ y \in DOMAIN rr <=> y \in DOMAIN r
                         /\ At(cc, y) = At(c, y) /\ At(rr, y) = At(r, y),
         x \in DOMAIN rr => x \in DOMAIN cc \/ (x \in DOMAIN r /\ x \notin DOMAIN c),
         x \in DOMAIN schema => Covers(schema[x], At(cc, x), At(rr, x))
  PROVE  SafeFor(schema, reject, cc, rr)
<1>1. ASSUME NEW y \in DOMAIN schema PROVE Covers(schema[y], At(cc, y), At(rr, y))
  BY Zenon DEF SafeFor
<1>2. ASSUME reject, NEW y \in DOMAIN rr PROVE y \in DOMAIN cc \cup DOMAIN schema \cup {"id"}
  BY <1>2, Zenon DEF SafeFor
<1> QED
  BY <1>1, <1>2, Zenon DEF SafeFor

\* A change of a leaf.
LEMMA LeafCovers ==
  ASSUME NEW f, NEW c, NEW r, Covers(f, c, r), NEW u, IsUpdate(u),
         u.kind = "increment" => u.value.n % 2 = 0,
         NewValue(c, u).ok, NewValue(r, u).ok
  PROVE  Covers(f, NewValue(c, u).data, NewValue(r, u).data)
<1>1. Failed.ok = FALSE /\ \A d : Done(d).data = d
  BY DEF Failed, Done
<1>2. CASE u.kind # "increment"
  <2>1. NewValue(c, u) = NewValue(r, u)
    BY <1>2, Zenon DEF NewValue
  <2> QED
    BY <2>1, Zenon DEF Covers
<1>3. CASE u.kind = "increment"
  <2>1. NewValue(c, u) = Increment(c, u.value) /\ NewValue(r, u) = Increment(r, u.value)
    BY <1>3 DEF NewValue
  <2>2. PICK d : d = u.value.n
    BY Zenon
  <2>3. u.value.t = "number" /\ c.t \in {"null", "number"} /\ r.t \in {"null", "number"}
    BY <1>1, <2>1, Zenon DEF Increment
  <2>4. d \in Int /\ d % 2 = 0
    BY <1>3, <2>2, <2>3, Zenon DEF IsUpdate
  <2>5. PICK m : m = (IF c = Null THEN 0 ELSE c.n) + d
    BY Zenon
  <2>6. PICK n : n = (IF r = Null THEN 0 ELSE r.n) + d
    BY Zenon
  <2>7. NewValue(c, u).data = Num(m) /\ NewValue(r, u).data = Num(n)
    BY <1>1, <2>1, <2>2, <2>3, <2>5, <2>6, Zenon DEF Increment
  <2>8. Num(n).t = "number" /\ Num(m).t = "number" /\ Num(n).n = n /\ Num(n) # Null
    BY DEF Num, Null
  <2>9. CASE f.type \in {"any", "number"}
    <3>1. MatchesType(Num(n), f.type)
      BY <2>8, <2>9 DEF MatchesType
    <3> QED
      BY <2>7, <2>8, <3>1, Zenon DEF Covers, Fits
  <2>10. CASE f.type = "integer"
    <3>1. CASE r = c
      BY <2>5, <2>6, <2>7, <3>1, Zenon DEF Covers
    <3>2. CASE Fits(f, r)
      <4>1. n \in Int /\ n % 2 = 0
        <5>1. CASE r = Null
          BY <2>4, <2>6, <5>1
        <5>2. CASE r # Null
          <6>1. r.n \in Int /\ r.n % 2 = 0
            BY <2>10, <3>2, <5>2 DEF Fits, MatchesType
          <6> QED
            BY <2>4, <2>6, <5>2, <6>1
        <5> QED
          BY <5>1, <5>2
      <4>2. MatchesType(Num(n), f.type)
        BY <2>8, <2>10, <4>1 DEF MatchesType
      <4> QED
        BY <2>7, <2>8, <4>2, Zenon DEF Covers, Fits
    <3>3. "number" # "object" /\ "null" # "object"
      OBVIOUS
    <3> QED
      BY <2>3, <2>10, <3>1, <3>2, <3>3, Zenon DEF Covers
  <2>11. CASE f.type \notin {"any", "number", "integer"}
    BY <2>7, <2>8, <2>11, Zenon DEF Covers
  <2> QED
    BY <2>9, <2>10, <2>11, Zenon
<1> QED
  BY <1>2, <1>3

\* A change inside an object, which makes the value one.
LEMMA ObjectCovers ==
  ASSUME NEW f, NEW a, NEW b
  PROVE  Covers(f, Obj(a), Obj(b))
<1>1. Obj(a).t = "object" /\ Obj(b).t = "object" /\ Obj(b) # Null
  BY DEF Obj, Null
<1>2. f.type \in {"any", "object"} => MatchesType(Obj(b), f.type)
  BY <1>1 DEF MatchesType
<1> QED
  BY <1>1, <1>2, Zenon DEF Covers, Fits

LEMMA AtExtend ==
  ASSUME NEW d, NEW x, NEW v
  PROVE  /\ At(Extend(d, x, v), x) = v /\ x \in DOMAIN Extend(d, x, v)
         /\ \A y : y # x => /\ y \in DOMAIN Extend(d, x, v) <=> y \in DOMAIN d
                            /\ At(Extend(d, x, v), y) = At(d, y)
         /\ At(Without(d, x), x) = Null /\ x \notin DOMAIN Without(d, x)
         /\ \A y : y # x => /\ y \in DOMAIN Without(d, x) <=> y \in DOMAIN d
                            /\ At(Without(d, x), y) = At(d, y)
BY Zenon DEF At, Extend, Without

LEMMA ChangeSafe ==
  ASSUME NEW schema, NEW reject, NEW c, NEW r, SafeFor(schema, reject, c, r),
         NEW u, IsUpdate(u), u.kind = "increment" => u.value.n % 2 = 0,
         NEW path, ChangeAtPath(c, path, u).ok, ChangeAtPath(r, path, u).ok
  PROVE  SafeFor(schema, reject, ChangeAtPath(c, path, u).data, ChangeAtPath(r, path, u).data)
<1>1. Failed.ok = FALSE /\ \A d : Done(d).data = d
  BY DEF Failed, Done
<1>2. PICK x : x = path[1]
  BY Zenon
<1>3. PICK v, w : /\ ChangeAtPath(c, path, u).data = Extend(c, x, v)
                  /\ ChangeAtPath(r, path, u).data = Extend(r, x, w)
                  /\ x \in DOMAIN schema => Covers(schema[x], v, w)
  <2>1. CASE Len(path) = 1
    <3>1. ASSUME NEW d, ChangeAtPath(d, path, u).ok
          PROVE  /\ NewValue(At(d, x), u).ok
                 /\ ChangeAtPath(d, path, u).data = Extend(d, x, NewValue(At(d, x), u).data)
      <4>1. ChangeAtPath(d, path, u) = ChangeLeaf(d, x, u)
        BY <1>2, <2>1, Zenon DEF ChangeAtPath
      <4> QED
        BY <1>1, <3>1, <4>1, Zenon DEF ChangeLeaf, At
    <3>2. x \in DOMAIN schema
            => Covers(schema[x], NewValue(At(c, x), u).data, NewValue(At(r, x), u).data)
      <4> SUFFICES ASSUME x \in DOMAIN schema
                   PROVE  Covers(schema[x], NewValue(At(c, x), u).data, NewValue(At(r, x), u).data)
        OBVIOUS
      <4>1. Covers(schema[x], At(c, x), At(r, x))
        BY Zenon DEF SafeFor
      <4>2. NewValue(At(c, x), u).ok /\ NewValue(At(r, x), u).ok
        BY <3>1, Zenon
      <4> QED
        BY <4>1, <4>2, LeafCovers, Zenon
    <3>3. /\ ChangeAtPath(c, path, u).data = Extend(c, x, NewValue(At(c, x), u).data)
          /\ ChangeAtPath(r, path, u).data = Extend(r, x, NewValue(At(r, x), u).data)
      BY <3>1, Zenon
    <3> QED
      BY <3>2, <3>3, Zenon
  <2>2. CASE Len(path) # 1
    <3>1. ASSUME NEW d, ChangeAtPath(d, path, u).ok
          PROVE  \E o : ChangeAtPath(d, path, u).data = Extend(d, x, Obj(o))
      BY <1>1, <1>2, <2>2, <3>1, Zenon DEF ChangeAtPath
    <3> QED
      BY <3>1, ObjectCovers, Zenon
  <2> QED
    BY <2>1, <2>2
<1>4. PICK cc, rr : cc = Extend(c, x, v) /\ rr = Extend(r, x, w)
  BY Zenon
<1>5. /\ \A y : y # x => /\ y \in DOMAIN cc <=> y \in DOMAIN c
                         /\ y \in DOMAIN rr <=> y \in DOMAIN r
                         /\ At(cc, y) = At(c, y) /\ At(rr, y) = At(r, y)
      /\ x \in DOMAIN cc /\ At(cc, x) = v /\ At(rr, x) = w
  BY <1>4, AtExtend, ZenonT(60)
<1>6. x \in DOMAIN schema => Covers(schema[x], At(cc, x), At(rr, x))
  BY <1>3, <1>5, Zenon
<1>7. SafeFor(schema, reject, cc, rr)
  BY <1>5, <1>6, SafeStep
<1> QED
  BY <1>3, <1>4, <1>7, Zenon

LEMMA DeleteSafe ==
  ASSUME NEW schema, NEW reject, NEW c, NEW r, SafeFor(schema, reject, c, r), NEW path
  PROVE  SafeFor(schema, reject, DeleteAtPath(c, path), DeleteAtPath(r, path))
<1>1. PICK x : x = path[1]
  BY Zenon
<1>2. PICK cc, rr : cc = DeleteAtPath(c, path) /\ rr = DeleteAtPath(r, path)
  BY Zenon
<1>3. CASE Len(path) = 1
  <2>1. cc = Without(c, x) /\ rr = Without(r, x)
    BY <1>1, <1>2, <1>3, Zenon DEF DeleteAtPath
  <2>2. x \in DOMAIN schema => Covers(schema[x], At(cc, x), At(rr, x))
    BY <2>1, AtExtend, Zenon DEF Covers
  <2>3. /\ \A y : y # x => /\ y \in DOMAIN cc <=> y \in DOMAIN c
                           /\ y \in DOMAIN rr <=> y \in DOMAIN r
                           /\ At(cc, y) = At(c, y) /\ At(rr, y) = At(r, y)
        /\ x \notin DOMAIN rr
    BY <2>1, AtExtend, ZenonT(60)
  <2>4. SafeFor(schema, reject, cc, rr)
    BY <2>2, <2>3, SafeStep, SMTT(40)
  <2> QED
    BY <1>2, <2>4
<1>4. CASE Len(path) # 1
  <2>1. ASSUME NEW d
        PROVE  \/ DeleteAtPath(d, path) = d /\ At(d, x).t # "object"
               \/ /\ x \in DOMAIN d /\ At(d, x).t = "object"
                  /\ \E o : DeleteAtPath(d, path) = Extend(d, x, Obj(o))
    <3>1. Null.t # "object"
      BY DEF Null
    <3>2. IsSet(d, x) <=> At(d, x) # Null
      BY Zenon DEF IsSet, At
    <3>3. At(d, x) # Null => x \in DOMAIN d /\ At(d, x) = d[x]
      BY Zenon DEF At
    <3>4. DeleteAtPath(d, path)
            = IF IsSet(d, x) /\ d[x].t = "object"
              THEN Extend(d, x, Obj(Without(d[x].f, path[2]))) ELSE d
      BY <1>1, <1>4, Zenon DEF DeleteAtPath
    <3> QED
      BY <3>1, <3>2, <3>3, <3>4, Zenon
  <2>2. ASSUME NEW d, NEW e, e = DeleteAtPath(d, path)
        PROVE  /\ \A y : /\ y \in DOMAIN e <=> y \in DOMAIN d
                         /\ y # x => At(e, y) = At(d, y)
               /\ \/ At(e, x) = At(d, x) /\ At(d, x).t # "object"
                  \/ At(d, x).t = "object" /\ \E o : At(e, x) = Obj(o)
    <3>1. CASE e = d /\ At(d, x).t # "object"
      BY <3>1, Zenon
    <3>2. CASE /\ x \in DOMAIN d /\ At(d, x).t = "object"
               /\ \E o : e = Extend(d, x, Obj(o))
      <4>1. PICK o : e = Extend(d, x, Obj(o))
        BY <3>2
      <4>2. /\ At(e, x) = Obj(o) /\ x \in DOMAIN e
            /\ \A y : y # x => (y \in DOMAIN e <=> y \in DOMAIN d) /\ At(e, y) = At(d, y)
        BY <4>1, AtExtend, Zenon
      <4> QED
        BY <3>2, <4>2, Zenon
    <3> QED
      BY <2>1, <2>2, <3>1, <3>2, Zenon
  <2>3. x \in DOMAIN schema => Covers(schema[x], At(cc, x), At(rr, x))
    <3> SUFFICES ASSUME x \in DOMAIN schema PROVE Covers(schema[x], At(cc, x), At(rr, x))
      OBVIOUS
    <3>1. PICK f, p, q : f = schema[x] /\ p = At(c, x) /\ q = At(r, x)
      BY Zenon
    <3>2. Covers(f, p, q)
      BY <3>1, Zenon DEF SafeFor
    <3>3. \/ At(cc, x) = p /\ p.t # "object"
          \/ p.t = "object" /\ \E o : At(cc, x) = Obj(o)
      BY <1>2, <2>2, <3>1, Zenon
    <3>4. \/ At(rr, x) = q /\ q.t # "object"
          \/ q.t = "object" /\ \E o : At(rr, x) = Obj(o)
      BY <1>2, <2>2, <3>1, Zenon
    <3>5. CASE p.t # "object" /\ q.t # "object"
      BY <3>1, <3>2, <3>3, <3>4, <3>5, Zenon
    <3>6. CASE p.t = "object" /\ q.t = "object"
      BY <3>3, <3>4, <3>6, ObjectCovers, Zenon
    <3>7. CASE q.t = "object" /\ p.t # "object"
      <4>1. Fits(f, q)
        <5>1. "object" # "number"
          OBVIOUS
        <5> QED
          BY <3>2, <3>7, <5>1, Zenon DEF Covers
      <4>2. ASSUME NEW o PROVE Fits(f, Obj(o))
        <5>1. q # Null /\ Obj(o) # Null /\ Obj(o).t = "object"
          BY <3>7 DEF Null, Obj
        <5>2. MatchesType(q, f.type)
          BY <4>1, <5>1, Zenon DEF Fits
        <5>3. MatchesType(Obj(o), f.type)
          BY <3>7, <5>1, <5>2 DEF MatchesType
        <5> QED
          BY <5>1, <5>3, Zenon DEF Fits
      <4> QED
        BY <3>1, <3>4, <3>7, <4>2, Zenon DEF Covers
    <3>8. CASE q.t # "object" /\ p.t = "object"
      <4>1. Fits(f, q)
        <5>1. "object" # "number"
          OBVIOUS
        <5> QED
          BY <3>2, <3>8, <5>1, Zenon DEF Covers
      <4> QED
        BY <3>1, <3>4, <3>8, <4>1, Zenon DEF Covers
    <3> QED
      BY <3>5, <3>6, <3>7, <3>8
  <2>4. /\ \A y : /\ y \in DOMAIN cc <=> y \in DOMAIN c
                  /\ y # x => At(cc, y) = At(c, y)
        /\ \A y : /\ y \in DOMAIN rr <=> y \in DOMAIN r
                  /\ y # x => At(rr, y) = At(r, y)
    BY <1>2, <2>2, ZenonT(60)
  <2>5. SafeFor(schema, reject, cc, rr)
    BY <2>3, <2>4, SafeStep, SMTT(40)
  <2> QED
    BY <1>2, <2>5
<1> QED
  BY <1>3, <1>4

LEMMA UpdateSafe ==
  ASSUME NEW schema, NEW reject, NEW c, NEW r, SafeFor(schema, reject, c, r),
         NEW u, IsUpdate(u), u.kind = "increment" => u.value.n % 2 = 0,
         ApplyUpdate(c, u).ok, ApplyUpdate(r, u).ok
  PROVE  SafeFor(schema, reject, ApplyUpdate(c, u).data, ApplyUpdate(r, u).data)
<1>1. Failed.ok = FALSE /\ \A d : Done(d).data = d
  BY DEF Failed, Done
<1>2. PICK path : path = IF u.name # <<>> THEN u.name ELSE u.path
  BY Zenon
<1>3. CASE u.kind = "delete"
  <2>1. \A d : ApplyUpdate(d, u).ok => ApplyUpdate(d, u).data = DeleteAtPath(d, path)
    BY <1>1, <1>2, <1>3, Zenon DEF ApplyUpdate
  <2> QED
    BY <2>1, DeleteSafe, Zenon
<1>4. CASE u.kind # "delete"
  <2>1. \A d : ApplyUpdate(d, u).ok => ApplyUpdate(d, u) = ChangeAtPath(d, path, u)
    BY <1>1, <1>2, <1>4, Zenon DEF ApplyUpdate
  <2>2. ChangeAtPath(c, path, u).ok /\ ChangeAtPath(r, path, u).ok
    BY <2>1, Zenon
  <2>3. SafeFor(schema, reject, ChangeAtPath(c, path, u).data, ChangeAtPath(r, path, u).data)
    BY <2>2, ChangeSafe, Zenon
  <2>4. ApplyUpdate(c, u) = ChangeAtPath(c, path, u) /\ ApplyUpdate(r, u) = ChangeAtPath(r, path, u)
    BY <2>1, Zenon
  <2> QED
    BY <2>3, <2>4, Zenon
<1> QED
  BY <1>3, <1>4

LEMMA UpdatesSafe ==
  ASSUME NEW schema, NEW reject, NEW c, NEW r, SafeFor(schema, reject, c, r),
         NEW updates, IsUpdates(updates), WholeUpdates(updates),
         ApplyUpdates(c, updates).ok, ApplyUpdates(r, ToDalUpdates(updates)).ok
  PROVE  SafeFor(schema, reject, ApplyUpdates(c, updates).data,
                 ApplyUpdates(r, ToDalUpdates(updates)).data)
<1>1. PICK L \in Nat : L = Len(updates)
  BY Zenon DEF IsUpdates
<1>2. PICK given : given = ToDalUpdates(updates)
  BY Zenon
<1>3. PICK g : RunsUpdates(g, c, updates, L) /\ ApplyUpdates(c, updates) = g[L]
  BY <1>1, UpdatesRun, Zenon
<1>4. L = Len(given)
  BY <1>1, <1>2, DalLength, Zenon
<1>5. PICK h : RunsUpdates(h, r, given, L) /\ ApplyUpdates(r, given) = h[L]
  BY <1>4, UpdatesRun, Zenon
<1>6. PICK S : S = {i \in 0 .. L : g[i].ok /\ h[i].ok => SafeFor(schema, reject, g[i].data, h[i].data)}
  BY Zenon
<1>7. 0 \in S
  <2>1. 0 \in 0 .. L
    OBVIOUS
  <2>2. g[0].data = c /\ h[0].data = r
    BY <1>3, <1>5, SMTT(40) DEF RunsUpdates, Done
  <2> QED
    BY <1>6, <2>1, <2>2, Zenon
<1>8. ASSUME NEW i \in 1 .. L, i - 1 \in S PROVE i \in S
  <2>1. i \in 0 .. L /\ i \in DOMAIN updates
    BY <1>1 DEF IsUpdates
  <2> SUFFICES ASSUME g[i].ok, h[i].ok PROVE SafeFor(schema, reject, g[i].data, h[i].data)
    BY <1>6, <2>1, Zenon
  <2>2. g[i] = AfterUpdate(g[i - 1], updates[i]) /\ h[i] = AfterUpdate(h[i - 1], given[i])
    BY <1>3, <1>5, Zenon DEF RunsUpdates
  <2>3. Failed.ok = FALSE
    BY DEF Failed
  <2>4. /\ g[i - 1].ok /\ g[i] = ApplyUpdate(g[i - 1].data, updates[i])
        /\ h[i - 1].ok /\ h[i] = ApplyUpdate(h[i - 1].data, given[i])
    BY <2>2, <2>3, Zenon DEF AfterUpdate
  <2>5. given[i] = updates[i]
    BY <1>2, <2>1, <2>4, DalIsSame, Zenon
  <2>6. SafeFor(schema, reject, g[i - 1].data, h[i - 1].data)
    BY <1>6, <1>8, <2>4, Zenon
  <2>7. IsUpdate(updates[i]) /\ (updates[i].kind = "increment" => updates[i].value.n % 2 = 0)
    BY <2>1, Zenon DEF IsUpdates, WholeUpdates
  <2> QED
    BY <2>4, <2>5, <2>6, <2>7, UpdateSafe, Zenon
<1>9. L \in S
  BY <1>7, <1>8, UpTo, Zenon
<1> QED
  BY <1>2, <1>3, <1>5, <1>6, <1>9, Zenon

\* The records of a batch, as the stage has them and as they are stored.
RecordsSafe(reject, stage, stored) ==
  /\ \A k : k \in DOMAIN stage <=> k \in DOMAIN stored
  /\ \A k \in DOMAIN stored :
       k[1] \in SchemaKeys => SafeFor(SchemaOf[k[1]], reject, stage[k], stored[k])

LEMMA ExtendSafe ==
  ASSUME NEW reject, NEW stage, NEW stored, RecordsSafe(reject, stage, stored), NEW k, NEW c, NEW r,
         k[1] \in SchemaKeys => SafeFor(SchemaOf[k[1]], reject, c, r)
  PROVE  /\ RecordsSafe(reject, Extend(stage, k, c), Extend(stored, k, r))
         /\ RecordsSafe(reject, Without(stage, k), Without(stored, k))
<1>1. PICK a, b : a = Extend(stage, k, c) /\ b = Extend(stored, k, r)
  BY Zenon
<1>2. /\ \A l : l \in DOMAIN a <=> l \in DOMAIN stage \/ l = k
      /\ \A l : l \in DOMAIN b <=> l \in DOMAIN stored \/ l = k
      /\ \A l \in DOMAIN a : a[l] = IF l = k THEN c ELSE stage[l]
      /\ \A l \in DOMAIN b : b[l] = IF l = k THEN r ELSE stored[l]
  BY <1>1, Zenon DEF Extend
<1>3. RecordsSafe(reject, a, b)
  BY <1>2, Zenon DEF RecordsSafe
<1>4. PICK d, e : d = Without(stage, k) /\ e = Without(stored, k)
  BY Zenon
<1>5. /\ \A l : l \in DOMAIN d <=> l \in DOMAIN stage /\ l # k
      /\ \A l : l \in DOMAIN e <=> l \in DOMAIN stored /\ l # k
      /\ \A l \in DOMAIN d : d[l] = stage[l]
      /\ \A l \in DOMAIN e : e[l] = stored[l]
  BY <1>4, Zenon DEF Without
<1>6. RecordsSafe(reject, d, e)
  BY <1>5, Zenon DEF RecordsSafe
<1> QED
  BY <1>1, <1>3, <1>4, <1>6, Zenon

LEMMA EffectSafe ==
  ASSUME NEW reject, NEW stage, NEW stored, RecordsSafe(reject, stage, stored),
         NEW op, NEW updates, IsUpdates(updates), WholeUpdates(updates),
         OpEffect(stage, op, updates, FALSE).ok,
         OpEffect(stored, op, ToDalUpdates(updates), FALSE).ok
  PROVE  RecordsSafe(reject, OpEffect(stage, op, updates, FALSE).data,
                     OpEffect(stored, op, ToDalUpdates(updates), FALSE).data)
<1>1. Failed.ok = FALSE /\ \A d : Done(d).data = d
  BY DEF Failed, Done
<1>2. PICK k : k = AdapterKey(op)
  BY Zenon
<1>3. PICK given : given = ToDalUpdates(updates)
  BY Zenon
<1>4. PICK a, b : a = OpEffect(stage, op, updates, FALSE) /\ b = OpEffect(stored, op, given, FALSE)
  BY Zenon
<1>5. a.ok /\ b.ok
  BY <1>3, <1>4, Zenon
<1>6. CASE op.op \in {"set", "insert"}
  <2>1. \A recs, u : OpEffect(recs, op, u, FALSE).ok
                       => OpEffect(recs, op, u, FALSE).data = Extend(recs, k, op.data)
    BY <1>1, <1>2, <1>6 DEF OpEffect
  <2>2. a.data = Extend(stage, k, op.data) /\ b.data = Extend(stored, k, op.data)
    BY <1>4, <1>5, <2>1, Zenon
  <2> QED
    BY <1>3, <1>4, <2>2, SameIsSafe, ExtendSafe, Zenon
<1>7. CASE op.op = "delete"
  <2>1. \A recs, u : OpEffect(recs, op, u, FALSE).data = Without(recs, k)
    BY <1>1, <1>2, <1>7 DEF OpEffect
  <2>2. a.data = Without(stage, k) /\ b.data = Without(stored, k)
    BY <1>4, <2>1, Zenon
  <2> QED
    BY <1>3, <1>4, <2>2, SameIsSafe, ExtendSafe, Zenon
<1>8. CASE op.op = "update"
  <2>1. \A recs, u : OpEffect(recs, op, u, FALSE)
                       = IF k \notin DOMAIN recs THEN Failed
                         ELSE IF ApplyUpdates(recs[k], u).ok
                         THEN Done(Extend(recs, k, ApplyUpdates(recs[k], u).data)) ELSE Failed
    BY <1>2, <1>8 DEF OpEffect
  <2>2. /\ k \in DOMAIN stage /\ ApplyUpdates(stage[k], updates).ok
        /\ a.data = Extend(stage, k, ApplyUpdates(stage[k], updates).data)
    BY <1>1, <1>4, <1>5, <2>1, Zenon
  <2>3. /\ k \in DOMAIN stored /\ ApplyUpdates(stored[k], given).ok
        /\ b.data = Extend(stored, k, ApplyUpdates(stored[k], given).data)
    BY <1>1, <1>4, <1>5, <2>1, Zenon
  <2>4. k[1] \in SchemaKeys
          => SafeFor(SchemaOf[k[1]], reject, ApplyUpdates(stage[k], updates).data,
                     ApplyUpdates(stored[k], given).data)
    <3>1. k[1] \in SchemaKeys => SafeFor(SchemaOf[k[1]], reject, stage[k], stored[k])
      BY <2>3, Zenon DEF RecordsSafe
    <3> QED
      BY <1>3, <2>2, <2>3, <3>1, UpdatesSafe, Zenon
  <2> QED
    BY <1>3, <1>4, <2>2, <2>3, <2>4, ExtendSafe, Zenon
<1>9. CASE op.op \notin {"set", "insert", "delete", "update"}
  <2>1. a = Failed
    BY <1>4, <1>9 DEF OpEffect
  <2> QED
    BY <1>1, <1>5, <2>1
<1> QED
  BY <1>6, <1>7, <1>8, <1>9, Zenon

LEMMA RunsSafe ==
  ASSUME NEW reject, NEW loaded, NEW recs, RecordsSafe(reject, loaded, recs),
         NEW batch \in Batches, IsWhole(batch), Stage(loaded, batch).ok,
         NEW given, AreGiven(given, batch),
         RunOps(recs, batch, given, FALSE).ok
  PROVE  RecordsSafe(reject, Stage(loaded, batch).data, RunOps(recs, batch, given, FALSE).data)
<1>0. PICK keeps : keeps = FALSE
  BY Zenon
<1>1. PICK L \in Nat : L = Len(batch) /\ DOMAIN batch = 1 .. L
  BY BatchAssumption
<1>2. PICK sent : sent = [i \in DOMAIN batch |-> batch[i].updates]
  BY Zenon
<1>3. PICK g : RunsOps(g, loaded, batch, sent, keeps, L) /\ RunOps(loaded, batch, sent, keeps) = g[L]
  BY <1>1, OpsRun
<1>4. PICK h : RunsOps(h, recs, batch, given, keeps, L) /\ RunOps(recs, batch, given, keeps) = h[L]
  BY <1>1, OpsRun
<1>5. PICK S : S = {i \in 0 .. L : g[i].ok /\ h[i].ok => RecordsSafe(reject, g[i].data, h[i].data)}
  BY Zenon
<1>6. 0 \in S
  <2>1. 0 \in 0 .. L
    OBVIOUS
  <2>2. g[0].data = loaded /\ h[0].data = recs
    BY <1>3, <1>4, SMTT(40) DEF RunsOps, Done
  <2> QED
    BY <1>5, <2>1, <2>2, Zenon
<1>7. ASSUME NEW i \in 1 .. L, i - 1 \in S PROVE i \in S
  <2>1. i \in 0 .. L /\ i \in DOMAIN batch
    BY <1>1
  <2> SUFFICES ASSUME g[i].ok, h[i].ok PROVE RecordsSafe(reject, g[i].data, h[i].data)
    BY <1>5, <2>1, Zenon
  <2>2. PICK updates : updates = batch[i].updates
    BY Zenon
  <2>3. sent[i] = updates /\ given[i] = ToDalUpdates(updates)
    BY <1>2, <2>1, <2>2, Zenon DEF AreGiven
  <2>4. /\ g[i] = AfterOp(g[i - 1], batch[i], updates, keeps)
        /\ h[i] = AfterOp(h[i - 1], batch[i], ToDalUpdates(updates), keeps)
    BY <1>3, <1>4, <2>3, Zenon DEF RunsOps
  <2>5. Failed.ok = FALSE
    BY DEF Failed
  <2>6. /\ g[i - 1].ok /\ g[i] = OpEffect(g[i - 1].data, batch[i], updates, FALSE)
        /\ h[i - 1].ok /\ h[i] = OpEffect(h[i - 1].data, batch[i], ToDalUpdates(updates), FALSE)
    BY <1>0, <2>4, <2>5, Zenon DEF AfterOp
  <2>7. IsUpdates(updates) /\ WholeUpdates(updates)
    BY <2>1, <2>2, BatchAssumption, Zenon DEF IsUpdates, WholeUpdates, IsWhole
  <2>8. RecordsSafe(reject, g[i - 1].data, h[i - 1].data)
    BY <1>5, <1>7, <2>6, Zenon
  <2> QED
    BY <2>6, <2>7, <2>8, EffectSafe, Zenon
<1>8. L \in S
  BY <1>6, <1>7, UpTo, Zenon
<1>9. g[L] = Stage(loaded, batch) /\ h[L] = RunOps(recs, batch, given, FALSE)
  BY <1>0, <1>2, <1>3, <1>4, Zenon DEF Stage
<1> QED
  BY <1>5, <1>8, <1>9, Zenon
-----------------------------------------------------------------------------
(* What a batch loads. *)

LEMMA LoadsNamed ==
  ASSUME NEW batch, NEW loaded \in Loads(batch)
  PROVE  /\ \A k : k \in DOMAIN loaded <=> k \in DOMAIN rows
         /\ loaded = [k \in DOMAIN rows |-> loaded[k]]
         /\ \A k \in DOMAIN rows :
              loaded[k] = rows[k] \/ loaded[k] \in CoerceToSchema(k[1], rows[k])
<1>1. PICK named, read : /\ named = Touched(batch) \cap DOMAIN rows
                         /\ read = [k \in named |-> CoerceToSchema(k[1], rows[k])]
  BY Zenon
<1>2. PICK f : /\ loaded = [k \in DOMAIN rows |-> IF k \in named THEN f[k] ELSE rows[k]]
               /\ \A k \in named : f[k] \in read[k]
  BY <1>1, Zenon DEF Loads
<1> QED
  BY <1>1, <1>2, Zenon

\* coerceToSchema leaves a record alone that a strict schema admits, when its
\* fields fold apart.
LEMMA CoercedIsSame ==
  ASSUME FieldsFoldApart, NEW key \in SchemaKeys, NEW schema, schema = SchemaOf[key],
         NEW data, IsFcn(data), ValidateFields(schema, data, TRUE)
  PROVE  /\ \A w \in SUBSET DOMAIN schema : \A r \in Renamed(data, w) : r = data
         /\ AsBooleans(schema, data) = data
<1>1. /\ \A x \in DOMAIN schema : Fits(schema[x], At(data, x))
      /\ DOMAIN data \subseteq DOMAIN schema \cup {"id"}
  BY Fitting, Zenon
<1>2. \A d \in DOMAIN schema : Variants(data, d) = {}
  BY <1>1, Zenon DEF Variants, FieldsFoldApart
<1>3. ASSUME NEW w \in SUBSET DOMAIN schema, NEW r \in Renamed(data, w) PROVE r = data
  <2> DEFINE changed == {d \in w : Variants(data, d) # {}}
             gone == UNION {Variants(data, d) : d \in w}
             froms == {f \in [changed -> gone] : \A d \in changed : f[d] \in Variants(data, d)}
             Form(from) == [x \in (DOMAIN data \ gone) \cup changed |->
                              data[IF x \in changed THEN from[x] ELSE x]]
  <2>1. changed = {}
    BY <1>2, Zenon
  <2>2. gone = {}
    BY <1>2
  <2>3. r \in {Form(from) : from \in froms}
    BY <1>3, Zenon DEF Renamed
  <2>4. PICK from : r = Form(from)
    <3> HIDE DEF froms, Form
    <3> QED
      BY <2>3, Zenon
  <2> HIDE DEF changed, gone
  <2>5. (DOMAIN data \ gone) \cup changed = DOMAIN data
    BY <2>1, <2>2
  <2>6. r = [x \in DOMAIN data |-> data[x]]
    BY <2>1, <2>4, <2>5, Zenon
  <2> QED
    BY <2>6, Zenon DEF IsFcn
<1>4. AsBooleans(schema, data) = data
  <2>1. ASSUME NEW x \in DOMAIN data, x \in DOMAIN schema, schema[x].type = "boolean"
        PROVE  data[x].t # "number"
    <3>1. Fits(schema[x], data[x])
      BY <1>1, <2>1, Zenon DEF At
    <3>2. data[x] = Null => data[x].t = "null"
      BY DEF Null
    <3>3. data[x] # Null => data[x].t = "boolean"
      BY <2>1, <3>1 DEF Fits, MatchesType
    <3>4. "null" # "number" /\ "boolean" # "number"
      OBVIOUS
    <3> QED
      BY <3>2, <3>3, <3>4, Zenon
  <2>2. AsBooleans(schema, data) = [x \in DOMAIN data |-> data[x]]
    BY <2>1, Zenon DEF AsBooleans
  <2> QED
    BY <2>2, Zenon DEF IsFcn
<1> QED
  BY <1>3, <1>4
-----------------------------------------------------------------------------
(* The inductive invariant. *)

\* Get reads the records of a strict schema as they are.
StrictIsRead == mode = "strict" /\ FieldsFoldApart => ~ drifted

ContentsInv ==
  /\ storage \in {"sql", "document"} /\ ModeInv
  /\ ~ NamesConflict(SchemaKeys)
  /\ \A k \in DOMAIN rows : NamedWell(k)
  /\ AreRecords(rows)
  /\ storage = "document" /\ whole => StrictIsRead /\ (~ drifted => rows = staged)
  /\ StoredIsValid

LEMMA ContentsInit == BatchInit => ContentsInv
<1> SUFFICES ASSUME BatchInit PROVE ContentsInv
  OBVIOUS
<1>1. DOMAIN rows = {} /\ rows = staged /\ ~ NamesConflict(SchemaKeys) /\ ~ drifted
  BY DEF BatchInit, NoFields
<1>2. AreRecords(rows)
  <2>1. rows = [x \in {} |-> Null]
    BY DEF BatchInit, NoFields
  <2> QED
    BY <1>1, <2>1, Zenon DEF AreRecords, IsFcn
<1>3. storage \in {"sql", "document"} /\ ModeInv
  BY DEF BatchInit, ModeInv
<1> QED
  BY <1>1, <1>2, <1>3, Zenon DEF ContentsInv, StoredIsValid, StrictIsRead

\* The tables of names stay as they are.
LEMMA NamesStay ==
  ASSUME UNCHANGED storage
  PROVE  /\ Spellings(SchemaKeys)' = Spellings(SchemaKeys)
         /\ \A n : IsDeclared(n)' <=> IsDeclared(n)
         /\ \A n : CanonicalCollection(n)' = CanonicalCollection(n)
         /\ NamesConflict(SchemaKeys)' <=> NamesConflict(SchemaKeys)
<1>1. \A k : Canonical(k)' = Canonical(k)
  BY DEF Canonical
<1>2. Spellings(SchemaKeys)' = Spellings(SchemaKeys)
  BY <1>1 DEF Spellings
<1>3. \A n : IsDeclared(n)' <=> IsDeclared(n)
  BY <1>2, Zenon DEF IsDeclared
<1>4. \A n : CanonicalCollection(n)' = CanonicalCollection(n)
  <2>1. \A n : CanonicalCollection(n) = NameIn(Spellings(SchemaKeys), n)
    BY Zenon DEF CanonicalCollection, NameIn
  <2>2. \A n : CanonicalCollection(n)' = NameIn(Spellings(SchemaKeys)', n)
    BY Zenon DEF CanonicalCollection, NameIn
  <2> QED
    BY <1>2, <2>1, <2>2, Zenon
<1>5. NamesConflict(SchemaKeys)' <=> NamesConflict(SchemaKeys)
  BY <1>1, <1>2, ZenonT(60) DEF NamesConflict
<1> QED
  BY <1>2, <1>3, <1>4, <1>5, Zenon

LEMMA StrictLoads ==
  ASSUME ContentsInv, storage = "document", whole, mode = "strict", FieldsFoldApart,
         NEW batch, NEW loaded \in Loads(batch)
  PROVE  loaded = rows
<1>1. /\ loaded = [k \in DOMAIN rows |-> loaded[k]]
      /\ \A k \in DOMAIN rows :
           loaded[k] = rows[k] \/ loaded[k] \in CoerceToSchema(k[1], rows[k])
  BY LoadsNamed, Zenon
<1>2. ASSUME NEW k \in DOMAIN rows, loaded[k] \in CoerceToSchema(k[1], rows[k])
      PROVE  loaded[k] = rows[k]
  <2>1. PICK n, data : n = k[1] /\ data = rows[k]
    BY Zenon
  <2>2. IsFcn(data)
    BY <2>1, Zenon DEF ContentsInv, AreRecords
  <2>3. Admitted(mode, n, data)
    <3>1. ValidateRecord(n, data)
      BY <2>1, Zenon DEF ContentsInv, StoredIsValid
    <3> QED
      BY <3>1, AdmittedNow, Zenon DEF ContentsInv, ValidIsAdmitted
  <2>4. n \in SchemaKeys /\ ValidateFields(SchemaOf[n], data, TRUE)
    BY <2>3 DEF Admitted
  <2>5. PICK schema : schema = SchemaOf[n]
    BY Zenon
  <2>6. HasSchema(n) /\ SchemaCollection(n) = schema
    BY <2>4, <2>5, DocumentSchema, Zenon
  <2>7. /\ \A w \in SUBSET DOMAIN schema : \A r \in Renamed(data, w) : r = data
        /\ AsBooleans(schema, data) = data
    BY <2>2, <2>4, <2>5, CoercedIsSame, Zenon
  <2>8. PICK renamed : renamed = UNION {Renamed(data, w) : w \in DeclaredCases(schema)}
    BY Zenon
  <2>9. \A r \in renamed : r = data
    BY <2>7, <2>8, Zenon DEF DeclaredCases
  <2>10. loaded[k] \in renamed \cup {AsBooleans(schema, r) : r \in renamed}
    BY <1>2, <2>1, <2>6, <2>8, Zenon DEF CoerceToSchema
  <2> QED
    BY <2>1, <2>7, <2>9, <2>10, Zenon
<1>3. rows = [k \in DOMAIN rows |-> rows[k]]
  BY Zenon DEF ContentsInv, AreRecords, IsFcn
<1> QED
  BY <1>1, <1>2, <1>3, Zenon

LEMMA ApplyKeeps ==
  ASSUME ContentsInv, NEW batch \in Batches, Apply(batch)
  PROVE  ContentsInv'
<1>1. /\ GuardWrite(batch) /\ whole' = (whole /\ IsWhole(batch))
      /\ storage' = storage /\ mode' = mode
  BY Zenon DEF Apply
<1>2. PICK loaded \in Loads(batch) : /\ Stage(loaded, batch).ok
                                     /\ StageIsValid(Stage(loaded, batch).data, batch)
                                     /\ staged' = Stage(loaded, batch).data
                                     /\ drifted' = (loaded # rows)
  BY Zenon DEF Apply
<1>3. PICK given, keeps : /\ given = [i \in DOMAIN batch |-> ToDalUpdates(batch[i].updates)]
                          /\ keeps \in {FALSE, storage = "sql"}
                          /\ RunOps(rows, batch, given, keeps).ok
                          /\ rows' = RunOps(rows, batch, given, keeps).data
  BY Zenon DEF Apply
<1>4. storage \in {"sql", "document"} /\ ModeInv /\ ~ NamesConflict(SchemaKeys) /\ AreRecords(rows)
  BY Zenon DEF ContentsInv
<1>5. /\ storage' \in {"sql", "document"} /\ ModeInv'
      /\ \A n : IsDeclared(n)' <=> IsDeclared(n)
      /\ \A n : CanonicalCollection(n)' = CanonicalCollection(n)
      /\ ~ NamesConflict(SchemaKeys)'
  BY <1>1, <1>4, NamesStay, Zenon DEF ModeInv
<1>6. AreGiven(given, batch)
  BY <1>3, Zenon DEF AreGiven
<1>7. SameBut(rows', rows, Touched(batch)) /\ AreRecords(rows')
  BY <1>3, <1>4, <1>6, RunFrame, FcnRun, Zenon
<1>8. \A k \in DOMAIN rows' : NamedWell(k)'
  <2> SUFFICES ASSUME NEW k \in DOMAIN rows' PROVE NamedWell(k)'
    BY Zenon
  <2>1. k \in DOMAIN rows \/ k \in Touched(batch)
    BY <1>7, Zenon DEF SameBut
  <2>2. k \in Touched(batch) => NamedWell(k)
    BY <1>1, <1>4, AdapterNames, Zenon
  <2>3. NamedWell(k)
    BY <2>1, <2>2, Zenon DEF ContentsInv
  <2> QED
    BY <1>5, <2>3, Zenon DEF NamedWell
<1>9. ASSUME storage' = "document", whole'
      PROVE  keeps = FALSE /\ storage = "document" /\ whole /\ IsWhole(batch)
  <2>1. "document" # "sql"
    OBVIOUS
  <2> QED
    BY <1>1, <1>3, <1>9, <2>1, Zenon
<1>10. storage' = "document" /\ whole' => StrictIsRead' /\ (~ drifted' => rows' = staged')
  <2> SUFFICES ASSUME storage' = "document", whole'
               PROVE  StrictIsRead' /\ (~ drifted' => rows' = staged')
    BY Zenon
  <2>1. StrictIsRead'
    BY <1>1, <1>2, <1>9, StrictLoads, Zenon DEF StrictIsRead
  <2>2. ASSUME ~ drifted' PROVE rows' = staged'
    <3>1. loaded = rows
      BY <1>2, <2>2, Zenon
    <3>2. RunOps(rows, batch, [i \in DOMAIN batch |-> ToDalUpdates(batch[i].updates)], FALSE)
            = Stage(rows, batch)
      BY <1>2, <1>9, <3>1, RunsSame, Zenon
    <3> QED
      BY <1>2, <1>3, <1>9, <3>1, <3>2, Zenon
  <2> QED
    BY <2>1, <2>2
<1>11. StoredIsValid'
  <2> SUFFICES ASSUME storage' = "document", whole', NEW k \in DOMAIN rows'
               PROVE  ValidateRecord(k[1], rows[k])'
    BY Zenon DEF StoredIsValid
  <2>1. keeps = FALSE /\ storage = "document" /\ whole /\ IsWhole(batch)
    BY <1>9
  <2>2. PICK n, data : n = k[1] /\ data = rows'[k]
    BY Zenon
  <2>3. k \notin Touched(batch) => k \in DOMAIN rows /\ data = rows[k]
    BY <1>7, <2>2, Zenon DEF SameBut
  <2>4. \A m, d : ValidateRecord(m, d) <=> Admitted(mode, m, d)
    BY <1>4, <2>1, AdmittedNow, Zenon DEF ValidIsAdmitted
  <2>5. \A l \in DOMAIN rows : Admitted(mode, l[1], rows[l])
    BY <2>1, <2>4, Zenon DEF ContentsInv, StoredIsValid
  <2>6. Admitted(mode, n, data)
    <3>1. CASE k \notin Touched(batch)
      BY <2>2, <2>3, <2>5, <3>1, Zenon
    <3>2. CASE mode = "schemaless"
      BY <3>2 DEF Admitted
    <3>3. CASE k \in Touched(batch) /\ mode # "schemaless"
      <4>1. PICK reject : reject = (mode = "strict")
        BY Zenon
      <4>2. \A m, d : Admitted(mode, m, d)
                       <=> /\ m \in SchemaKeys => ValidateFields(SchemaOf[m], d, reject)
                           /\ reject => m \in SchemaKeys
        <5>1. CASE mode = "strict"
          <6>1. reject = TRUE
            BY <4>1, <5>1, Zenon
          <6> QED
            BY <5>1, <6>1 DEF Admitted
        <5>2. CASE mode = "partial"
          <6>1. reject = FALSE
            BY <4>1, <5>2
          <6> QED
            BY <5>2, <6>1 DEF Admitted
        <5> QED
          BY <1>4, <3>3, <5>1, <5>2, Zenon DEF ModeInv
      <4>3. RecordsSafe(reject, loaded, rows)
        <5>1. \A l : l \in DOMAIN loaded <=> l \in DOMAIN rows
          BY LoadsNamed, Zenon
        <5>2. ASSUME NEW l \in DOMAIN rows, l[1] \in SchemaKeys
              PROVE  SafeFor(SchemaOf[l[1]], reject, loaded[l], rows[l])
          BY <2>5, <4>2, <5>2, ValidIsSafe, Zenon
        <5> QED
          BY <5>1, <5>2, Zenon DEF RecordsSafe
      <4>4. PICK stage : stage = Stage(loaded, batch).data
        BY Zenon
      <4>5. RecordsSafe(reject, stage, rows')
        BY <1>2, <1>3, <1>6, <2>1, <4>3, <4>4, RunsSafe, Zenon
      <4>6. k \in DOMAIN stage /\ (n \in SchemaKeys => SafeFor(SchemaOf[n], reject, stage[k], data))
        BY <2>2, <4>5, Zenon DEF RecordsSafe
      <4>7. Admitted(mode, n, stage[k])
        BY <1>2, <2>2, <2>4, <3>3, <4>4, <4>6, Zenon DEF StageIsValid
      <4> QED
        BY <4>2, <4>6, <4>7, SafeIsValid, Zenon
    <3> QED
      BY <3>1, <3>2, <3>3
  <2>7. ValidateRecord(n, data)' <=> Admitted(mode', n, data)
    BY <1>5, AdmittedThen, Zenon DEF ValidIsAdmitted
  <2> QED
    BY <1>1, <2>2, <2>6, <2>7, Zenon
<1> QED
  BY <1>5, <1>7, <1>8, <1>10, <1>11, Zenon DEF ContentsInv

\* ContentsInv holds of every state that batches lead to.
THEOREM ContentsInvariant == BatchSpec => []ContentsInv
<1>1. ASSUME ContentsInv, [BatchNext]_batchVars PROVE ContentsInv'
  <2>1. CASE BatchNext
    BY <1>1, <2>1, ApplyKeeps, Zenon DEF BatchNext
  <2>2. CASE UNCHANGED batchVars
    <3>1. /\ storage' = storage /\ mode' = mode /\ rows' = rows
          /\ staged' = staged /\ drifted' = drifted /\ whole' = whole
      BY <2>2, Zenon DEF batchVars
    <3>2. /\ \A n : IsDeclared(n)' <=> IsDeclared(n)
          /\ \A n : CanonicalCollection(n)' = CanonicalCollection(n)
          /\ NamesConflict(SchemaKeys)' <=> NamesConflict(SchemaKeys)
      BY <3>1, NamesStay, Zenon
    <3>3. ModeInv /\ ModeInv'
      BY <1>1, <3>1, Zenon DEF ContentsInv, ModeInv
    <3>4. \A k \in DOMAIN rows' : NamedWell(k)'
      BY <1>1, <3>1, <3>2, Zenon DEF ContentsInv, NamedWell
    <3>5. StoredIsValid'
      <4> SUFFICES ASSUME storage' = "document", whole', NEW k \in DOMAIN rows'
                   PROVE  ValidateRecord(k[1], rows[k])'
        BY Zenon DEF StoredIsValid
      <4>1. PICK n, data : n = k[1] /\ data = rows'[k]
        BY Zenon
      <4>2. ValidateRecord(n, data)
        BY <1>1, <3>1, <4>1, Zenon DEF ContentsInv, StoredIsValid
      <4>3. ValidateRecord(n, data) <=> Admitted(mode, n, data)
        BY <3>1, <3>3, AdmittedNow, Zenon DEF ValidIsAdmitted
      <4>4. ValidateRecord(n, data)' <=> Admitted(mode', n, data)
        BY <3>3, AdmittedThen, Zenon DEF ValidIsAdmitted
      <4> QED
        BY <3>1, <4>1, <4>2, <4>3, <4>4, Zenon
    <3> QED
      BY <1>1, <3>1, <3>2, <3>3, <3>4, <3>5, Zenon DEF ContentsInv, StrictIsRead
  <2> QED
    BY <1>1, <2>1, <2>2
<1> QED
  BY <1>1, ContentsInit, PTL DEF BatchSpec

\* Whatever schemas are declared and whatever batches are applied, what a
\* document engine stores is what validateOps simulated, as long as no increment
\* had a fraction and Get read the records of the last batch as they are stored;
\* under a strict schema whose fields fold apart it always does.  And no engine
\* stores a collection under two spellings.
THEOREM StoredStaysStaged == BatchSpec => []StoredIsStaged
<1>1. ContentsInv => StoredIsStaged
  <2> SUFFICES ASSUME ContentsInv PROVE StoredIsStaged
    OBVIOUS
  <2>1. ASSUME NEW k \in DOMAIN rows, NEW l \in DOMAIN rows, k[2] = l[2],
               IsDeclared(k[1]), IsDeclared(l[1]),
               CanonicalCollection(k[1]) = CanonicalCollection(l[1])
        PROVE  k = l
    <3>1. NamedWell(k) /\ NamedWell(l)
      BY Zenon DEF ContentsInv
    <3>2. k = <<k[1], k[2]>> /\ l = <<l[1], l[2]>> /\ k[1] = l[1]
      BY <2>1, <3>1, Zenon DEF NamedWell
    <3> QED
      BY <2>1, <3>2, Zenon
  <2> QED
    BY <2>1, Zenon DEF ContentsInv, StoredIsStaged, StrictIsRead
<1> QED
  BY <1>1, ContentsInvariant, PTL

\* Whatever schemas are declared and whatever batches are applied, every record
\* of a document engine is one that its schema admits, as long as no increment
\* had a fraction: validateOps validates the records that a batch touches, and
\* the driver leaves the others alone.  That Get may have coerced the record that
\* was validated does not matter: an update leaves a field alone, or makes it the
\* same or of the same kind in both.
THEOREM StoredStaysValid == BatchSpec => []StoredIsValid
<1>1. ContentsInv => StoredIsValid
  BY Zenon DEF ContentsInv
<1> QED
  BY <1>1, ContentsInvariant, PTL
===============================================================================

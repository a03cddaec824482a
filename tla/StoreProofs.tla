----------------------------- MODULE StoreProofs -----------------------------
(***************************************************************************)
(* Proofs about what is kept in files across restarts.                     *)
(*                                                                         *)
(* The grants of pkg/auth, for every set of grants, codes and clients: a   *)
(* token that was returned is kept, a revocation is not undone, a code     *)
(* yields one token.                                                       *)
(*                                                                         *)
(* The policy store and its controllers, for any processes, workers,       *)
(* generations and publications, with or without power losses: publication *)
(* is compare-and-set, and what is acknowledged is durable; the            *)
(* controllers use the store as its specification allows, a lease pins its *)
(* generation, and a process never goes on admitting what its own          *)
(* publication superseded.                                                 *)
(***************************************************************************)
EXTENDS AuthStore, PolicyController, TLAPS

-----------------------------------------------------------------------------
(* The grants. *)

\* Only issued grants are in the map, in the file or revoked.
KnownIsIssued ==
  /\ \A g \in Grant : grants[g] # "absent" => g \in issued
  /\ \A g \in Grant : file[g] # "absent" => g \in issued
  /\ revokedTo \subseteq issued

\* What the map holds while the process runs, and what the file will give it
\* when it does not.
Kept ==
  \A g \in issued \ (lapsed \cup revokedTo) :
    file[g] = "live" /\ (up => grants[g] = "live")

Refused ==
  \A g \in revokedTo \ forgotten :
    IF up THEN grants[g] # "live" ELSE file[g] # "live"

\* A pending code was put, and has not been exchanged.
CodesPut ==
  \A c \in Code : codes[c] # NoClient => <<c, codes[c]>> \in put

ExchangedSpent ==
  \A x \in exchanged : codes[x[1]] = NoClient /\ <<x[1], x[2]>> \in put

OnePerCode == \A x, y \in exchanged : x[1] = y[1] => x = y

AuthInv ==
  /\ AuthTypeOK
  /\ KnownIsIssued
  /\ Kept
  /\ Refused
  /\ CodesPut
  /\ ExchangedSpent
  /\ OnePerCode

\* What saveLocked writes is a file of grants.
LEMMA SavedType ==
  ASSUME NEW m \in [Grant -> Status]
  PROVE  Saved(m) \in [Grant -> Status]
  BY DEF Saved, Status

LEMMA AuthStarts == AuthInit => AuthInv
  BY AuthAssumption DEF AuthInit, AuthInv, AuthTypeOK, Status, KnownIsIssued, Kept, Refused,
     CodesPut, ExchangedSpent, OnePerCode

\* AuthTypeOK is preserved by every step.
LEMMA AuthTypeStep == AuthTypeOK /\ [AuthNext]_authVars => AuthTypeOK'
<1> SUFFICES ASSUME AuthTypeOK, [AuthNext]_authVars PROVE AuthTypeOK'
  OBVIOUS
<1> USE AuthAssumption DEF AuthTypeOK
<1>1. CASE \E c \in Code, client \in Client : PutCode(c, client)
  BY <1>1 DEF PutCode
<1>2. CASE \E c \in Code, client \in Client : ExchangeRefused(c, client)
  BY <1>2 DEF ExchangeRefused
<1>3. CASE \E c \in Code, client \in Client, g \in Grant : ExchangeCode(c, client, g)
  <2>1. PICK c \in Code, client \in Client, g \in Grant : ExchangeCode(c, client, g)
    BY <1>3
  <2>2. grants' \in [Grant -> Status]
    BY <2>1 DEF ExchangeCode, Status
  <2>3. file' \in [Grant -> Status]
    BY <2>1, <2>2, SavedType, Zenon DEF ExchangeCode
  <2>4. codes' \in [Code -> Client \cup {NoClient}]
    BY <2>1 DEF ExchangeCode
  <2>5. exchanged' \subseteq Code \X Client \X Grant
    BY <2>1 DEF ExchangeCode
  <2>6. /\ UNCHANGED <<up, put, lapsed, revokedTo, forgotten>>
        /\ issued' \subseteq Grant
    BY <2>1 DEF ExchangeCode
  <2> QED
    BY <2>2, <2>3, <2>4, <2>5, <2>6
<1>4. CASE \E c \in Code, client \in Client : ExchangeSaveFails(c, client)
  BY <1>4 DEF ExchangeSaveFails
<1>5. CASE \E g \in Grant : CreateGrant(g)
  <2>1. PICK g \in Grant : CreateGrant(g)
    BY <1>5
  <2>2. grants' \in [Grant -> Status]
    BY <2>1 DEF CreateGrant, Status
  <2>3. file' \in [Grant -> Status]
    BY <2>1, <2>2, SavedType, Zenon DEF CreateGrant
  <2> QED
    BY <2>1, <2>2, <2>3, Zenon DEF CreateGrant
<1>6. CASE \E g \in Grant : RevokeGrant(g)
  <2>1. PICK g \in Grant : RevokeGrant(g)
    BY <1>6
  <2>2. grants' \in [Grant -> Status]
    BY <2>1 DEF RevokeGrant, Status
  <2>3. file' \in [Grant -> Status]
    BY <2>1, <2>2, SavedType, Zenon DEF RevokeGrant
  <2> QED
    BY <2>1, <2>2, <2>3 DEF RevokeGrant
<1>7. CASE \E x \in Code \cup Grant : Lapse(x)
  BY <1>7 DEF Lapse
<1>8. CASE KillServer
  BY <1>8, Zenon DEF KillServer, Status
<1>9. CASE OpenStore
  BY <1>9 DEF OpenStore, Status
<1>10. CASE UNCHANGED authVars
  BY <1>10 DEF authVars
<1> QED
  BY <1>1, <1>2, <1>3, <1>4, <1>5, <1>6, <1>7, <1>8, <1>9, <1>10 DEF AuthNext

\* The facts about grants: what is kept, what is refused.
LEMMA GrantStep ==
  AuthTypeOK /\ KnownIsIssued /\ Kept /\ Refused /\ [AuthNext]_authVars
    => KnownIsIssued' /\ Kept' /\ Refused'
<1> SUFFICES ASSUME AuthTypeOK, KnownIsIssued, Kept, Refused, [AuthNext]_authVars
             PROVE  KnownIsIssued' /\ Kept' /\ Refused'
  OBVIOUS
<1> USE DEF KnownIsIssued, Kept, Refused
<1>1. CASE \E c \in Code, client \in Client :
             \/ PutCode(c, client)
             \/ ExchangeRefused(c, client)
             \/ ExchangeSaveFails(c, client)
  BY <1>1 DEF PutCode, ExchangeRefused, ExchangeSaveFails
<1>2. ASSUME NEW g \in Grant, up, Fresh(g), up' = up,
             grants' = [grants EXCEPT ![g] = "live"],
             file' = Saved(grants'),
             issued' = issued \cup {g},
             UNCHANGED <<lapsed, revokedTo, forgotten>>
      PROVE  KnownIsIssued' /\ Kept' /\ Refused'
  <2>1. /\ grants'[g] = "live"
        /\ \A h \in Grant \ {g} : grants'[h] = grants[h]
    BY <1>2 DEF AuthTypeOK
  <2>2. \A h \in Grant : file'[h] = IF grants'[h] = "live" /\ h \in lapsed
                                    THEN "absent" ELSE grants'[h]
    BY <1>2 DEF Saved
  <2>3. KnownIsIssued'
    BY <1>2, <2>1, <2>2, Zenon DEF AuthTypeOK
  <2>4. ASSUME NEW k \in issued', k \notin lapsed', k \notin revokedTo'
        PROVE  file'[k] = "live" /\ (up' => grants'[k] = "live")
    <3>1. k \in Grant /\ k \notin lapsed /\ k \notin revokedTo
      BY <1>2, <2>4 DEF AuthTypeOK
    <3>2. grants'[k] = "live"
      <4>1. CASE k = g
        BY <2>1, <4>1
      <4>2. CASE k # g
        <5>1. k \in issued
          BY <1>2, <2>4, <4>2
        <5> QED
          BY <1>2, <2>1, <3>1, <4>2, <5>1
      <4> QED
        BY <4>1, <4>2
    <3> QED
      BY <2>2, <3>1, <3>2
  <2>5. Refused'
    BY <1>2, <2>1, <2>2 DEF AuthTypeOK, Fresh
  <2> QED
    BY <2>3, <2>4, <2>5
<1>3. CASE \E c \in Code, client \in Client, g \in Grant : ExchangeCode(c, client, g)
  BY <1>3, <1>2, Zenon DEF ExchangeCode
<1>4. CASE \E g \in Grant : CreateGrant(g)
  BY <1>4, <1>2, Zenon DEF CreateGrant
<1>5. CASE \E g \in Grant : RevokeGrant(g)
  <2>1. PICK g \in Grant : RevokeGrant(g)
    BY <1>5
  <2>2. /\ grants'[g] = "revoked" /\ grants[g] = "live"
        /\ \A h \in Grant \ {g} : grants'[h] = grants[h]
    BY <2>1 DEF AuthTypeOK, RevokeGrant
  <2>3. \/ file' = file
        \/ \A h \in Grant : file'[h] = IF grants'[h] = "live" /\ h \in lapsed
                                       THEN "absent" ELSE grants'[h]
    BY <2>1 DEF RevokeGrant, Saved
  <2>4. KnownIsIssued'
    BY <2>1, <2>2, <2>3 DEF AuthTypeOK, RevokeGrant
  <2>5. Kept'
    BY <2>1, <2>2, <2>3 DEF AuthTypeOK, RevokeGrant
  <2>6. Refused'
    BY <2>1, <2>2, <2>3 DEF AuthTypeOK, RevokeGrant
  <2> QED
    BY <2>4, <2>5, <2>6
<1>6. CASE \E x \in Code \cup Grant : Lapse(x)
  BY <1>6 DEF Lapse
<1>7. CASE KillServer
  BY <1>7 DEF KillServer, AuthTypeOK
<1>8. CASE OpenStore
  BY <1>8 DEF OpenStore, AuthTypeOK
<1>9. CASE UNCHANGED authVars
  BY <1>9 DEF authVars
<1> QED
  BY <1>1, <1>3, <1>4, <1>5, <1>6, <1>7, <1>8, <1>9 DEF AuthNext

\* The facts about codes.
LEMMA CodeStep ==
  AuthTypeOK /\ CodesPut /\ ExchangedSpent /\ OnePerCode /\ [AuthNext]_authVars
    => CodesPut' /\ ExchangedSpent' /\ OnePerCode'
<1> SUFFICES ASSUME AuthTypeOK, CodesPut, ExchangedSpent, OnePerCode, [AuthNext]_authVars
             PROVE  CodesPut' /\ ExchangedSpent' /\ OnePerCode'
  OBVIOUS
<1> USE AuthAssumption DEF CodesPut, ExchangedSpent, OnePerCode
<1>1. CASE \E c \in Code, client \in Client : PutCode(c, client)
  <2>1. PICK c \in Code, client \in Client : PutCode(c, client)
    BY <1>1
  <2>2. \A x \in exchanged : x[1] # c /\ x[1] \in Code
    BY <2>1, Zenon DEF PutCode, AuthTypeOK
  <2> QED
    BY <2>1, <2>2 DEF PutCode, AuthTypeOK
<1>2. CASE \E c \in Code, client \in Client :
             ExchangeRefused(c, client) \/ ExchangeSaveFails(c, client)
  BY <1>2 DEF ExchangeRefused, ExchangeSaveFails, AuthTypeOK
<1>3. CASE \E c \in Code, client \in Client, g \in Grant : ExchangeCode(c, client, g)
  <2>1. PICK c \in Code, client \in Client, g \in Grant : ExchangeCode(c, client, g)
    BY <1>3
  <2>2. codes[c] # NoClient /\ <<c, client>> \in put
    BY <2>1 DEF ExchangeCode
  <2>3. \A x \in exchanged : x[1] # c /\ x[1] \in Code
    BY <2>2, Zenon DEF AuthTypeOK
  <2> QED
    BY <2>1, <2>2, <2>3 DEF ExchangeCode, AuthTypeOK
<1>4. CASE \E g \in Grant : CreateGrant(g) \/ RevokeGrant(g)
  BY <1>4 DEF CreateGrant, RevokeGrant
<1>5. CASE \E x \in Code \cup Grant : Lapse(x)
  BY <1>5 DEF Lapse
<1>6. CASE KillServer
  BY <1>6 DEF KillServer, AuthTypeOK
<1>7. CASE OpenStore
  BY <1>7 DEF OpenStore
<1>8. CASE UNCHANGED authVars
  BY <1>8 DEF authVars
<1> QED
  BY <1>1, <1>2, <1>3, <1>4, <1>5, <1>6, <1>7, <1>8 DEF AuthNext

\* The strengthened invariant of the grant store holds in every reachable
\* state.
THEOREM AuthInvariant == AuthSpec => []AuthInv
<1>1. AuthInv /\ [AuthNext]_authVars => AuthInv'
  BY AuthTypeStep, GrantStep, CodeStep DEF AuthInv
<1> QED
  BY AuthStarts, <1>1, PTL DEF AuthSpec

\* Every variable of the grant store keeps its type; in particular a grant
\* without an expiry never lapses.
THEOREM AuthTypes == AuthSpec => []AuthTypeOK
<1>1. AuthInv => AuthTypeOK
  BY DEF AuthInv
<1> QED
  BY AuthInvariant, <1>1, PTL

\* A token that was handed out is admitted, restarts included, until it
\* expires or is revoked.
THEOREM IssuedKept == AuthSpec => []IssuedIsKept
<1>1. AuthInv => IssuedIsKept
  BY DEF AuthInv, Kept, IssuedIsKept, Admitted
<1> QED
  BY AuthInvariant, <1>1, PTL

\* A revoked grant is refused, but for a revocation that was never saved
\* before the process was killed.
THEOREM RevokedRefused == AuthSpec => []RevokedIsRefused
<1>1. AuthInv => RevokedIsRefused
  BY DEF AuthInv, Refused, RevokedIsRefused, Admitted
<1> QED
  BY AuthInvariant, <1>1, PTL

\* An authorization code yields at most one token, to its own client.
THEOREM CodeOnce == AuthSpec => []CodeYieldsOne
<1>1. AuthInv => CodeYieldsOne
  BY DEF AuthInv, OnePerCode, ExchangedSpent, CodeYieldsOne
<1> QED
  BY AuthInvariant, <1>1, PTL
-----------------------------------------------------------------------------
(* The policy store. *)

Checked == {"checked", "renamed", "inPlace", "verified"}

\* A process has a request exactly while it is inside Activate.
AsksInside ==
  \A p \in Proc : /\ pc[p] = "idle" => req[p] = NoReq
                  /\ pc[p] # "idle" => req[p] \in Request

\* Every step of Activate after the lock runs under it.
LockHeld == \A p \in Proc : pc[p] \in Locked => lock = p

\* Under the lock nobody else moves the pointer away from the one checked.
ExpectedIsCurrent == \A p \in Proc : pc[p] \in Checked => req[p].exp = Pointer

\* A generation about to be published, and every one ever published, had its
\* rename synced or was reused without.
PlacedSynced ==
  \A p \in Proc :
    /\ pc[p] = "renamed" => req[p].new \in gens
    /\ pc[p] \in {"inPlace", "verified"} => req[p].new \in gensSync \cup reused

LogSynced == \A i \in 1 .. Len(log) : log[i] \in gensSync \cup reused

StoreInv ==
  /\ TypeOK
  /\ AsksInside
  /\ LockHeld
  /\ ExpectedIsCurrent
  /\ PlacedSynced
  /\ LogSynced
  /\ AcknowledgedIsDurable
-----------------------------------------------------------------------------
\* The store starts empty.
LEMMA StoreInvInit == Init => StoreInv
BY StoreAssumption DEF Init, StoreInv, TypeOK, AsksInside, LockHeld, Locked, Preparing, Checked,
   ExpectedIsCurrent, PlacedSynced, LogSynced, AcknowledgedIsDurable

\* Steps that leave the files alone: the call, the lock, the check, and every
\* return.
LEMMA ControlStep ==
  ASSUME StoreInv, NEW p \in Proc,
         Begin(p) \/ Lock(p) \/ Check(p) \/ Conflict(p) \/ LoadFails(p)
           \/ SyncRootFails(p) \/ Fail(p) \/ Kill(p) \/ PreparePointer(p)
  PROVE  StoreInv'
<1>1. UNCHANGED <<log, rootSync, gens, gensSync, reused, acked>>
  BY DEF Begin, Lock, Check, Conflict, LoadFails, SyncRootFails, Fail, Kill,
         PreparePointer
<1>2. TypeOK'
  BY <1>1, StoreAssumption DEF StoreInv, TypeOK, Begin, Lock, Check, Conflict,
     LoadFails, SyncRootFails, Fail, Kill, PreparePointer, Return, Locked,
     Preparing
<1>3. LockHeld'
  BY StoreAssumption DEF StoreInv, TypeOK, LockHeld, Begin, Lock, Check, Conflict,
     LoadFails, SyncRootFails, Fail, Kill, PreparePointer, Return, Locked,
     Preparing
<1>4. Pointer' = Pointer
  BY <1>1 DEF Pointer
<1>5. ExpectedIsCurrent'
  BY <1>4 DEF StoreInv, TypeOK, ExpectedIsCurrent, Pointer, Begin, Lock, Check,
     Conflict, LoadFails, SyncRootFails, Fail, Kill, PreparePointer, Return,
     Checked
<1>6. PlacedSynced'
  BY ZenonT(60) DEF StoreInv, TypeOK, PlacedSynced, Begin, Lock, Check, Conflict, LoadFails,
     SyncRootFails, Fail, Kill, PreparePointer, Return
<1>7. LogSynced' /\ AcknowledgedIsDurable'
  BY <1>1 DEF StoreInv, LogSynced, AcknowledgedIsDurable
<1>8. AsksInside'
  BY Zenon DEF StoreInv, TypeOK, AsksInside, Begin, Lock, Check, Conflict, LoadFails,
     SyncRootFails, Fail, Kill, PreparePointer, Return
<1> QED  BY <1>2, <1>3, <1>5, <1>6, <1>7, <1>8 DEF StoreInv

\* Steps that put a generation in place.
LEMMA GenerationStep ==
  ASSUME StoreInv, NEW p \in Proc,
         StageAndRename(p) \/ SyncGenerations(p) \/ Reuse(p)
  PROVE  StoreInv'
<1>1. UNCHANGED <<lock, req, log, rootSync, acked>>
  BY DEF StageAndRename, SyncGenerations, Reuse
<1>2. TypeOK'
  BY DEF StoreInv, TypeOK, AsksInside, Request, StageAndRename, SyncGenerations, Reuse, Locked,
     Preparing
<1>3. LockHeld'
  BY DEF StoreInv, TypeOK, LockHeld, StageAndRename, SyncGenerations, Reuse, Locked,
     Preparing
<1>4. ExpectedIsCurrent'
  BY DEF StoreInv, TypeOK, ExpectedIsCurrent, Pointer, StageAndRename,
     SyncGenerations, Reuse, Checked
<1>5. PlacedSynced'
  <2>1. CASE StageAndRename(p)
    BY <2>1 DEF StoreInv, TypeOK, PlacedSynced, StageAndRename
  <2>2. CASE Reuse(p)
    BY <2>2 DEF StoreInv, TypeOK, PlacedSynced, Reuse
  <2>3. CASE SyncGenerations(p)
    BY <2>3 DEF StoreInv, TypeOK, PlacedSynced, SyncGenerations
  <2> QED  BY <2>1, <2>2, <2>3
<1>6. LogSynced' /\ AcknowledgedIsDurable'
  BY DEF StoreInv, TypeOK, LogSynced, AcknowledgedIsDurable, StageAndRename,
     SyncGenerations, Reuse
<1>7. AsksInside'
  BY DEF StoreInv, TypeOK, AsksInside, StageAndRename, SyncGenerations, Reuse
<1> QED  BY <1>2, <1>3, <1>4, <1>5, <1>6, <1>7 DEF StoreInv

\* The publication point: the pointer moves under the lock, so no other process
\* relies on the old one.
LEMMA RenamePointerStep ==
  ASSUME StoreInv, NEW p \in Proc, RenamePointer(p)
  PROVE  StoreInv'
<1>1. /\ log' = Append(log, req[p].new)
      /\ req[p].new \in Rev
      /\ Len(log') = Len(log) + 1
      /\ log' \in Seq(Rev)
  BY DEF StoreInv, TypeOK, AsksInside, Request, RenamePointer
<1>2. TypeOK'
  BY <1>1 DEF StoreInv, TypeOK, RenamePointer, Locked, Preparing
<1>3. LockHeld'
  BY DEF StoreInv, TypeOK, LockHeld, RenamePointer, Locked, Preparing
<1>4. ExpectedIsCurrent'
  <2>1. \A q \in Proc : pc'[q] \notin Checked
    BY DEF StoreInv, TypeOK, LockHeld, RenamePointer, Locked, Preparing, Checked
  <2> QED  BY <2>1 DEF ExpectedIsCurrent
<1>5. PlacedSynced'
  BY DEF StoreInv, TypeOK, PlacedSynced, RenamePointer
<1>6. LogSynced'
  <2>1. req[p].new \in gensSync \cup reused
    BY DEF StoreInv, PlacedSynced, RenamePointer
  <2> QED  BY <1>1, <2>1 DEF StoreInv, TypeOK, LogSynced, RenamePointer
<1>7. AcknowledgedIsDurable'
  BY DEF StoreInv, AcknowledgedIsDurable, RenamePointer
<1>8. AsksInside'
  BY DEF StoreInv, TypeOK, AsksInside, RenamePointer
<1> QED  BY <1>2, <1>3, <1>4, <1>5, <1>6, <1>7, <1>8 DEF StoreInv

\* The acknowledgement follows the sync of the root directory.
LEMMA SyncRootStep ==
  ASSUME StoreInv, NEW p \in Proc, SyncRoot(p)
  PROVE  StoreInv'
<1>1. TypeOK' /\ AcknowledgedIsDurable'
  BY StoreAssumption DEF StoreInv, TypeOK, AcknowledgedIsDurable, SyncRoot, Return
<1>2. LockHeld'
  BY StoreAssumption DEF StoreInv, TypeOK, LockHeld, SyncRoot, Return, Locked, Preparing
<1>3. ExpectedIsCurrent' /\ PlacedSynced' /\ LogSynced'
  BY DEF StoreInv, TypeOK, ExpectedIsCurrent, PlacedSynced, LogSynced, Pointer,
     SyncRoot, Return, Checked
<1>4. AsksInside'
  BY DEF StoreInv, TypeOK, AsksInside, SyncRoot, Return
<1> QED  BY <1>1, <1>2, <1>3, <1>4 DEF StoreInv

\* A power loss keeps a prefix of the pointers that holds every acknowledged
\* one, and every generation whose rename was synced.
LEMMA PowerLossStep ==
  ASSUME StoreInv, PowerLoss
  PROVE  StoreInv'
<1>1. PICK n \in rootSync .. Len(log) : log' = SubSeq(log, 1, n) /\ rootSync' = n
  BY DEF PowerLoss
<1>2. n \in Nat /\ n <= Len(log) /\ rootSync \in Nat /\ rootSync <= n
  BY <1>1 DEF StoreInv, TypeOK
<1>3. /\ log' \in Seq(Rev)
      /\ Len(log') = n
      /\ \A i \in 1 .. n : log'[i] = log[i]
  BY <1>1, <1>2 DEF StoreInv, TypeOK
<1>4. TypeOK'
  BY <1>1, <1>2, <1>3 DEF StoreInv, TypeOK, PowerLoss, Locked
<1>5. AsksInside' /\ LockHeld' /\ ExpectedIsCurrent' /\ PlacedSynced'
  BY DEF AsksInside, LockHeld, ExpectedIsCurrent, PlacedSynced, PowerLoss, Locked, Preparing,
     Checked
<1>6. LogSynced'
  BY <1>2, <1>3 DEF StoreInv, TypeOK, LogSynced, PowerLoss
<1>7. AcknowledgedIsDurable'
  BY <1>1, <1>2 DEF StoreInv, TypeOK, AcknowledgedIsDurable, PowerLoss
<1> QED  BY <1>4, <1>5, <1>6, <1>7 DEF StoreInv

\* Every step of the store keeps the invariant.
LEMMA StoreInvNext == StoreInv /\ [Next]_storeVars => StoreInv'
<1> SUFFICES ASSUME StoreInv, [Next]_storeVars PROVE StoreInv'
  OBVIOUS
<1>1. CASE UNCHANGED storeVars
  BY <1>1 DEF storeVars, StoreInv, TypeOK, AsksInside, LockHeld, ExpectedIsCurrent, Pointer,
     PlacedSynced, LogSynced, AcknowledgedIsDurable
<1>2. ASSUME NEW p \in Proc, ActivateStep(p) PROVE StoreInv'
  BY <1>2, ControlStep, GenerationStep, RenamePointerStep, SyncRootStep
  DEF ActivateStep
<1>3. CASE Next
  BY <1>2, <1>3, ControlStep, PowerLossStep DEF Next
<1> QED  BY <1>1, <1>3

\* Every reachable state of the store satisfies the inductive invariant.
THEOREM StoreInvariant == Spec => []StoreInv
BY StoreInvInit, StoreInvNext, PTL DEF Spec

\* The variables keep their types.
THEOREM StoreTyped == Spec => []TypeOK
<1>1. StoreInv => TypeOK
  BY DEF StoreInv
<1> QED  BY <1>1, StoreInvariant, PTL

\* No power loss takes back a publication that was acknowledged.
THEOREM AcknowledgedDurable == Spec => []AcknowledgedIsDurable
<1>1. StoreInv => AcknowledgedIsDurable
  BY DEF StoreInv
<1> QED  BY <1>1, StoreInvariant, PTL

\* The pointer dangles only where a generation was reused before its rename
\* was synced.
THEOREM DanglingIsReuse == Spec => []DanglesOnlyIfReused
<1>1. StoreInv => DanglesOnlyIfReused
  <2> SUFFICES ASSUME StoreInv, log # <<>> PROVE Pointer \in gens \cup reused
    BY DEF DanglesOnlyIfReused, Loads
  <2>1. Len(log) \in 1 .. Len(log)
    BY DEF StoreInv, TypeOK
  <2> QED  BY <2>1 DEF StoreInv, TypeOK, LogSynced, Pointer
<1> QED  BY <1>1, StoreInvariant, PTL

\* What Activate compared with expected is still active when it publishes.
THEOREM CheckedCurrent == Spec => []CheckedStillCurrent
<1>1. StoreInv => CheckedStillCurrent
  BY DEF StoreInv, LockHeld, ExpectedIsCurrent, CheckedStillCurrent, Checked, Locked,
     Preparing
<1> QED  BY <1>1, StoreInvariant, PTL
-----------------------------------------------------------------------------
\* Every step of the store is a step of the compare-and-set register or leaves
\* it alone.
LEMMA StepRefines == StoreInv /\ [Next]_storeVars => [Register!Next]_(Register!vars)
<1> SUFFICES ASSUME StoreInv, [Next]_storeVars
             PROVE  Register!Next \/ UNCHANGED Register!vars
  OBVIOUS
<1>1. CASE UNCHANGED storeVars
  BY <1>1 DEF storeVars, Register!vars
<1>2. ASSUME NEW p \in Proc, Begin(p) PROVE Register!Ask(p)
  BY <1>2, Zenon DEF StoreInv, AsksInside, Begin, Register!Ask, Request, Register!Request
<1>3. ASSUME NEW p \in Proc, pc[p] # "idle" PROVE req[p] # NoReq
  BY <1>3, StoreAssumption DEF StoreInv, AsksInside
<1>4. ASSUME NEW p \in Proc, RenamePointer(p) PROVE Register!Publish(p)
  BY <1>3, <1>4 DEF StoreInv, ExpectedIsCurrent, Checked, Pointer, RenamePointer,
     Register!Publish, Register!Current
<1>5. ASSUME NEW p \in Proc, SyncRoot(p) PROVE Register!Acknowledge(p)
  BY <1>3, <1>5 DEF SyncRoot, Return, Register!Acknowledge
<1>6. ASSUME NEW p \in Proc,
             Conflict(p) \/ LoadFails(p) \/ SyncRootFails(p) \/ Fail(p) \/ Kill(p)
      PROVE  Register!GiveUp(p)
  BY <1>3, <1>6 DEF Conflict, LoadFails, SyncRootFails, Fail, Kill, Return,
     Preparing, Register!GiveUp
<1>7. CASE PowerLoss
  <2>1. PICK n \in rootSync .. Len(log) : log' = SubSeq(log, 1, n)
    BY <1>7 DEF PowerLoss
  <2>2. n \in acked .. Len(log)
    BY <2>1 DEF StoreInv, TypeOK, AcknowledgedIsDurable
  <2>3. Register!LoseTail
    BY <1>7, <2>1, <2>2 DEF PowerLoss, Register!LoseTail
  <2> QED  BY <2>3 DEF Register!Next
<1>8. ASSUME NEW p \in Proc,
             Lock(p) \/ Check(p) \/ StageAndRename(p) \/ SyncGenerations(p)
               \/ Reuse(p) \/ PreparePointer(p)
      PROVE  UNCHANGED Register!vars
  BY <1>8 DEF Lock, Check, StageAndRename, SyncGenerations, Reuse,
     PreparePointer, Register!vars
<1>9. CASE Next
  BY <1>2, <1>4, <1>5, <1>6, <1>7, <1>8, <1>9
  DEF Next, ActivateStep, Register!Next
<1> QED  BY <1>1, <1>9

\* The policy store implements the compare-and-set register.
THEOREM StoreRefinesRegister == Spec => RefinesRegister
<1>1. Init => Register!Init
  BY DEF Init, Register!Init
<1> QED
  BY <1>1, StepRefines, StoreInvariant, PTL
  DEF Spec, RefinesRegister, Register!Spec
-----------------------------------------------------------------------------
(* The controllers. *)

Holding == {"publishing", "loading"}

CtlTypeOK ==
  /\ ctl \in [Serving -> {"idle", "wantActivate", "wantReload"} \cup Holding]
  /\ active \in [Serving -> Rev \cup {None}]
  /\ lease \in [Worker -> Rev \cup {None}]
  /\ outdated \in [Serving -> BOOLEAN]

CtlInv ==
  /\ CtlTypeOK
  /\ LeasePinsActive
  /\ AdmitsPointerOrNothing
-----------------------------------------------------------------------------
\* Every step of the composition is a step of the store or leaves it alone.
LEMMA StoreSteps == [CtlNext]_vars => [Next]_storeVars
<1> SUFFICES ASSUME [CtlNext]_vars PROVE [Next]_storeVars
  OBVIOUS
<1> USE ControllerAssumption
<1>1. CASE \E p \in Serving : Want(p) \/ StartReload(p) \/ EndPublish(p) \/ LoadActive(p)
                                \/ LoadActiveFails(p)
  BY <1>1, Zenon DEF Want, StartReload, EndPublish, LoadActive, LoadActiveFails
<1>2. CASE \E p \in Serving : StartActivate(p)
  BY <1>2 DEF StartActivate, Next
<1>3. CASE \E p \in Serving : StoreStep(p)
  BY <1>3 DEF StoreStep, Next
<1>4. CASE \E p \in Proc \ Serving : AdminStep(p)
  BY <1>4 DEF AdminStep, Next
<1>5. CASE \E w \in Worker : AcquireLease(w) \/ ReleaseLease(w)
  BY <1>5 DEF AcquireLease, ReleaseLease
<1>6. CASE \E p \in Serving : RestartProcess(p)
  BY <1>6 DEF RestartProcess, Next
<1>7. CASE PowerFails
  BY <1>7 DEF PowerFails, Next
<1>8. CASE UNCHANGED vars
  BY <1>8 DEF vars
<1> QED
  BY <1>1, <1>2, <1>3, <1>4, <1>5, <1>6, <1>7, <1>8 DEF CtlNext

\* The controllers and the administrators use the store as its specification
\* allows.
THEOREM ControllerUsesStore == CtlSpec => Spec
<1>1. CtlInit => Init
  BY DEF CtlInit
<1> QED
  BY <1>1, StoreSteps, PTL DEF CtlSpec, Spec

\* Publication is compare-and-set for controllers, leases and administrators
\* together.
THEOREM ControllerRefinesRegister == CtlSpec => RefinesRegister
BY ControllerUsesStore, StoreRefinesRegister, PTL

\* The pointer is a generation or none.
LEMMA PointerType == TypeOK => Pointer \in Rev \cup {None}
BY DEF TypeOK, Pointer

LEMMA CtlInitInv == CtlInit => CtlInv
BY DEF CtlInit, CtlInv, CtlTypeOK, Holding, LeasePinsActive, AdmitsPointerOrNothing

\* Steps of the mutex and of the leases, which leave the pointer alone.
LEMMA MutexStep ==
  ASSUME TypeOK, CtlInv, NEW p \in Serving,
         Want(p) \/ StartReload(p) \/ EndPublish(p) \/ LoadActive(p) \/ LoadActiveFails(p)
           \/ StartActivate(p)
  PROVE  CtlInv'
<1> USE DEF CtlInv, CtlTypeOK, Holding
<1>1. CtlTypeOK'
  BY PointerType, Zenon DEF Want, StartReload, EndPublish, LoadActive, LoadActiveFails, StartActivate
<1>2. LeasePinsActive'
  BY ControllerAssumption DEF LeasePinsActive, Leased, Want, StartReload, EndPublish, LoadActive,
     LoadActiveFails, StartActivate
<1>3. Pointer' = Pointer
  BY Zenon DEF Pointer, Want, StartReload, EndPublish, LoadActive, LoadActiveFails, StartActivate,
     Begin, storeVars
<1>4. AdmitsPointerOrNothing'
  BY <1>3 DEF AdmitsPointerOrNothing, Want, StartReload, EndPublish, LoadActive,
     LoadActiveFails, StartActivate
<1> QED
  BY <1>1, <1>2, <1>4

LEMMA LeaseStep ==
  ASSUME CtlInv, NEW w \in Worker, AcquireLease(w) \/ ReleaseLease(w)
  PROVE  CtlInv'
<1> USE DEF CtlInv, CtlTypeOK, Holding
<1>1. HomeOf[w] \in Serving
  BY ControllerAssumption
<1>2. CtlTypeOK'
  BY <1>1 DEF AcquireLease, ReleaseLease
<1>3. LeasePinsActive'
  BY <1>1, ControllerAssumption DEF LeasePinsActive, AcquireLease, ReleaseLease
<1>4. AdmitsPointerOrNothing'
  BY Zenon DEF AdmitsPointerOrNothing, Pointer, AcquireLease, ReleaseLease, storeVars
<1> QED
  BY <1>2, <1>3, <1>4

\* A store step by p: the pointer stays, or every other process that admits
\* something is marked.
LEMMA PublishStep ==
  ASSUME CtlInv, NEW p \in Proc, MarkOutdated(p), UNCHANGED <<ctl, active, lease>>,
         p \in Serving => ctl[p] = "publishing"
  PROVE  CtlInv'
<1> USE DEF CtlInv, CtlTypeOK, Holding
<1>1. CtlTypeOK'
  BY DEF MarkOutdated
<1>2. LeasePinsActive'
  BY DEF LeasePinsActive
<1>3. AdmitsPointerOrNothing'
  <2>1. CASE log' = log
    BY <2>1 DEF MarkOutdated, AdmitsPointerOrNothing, Pointer
  <2>2. CASE log' # log
    <3>1. outdated' = [q \in Serving |-> outdated[q] \/ (q # p /\ active[q] # None)]
      BY <2>2 DEF MarkOutdated
    <3>2. ASSUME NEW q \in Serving
          PROVE  ctl'[q] \in Holding \/ active'[q] = None \/ outdated'[q]
      BY <3>1, <3>2, Zenon
    <3> QED
      BY <3>2 DEF AdmitsPointerOrNothing
  <2> QED
    BY <2>1, <2>2
<1> QED
  BY <1>1, <1>2, <1>3

\* A restart, and a power loss, admit nothing.
LEMMA RestartStep ==
  ASSUME CtlInv, PowerFails \/ \E p \in Serving : RestartProcess(p)
  PROVE  CtlInv'
<1> USE DEF CtlInv, CtlTypeOK, Holding
<1>1. CASE PowerFails
  BY <1>1 DEF PowerFails, LeasePinsActive, AdmitsPointerOrNothing
<1>2. CASE \E p \in Serving : RestartProcess(p)
  <2>1. PICK p \in Serving : RestartProcess(p)
    BY <1>2
  <2>2. Pointer' = Pointer
    BY <2>1, Zenon DEF RestartProcess, Kill, Pointer, storeVars
  <2>3. CtlTypeOK' /\ LeasePinsActive'
    BY <2>1, ControllerAssumption, Zenon DEF RestartProcess, LeasePinsActive
  <2>4. AdmitsPointerOrNothing'
    BY <2>1, <2>2, Zenon DEF RestartProcess, AdmitsPointerOrNothing
  <2> QED
    BY <2>3, <2>4
<1> QED
  BY <1>1, <1>2

LEMMA CtlStepInv == TypeOK /\ CtlInv /\ [CtlNext]_vars => CtlInv'
<1> SUFFICES ASSUME TypeOK, CtlInv, [CtlNext]_vars PROVE CtlInv'
  OBVIOUS
<1>1. CASE \E p \in Serving : Want(p) \/ StartReload(p) \/ EndPublish(p) \/ LoadActive(p)
                                \/ LoadActiveFails(p) \/ StartActivate(p)
  BY <1>1, MutexStep
<1>2. CASE \E w \in Worker : AcquireLease(w) \/ ReleaseLease(w)
  BY <1>2, LeaseStep
<1>3. CASE \E p \in Serving : StoreStep(p)
  BY <1>3, PublishStep, ControllerAssumption DEF StoreStep
<1>4. CASE \E p \in Proc \ Serving : AdminStep(p)
  BY <1>4, PublishStep DEF AdminStep
<1>5. CASE PowerFails \/ \E p \in Serving : RestartProcess(p)
  BY <1>5, RestartStep
<1>6. CASE UNCHANGED vars
  BY <1>6, Zenon DEF vars, ctlVars, storeVars, CtlInv, CtlTypeOK, LeasePinsActive,
     AdmitsPointerOrNothing, Pointer
<1> QED
  BY <1>1, <1>2, <1>3, <1>4, <1>5, <1>6 DEF CtlNext

\* The invariant of the composition, with the type invariant of the store.
THEOREM ControllerInvariant == CtlSpec => []CtlInv
<1>1. CtlSpec => []TypeOK
  BY ControllerUsesStore, StoreTyped, PTL
<1>2. CtlInit => CtlInv
  BY CtlInitInv
<1> QED
  BY <1>1, <1>2, CtlStepInv, PTL DEF CtlSpec

\* A transaction runs to its end under the generation it was admitted with.
THEOREM LeasesPin == CtlSpec => []LeasePinsActive
BY ControllerInvariant, PTL DEF CtlInv

\* What a process admits is what the pointer names, unless another process
\* published since.
THEOREM AdmittedIsCurrent == CtlSpec => []AdmitsPointerOrNothing
BY ControllerInvariant, PTL DEF CtlInv
===============================================================================

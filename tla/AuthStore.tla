------------------------------ MODULE AuthStore ------------------------------
(***************************************************************************)
(* Application grants: pkg/auth/store.go, with the handlers that drive it, *)
(* pkg/server/connect.go (consent and token exchange) and tokens.go (owner *)
(* administration).  The store is a map in memory behind one mutex, and a  *)
(* JSON file that saveLocked rewrites as a whole (temporary file, rename). *)
(* The process may be killed and opens the file again when it restarts.    *)
(*                                                                         *)
(* A grant stands for its random token and id, which are never drawn       *)
(* twice.  Grants of the connect flow expire after TokenTTL; the owner may *)
(* create grants that never do.                                            *)
(***************************************************************************)
CONSTANTS
  Grant,       \* grants that can be issued
  Timeless,    \* those issued with a zero ExpiresAt
  Code,        \* one-time authorization codes
  Client,      \* client_id values
  NoClient,    \* a code that is not pending
  SaveMayFail  \* saveLocked may return an error

ASSUME AuthAssumption ==
  /\ Timeless \subseteq Grant
  /\ NoClient \notin Client
  /\ SaveMayFail \in BOOLEAN

VARIABLES
  up,          \* the process runs
  grants,      \* Store.grants and grantsByID: absent, live or revoked
  file,        \* what the grants file holds
  codes,       \* Store.codes: the client each pending code is bound to
  put,         \* codes registered so far, with their clients
  lapsed,      \* codes and grants whose expiry has passed
  issued,      \* grants that were saved, and so their token returned
  exchanged,   \* tokens returned for a code: <<code, client, grant>>
  revokedTo,   \* grants the owner was told are revoked
  forgotten    \* of those, the ones whose revocation no save had written when
               \* the process was killed

authVars == <<up, grants, file, codes, put, lapsed, issued, exchanged, revokedTo,
          forgotten>>

Status == {"absent", "live", "revoked"}

AuthTypeOK ==
  /\ up \in BOOLEAN
  /\ grants \in [Grant -> Status]
  /\ file \in [Grant -> Status]
  /\ codes \in [Code -> Client \cup {NoClient}]
  /\ put \subseteq Code \X Client
  /\ lapsed \subseteq Code \cup (Grant \ Timeless)
  /\ issued \subseteq Grant
  /\ exchanged \subseteq Code \X Client \X Grant
  /\ revokedTo \subseteq Grant
  /\ forgotten \subseteq revokedTo

AuthInit ==
  /\ up = TRUE
  /\ grants = [g \in Grant |-> "absent"]
  /\ file = [g \in Grant |-> "absent"]
  /\ codes = [c \in Code |-> NoClient]
  /\ put = {}
  /\ lapsed = {}
  /\ issued = {}
  /\ exchanged = {}
  /\ revokedTo = {}
  /\ forgotten = {}
-----------------------------------------------------------------------------
\* Lookup returns the grant: Middleware admits its token.
Admitted(g) == up /\ grants[g] = "live" /\ g \notin lapsed

\* A token nobody drew yet.
Fresh(g) == g \notin issued /\ grants[g] = "absent" /\ file[g] = "absent"
            /\ g \notin lapsed

\* What saveLocked writes of the map m: it prunes the expired grants that are
\* not revoked.
Saved(m) ==
  [g \in Grant |-> IF m[g] = "live" /\ g \in lapsed THEN "absent" ELSE m[g]]

\* PutCode, from handleAuthorizePost with an approval.
PutCode(c, client) ==
  /\ up
  /\ \A x \in Client : <<c, x>> \notin put
  /\ codes' = [codes EXCEPT ![c] = client]
  /\ put' = put \cup {<<c, client>>}
  /\ UNCHANGED <<up, grants, file, lapsed, issued, exchanged, revokedTo, forgotten>>

\* ExchangeCode with a pending code that expired or belongs to another client:
\* the code is consumed and nothing is issued.
ExchangeRefused(c, client) ==
  /\ up
  /\ codes[c] # NoClient
  /\ codes[c] # client \/ c \in lapsed
  /\ codes' = [codes EXCEPT ![c] = NoClient]
  /\ UNCHANGED <<up, grants, file, put, lapsed, issued, exchanged, revokedTo,
                 forgotten>>

\* Fault: the code stays exchangeable.
ExchangeTwice(c, client, g) ==
  /\ up
  /\ codes[c] = client
  /\ c \notin lapsed
  /\ Fresh(g) /\ g \notin Timeless
  /\ grants' = [grants EXCEPT ![g] = "live"]
  /\ file' = Saved(grants')
  /\ issued' = issued \cup {g}
  /\ exchanged' = exchanged \cup {<<c, client, g>>}
  /\ UNCHANGED <<up, codes, put, lapsed, revokedTo, forgotten>>

\* ExchangeCode succeeds: the code is consumed, the grant stored, saved and
\* returned, all under the mutex.
ExchangeCode(c, client, g) ==
  /\ up
  /\ codes[c] = client
  /\ c \notin lapsed
  /\ Fresh(g) /\ g \notin Timeless
  /\ codes' = [codes EXCEPT ![c] = NoClient]
  /\ grants' = [grants EXCEPT ![g] = "live"]
  /\ file' = Saved(grants')
  /\ issued' = issued \cup {g}
  /\ exchanged' = exchanged \cup {<<c, client, g>>}
  /\ UNCHANGED <<up, put, lapsed, revokedTo, forgotten>>

\* ExchangeCode fails to save: the grant is taken out again, the code is gone.
ExchangeSaveFails(c, client) ==
  /\ up
  /\ SaveMayFail
  /\ codes[c] = client
  /\ c \notin lapsed
  /\ codes' = [codes EXCEPT ![c] = NoClient]
  /\ UNCHANGED <<up, grants, file, put, lapsed, issued, exchanged, revokedTo,
                 forgotten>>

\* Fault: the token is returned although the save failed.
CreateUnsaved(g) ==
  /\ up
  /\ Fresh(g)
  /\ grants' = [grants EXCEPT ![g] = "live"]
  /\ issued' = issued \cup {g}
  /\ UNCHANGED <<up, file, codes, put, lapsed, exchanged, revokedTo, forgotten>>

\* CreateGrant, from handleTokensCreate.  When its save fails it takes the
\* grant out again and changes nothing.
CreateGrant(g) ==
  /\ up
  /\ Fresh(g)
  /\ grants' = [grants EXCEPT ![g] = "live"]
  /\ file' = Saved(grants')
  /\ issued' = issued \cup {g}
  /\ UNCHANGED <<up, codes, put, lapsed, exchanged, revokedTo, forgotten>>

\* RevokeGrant, from handleTokensRevoke.  A failed save is ignored: the owner
\* is told that the grant is revoked.  A grant already revoked is answered in
\* the same way and nothing changes.
RevokeGrant(g) ==
  /\ up
  /\ grants[g] = "live"
  /\ grants' = [grants EXCEPT ![g] = "revoked"]
  /\ \/ file' = Saved(grants')
     \/ SaveMayFail /\ file' = file
  /\ revokedTo' = revokedTo \cup {g}
  /\ forgotten' = forgotten \ {g}
  /\ UNCHANGED <<up, codes, put, lapsed, issued, exchanged>>

\* The clock passes the expiry of a pending code or of a grant.
Lapse(x) ==
  /\ x \notin lapsed
  /\ \/ x \in Code /\ codes[x] # NoClient
     \/ x \in Grant \ Timeless /\ x \in issued
  /\ lapsed' = lapsed \cup {x}
  /\ UNCHANGED <<up, grants, file, codes, put, issued, exchanged, revokedTo,
                 forgotten>>

\* The process is killed: the map and the codes are lost.
KillServer ==
  /\ up
  /\ up' = FALSE
  /\ grants' = [g \in Grant |-> "absent"]
  /\ codes' = [c \in Code |-> NoClient]
  /\ forgotten' = forgotten \cup {g \in revokedTo : file[g] = "live"}
  /\ UNCHANGED <<file, put, lapsed, issued, exchanged, revokedTo>>

\* Fault: OpenStore does not read revokedAt.
OpenStoreUnrevoked ==
  /\ ~ up
  /\ up' = TRUE
  /\ grants' = [g \in Grant |-> IF file[g] = "absent" \/ g \in lapsed
                                THEN "absent" ELSE "live"]
  /\ UNCHANGED <<file, codes, put, lapsed, issued, exchanged, revokedTo, forgotten>>

\* OpenStore: every expired grant of the file is dropped, revoked or not.
OpenStore ==
  /\ ~ up
  /\ up' = TRUE
  /\ grants' = [g \in Grant |-> IF g \in lapsed THEN "absent" ELSE file[g]]
  /\ UNCHANGED <<file, codes, put, lapsed, issued, exchanged, revokedTo, forgotten>>

AuthNext ==
  \/ \E c \in Code, client \in Client : PutCode(c, client)
  \/ \E c \in Code, client \in Client : ExchangeRefused(c, client)
  \/ \E c \in Code, client \in Client, g \in Grant : ExchangeCode(c, client, g)
  \/ \E c \in Code, client \in Client : ExchangeSaveFails(c, client)
  \/ \E g \in Grant : CreateGrant(g)
  \/ \E g \in Grant : RevokeGrant(g)
  \/ \E x \in Code \cup Grant : Lapse(x)
  \/ KillServer
  \/ OpenStore

AuthSpec == AuthInit /\ [][AuthNext]_authVars
-----------------------------------------------------------------------------
\* A token that was handed out keeps working, restarts included, until it
\* expires or its owner revokes it: no save, pruning or reload loses it.
IssuedIsKept ==
  \A g \in issued \ (lapsed \cup revokedTo) :
    /\ file[g] = "live"
    /\ up => Admitted(g)

\* A grant that the owner was told is revoked is never admitted again, but for
\* one whose revocation had failed to save when the process was killed, until
\* it is revoked again.
RevokedIsRefused == \A g \in revokedTo \ forgotten : ~ Admitted(g)

\* A code yields at most one token in its life, restarts included, and only to
\* the client whose consent registered it.
CodeYieldsOne ==
  /\ \A x, y \in exchanged : x[1] = y[1] => x = y
  /\ \A x \in exchanged : <<x[1], x[2]>> \in put
=============================================================================

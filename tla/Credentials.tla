---------------------------- MODULE Credentials ----------------------------
(***************************************************************************)
(* Panel sessions and API tokens (backend/internal/app/auth.go, tokens.go  *)
(* and their queries).  Authentication reads a row and may write it        *)
(* afterwards, to move the expiry of a session or to record the use of a   *)
(* token; logouts, revocations and the hourly retention run in between.    *)
(***************************************************************************)
EXTENDS Integers, FiniteSets, Functions

CONSTANTS
  Visitors,            \* concurrent requests
  TokenNames,
  SessionTTL, SessionMaxLifetime, ExtendEvery,
  TokenLife,           \* ticks a token that expires lives
  Never,               \* a token without expiry, or one never used
  MaxIssued,           \* bound: credentials issued
  MaxTime              \* bound: ticks

ASSUME CredentialsAssumption ==
  /\ {SessionTTL, SessionMaxLifetime, TokenLife} \subseteq Nat \ {0}
  /\ ExtendEvery \in 0 .. SessionTTL
  /\ {MaxIssued, MaxTime} \subseteq Nat /\ Never \notin Nat

VARIABLES
  clock,
  issued,   \* credentials issued so far; each has its number
  rows,     \* the sessions and api_tokens tables
  visit     \* the row a request has read, and what it is about to write

credentialVars == <<clock, issued, rows, visit>>

NoVisit == [at |-> "none", id |-> 0, row |-> Never]

Sessions == {i \in DOMAIN rows : rows[i].kind = "session"}
Tokens   == DOMAIN rows \ Sessions

Minimum(a, b) == IF a < b THEN a ELSE b

-----------------------------------------------------------------------------
(* Statements *)

Insert(row) ==
  /\ issued < MaxIssued /\ issued' = issued + 1
  /\ rows' = [i \in DOMAIN rows \cup {issued + 1} |-> IF i = issued + 1 THEN row ELSE rows[i]]

\* UPDATE changes the row if it is still there.
Update(id, row) == rows' = [i \in DOMAIN rows |-> IF i = id THEN row ELSE rows[i]]

Delete(ids) == rows' = Restrict(rows, DOMAIN rows \ ids)

CreateSession == Insert([kind |-> "session", name |-> Never, created |-> clock,
                         expires |-> clock + SessionTTL, used |-> Never])

\* (user_id, name) is UNIQUE.
CreateAPIToken(name, expires) ==
  /\ \A i \in Tokens : rows[i].name # name
  /\ Insert([kind |-> "token", name |-> name, created |-> clock, expires |-> expires, used |-> Never])

\* A bug: the extension inserts the row again when it is gone.
ExtendSessionUpsert(id, row, expires) ==
  rows' = [i \in DOMAIN rows \cup {id} |-> IF i = id THEN [row EXCEPT !.expires = expires] ELSE rows[i]]

ExtendSession(id, row, expires) ==
  Update(id, IF id \in DOMAIN rows THEN [rows[id] EXCEPT !.expires = expires] ELSE row)

TouchAPIToken(id) ==
  Update(id, IF id \in DOMAIN rows THEN [rows[id] EXCEPT !.used = clock] ELSE Never)

GetSession(id) == rows[id]

GetAPITokenByHash(id) == rows[id]

GetAPIToken(id) == rows[id]

DeleteSession(id) == Delete({id} \cap Sessions)

DeleteAPIToken(id) == Delete({id} \cap Tokens)

DeleteExpiredSessions == Delete({i \in Sessions : rows[i].expires < clock})

-----------------------------------------------------------------------------
(* Sessions *)

newSession == CreateSession /\ UNCHANGED <<clock, visit>>

\* CheckSession and Authenticate accept a row until its expiry and until the
\* maximum lifetime is over.
CheckSession(row) == clock <= row.expires /\ clock <= row.created + SessionMaxLifetime

\* A session is extended at most every ExtendEvery, never past its maximum.
NextExpiry(row) ==
  LET next == Minimum(clock + SessionTTL, row.created + SessionMaxLifetime)
  IN IF row.expires - clock < SessionTTL - ExtendEvery /\ next > row.expires THEN next ELSE row.expires

\* Authenticate: read, check ...
Authenticate(v) ==
  /\ visit[v].at = "none"
  /\ \E id \in Sessions :
       LET row == GetSession(id) IN
         /\ CheckSession(row) /\ NextExpiry(row) # row.expires
         /\ visit' = [visit EXCEPT ![v] = [at |-> "extend", id |-> id, row |->
                        [row EXCEPT !.expires = NextExpiry(row)]]]
  /\ UNCHANGED <<clock, issued, rows>>

\* ... and extend.
AuthenticateExtend(v) ==
  /\ visit[v].at = "extend"
  /\ ExtendSession(visit[v].id, visit[v].row, visit[v].row.expires)
  /\ visit' = [visit EXCEPT ![v] = NoVisit]
  /\ UNCHANGED <<clock, issued>>

Logout == \E id \in Sessions : DeleteSession(id) /\ UNCHANGED <<clock, issued, visit>>

-----------------------------------------------------------------------------
(* Tokens *)

CreateToken ==
  \E name \in TokenNames, expires \in {Never, clock + TokenLife} :
    CreateAPIToken(name, expires) /\ UNCHANGED <<clock, visit>>

CheckToken(row) == row.expires = Never \/ (row.expires # Never /\ clock <= row.expires)

\* AuthenticateToken: read, check, and record the use when the last one is
\* more than a minute old.
AuthenticateToken(v) ==
  /\ visit[v].at = "none"
  /\ \E id \in Tokens :
       LET row == GetAPITokenByHash(id) IN
         /\ CheckToken(row) /\ (row.used = Never \/ (row.used # Never /\ clock > row.used))
         /\ visit' = [visit EXCEPT ![v] = [at |-> "touch", id |-> id, row |-> row]]
  /\ UNCHANGED <<clock, issued, rows>>

AuthenticateTouch(v) ==
  /\ visit[v].at = "touch"
  /\ TouchAPIToken(visit[v].id)
  /\ visit' = [visit EXCEPT ![v] = NoVisit]
  /\ UNCHANGED <<clock, issued>>

\* RevokeToken reads the token and deletes it; of two revocations one finds
\* no row to delete.
RevokeToken(v) ==
  /\ visit[v].at = "none"
  /\ \E id \in Tokens : visit' = [visit EXCEPT ![v] = [at |-> "revoke", id |-> id, row |-> GetAPIToken(id)]]
  /\ UNCHANGED <<clock, issued, rows>>

RevokeDelete(v) ==
  /\ visit[v].at = "revoke"
  /\ DeleteAPIToken(visit[v].id)
  /\ visit' = [visit EXCEPT ![v] = NoVisit]
  /\ UNCHANGED <<clock, issued>>

-----------------------------------------------------------------------------
(* Specification *)

applyRetention == DeleteExpiredSessions /\ UNCHANGED <<clock, issued, visit>>

CredentialsTick == clock < MaxTime /\ clock' = clock + 1 /\ UNCHANGED <<issued, rows, visit>>

CredentialsInit ==
  /\ clock = 0 /\ issued = 0 /\ rows = << >> /\ visit = [v \in Visitors |-> NoVisit]

CredentialsNext ==
  \/ newSession \/ Logout \/ CreateToken \/ applyRetention \/ CredentialsTick
  \/ \E v \in Visitors : \/ Authenticate(v) \/ AuthenticateExtend(v)
                         \/ AuthenticateToken(v) \/ AuthenticateTouch(v)
                         \/ RevokeToken(v) \/ RevokeDelete(v)

CredentialsSpec == CredentialsInit /\ [][CredentialsNext]_credentialVars

-----------------------------------------------------------------------------
(* Properties *)

\* Logout, RevokeToken and DeleteExpiredSessions: a credential that was
\* removed never comes back, whatever requests had read it before.
RemovedStaysRemoved ==
  [][\A i \in 1 .. issued : i \notin DOMAIN rows => i \notin DOMAIN rows']_credentialVars
=============================================================================

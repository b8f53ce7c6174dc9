------------------------------ MODULE Accounts ------------------------------
(***************************************************************************)
(* Creating the administrator and signing in                               *)
(* (backend/internal/app/auth.go): the one-time setup code and its file,   *)
(* and the guard that locks accounts and limits addresses.  Requests run   *)
(* concurrently; between two steps of one the others may do anything, and  *)
(* the node may restart.                                                   *)
(* Time is a tick counter: a bucket earns one attempt per tick.            *)
(***************************************************************************)
EXTENDS Integers, FiniteSets, Functions

CONSTANTS
  Callers,             \* concurrent requests
  Usernames, Admin,    \* names tried, and the one setup creates
  Addrs,               \* client addresses (ipKey)
  LockAfter, MaxLock,  \* failures before a lock, and the longest lock
  ipBurst,
  maxGuardEntries,
  None,
  MaxClock,            \* bound: ticks
  MaxAttempts,         \* bound: requests made
  MaxBoots             \* bound: restarts of the node

ASSUME AccountsAssumption ==
  /\ Admin \in Usernames
  /\ {LockAfter, MaxLock, ipBurst, maxGuardEntries} \subseteq Nat \ {0}
  /\ {MaxClock, MaxAttempts, MaxBoots} \subseteq Nat
  /\ None \notin Nat

VARIABLES
  now, attempts, boots,
  users,              \* accounts in the store
  setupCode,          \* Service.setupCode, or None
  codeFile,           \* the setup-code file, or None
  codes,              \* codes drawn so far
  entries,            \* loginGuard.entries
  ips,                \* loginGuard.ips
  call                \* where each request is, and what it carries

guardVars   == <<entries, ips>>
setupVars   == <<users, setupCode, codeFile, codes>>
clockVars   == <<now, attempts, boots>>
accountVars == <<guardVars, setupVars, clockVars, call>>

Idle == [at |-> "idle", kind |-> None, key |-> None, good |-> FALSE, code |-> None]

Move(c, to) == call' = [call EXCEPT ![c].at = to]
End(c)      == call' = [call EXCEPT ![c] = Idle]

-----------------------------------------------------------------------------
(* The guard *)

SetMin(a, b) == IF a < b THEN a ELSE b

lockTime(failures) == SetMin(2 ^ (failures - LockAfter), MaxLock)

locked(key) == key \in DOMAIN entries /\ now <= entries[key].until

\* A bug: the oldest entries go, locked or not.
evictEntriesOldest ==
  {S \in SUBSET DOMAIN entries :
     /\ Cardinality(S) = (IF Cardinality(DOMAIN entries) < 20 THEN 1 ELSE Cardinality(DOMAIN entries) \div 10)
     /\ \A k \in S, l \in DOMAIN entries \ S : entries[k].last <= entries[l].last}

\* The entries that may be dropped to make room: a tenth of them, unlocked
\* ones first and then by their last failure.
evictEntries ==
  LET isLocked(k) == now < entries[k].until
      before(k, l) == \/ ~isLocked(k) /\ isLocked(l)
                      \/ isLocked(k) = isLocked(l) /\ entries[k].last <= entries[l].last
  IN {S \in SUBSET DOMAIN entries :
        /\ Cardinality(S) = (IF Cardinality(DOMAIN entries) < 20 THEN 1 ELSE Cardinality(DOMAIN entries) \div 10)
        /\ \A k \in S, l \in DOMAIN entries \ S : before(k, l)}

fail(key) ==
  \E gone \in IF key \notin DOMAIN entries /\ Cardinality(DOMAIN entries) >= maxGuardEntries
              THEN evictEntries ELSE {{}} :
    LET kept == Restrict(entries, DOMAIN entries \ gone)
        old  == IF key \in DOMAIN kept THEN kept[key] ELSE [failures |-> 0, until |-> -1, last |-> 0]
        n    == old.failures + 1
    IN entries' = [k \in DOMAIN kept \cup {key} |->
                     IF k # key THEN kept[k]
                     ELSE [failures |-> n, last |-> now,
                           until |-> IF n >= LockAfter THEN now + lockTime(n) ELSE old.until]]

\* The attempts an address has left at this moment.
Allowance(a) == SetMin(ipBurst, ips[a].tokens + now - ips[a].at)

\* Full buckets go, and when that freed nothing the least recently used.
evictBuckets ==
  LET full == {a \in DOMAIN ips : Allowance(a) >= ipBurst}
      rest == DOMAIN ips \ full
  IN IF Cardinality(rest) < maxGuardEntries THEN {full}
     ELSE {full \cup {a} : a \in {b \in rest : \A d \in rest : ips[b].at <= ips[d].at}}

\* allowIP takes one attempt of the address, refilling its bucket first.
allowIP(a, allowed) ==
  \E gone \in IF a \notin DOMAIN ips /\ Cardinality(DOMAIN ips) >= maxGuardEntries
              THEN evictBuckets ELSE {{}} :
    LET have == IF a \in DOMAIN ips THEN Allowance(a) ELSE ipBurst
        cost == IF allowed THEN 1 ELSE 0
    IN /\ allowed = (have >= 1)
       /\ ips' = [b \in (DOMAIN ips \ gone) \cup {a} |->
                    IF b # a THEN ips[b]
                    ELSE [tokens |-> have - cost, at |-> now]]

\* success forgets the failures of the pair and returns the attempt.
success(key) ==
  /\ entries' = Restrict(entries, DOMAIN entries \ {key})
  /\ IF key[2] \in DOMAIN ips
     THEN ips' = [ips EXCEPT ![key[2]].tokens = SetMin(ipBurst, @ + 1)]
     ELSE UNCHANGED ips

-----------------------------------------------------------------------------
(* Statements *)

CountUsers == Cardinality(users)

GetUserByUsername(u) == users \cap {u}

-----------------------------------------------------------------------------
(* Requests *)

Begin(c, r) == /\ call[c].at = "idle" /\ attempts < MaxAttempts
               /\ attempts' = attempts + 1
               /\ UNCHANGED <<now, boots, setupVars, entries>>
               /\ call' = [call EXCEPT ![c] = r]

\* Setup answers before hashing when the administrator exists (nothing
\* changes then), takes one attempt of the address and goes on to the code.  The code that is given
\* is one the log has shown, or a wrong one.
Setup(c) ==
  \E a \in Addrs, given \in {setupCode, None}, allowed \in BOOLEAN :
    /\ CountUsers = 0
    /\ allowIP(a, allowed)
    /\ Begin(c, IF allowed THEN [at |-> "required", kind |-> "setup", key |-> <<Admin, a>>,
                                 good |-> TRUE, code |-> given] ELSE Idle)

\* checkSetupCode asks first whether the setup is still required ...
SetupRequired(c) ==
  /\ call[c].at = "required"
  /\ IF CountUsers = 0 THEN Move(c, "code") ELSE End(c)
  /\ UNCHANGED <<guardVars, setupVars, clockVars>>

\* ... and then, under setupMu, takes the code from memory or the file, or
\* draws one and writes it.
ReadCode == IF setupCode # None THEN setupCode ELSE IF codeFile # None THEN codeFile ELSE codes + 1

SetupCode(c) ==
  /\ call[c].at = "code"
  /\ LET code == ReadCode IN
       /\ setupCode' = code
       /\ IF setupCode = None /\ codeFile = None THEN codes' = code /\ codeFile' = code
          ELSE UNCHANGED <<codes, codeFile>>
       /\ IF call[c].code = code THEN Move(c, "hash") ELSE End(c)
  /\ UNCHANGED <<users, guardVars, clockVars>>

\* Login refuses a locked pair (nothing changes then), takes one attempt of the address and reads
\* the account.  The password is right or wrong.
Login(c) ==
  \E u \in Usernames, a \in Addrs, right, allowed \in BOOLEAN :
    /\ ~locked(<<u, a>>)
    /\ allowIP(a, allowed)
    /\ Begin(c, IF allowed THEN [at |-> "hash", kind |-> "login", key |-> <<u, a>>,
                                 good |-> right /\ GetUserByUsername(u) # {}, code |-> None] ELSE Idle)

-----------------------------------------------------------------------------
(* Hashing the password, in the limiter of HashLimiter *)

HashDone(c) ==
  /\ call[c].at = "hash"
  /\ Move(c, IF call[c].kind = "setup" THEN "create" ELSE "verdict")
  /\ UNCHANGED <<guardVars, setupVars, clockVars>>

HashRefused(c) ==
  /\ call[c].at = "hash"
  /\ End(c)
  /\ UNCHANGED <<guardVars, setupVars, clockVars>>

-----------------------------------------------------------------------------
(* The end of a request *)

\* A bug: the first check is trusted.
CreateUserUnchecked(c) ==
  /\ call[c].at = "create"
  /\ users' = users \cup {<<Admin, c>>} /\ Move(c, "clear")
  /\ UNCHANGED <<setupCode, codeFile, codes, guardVars, clockVars>>

\* One transaction counts the users and creates the administrator.
CreateUser(c) ==
  /\ call[c].at = "create"
  /\ IF CountUsers = 0 THEN users' = {Admin} /\ Move(c, "clear") ELSE End(c) /\ UNCHANGED users
  /\ UNCHANGED <<setupCode, codeFile, codes, guardVars, clockVars>>

\* The code is forgotten and its file removed; then the session is opened.
ClearCode(c) ==
  /\ call[c].at = "clear"
  /\ setupCode' = None /\ codeFile' = None
  /\ Move(c, "session")
  /\ UNCHANGED <<users, codes, guardVars, clockVars>>

LoginFailed(c) ==
  /\ call[c].at = "verdict" /\ ~call[c].good
  /\ fail(call[c].key)
  /\ End(c)
  /\ UNCHANGED <<ips, setupVars, clockVars>>

LoginSucceeded(c) ==
  /\ call[c].at = "verdict" /\ call[c].good
  /\ success(call[c].key)
  /\ Move(c, "session")
  /\ UNCHANGED <<setupVars, clockVars>>

OpenSession(c) ==
  /\ call[c].at = "session"
  /\ End(c)
  /\ UNCHANGED <<guardVars, setupVars, clockVars>>

-----------------------------------------------------------------------------
(* Environment *)

AccountsTick ==
  /\ now < MaxClock
  /\ now' = now + 1
  /\ UNCHANGED <<attempts, boots, guardVars, setupVars, call>>

\* The node restarts: memory is lost, and announceSetup reads the code from
\* its file or draws one while there is no administrator.
announceSetup ==
  /\ boots < MaxBoots
  /\ boots' = boots + 1
  /\ call' = [c \in Callers |-> Idle]
  /\ entries' = << >> /\ ips' = << >>
  /\ setupCode' = IF users # {} THEN None ELSE IF codeFile # None THEN codeFile ELSE codes + 1
  /\ codeFile' = IF users # {} THEN codeFile ELSE setupCode'
  /\ codes' = IF users = {} /\ codeFile = None THEN codes + 1 ELSE codes
  /\ UNCHANGED <<now, attempts, users>>

-----------------------------------------------------------------------------
(* Specification *)

AccountsInit ==
  /\ now = 0 /\ attempts = 0 /\ boots = 0
  /\ users = {} /\ setupCode = 1 /\ codeFile = 1 /\ codes = 1
  /\ entries = << >> /\ ips = << >>
  /\ call = [c \in Callers |-> Idle]

AccountsStep(c) ==
  \/ Setup(c) \/ SetupRequired(c) \/ SetupCode(c)
  \/ Login(c)
  \/ HashDone(c) \/ HashRefused(c)
  \/ CreateUser(c) \/ ClearCode(c) \/ LoginFailed(c) \/ LoginSucceeded(c) \/ OpenSession(c)

AccountsNext == (\E c \in Callers : AccountsStep(c)) \/ AccountsTick \/ announceSetup

AccountsSpec == AccountsInit /\ [][AccountsNext]_accountVars

-----------------------------------------------------------------------------
(* Properties *)

At(where) == {c \in Callers : call[c].at \in where}

\* Setup: two wizards that both passed the first check create one
\* administrator between them.
OneAdministrator == Cardinality(users) <= 1 /\ Cardinality(At({"clear", "session"}) \cap
                      {c \in Callers : call[c].kind = "setup"}) <= 1

\* maxGuardEntries: flooding the guard with other names does not clear the
\* lock of a pair while it keeps an entry that is not locked.
LockSurvivesFlood ==
  [][\A k \in DOMAIN entries :
       now < entries[k].until /\ k \notin DOMAIN entries' =>
         \/ boots' # boots
         \/ \E c \in Callers : call[c].at = "verdict" /\ call[c].key = k /\ call[c].good
         \/ \A l \in DOMAIN entries \cap DOMAIN entries' : now < entries[l].until]_accountVars
=============================================================================

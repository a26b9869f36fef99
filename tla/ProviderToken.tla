------------------------------ MODULE ProviderToken ------------------------------
(***************************************************************************)
(* ShiprocketAuthService: the bearer token of a provider, shared by the     *)
(* requests of several instances. Each instance caches it in memory; the    *)
(* row of ProviderAuthToken holds it for all. Who finds it about to expire   *)
(* logs in anew, under a lease of the row; the first login of all is under   *)
(* an advisory lock of a transaction. A step is an awaited call.            *)
(***************************************************************************)
EXTENDS Naturals, FiniteSets

CONSTANTS
    Proc,           \* requests that need the token
    Instance,       \* instances of the server
    Home,           \* the instance of each request
    NoOne,          \* no holder
    MaxLogins,      \* successful logins (bound)
    MaxFaults       \* logins that fail, instances that die, long waits (bound)

TokenAssumption ==
    /\ Home \in [Proc -> Instance] /\ NoOne \notin Proc
    /\ MaxLogins \in Nat /\ MaxFaults \in Nat

VARIABLES
    row,            \* the stored token, 0 when there is no row
    cache,          \* the token in the memory of each instance, or 0
    newest,         \* the token of the latest login
    age,            \* how old a token is: fresh, stale (about to expire), expired
    revoked,        \* tokens the provider does not accept any more
    lease,          \* [holder, expired]: refreshLeaseToken, refreshLeaseUntil
    lock,           \* who holds the advisory lock
    inFlight,       \* instances with a request in runFirstLoginExclusive
    proc,           \* the requests
    overrun,        \* history: requests that lost their lease or lock to time, or to who did
    faults          \* faults so far

store == <<row, newest, age, revoked>>
locks == <<lease, lock, inFlight>>
vars == <<store, cache, locks, proc, overrun, faults>>

Token == 1 .. MaxLogins
Fresh(t) == t # 0 /\ age[t] = "fresh"        \* ~shouldRefreshShiprocketToken
Expired(t) == t = 0 \/ age[t] = "expired"
Free == [holder |-> NoOne, expired |-> FALSE]
Idle == [pc |-> "idle", kind |-> "lease", token |-> 0, prev |-> 0, rejected |-> 0,
         waited |-> FALSE]

\* Who is in runFirstLoginExclusive.
InFirstLogin(p) ==
    \/ proc[p].pc = "lock"
    \/ proc[p].kind = "initial"
       /\ proc[p].pc \in {"recheck", "login", "save", "lost", "failed", "finish"}

Goto(p, pc) == proc' = [proc EXCEPT ![p].pc = pc]
\* getBearerToken has its answer, which it also caches.
Answer(p, t, pc) ==
    /\ proc' = [proc EXCEPT ![p].pc = pc, ![p].token = t]
    /\ cache' = [cache EXCEPT ![Home[p]] = t]

Init ==
    /\ row = 0 /\ newest = 0
    /\ cache = [i \in Instance |-> 0]
    /\ age = [t \in Token |-> "fresh"]
    /\ revoked = {}
    /\ lease = Free /\ lock = NoOne /\ inFlight = {}
    /\ proc = [p \in Proc |-> Idle]
    /\ overrun = {}
    /\ faults = 0
-----------------------------------------------------------------------------
(* getBearerToken.                                                         *)

\* The cache first.
GetBearerToken(p) ==
    /\ proc[p].pc = "idle"
    /\ proc' = [proc EXCEPT ![p] =
          IF Fresh(cache[Home[p]]) THEN [Idle EXCEPT !.pc = "call", !.token = cache[Home[p]]]
          ELSE [Idle EXCEPT !.pc = "read"]]
    /\ UNCHANGED <<store, cache, locks, overrun, faults>>

\* Then the row, unless the token was rejected: forceRefresh.
ReadStored(p) ==
    /\ proc[p].pc = "read"
    /\ IF Fresh(row) /\ proc[p].rejected = 0
       THEN Answer(p, row, "call")
       ELSE proc' = [proc EXCEPT ![p].pc = "loop", ![p].prev = row] /\ UNCHANGED cache
    /\ UNCHANGED <<store, locks, overrun, faults>>

\* refreshWithConcurrencyGuard: a row that is fresh is taken, even by who came with
\* forceRefresh.
ReadAgain(p) ==
    /\ proc[p].pc = "loop"
    /\ IF Fresh(row) THEN Answer(p, row, "call")
       ELSE Goto(p, IF row = 0 THEN "first" ELSE "acquire") /\ UNCHANGED cache
    /\ UNCHANGED <<store, locks, overrun, faults>>

\* Thirty seconds of waiting are over.
GiveUp(p) ==
    /\ proc[p].pc = "loop" /\ proc[p].waited
    /\ proc' = [proc EXCEPT ![p] = Idle]
    /\ UNCHANGED <<store, cache, locks, overrun, faults>>

\* Mutated form: a lease is taken whether it has expired or not.
AcquireLease_Always(p) ==
    /\ proc[p].pc = "acquire"
    /\ lease' = [holder |-> p, expired |-> FALSE]
    /\ proc' = [proc EXCEPT ![p].pc = "recheck", ![p].kind = "lease"]
    /\ UNCHANGED <<store, cache, lock, inFlight, overrun, faults>>

\* tryAcquireRefreshLease: free or expired.
AcquireLease(p) ==
    /\ proc[p].pc = "acquire"
    /\ IF lease.holder = NoOne \/ lease.expired
       THEN /\ lease' = [holder |-> p, expired |-> FALSE]
            /\ proc' = [proc EXCEPT ![p].pc = "recheck", ![p].kind = "lease"]
       ELSE /\ proc' = [proc EXCEPT ![p].pc = "loop", ![p].waited = TRUE]
            /\ UNCHANGED lease
    /\ UNCHANGED <<store, cache, lock, inFlight, overrun, faults>>

\* runFirstLoginExclusive: one request of an instance,
EnterFirstLogin(p) ==
    /\ proc[p].pc = "first"
    /\ IF Home[p] \in inFlight
       THEN /\ proc' = [proc EXCEPT ![p].pc = "loop", ![p].waited = TRUE]
            /\ UNCHANGED inFlight
       ELSE /\ proc' = [proc EXCEPT ![p].pc = "lock", ![p].kind = "initial"]
            /\ inFlight' = inFlight \cup {Home[p]}
    /\ UNCHANGED <<store, cache, lease, lock, overrun, faults>>

\* and one instance.
TakeLock(p) ==
    /\ proc[p].pc = "lock" /\ lock = NoOne
    /\ lock' = p
    /\ Goto(p, "recheck")
    /\ UNCHANGED <<store, cache, lease, inFlight, overrun, faults>>

\* Under the lease or the lock the row is read once more.
Recheck(p) ==
    /\ proc[p].pc = "recheck"
    /\ IF Fresh(row) THEN Answer(p, row, "finish")
       ELSE /\ proc' = [proc EXCEPT ![p].pc = "login",
                                    ![p].prev = IF row # 0 THEN row ELSE @]
            /\ UNCHANGED cache
    /\ UNCHANGED <<store, locks, overrun, faults>>

\* loginPersistAndCache: the provider's answer, after renewRefreshLease.
LogIn(p) ==
    /\ proc[p].pc = "login"
    /\ \/ /\ newest < MaxLogins
          /\ newest' = newest + 1
          /\ proc' = [proc EXCEPT ![p].pc = "save", ![p].token = newest + 1]
          /\ UNCHANGED faults
       \/ /\ faults < MaxFaults \/ newest = MaxLogins
          /\ faults' = IF newest = MaxLogins THEN faults ELSE faults + 1
          /\ Goto(p, "failed")
          /\ UNCHANGED newest
    /\ UNCHANGED <<row, age, revoked, cache, locks, overrun>>

\* Mutated form: the lease is not looked at.
Save_Unconditional(p) ==
    /\ proc[p].pc = "save"
    /\ row' = proc[p].token
    /\ Answer(p, proc[p].token, "finish")
    /\ UNCHANGED <<newest, age, revoked, locks, overrun, faults>>

\* saveSuccessfulTokenWithLease, createSuccessfulTokenIfAbsent.
Save(p) ==
    LET mine == IF proc[p].kind = "lease" THEN lease.holder = p ELSE row = 0 IN
    /\ proc[p].pc = "save"
    /\ IF mine
       THEN /\ row' = proc[p].token
            /\ lease' = IF proc[p].kind = "lease" THEN Free ELSE lease
            /\ Answer(p, proc[p].token, "finish")
       ELSE /\ Goto(p, "lost")
            /\ UNCHANGED <<row, lease, cache>>
    /\ UNCHANGED <<newest, age, revoked, lock, inFlight, overrun, faults>>

\* Mutated form: the token that was there before is taken as it is.
ResolveAfterLost_Unchecked(p) ==
    /\ proc[p].pc = "lost"
    /\ IF Fresh(row) THEN Answer(p, row, "finish") ELSE Answer(p, proc[p].prev, "finish")
    /\ UNCHANGED <<store, locks, overrun, faults>>

\* resolveAfterLostPersistence: what the other one stored, or else what was there
\* before, as long as it has not expired.
ResolveAfterLost(p) ==
    LET prev == proc[p].prev IN
    /\ proc[p].pc = "lost"
    /\ IF ~Expired(row) THEN Answer(p, row, "finish")
       ELSE IF ~Expired(prev) THEN Answer(p, prev, "finish")
       ELSE proc' = [proc EXCEPT ![p].pc = "finish", ![p].token = 0] /\ UNCHANGED cache
    /\ UNCHANGED <<store, locks, overrun, faults>>

\* The catch: markRefreshFailed, which clears its own lease, or any when it has
\* none; and the token there was, as long as it has not expired.
LoginFailed(p) ==
    LET prev == proc[p].prev IN
    /\ proc[p].pc = "failed"
    /\ IF prev # 0 /\ (proc[p].kind = "initial" \/ lease.holder = p)
       THEN lease' = Free /\ overrun' = overrun \cup ({lease.holder} \ {p, NoOne})
       ELSE UNCHANGED <<lease, overrun>>
    /\ IF ~Expired(prev) THEN Answer(p, prev, "finish")
       ELSE proc' = [proc EXCEPT ![p].pc = "finish", ![p].token = 0] /\ UNCHANGED cache
    /\ UNCHANGED <<store, lock, inFlight, faults>>

\* There is no token, or the transaction around the login has timed out and does not
\* commit, whatever is in the cache and in the row by then.
Throws(p) == proc[p].token = 0 \/ (proc[p].kind = "initial" /\ lock # p)

\* Mutated form: the advisory lock is one of the session, not of the transaction.
Finish_KeepsLock(p) ==
    /\ proc[p].pc = "finish"
    /\ lease' = IF proc[p].kind = "lease" /\ lease.holder = p THEN Free ELSE lease
    /\ inFlight' = IF proc[p].kind = "initial" THEN inFlight \ {Home[p]} ELSE inFlight
    /\ proc' = [proc EXCEPT ![p] =
                  IF Throws(p) THEN Idle ELSE [@ EXCEPT !.pc = "call"]]
    /\ UNCHANGED <<store, cache, lock, overrun, faults>>

\* The finally: releaseRefreshLease, or the end of the transaction.
Finish(p) ==
    /\ proc[p].pc = "finish"
    /\ lease' = IF proc[p].kind = "lease" /\ lease.holder = p THEN Free ELSE lease
    /\ lock' = IF lock = p THEN NoOne ELSE lock
    /\ inFlight' = IF proc[p].kind = "initial" THEN inFlight \ {Home[p]} ELSE inFlight
    /\ proc' = [proc EXCEPT ![p] =
                  IF Throws(p) THEN Idle ELSE [@ EXCEPT !.pc = "call"]]
    /\ UNCHANGED <<store, cache, overrun, faults>>
-----------------------------------------------------------------------------
(* The request the token is for.                                           *)

\* shiprocketAuthenticatedReadRequest tries once more after a 401, with
\* forceRefresh; shiprocketAuthenticatedMutationRequest does not.
Call(p) ==
    LET t == proc[p].token IN
    /\ proc[p].pc = "call"
    /\ \/ /\ Expired(t) \/ t \in revoked
          /\ proc[p].rejected = 0
          /\ cache' = [cache EXCEPT ![Home[p]] = 0]
          /\ proc' = [proc EXCEPT ![p] = [Idle EXCEPT !.pc = "read", !.rejected = t]]
       \/ /\ proc' = [proc EXCEPT ![p] = Idle]
          /\ UNCHANGED cache
    /\ UNCHANGED <<store, locks, overrun, faults>>
-----------------------------------------------------------------------------
(* Time, faults and the provider.                                          *)

\* A stored token grows old, in days: a request that still makes the row this token is
\* in, or waits to make it, has overrun by far.
Grow(t) ==
    /\ t <= row /\ age[t] # "expired"
    /\ age' = [age EXCEPT ![t] = IF @ = "fresh" THEN "stale" ELSE "expired"]
    /\ overrun' = overrun \cup
         {p \in Proc : proc[p].pc = "first" \/ InFirstLogin(p)}
    /\ UNCHANGED <<row, newest, revoked, cache, locks, proc, faults>>

Revoke(t) ==
    /\ t <= newest /\ t \notin revoked /\ faults < MaxFaults
    /\ faults' = faults + 1
    /\ revoked' = revoked \cup {t}
    /\ UNCHANGED <<row, newest, age, cache, locks, proc, overrun>>

\* A lease expires; its holder may still be alive (bound), or dead.
Holding == lease.holder # NoOne /\ proc[lease.holder].kind = "lease"
           /\ proc[lease.holder].pc \in {"recheck", "login", "save", "failed", "finish"}
LeaseExpires ==
    /\ lease.holder # NoOne /\ ~lease.expired
    /\ Holding => faults < MaxFaults
    /\ faults' = IF Holding THEN faults + 1 ELSE faults
    /\ overrun' = IF Holding THEN overrun \cup {lease.holder} ELSE overrun
    /\ lease' = [lease EXCEPT !.expired = TRUE]
    /\ UNCHANGED <<store, cache, lock, inFlight, proc>>

\* The transaction around a first login times out; the login goes on, and Finish throws.
LockTimesOut ==
    /\ lock # NoOne /\ faults < MaxFaults
    /\ faults' = faults + 1
    /\ overrun' = overrun \cup {lock}
    /\ lock' = NoOne
    /\ UNCHANGED <<store, cache, lease, inFlight, proc>>

\* An instance dies, with its memory and its connections; a lease stays.
Crash(i) ==
    /\ faults < MaxFaults
    /\ faults' = faults + 1
    /\ cache' = [cache EXCEPT ![i] = 0]
    /\ inFlight' = inFlight \ {i}
    /\ lock' = IF lock # NoOne /\ Home[lock] = i THEN NoOne ELSE lock
    /\ proc' = [p \in Proc |-> IF Home[p] = i THEN Idle ELSE proc[p]]
    /\ UNCHANGED <<store, lease, overrun>>

Step(p) ==
    \/ ReadStored(p) \/ ReadAgain(p) \/ AcquireLease(p) \/ EnterFirstLogin(p) \/ TakeLock(p)
    \/ Recheck(p) \/ LogIn(p) \/ Save(p) \/ ResolveAfterLost(p) \/ LoginFailed(p)
    \/ Finish(p) \/ Call(p)

Next ==
    \/ \E p \in Proc : GetBearerToken(p) \/ Step(p) \/ GiveUp(p)
    \/ \E t \in Token : Grow(t) \/ Revoke(t)
    \/ \E i \in Instance : Crash(i)
    \/ LeaseExpires \/ LockTimesOut

Spec == Init /\ [][Next]_vars
-----------------------------------------------------------------------------
(* Properties.                                                             *)

TypeOK ==
    /\ row \in 0 .. newest /\ newest \in 0 .. MaxLogins
    /\ cache \in [Instance -> 0 .. newest]
    /\ lease.holder = NoOne => ~lease.expired
    /\ row = 0 => lease.holder = NoOne
    /\ \A p \in Proc : proc[p].token \in 0 .. newest /\ proc[p].prev \in 0 .. newest
    /\ lock # NoOne => Home[lock] \in inFlight

\* At most one request logs in at a time, of all instances, apart from those whose
\* lease or lock ran out while they did.
LoggingIn == {p \in Proc : proc[p].pc \in {"login", "save"}}
OneLoginAtATime == Cardinality(LoggingIn \ overrun) <= 1

\* A login is not wasted on a row that another has just renewed: who logs in found
\* no fresh token after it had the lease or the lock, and since then only one who
\* overran can have stored another.
NoNeedlessLogin ==
    [][\A p \in Proc : proc[p].pc = "login" /\ proc'[p].pc = "save" /\ overrun = {}
                       => ~Fresh(row)]_vars

\* The stored token is only ever replaced by a later one: a slow login whose lease
\* was taken over does not bring an older token back.
NewestIsKept == [][row' >= row]_row

\* getBearerToken never answers with a token that has expired, whichever way it
\* came by it.
NeverExpired ==
    [][\A p \in Proc : proc'[p].token # 0 /\ proc'[p].token # proc[p].token
                       => age'[proc'[p].token] # "expired"]_vars
-----------------------------------------------------------------------------
(* The inductive invariant.                                                *)

Requests ==
    [pc : {"idle", "read", "loop", "acquire", "first", "lock", "recheck", "login", "save",
           "lost", "failed", "finish", "call"},
     kind : {"lease", "initial"}, token : 0 .. MaxLogins, prev : 0 .. MaxLogins,
     rejected : 0 .. MaxLogins, waited : BOOLEAN]

\* Who renews the token between taking the lease or the lock and storing it.
Renewing == {"recheck", "login", "save"}
HasLease(p) == proc[p].kind = "lease" /\ proc[p].pc \in Renewing
HasLock(p) == proc[p].kind = "initial" /\ proc[p].pc \in Renewing

Typed ==
    /\ TypeOK
    /\ proc \in [Proc -> Requests]
    /\ age \in [Token -> {"fresh", "stale", "expired"}]
    /\ lease \in [holder : Proc \cup {NoOne}, expired : BOOLEAN]
    /\ lock \in Proc \cup {NoOne} /\ inFlight \subseteq Instance /\ overrun \subseteq Proc
    /\ faults \in Nat

\* One request of an instance is in runFirstLoginExclusive, and holds the lock at most.
OneOfAnInstance ==
    /\ \A p \in Proc : InFirstLogin(p) => Home[p] \in inFlight
    /\ \A p, q \in Proc : InFirstLogin(p) /\ InFirstLogin(q) /\ Home[p] = Home[q] => p = q
    /\ lock # NoOne => InFirstLogin(lock) /\ proc[lock].pc # "lock"

\* Who took the lease or the lock has it, unless he overran; a lease is one of a row,
\* and the lock is for a first login.
HoldersHold ==
    \A p \in Proc :
        /\ HasLock(p) /\ p \notin overrun => lock = p
        /\ HasLease(p) /\ p \notin overrun => lease.holder = p /\ ~lease.expired
        /\ proc[p].pc = "acquire" \/ HasLease(p) => row # 0
        /\ proc[p].pc = "lock" => proc[p].kind = "initial"

\* No token has grown old since who waits to make the first row came, and one has before
\* anybody renews it; one that is not stored yet is fresh.
AgesAreKnown ==
    /\ \A t \in Token : row < t => age[t] = "fresh"
    /\ \A p \in Proc :
        /\ (proc[p].pc = "first" \/ InFirstLogin(p)) /\ p \notin overrun
           => \A t \in Token : age[t] = "fresh"
        /\ HasLease(p) /\ proc[p].pc # "recheck" => \E t \in Token : age[t] # "fresh"

\* A new token is later than the one it replaces. Who logs in found nothing fresh, and
\* nobody stored anything since.
RowIsKnown ==
    \A p \in Proc :
        /\ proc[p].pc = "save" => proc[p].token \in 1 .. newest
        /\ proc[p].pc = "save" /\ proc[p].kind = "lease" /\ lease.holder = p
           => row < proc[p].token
        /\ overrun = {} /\ proc[p].pc = "login" => ~Fresh(row)
        /\ overrun = {} /\ HasLock(p) /\ proc[p].pc # "recheck" => row = 0

IInv == Typed /\ OneOfAnInstance /\ HoldersHold /\ AgesAreKnown /\ RowIsKnown
=============================================================================

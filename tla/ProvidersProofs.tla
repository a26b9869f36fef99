----------------------------- MODULE ProvidersProofs -----------------------------
(***************************************************************************)
(* Proofs about a delivery until it is booked, as MCProviders puts it        *)
(* together: the invariant of each part, kept by every step of it, and from  *)
(* these the properties the run checks, for every number of requests,        *)
(* instances, administrators, calls, prices and providers.                   *)
(***************************************************************************)
EXTENDS MCProviders, CommonLemmas

-----------------------------------------------------------------------------
(* ProviderToken.                                                          *)

\* The types of the token's variables, and the pairs that TypeOK relates.
LEMMA TokenTypes ==
    ASSUME Token!TokenAssumption, Token!IInv
    PROVE  /\ Home \in [Proc -> Instance] /\ None \notin Proc
           /\ MaxLogins \in Nat /\ MaxSlips \in Nat
           /\ newest \in 0 .. MaxLogins /\ stored \in 0 .. newest
           /\ cache \in [Instance -> 0 .. newest]
           /\ users \in [Proc -> Token!Requests]
           /\ age \in [1 .. MaxLogins -> {"fresh", "stale", "expired"}]
           /\ lease \in [holder : Proc \cup {None}, expired : BOOLEAN]
           /\ lease.holder = None => ~lease.expired
           /\ stored = 0 => lease.holder = None
           /\ lock \in Proc \cup {None} /\ inFlight \subseteq Instance /\ overrun \subseteq Proc
           /\ slips \in Nat
           /\ \A p \in Proc : users[p].token \in 0 .. newest /\ users[p].prev \in 0 .. newest
           /\ lock # None => Home[lock] \in inFlight
  BY DEF Token!TokenAssumption, Token!IInv, Token!Typed, Token!TypeOK, Token!Token

\* What the invariant says of a request, as predicates of its record.
FirstLogin(u) ==
    \/ u.pc = "lock"
    \/ u.kind = "initial" /\ u.pc \in {"recheck", "login", "save", "lost", "failed", "finish"}
LeaseRenewal(u) == u.kind = "lease" /\ u.pc \in {"recheck", "login", "save"}
LockRenewal(u) == u.kind = "initial" /\ u.pc \in {"recheck", "login", "save"}

\* A request of the token's is a record of these fields.
LEMMA TokenRequest ==
    ASSUME NEW u \in Token!Requests
    PROVE  /\ u.pc \in {"idle", "read", "loop", "acquire", "first", "lock", "recheck", "login",
                        "save", "lost", "failed", "finish", "call"}
           /\ u.kind \in {"lease", "initial"} /\ u.token \in 0 .. MaxLogins
           /\ u.prev \in 0 .. MaxLogins /\ u.rejected \in 0 .. MaxLogins /\ u.waited \in BOOLEAN
  BY DEF Token!Requests

\* What one of them knows of the row, the lease and the lock.
TokenKnowsOf(p) ==
    /\ LockRenewal(users[p]) /\ p \notin overrun => lock = p
    /\ LeaseRenewal(users[p]) /\ p \notin overrun => lease.holder = p /\ ~lease.expired
    /\ users[p].pc = "acquire" \/ LeaseRenewal(users[p]) => stored # 0
    /\ users[p].pc = "lock" => users[p].kind = "initial"
    /\ (users[p].pc = "first" \/ FirstLogin(users[p])) /\ p \notin overrun
       => \A t \in 1 .. MaxLogins : age[t] = "fresh"
    /\ LeaseRenewal(users[p]) /\ users[p].pc # "recheck"
       => \E t \in 1 .. MaxLogins : age[t] # "fresh"
    /\ users[p].pc = "save" => users[p].token \in 1 .. newest
    /\ users[p].pc = "save" /\ users[p].kind = "lease" /\ lease.holder = p
       => stored < users[p].token
    /\ overrun = {} /\ users[p].pc = "login" => ~(stored # 0 /\ age[stored] = "fresh")
    /\ overrun = {} /\ LockRenewal(users[p]) /\ users[p].pc # "recheck" => stored = 0

\* What the requests know, apart from their types.
TokenKnows ==
    /\ \A t \in 1 .. MaxLogins : stored < t => age[t] = "fresh"
    /\ \A p \in Proc : FirstLogin(users[p]) => Home[p] \in inFlight
    /\ \A p, q \in Proc :
          FirstLogin(users[p]) /\ FirstLogin(users[q]) /\ Home[p] = Home[q] => p = q
    /\ lock # None => FirstLogin(users[lock]) /\ users[lock].pc # "lock"
    /\ \A p \in Proc : TokenKnowsOf(p)

\* The invariant is the types and that.
LEMMA TokenIInv ==
    Token!IInv <=> Token!Typed /\ TokenKnows
<1>1. \A p : /\ Token!InFirstLogin(p) <=> FirstLogin(users[p])
             /\ Token!HasLease(p) <=> LeaseRenewal(users[p])
             /\ Token!HasLock(p) <=> LockRenewal(users[p])
  BY DEF Token!InFirstLogin, FirstLogin, Token!HasLease, LeaseRenewal, Token!HasLock,
         LockRenewal, Token!Renewing
<1>2. (Token!OneOfAnInstance /\ Token!HoldersHold /\ Token!AgesAreKnown /\ Token!RowIsKnown)
      <=> TokenKnows
  BY <1>1 DEF Token!OneOfAnInstance, Token!HoldersHold, Token!AgesAreKnown, Token!RowIsKnown,
              TokenKnows, TokenKnowsOf, Token!Token, Token!Fresh
<1> QED
  BY <1>2 DEF Token!IInv

\* The same of the next state.
LEMMA TokenIInvNext ==
    Token!IInv' <=> Token!Typed' /\ TokenKnows'
  BY TokenIInv, PTL

\* A record put for one of the requests.
LEMMA TokenPut ==
    ASSUME users \in [Proc -> Token!Requests], NEW p \in Proc, NEW new \in Token!Requests,
           users' = [users EXCEPT ![p] = new]
    PROVE  /\ users' \in [Proc -> Token!Requests]
           /\ users'[p] = new /\ \A q \in Proc \ {p} : users'[q] = users[q]
  OBVIOUS

\* A step of a request that touches neither the row nor the lease nor the lock.
LEMMA TokenQuiet ==
    ASSUME Token!TokenAssumption, Token!IInv, NEW p \in Proc, NEW new \in Token!Requests,
           users' = [users EXCEPT ![p] = new],
           newest' \in newest .. MaxLogins, slips' \in Nat, cache' \in [Instance -> 0 .. newest'],
           new.token \in 0 .. newest', new.prev \in 0 .. newest',
           UNCHANGED <<stored, age, lease, lock, inFlight, overrun>>,
           FirstLogin(new) <=> FirstLogin(users[p]), new.pc # "lock",
           LeaseRenewal(new) => LeaseRenewal(users[p]),
           LockRenewal(new) => LockRenewal(users[p]),
           new.pc = "acquire" => stored # 0, new.pc = "first" => stored = 0,
           LeaseRenewal(new) /\ new.pc # "recheck"
           => \E t \in 1 .. MaxLogins : age[t] # "fresh",
           new.pc = "save" => new.token \in stored + 1 .. newest',
           new.pc = "login" => ~(stored # 0 /\ age[stored] = "fresh"),
           overrun = {} /\ LockRenewal(new) /\ new.pc # "recheck" => stored = 0
    PROVE  Token!IInv'
<1>1. /\ Token!Typed /\ TokenKnows
  BY TokenIInv
<1>2. /\ users' \in [Proc -> Token!Requests]
      /\ users'[p] = new /\ \A q \in Proc \ {p} : users'[q] = users[q]
  BY TokenTypes, TokenPut
<1>3. Token!Typed'
  BY SMTT(30), <1>2, TokenTypes DEF Token!Typed, Token!TypeOK, Token!Token
<1>4. TokenKnows'
  <2>1. (\A t \in 1 .. MaxLogins : stored < t => age[t] = "fresh")'
    BY <1>1 DEF TokenKnows, TokenKnowsOf
  <2>2. \A q \in Proc : FirstLogin(users'[q]) <=> FirstLogin(users[q])
    BY <1>2
  <2>3. (/\ \A r \in Proc : FirstLogin(users[r]) => Home[r] \in inFlight
         /\ \A r, q \in Proc :
               FirstLogin(users[r]) /\ FirstLogin(users[q]) /\ Home[r] = Home[q] => r = q)'
    BY <1>1, <2>2 DEF TokenKnows, TokenKnowsOf
  <2>4. (lock # None => FirstLogin(users[lock]) /\ users[lock].pc # "lock")'
    BY <1>1, <1>2, <2>2, TokenTypes DEF TokenKnows, TokenKnowsOf
  <2>5. ASSUME NEW q \in Proc
        PROVE  /\ LockRenewal(users'[q]) => LockRenewal(users[q])
               /\ LeaseRenewal(users'[q]) => LeaseRenewal(users[q])
    BY <1>2
  <2>6. ASSUME NEW q \in Proc
        PROVE  TokenKnowsOf(q)'
    <3>1. CASE q = p
      <4>1. /\ TokenKnowsOf(p) /\ users'[p] = new /\ stored \in Nat /\ newest' \in Nat
            /\ new.token \in Nat
        BY <1>1, <1>2, TokenTypes DEF TokenKnows
      <4>2. (/\ LockRenewal(users[p]) /\ p \notin overrun => lock = p
             /\ LeaseRenewal(users[p]) /\ p \notin overrun => lease.holder = p /\ ~lease.expired
             /\ users[p].pc = "acquire" \/ LeaseRenewal(users[p]) => stored # 0
             /\ users[p].pc = "lock" => users[p].kind = "initial")'
        BY <4>1 DEF TokenKnowsOf
      <4>3. ((users[p].pc = "first" \/ FirstLogin(users[p])) /\ p \notin overrun
             => \A t \in 1 .. MaxLogins : age[t] = "fresh")'
        BY <1>1, <4>1 DEF TokenKnows, TokenKnowsOf
      <4>4. (LeaseRenewal(users[p]) /\ users[p].pc # "recheck"
             => \E t \in 1 .. MaxLogins : age[t] # "fresh")'
        BY <4>1
      <4>5. (/\ users[p].pc = "save" => users[p].token \in 1 .. newest
             /\ users[p].pc = "save" /\ users[p].kind = "lease" /\ lease.holder = p
                => stored < users[p].token)'
        BY <4>1
      <4>6. (/\ overrun = {} /\ users[p].pc = "login" => ~(stored # 0 /\ age[stored] = "fresh")
             /\ overrun = {} /\ LockRenewal(users[p]) /\ users[p].pc # "recheck" => stored = 0)'
        BY <4>1
      <4> QED
        BY <3>1, <4>2, <4>3, <4>4, <4>5, <4>6 DEF TokenKnowsOf
    <3>2. CASE q # p
      BY SMTT(30), <1>1, <1>2, <3>2, TokenTypes DEF TokenKnows, TokenKnowsOf
    <3> QED
      BY <3>1, <3>2
  <2> QED
    BY <2>1, <2>3, <2>4, <2>6 DEF TokenKnows
<1> QED
  BY <1>3, <1>4, TokenIInvNext

Steps == {"idle", "read", "loop", "acquire", "first", "lock", "recheck", "login", "save",
          "lost", "failed", "finish", "call"}

\* What the steps put for a request.
Going(p, pc) == [users EXCEPT ![p].pc = pc]
Answering(p, pc, t) == [users EXCEPT ![p].pc = pc, ![p].token = t]
Remembering(p, pc, t) == [users EXCEPT ![p].pc = pc, ![p].prev = t]
Turning(p, pc, kind) == [users EXCEPT ![p].pc = pc, ![p].kind = kind]
Waiting(p, pc) == [users EXCEPT ![p].pc = pc, ![p].waited = TRUE]

\* A record with another step, and with another token: what Goto and Answer put.
LEMMA TokenGoes ==
    ASSUME users \in [Proc -> Token!Requests], NEW p \in Proc, NEW pc \in Steps
    PROVE  \E new \in Token!Requests :
             /\ Going(p, pc) = [users EXCEPT ![p] = new]
             /\ new.pc = pc /\ new.kind = users[p].kind /\ new.token = users[p].token
             /\ new.prev = users[p].prev /\ new.rejected = users[p].rejected
             /\ new.waited = users[p].waited
<1> DEFINE new == [users[p] EXCEPT !.pc = pc]
<1>1. new \in Token!Requests
  BY DEF Token!Requests, Steps
<1>2. /\ new.pc = pc /\ new.kind = users[p].kind /\ new.token = users[p].token
      /\ new.prev = users[p].prev /\ new.rejected = users[p].rejected
      /\ new.waited = users[p].waited
  BY DEF Token!Requests
<1>3. Going(p, pc) = [users EXCEPT ![p] = new]
  BY DEF Going
<1> HIDE DEF new
<1> QED
  BY <1>1, <1>2, <1>3

\* The record of a request that is answered.
LEMMA TokenAnswers ==
    ASSUME users \in [Proc -> Token!Requests], NEW p \in Proc, NEW pc \in Steps,
           NEW t \in 0 .. MaxLogins
    PROVE  \E new \in Token!Requests :
             /\ Answering(p, pc, t) = [users EXCEPT ![p] = new]
             /\ new.pc = pc /\ new.kind = users[p].kind /\ new.token = t
             /\ new.prev = users[p].prev /\ new.rejected = users[p].rejected
             /\ new.waited = users[p].waited
<1>1. PICK one \in Token!Requests :
        /\ Going(p, pc) = [users EXCEPT ![p] = one]
        /\ one.pc = pc /\ one.kind = users[p].kind /\ one.token = users[p].token
        /\ one.prev = users[p].prev /\ one.rejected = users[p].rejected
        /\ one.waited = users[p].waited
  BY TokenGoes
<1> DEFINE new == [one EXCEPT !.token = t]
<1>2. new \in Token!Requests
  BY DEF Token!Requests
<1>3. /\ new.pc = pc /\ new.kind = users[p].kind /\ new.token = t
      /\ new.prev = users[p].prev /\ new.rejected = users[p].rejected
      /\ new.waited = users[p].waited
  BY <1>1 DEF Token!Requests
<1>4. Answering(p, pc, t) = [Going(p, pc) EXCEPT ![p].token = t]
  BY DEF Answering, Going
<1>5. [[users EXCEPT ![p] = one] EXCEPT ![p].token = t] = [users EXCEPT ![p] = new]
  OBVIOUS
<1> HIDE DEF new
<1>6. Answering(p, pc, t) = [users EXCEPT ![p] = new]
  BY <1>1, <1>4, <1>5
<1> QED
  BY <1>2, <1>3, <1>6

\* The same for two fields that are not the token.
LEMMA TokenRemembers ==
    ASSUME users \in [Proc -> Token!Requests], NEW p \in Proc, NEW pc \in Steps,
           NEW t \in 0 .. MaxLogins
    PROVE  \E new \in Token!Requests :
             /\ Remembering(p, pc, t) = [users EXCEPT ![p] = new]
             /\ new.pc = pc /\ new.kind = users[p].kind /\ new.token = users[p].token
             /\ new.prev = t
<1>1. PICK one \in Token!Requests :
        /\ Going(p, pc) = [users EXCEPT ![p] = one]
        /\ one.pc = pc /\ one.kind = users[p].kind /\ one.token = users[p].token
        /\ one.prev = users[p].prev /\ one.rejected = users[p].rejected
        /\ one.waited = users[p].waited
  BY TokenGoes
<1> DEFINE new == [one EXCEPT !.prev = t]
<1>2. new \in Token!Requests
  BY DEF Token!Requests
<1>3. /\ new.pc = pc /\ new.kind = users[p].kind /\ new.token = users[p].token
      /\ new.prev = t
  BY <1>1 DEF Token!Requests
<1>4. Remembering(p, pc, t) = [Going(p, pc) EXCEPT ![p].prev = t]
  BY DEF Remembering, Going
<1>5. [[users EXCEPT ![p] = one] EXCEPT ![p].prev = t] = [users EXCEPT ![p] = new]
  OBVIOUS
<1> HIDE DEF new
<1>6. Remembering(p, pc, t) = [users EXCEPT ![p] = new]
  BY <1>1, <1>4, <1>5
<1> QED
  BY <1>2, <1>3, <1>6

\* The record of a request that turns to the lease or the first login.
LEMMA TokenTurns ==
    ASSUME users \in [Proc -> Token!Requests], NEW p \in Proc, NEW pc \in Steps,
           NEW kind \in {"lease", "initial"}
    PROVE  \E new \in Token!Requests :
             /\ Turning(p, pc, kind) = [users EXCEPT ![p] = new]
             /\ new.pc = pc /\ new.kind = kind /\ new.token = users[p].token
             /\ new.prev = users[p].prev
<1>1. PICK one \in Token!Requests :
        /\ Going(p, pc) = [users EXCEPT ![p] = one]
        /\ one.pc = pc /\ one.kind = users[p].kind /\ one.token = users[p].token
        /\ one.prev = users[p].prev /\ one.rejected = users[p].rejected
        /\ one.waited = users[p].waited
  BY TokenGoes
<1> DEFINE new == [one EXCEPT !.kind = kind]
<1>2. new \in Token!Requests
  BY DEF Token!Requests
<1>3. /\ new.pc = pc /\ new.kind = kind /\ new.token = users[p].token
      /\ new.prev = users[p].prev
  BY <1>1 DEF Token!Requests
<1>4. Turning(p, pc, kind) = [Going(p, pc) EXCEPT ![p].kind = kind]
  BY DEF Turning, Going
<1>5. [[users EXCEPT ![p] = one] EXCEPT ![p].kind = kind] = [users EXCEPT ![p] = new]
  OBVIOUS
<1> HIDE DEF new
<1>6. Turning(p, pc, kind) = [users EXCEPT ![p] = new]
  BY <1>1, <1>4, <1>5
<1> QED
  BY <1>2, <1>3, <1>6

\* The record of a request that waits.
LEMMA TokenWaits ==
    ASSUME users \in [Proc -> Token!Requests], NEW p \in Proc, NEW pc \in Steps
    PROVE  \E new \in Token!Requests :
             /\ Waiting(p, pc) = [users EXCEPT ![p] = new]
             /\ new.pc = pc /\ new.kind = users[p].kind /\ new.token = users[p].token
             /\ new.prev = users[p].prev
<1>1. PICK one \in Token!Requests :
        /\ Going(p, pc) = [users EXCEPT ![p] = one]
        /\ one.pc = pc /\ one.kind = users[p].kind /\ one.token = users[p].token
        /\ one.prev = users[p].prev /\ one.rejected = users[p].rejected
        /\ one.waited = users[p].waited
  BY TokenGoes
<1> DEFINE new == [one EXCEPT !.waited = TRUE]
<1>2. new \in Token!Requests
  BY DEF Token!Requests
<1>3. /\ new.pc = pc /\ new.kind = users[p].kind /\ new.token = users[p].token
      /\ new.prev = users[p].prev
  BY <1>1 DEF Token!Requests
<1>4. Waiting(p, pc) = [Going(p, pc) EXCEPT ![p].waited = TRUE]
  BY DEF Waiting, Going
<1>5. [[users EXCEPT ![p] = one] EXCEPT ![p].waited = TRUE] = [users EXCEPT ![p] = new]
  OBVIOUS
<1> HIDE DEF new
<1>6. Waiting(p, pc) = [users EXCEPT ![p] = new]
  BY <1>1, <1>4, <1>5
<1> QED
  BY <1>2, <1>3, <1>6

\* The records of who starts: asked afresh, answered from the cache, or after a rejection.
LEMMA TokenIdle ==
    ASSUME Token!TokenAssumption
    PROVE  /\ Token!Idle \in Token!Requests /\ Token!Idle.pc = "idle"
           /\ Token!Idle.kind = "lease" /\ Token!Idle.token = 0 /\ Token!Idle.prev = 0
  BY DEF Token!TokenAssumption, Token!Idle, Token!Requests

\* The record of a request that reads the row.
LEMMA TokenReads ==
    ASSUME Token!TokenAssumption
    PROVE  \E new \in Token!Requests :
             /\ new = [Token!Idle EXCEPT !.pc = "read"] /\ new.pc = "read"
             /\ new.kind = "lease" /\ new.token = 0 /\ new.prev = 0
<1> DEFINE new == [Token!Idle EXCEPT !.pc = "read"]
<1>1. /\ new \in Token!Requests /\ new.pc = "read"
      /\ new.kind = "lease" /\ new.token = 0 /\ new.prev = 0
  BY TokenIdle DEF Token!Requests
<1>2. new = [Token!Idle EXCEPT !.pc = "read"]
  OBVIOUS
<1> HIDE DEF new
<1> QED
  BY <1>1, <1>2

\* The record of a request whose token was rejected.
LEMMA TokenForces ==
    ASSUME Token!TokenAssumption, NEW t \in 0 .. MaxLogins
    PROVE  \E new \in Token!Requests :
             /\ new = [Token!Idle EXCEPT !.pc = "read", !.rejected = t] /\ new.pc = "read"
             /\ new.kind = "lease" /\ new.token = 0 /\ new.prev = 0
<1>1. PICK one \in Token!Requests :
             /\ one = [Token!Idle EXCEPT !.pc = "read"] /\ one.pc = "read"
             /\ one.kind = "lease" /\ one.token = 0 /\ one.prev = 0
  BY TokenReads
<1>2. [Token!Idle EXCEPT !.pc = "read", !.rejected = t] = [one EXCEPT !.rejected = t]
  BY <1>1
<1> DEFINE new == [one EXCEPT !.rejected = t]
<1>3. /\ new \in Token!Requests /\ new.pc = "read"
      /\ new.kind = "lease" /\ new.token = 0 /\ new.prev = 0
  BY <1>1 DEF Token!Requests
<1>4. new = [Token!Idle EXCEPT !.pc = "read", !.rejected = t]
  BY <1>2
<1> HIDE DEF new
<1> QED
  BY <1>3, <1>4

\* The record of a request that calls with its token.
LEMMA TokenCalls ==
    ASSUME Token!TokenAssumption, NEW t \in 0 .. MaxLogins
    PROVE  \E new \in Token!Requests :
             /\ new = [Token!Idle EXCEPT !.pc = "call", !.token = t] /\ new.pc = "call"
             /\ new.kind = "lease" /\ new.token = t /\ new.prev = 0
<1> DEFINE one == [Token!Idle EXCEPT !.pc = "call"]
<1>1. /\ one \in Token!Requests /\ one.pc = "call"
      /\ one.kind = "lease" /\ one.token = 0 /\ one.prev = 0
  BY TokenIdle DEF Token!Requests
<1>2. [Token!Idle EXCEPT !.pc = "call", !.token = t] = [one EXCEPT !.token = t]
  OBVIOUS
<1> HIDE DEF one
<1> DEFINE new == [one EXCEPT !.token = t]
<1>3. /\ new \in Token!Requests /\ new.pc = "call"
      /\ new.kind = "lease" /\ new.token = t /\ new.prev = 0
  BY <1>1 DEF Token!Requests
<1>4. new = [Token!Idle EXCEPT !.pc = "call", !.token = t]
  BY <1>2
<1> HIDE DEF new
<1> QED
  BY <1>3, <1>4

\* A step that makes no token either.
LEMMA TokenStill ==
    ASSUME Token!TokenAssumption, Token!IInv, NEW p \in Proc, NEW new \in Token!Requests,
           users' = [users EXCEPT ![p] = new],
           cache' \in [Instance -> 0 .. newest],
           new.token \in 0 .. newest, new.prev \in 0 .. newest,
           UNCHANGED <<stored, newest, slips, age, lease, lock, inFlight, overrun>>,
           FirstLogin(new) <=> FirstLogin(users[p]), ~LeaseRenewal(new), ~LockRenewal(new),
           new.pc = "acquire" => stored # 0, new.pc = "first" => stored = 0,
           new.pc \notin {"lock", "login", "save"}
    PROVE  Token!IInv'
<1>1. newest' \in newest .. MaxLogins /\ slips' \in Nat /\ cache' \in [Instance -> 0 .. newest']
  BY TokenTypes
<1>2. new.token \in 0 .. newest' /\ new.prev \in 0 .. newest'
  OBVIOUS
<1> QED
  BY <1>1, <1>2, TokenQuiet

\* What a quiet step leaves as it is.
TokenRests == UNCHANGED <<stored, newest, slips, age, lease, lock, inFlight, overrun>>

\* A request comes in.
LEMMA TokenGet ==
    ASSUME Token!TokenAssumption, Token!IInv, NEW p \in Proc, Token!GetBearerToken(p)
    PROVE  Token!IInv'
<1>1. users[p].pc = "idle" /\ UNCHANGED cache /\ TokenRests
  BY DEF Token!GetBearerToken, Token!store, Token!locks, TokenRests
<1>2. ~FirstLogin(users[p])
  BY <1>1, TokenTypes DEF FirstLogin
<1>3. cache[Home[p]] \in 0 .. newest /\ cache[Home[p]] \in 0 .. MaxLogins
  BY TokenTypes
<1>4. PICK new \in Token!Requests :
        /\ users' = [users EXCEPT ![p] = new] /\ new.pc \in {"call", "read"}
        /\ new.token \in 0 .. newest /\ new.prev \in 0 .. newest
  <2>1. CASE Token!Fresh(cache[Home[p]])
    <3>1. users' = [users EXCEPT ![p] =
                      [Token!Idle EXCEPT !.pc = "call", !.token = cache[Home[p]]]]
      BY <2>1 DEF Token!GetBearerToken
    <3>2. PICK new \in Token!Requests :
            /\ new = [Token!Idle EXCEPT !.pc = "call", !.token = cache[Home[p]]]
            /\ new.pc = "call" /\ new.kind = "lease" /\ new.token = cache[Home[p]] /\ new.prev = 0
      BY <1>3, TokenCalls
    <3>3. 0 \in 0 .. newest
      BY TokenTypes
    <3> QED
      BY <1>3, <3>1, <3>2, <3>3
  <2>2. CASE ~Token!Fresh(cache[Home[p]])
    <3>1. users' = [users EXCEPT ![p] = [Token!Idle EXCEPT !.pc = "read"]]
      BY <2>2 DEF Token!GetBearerToken
    <3>2. PICK new \in Token!Requests :
            /\ new = [Token!Idle EXCEPT !.pc = "read"] /\ new.pc = "read"
            /\ new.kind = "lease" /\ new.token = 0 /\ new.prev = 0
      BY TokenReads
    <3>3. 0 \in 0 .. newest
      BY TokenTypes
    <3> QED
      BY <3>1, <3>2, <3>3
  <2> QED
    BY <2>1, <2>2
<1>5. ~FirstLogin(new) /\ ~LeaseRenewal(new) /\ ~LockRenewal(new)
  BY <1>4 DEF FirstLogin, LeaseRenewal, LockRenewal
<1>6. cache' \in [Instance -> 0 .. newest]
  BY <1>1, TokenTypes
<1> QED
  BY <1>1, <1>2, <1>4, <1>5, <1>6, TokenStill DEF TokenRests

\* The answers with which a request leaves: a token of some login, cached and put.
LEMMA TokenAnswered ==
    ASSUME Token!TokenAssumption, Token!IInv, NEW p \in Proc, NEW t \in 0 .. newest,
           NEW pc \in {"call", "finish"}, Token!Answer(p, t, pc)
    PROVE  /\ cache' \in [Instance -> 0 .. newest]
           /\ \E new \in Token!Requests :
                /\ users' = [users EXCEPT ![p] = new]
                /\ new.pc = pc /\ new.kind = users[p].kind /\ new.token = t
                /\ new.token \in 0 .. newest /\ new.prev \in 0 .. newest
<1>0. users \in [Proc -> Token!Requests]
  BY TokenTypes
<1>1. t \in 0 .. MaxLogins /\ pc \in Steps /\ users[p].prev \in 0 .. newest
  BY TokenTypes DEF Steps
<1>2. PICK new \in Token!Requests :
             /\ Answering(p, pc, t) = [users EXCEPT ![p] = new]
             /\ new.pc = pc /\ new.kind = users[p].kind /\ new.token = t
             /\ new.prev = users[p].prev /\ new.rejected = users[p].rejected
             /\ new.waited = users[p].waited
  BY <1>0, <1>1, TokenAnswers
<1>3. users' = [users EXCEPT ![p] = new]
  BY <1>2 DEF Token!Answer, Answering
<1>4. cache' \in [Instance -> 0 .. newest]
  BY TokenTypes DEF Token!Answer
<1> QED
  BY <1>1, <1>2, <1>3, <1>4

\* A step to the answer, from a step that renews nothing and to one that does not.
LEMMA TokenTakes ==
    ASSUME Token!TokenAssumption, Token!IInv, NEW p \in Proc, NEW t \in 0 .. newest,
           NEW pc \in {"call", "finish"}, Token!Answer(p, t, pc), TokenRests,
           pc = "call" => ~FirstLogin(users[p]),
           pc = "finish" => (FirstLogin(users[p]) <=> users[p].kind = "initial")
    PROVE  Token!IInv'
<1>1. PICK new \in Token!Requests :
        /\ users' = [users EXCEPT ![p] = new]
        /\ new.pc = pc /\ new.kind = users[p].kind /\ new.token = t
        /\ new.token \in 0 .. newest /\ new.prev \in 0 .. newest
  BY TokenAnswered
<1>2. /\ FirstLogin(new) <=> FirstLogin(users[p])
      /\ ~LeaseRenewal(new) /\ ~LockRenewal(new)
  BY <1>1 DEF FirstLogin, LeaseRenewal, LockRenewal
<1> QED
  BY <1>1, <1>2, TokenAnswered, TokenStill DEF TokenRests

\* The row is read.
LEMMA TokenReadStored ==
    ASSUME Token!TokenAssumption, Token!IInv, NEW p \in Proc, Token!ReadStored(p)
    PROVE  Token!IInv'
<1>1. users[p].pc = "read" /\ TokenRests /\ stored \in 0 .. newest
  BY TokenTypes DEF Token!ReadStored, Token!store, Token!locks, TokenRests
<1>2. ~FirstLogin(users[p])
  BY <1>1, TokenTypes DEF FirstLogin
<1>3. CASE Token!Fresh(stored) /\ users[p].rejected = 0
  <2>1. Token!Answer(p, stored, "call")
    BY <1>3 DEF Token!ReadStored
  <2> QED
    BY <1>1, <1>2, <2>1, TokenTakes
<1>4. CASE ~(Token!Fresh(stored) /\ users[p].rejected = 0)
  <2>1. users' = Remembering(p, "loop", stored) /\ UNCHANGED cache
    BY <1>4 DEF Token!ReadStored, Remembering
  <2>2. /\ users \in [Proc -> Token!Requests] /\ "loop" \in Steps
        /\ stored \in 0 .. MaxLogins
    BY TokenTypes DEF Steps
  <2>3. PICK new \in Token!Requests :
          /\ Remembering(p, "loop", stored) = [users EXCEPT ![p] = new]
          /\ new.pc = "loop" /\ new.kind = users[p].kind /\ new.token = users[p].token
          /\ new.prev = stored
    BY <2>2, TokenRemembers
  <2>4. ~FirstLogin(new) /\ ~LeaseRenewal(new) /\ ~LockRenewal(new)
    BY <2>3 DEF FirstLogin, LeaseRenewal, LockRenewal
  <2>5. cache' \in [Instance -> 0 .. newest] /\ new.token \in 0 .. newest
        /\ new.prev \in 0 .. newest
    BY <1>1, <2>1, <2>3, TokenTypes
  <2> QED
    BY <1>1, <1>2, <2>1, <2>3, <2>4, <2>5, TokenStill DEF TokenRests
<1> QED
  BY <1>3, <1>4

\* The row is read again while another renews it.
LEMMA TokenReadAgain ==
    ASSUME Token!TokenAssumption, Token!IInv, NEW p \in Proc, Token!ReadAgain(p)
    PROVE  Token!IInv'
<1>1. users[p].pc = "loop" /\ TokenRests /\ stored \in 0 .. newest
  BY TokenTypes DEF Token!ReadAgain, Token!store, Token!locks, TokenRests
<1>2. ~FirstLogin(users[p])
  BY <1>1, TokenTypes DEF FirstLogin
<1>3. CASE Token!Fresh(stored)
  <2>1. Token!Answer(p, stored, "call")
    BY <1>3 DEF Token!ReadAgain
  <2> QED
    BY <1>1, <1>2, <2>1, TokenTakes
<1>4. CASE ~Token!Fresh(stored)
  <2> DEFINE to == IF stored = 0 THEN "first" ELSE "acquire"
  <2>1. users' = Going(p, to) /\ UNCHANGED cache
    BY <1>4 DEF Token!ReadAgain, Token!Goto, Going
  <2>2. to \in Steps /\ (to = "acquire" => stored # 0) /\ (to = "first" => stored = 0)
        /\ to \notin {"lock", "recheck", "login", "save", "lost", "failed", "finish"}
    BY DEF Steps
  <2> HIDE DEF to
  <2>3. PICK new \in Token!Requests :
          /\ Going(p, to) = [users EXCEPT ![p] = new]
          /\ new.pc = to /\ new.kind = users[p].kind /\ new.token = users[p].token
          /\ new.prev = users[p].prev /\ new.rejected = users[p].rejected
          /\ new.waited = users[p].waited
    BY <2>2, TokenGoes, TokenTypes
  <2>4. ~FirstLogin(new) /\ ~LeaseRenewal(new) /\ ~LockRenewal(new)
    BY <2>2, <2>3 DEF FirstLogin, LeaseRenewal, LockRenewal
  <2>5. cache' \in [Instance -> 0 .. newest] /\ new.token \in 0 .. newest
        /\ new.prev \in 0 .. newest
    BY <1>1, <2>1, <2>3, TokenTypes
  <2> QED
    BY <1>1, <1>2, <2>1, <2>2, <2>3, <2>4, <2>5, TokenStill DEF TokenRests
<1> QED
  BY <1>3, <1>4

\* A request that starts anew.
LEMMA TokenEnds ==
    ASSUME Token!TokenAssumption, Token!IInv, NEW p \in Proc,
           users' = [users EXCEPT ![p] = Token!Idle], UNCHANGED cache, TokenRests,
           ~FirstLogin(users[p])
    PROVE  Token!IInv'
<1>1. ~FirstLogin(Token!Idle) /\ ~LeaseRenewal(Token!Idle) /\ ~LockRenewal(Token!Idle)
  BY TokenIdle DEF FirstLogin, LeaseRenewal, LockRenewal
<1>2. cache' \in [Instance -> 0 .. newest] /\ 0 \in 0 .. newest
  BY TokenTypes
<1> QED
  BY <1>1, <1>2, TokenIdle, TokenStill DEF TokenRests

\* A request gives up.
LEMMA TokenGiveUp ==
    ASSUME Token!TokenAssumption, Token!IInv, NEW p \in Proc, Token!GiveUp(p)
    PROVE  Token!IInv'
<1>1. /\ users[p].pc = "loop" /\ TokenRests /\ UNCHANGED cache
      /\ users' = [users EXCEPT ![p] = Token!Idle]
  BY TokenTypes DEF Token!GiveUp, Token!store, Token!locks, TokenRests
<1>2. ~FirstLogin(users[p])
  BY <1>1, TokenTypes DEF FirstLogin
<1> QED
  BY <1>1, <1>2, TokenEnds

\* The call is made, and may find the token rejected.
LEMMA TokenCall ==
    ASSUME Token!TokenAssumption, Token!IInv, NEW p \in Proc, Token!Call(p)
    PROVE  Token!IInv'
<1>1. users[p].pc = "call" /\ TokenRests
  BY TokenTypes DEF Token!Call, Token!store, Token!locks, TokenRests
<1>2. ~FirstLogin(users[p])
  BY <1>1, TokenTypes DEF FirstLogin
<1>3. CASE users' = [users EXCEPT ![p] = Token!Idle] /\ UNCHANGED cache
  BY <1>1, <1>2, <1>3, TokenEnds
<1>4. CASE /\ cache' = [cache EXCEPT ![Home[p]] = 0]
           /\ users' = [users EXCEPT ![p] =
                          [Token!Idle EXCEPT !.pc = "read", !.rejected = users[p].token]]
  <2>1. users[p].token \in 0 .. MaxLogins
    BY TokenTypes
  <2>2. PICK new \in Token!Requests :
          /\ new = [Token!Idle EXCEPT !.pc = "read", !.rejected = users[p].token]
          /\ new.pc = "read" /\ new.kind = "lease" /\ new.token = 0 /\ new.prev = 0
    BY <2>1, TokenForces
  <2>3. ~FirstLogin(new) /\ ~LeaseRenewal(new) /\ ~LockRenewal(new)
    BY <2>2 DEF FirstLogin, LeaseRenewal, LockRenewal
  <2>4. cache' \in [Instance -> 0 .. newest] /\ 0 \in 0 .. newest
    BY <1>4, TokenTypes
  <2>5. users' = [users EXCEPT ![p] = new]
    BY <1>4, <2>2
  <2> QED
    BY <1>1, <1>2, <2>2, <2>3, <2>4, <2>5, TokenStill DEF TokenRests
<1> QED
  BY <1>3, <1>4 DEF Token!Call

\* A lease is taken of a row that is there.
LEMMA TokenAcquire ==
    ASSUME Token!TokenAssumption, Token!IInv, NEW p \in Proc, Token!AcquireLease(p)
    PROVE  Token!IInv'
<1>0. Token!Typed /\ TokenKnows
  BY TokenIInv
<1>1. /\ users \in [Proc -> Token!Requests] /\ users[p].pc = "acquire" /\ stored # 0
      /\ UNCHANGED <<stored, newest, age, cache, lock, inFlight, overrun, slips>>
  BY <1>0, TokenTypes DEF Token!AcquireLease, Token!store, TokenKnows, TokenKnowsOf
<1>2. ~FirstLogin(users[p]) /\ ~LockRenewal(users[p])
  BY <1>0, <1>1, TokenTypes DEF FirstLogin, LockRenewal, TokenKnows, TokenKnowsOf
<1>3. CASE ~(lease.holder = None \/ lease.expired)
  <2>1. users' = Waiting(p, "loop") /\ UNCHANGED lease /\ "loop" \in Steps
    BY <1>3 DEF Token!AcquireLease, Waiting, Steps
  <2>2. PICK new \in Token!Requests :
             /\ Waiting(p, "loop") = [users EXCEPT ![p] = new]
             /\ new.pc = "loop" /\ new.kind = users[p].kind /\ new.token = users[p].token
             /\ new.prev = users[p].prev
    BY <1>1, <2>1, TokenWaits
  <2>3. ~FirstLogin(new) /\ ~LeaseRenewal(new) /\ ~LockRenewal(new)
    BY <2>2 DEF FirstLogin, LeaseRenewal, LockRenewal
  <2>4. cache' \in [Instance -> 0 .. newest] /\ new.token \in 0 .. newest
        /\ new.prev \in 0 .. newest
    BY <1>1, <2>2, TokenTypes
  <2> QED
    BY <1>1, <1>2, <2>1, <2>2, <2>3, <2>4, TokenStill
<1>4. CASE lease.holder = None \/ lease.expired
  <2>1. /\ users' = Turning(p, "recheck", "lease") /\ "recheck" \in Steps
        /\ lease' = [holder |-> p, expired |-> FALSE]
    BY <1>4 DEF Token!AcquireLease, Turning, Steps
  <2>2. PICK new \in Token!Requests :
             /\ Turning(p, "recheck", "lease") = [users EXCEPT ![p] = new]
             /\ new.pc = "recheck" /\ new.kind = "lease" /\ new.token = users[p].token
             /\ new.prev = users[p].prev
    BY <1>1, <2>1, TokenTurns
  <2>3. ~FirstLogin(new) /\ ~LockRenewal(new)
    BY <2>2 DEF FirstLogin, LockRenewal
  <2>4. /\ users' \in [Proc -> Token!Requests]
        /\ users'[p] = new /\ \A q \in Proc \ {p} : users'[q] = users[q]
    BY <1>1, <2>1, <2>2, TokenPut
  <2>5. /\ lease'.holder = p /\ ~lease'.expired /\ None \notin Proc
        /\ lease' \in [holder : Proc \cup {None}, expired : BOOLEAN]
    BY <2>1, TokenTypes
  <2>6. Token!Typed'
    <3>1. \A q \in Proc : users'[q].token \in 0 .. newest /\ users'[q].prev \in 0 .. newest
      BY <2>2, <2>4, TokenTypes
    <3> QED
      BY <1>0, <1>1, <2>4, <2>5, <3>1 DEF Token!Typed, Token!TypeOK, Token!Token
  <2>7. TokenKnows'
    <3>1. \A q \in Proc : q # p /\ LeaseRenewal(users[q]) => q \in overrun
      BY <1>0, <1>4, TokenTypes DEF TokenKnows, TokenKnowsOf
    <3>2. lock # None => lock \in Proc \ {p} /\ users'[lock] = users[lock]
      BY <1>0, <1>2, <2>4, TokenTypes DEF TokenKnows, TokenKnowsOf
    <3>3. (\A t \in 1 .. MaxLogins : stored < t => age[t] = "fresh")'
      BY <1>0, <1>1 DEF TokenKnows, TokenKnowsOf
    <3>4. (/\ \A r \in Proc : FirstLogin(users[r]) => Home[r] \in inFlight
           /\ \A r, q \in Proc :
                 FirstLogin(users[r]) /\ FirstLogin(users[q]) /\ Home[r] = Home[q] => r = q)'
      BY <1>0, <1>1, <2>3, <2>4 DEF TokenKnows, TokenKnowsOf
    <3>5. (lock # None => FirstLogin(users[lock]) /\ users[lock].pc # "lock")'
      BY <1>0, <1>1, <3>2 DEF TokenKnows, TokenKnowsOf
    <3>6. ASSUME NEW q \in Proc
          PROVE  TokenKnowsOf(q)'
      <4>1. CASE q = p
        BY <1>1, <2>2, <2>3, <2>4, <2>5, <4>1 DEF TokenKnowsOf
      <4>2. CASE q # p
        BY <1>0, <1>1, <2>4, <2>5, <3>1, <4>2 DEF TokenKnows, TokenKnowsOf
      <4> QED
        BY <4>1, <4>2
    <3> QED
      BY <3>3, <3>4, <3>5, <3>6 DEF TokenKnows
  <2> QED
    BY <2>6, <2>7, TokenIInvNext
<1> QED
  BY <1>3, <1>4

\* One request of an instance comes to the lock.
LEMMA TokenEnter ==
    ASSUME Token!TokenAssumption, Token!IInv, NEW p \in Proc, Token!EnterFirstLogin(p)
    PROVE  Token!IInv'
<1>0. Token!Typed /\ TokenKnows
  BY TokenIInv
<1>1. /\ users \in [Proc -> Token!Requests] /\ users[p].pc = "first"
      /\ UNCHANGED <<stored, newest, age, cache, lock, lease, overrun, slips>>
  BY <1>0, TokenTypes DEF Token!EnterFirstLogin, Token!store, TokenKnows, TokenKnowsOf
<1>2. ~FirstLogin(users[p]) /\ ~LockRenewal(users[p]) /\ ~LeaseRenewal(users[p])
  BY <1>1 DEF FirstLogin, LockRenewal, LeaseRenewal
<1>3. CASE Home[p] \in inFlight
  <2>1. users' = Waiting(p, "loop") /\ UNCHANGED inFlight /\ "loop" \in Steps
    BY <1>3 DEF Token!EnterFirstLogin, Waiting, Steps
  <2>2. PICK new \in Token!Requests :
             /\ Waiting(p, "loop") = [users EXCEPT ![p] = new]
             /\ new.pc = "loop" /\ new.kind = users[p].kind /\ new.token = users[p].token
             /\ new.prev = users[p].prev
    BY <1>1, <2>1, TokenWaits
  <2>3. ~FirstLogin(new) /\ ~LeaseRenewal(new) /\ ~LockRenewal(new)
    BY <2>2 DEF FirstLogin, LeaseRenewal, LockRenewal
  <2>4. cache' \in [Instance -> 0 .. newest] /\ new.token \in 0 .. newest
        /\ new.prev \in 0 .. newest
    BY <1>1, <2>2, TokenTypes
  <2> QED
    BY <1>1, <1>2, <2>1, <2>2, <2>3, <2>4, TokenStill
<1>4. CASE Home[p] \notin inFlight
  <2>1. /\ users' = Turning(p, "lock", "initial") /\ "lock" \in Steps
        /\ inFlight' = inFlight \cup {Home[p]}
    BY <1>4 DEF Token!EnterFirstLogin, Turning, Steps
  <2>2. PICK new \in Token!Requests :
             /\ Turning(p, "lock", "initial") = [users EXCEPT ![p] = new]
             /\ new.pc = "lock" /\ new.kind = "initial" /\ new.token = users[p].token
             /\ new.prev = users[p].prev
    BY <1>1, <2>1, TokenTurns
  <2>3. FirstLogin(new) /\ ~LockRenewal(new) /\ ~LeaseRenewal(new)
    BY <2>2 DEF FirstLogin, LockRenewal, LeaseRenewal
  <2>4. /\ users' \in [Proc -> Token!Requests]
        /\ users'[p] = new /\ \A q \in Proc \ {p} : users'[q] = users[q]
    BY <1>1, <2>1, <2>2, TokenPut
  <2>5. Token!Typed'
    <3>1. \A q \in Proc : users'[q].token \in 0 .. newest /\ users'[q].prev \in 0 .. newest
      BY <2>2, <2>4, TokenTypes
    <3>2. inFlight' \subseteq Instance
      BY <2>1, TokenTypes
    <3> QED
      BY <1>0, <1>1, <2>1, <2>4, <3>1, <3>2 DEF Token!Typed, Token!TypeOK, Token!Token
  <2>6. TokenKnows'
    <3>1. \A q \in Proc : FirstLogin(users[q]) => Home[q] \in inFlight /\ Home[q] # Home[p]
      BY <1>0, <1>4 DEF TokenKnows, TokenKnowsOf
    <3>2. lock # None => lock \in Proc \ {p} /\ users'[lock] = users[lock]
      BY <1>0, <1>2, <2>4, TokenTypes DEF TokenKnows, TokenKnowsOf
    <3>3. (\A t \in 1 .. MaxLogins : stored < t => age[t] = "fresh")'
      BY <1>0, <1>1 DEF TokenKnows, TokenKnowsOf
    <3>4. (/\ \A r \in Proc : FirstLogin(users[r]) => Home[r] \in inFlight
           /\ \A r, q \in Proc :
                 FirstLogin(users[r]) /\ FirstLogin(users[q]) /\ Home[r] = Home[q] => r = q)'
      BY <1>0, <2>1, <2>3, <2>4, <3>1 DEF TokenKnows, TokenKnowsOf
    <3>5. (lock # None => FirstLogin(users[lock]) /\ users[lock].pc # "lock")'
      BY <1>0, <1>1, <3>2 DEF TokenKnows, TokenKnowsOf
    <3>6. ASSUME NEW q \in Proc
          PROVE  TokenKnowsOf(q)'
      <4>1. CASE q = p
        <5>1. p \notin overrun => \A t \in 1 .. MaxLogins : age[t] = "fresh"
          BY <1>0, <1>1 DEF TokenKnows, TokenKnowsOf
        <5> QED
          BY <1>1, <2>2, <2>3, <2>4, <4>1, <5>1 DEF TokenKnowsOf
      <4>2. CASE q # p
        BY <1>0, <1>1, <2>4, <4>2 DEF TokenKnows, TokenKnowsOf
      <4> QED
        BY <4>1, <4>2
    <3> QED
      BY <3>3, <3>4, <3>5, <3>6 DEF TokenKnows
  <2> QED
    BY <2>5, <2>6, TokenIInvNext
<1> QED
  BY <1>3, <1>4

\* One request of all takes the lock.
LEMMA TokenTakesLock ==
    ASSUME Token!TokenAssumption, Token!IInv, NEW p \in Proc, Token!TakeLock(p)
    PROVE  Token!IInv'
<1>0. Token!Typed /\ TokenKnows
  BY TokenIInv
<1>1. /\ users \in [Proc -> Token!Requests] /\ users[p].pc = "lock" /\ users[p].kind = "initial"
      /\ lock = None /\ lock' = p /\ FirstLogin(users[p])
      /\ UNCHANGED <<stored, newest, age, cache, inFlight, lease, overrun, slips>>
  BY <1>0, TokenTypes DEF Token!TakeLock, Token!store, TokenKnows, TokenKnowsOf, FirstLogin
<1>2. users' = Going(p, "recheck") /\ "recheck" \in Steps
  BY DEF Token!TakeLock, Token!Goto, Going, Steps
<1>3. PICK new \in Token!Requests :
           /\ Going(p, "recheck") = [users EXCEPT ![p] = new]
           /\ new.pc = "recheck" /\ new.kind = users[p].kind /\ new.token = users[p].token
           /\ new.prev = users[p].prev /\ new.rejected = users[p].rejected
           /\ new.waited = users[p].waited
  BY <1>1, <1>2, TokenGoes
<1>4. FirstLogin(new) /\ ~LeaseRenewal(new)
  BY <1>1, <1>3 DEF FirstLogin, LeaseRenewal
<1>5. /\ users' \in [Proc -> Token!Requests]
      /\ users'[p] = new /\ \A q \in Proc \ {p} : users'[q] = users[q]
  BY <1>1, <1>2, <1>3, TokenPut
<1>6. Token!Typed'
  <2>1. \A q \in Proc : users'[q].token \in 0 .. newest /\ users'[q].prev \in 0 .. newest
    BY <1>3, <1>5, TokenTypes
  <2>2. Home[p] \in inFlight
    BY <1>0, <1>1 DEF TokenKnows, TokenKnowsOf
  <2> QED
    BY <1>0, <1>1, <1>5, <2>1, <2>2 DEF Token!Typed, Token!TypeOK, Token!Token
<1>7. TokenKnows'
  <2>1. \A q \in Proc : LockRenewal(users[q]) => q \in overrun
    BY <1>0, <1>1, TokenTypes DEF TokenKnows, TokenKnowsOf
  <2>2. \A q \in Proc : FirstLogin(users'[q]) <=> FirstLogin(users[q])
    BY <1>1, <1>4, <1>5
  <2>3. (\A t \in 1 .. MaxLogins : stored < t => age[t] = "fresh")'
    BY <1>0, <1>1 DEF TokenKnows, TokenKnowsOf
  <2>4. (/\ \A r \in Proc : FirstLogin(users[r]) => Home[r] \in inFlight
         /\ \A r, q \in Proc :
               FirstLogin(users[r]) /\ FirstLogin(users[q]) /\ Home[r] = Home[q] => r = q)'
    BY <1>0, <1>1, <2>2 DEF TokenKnows, TokenKnowsOf
  <2>5. (lock # None => FirstLogin(users[lock]) /\ users[lock].pc # "lock")'
    BY <1>1, <1>3, <1>4, <1>5
  <2>6. ASSUME NEW q \in Proc
        PROVE  TokenKnowsOf(q)'
    <3>1. CASE q = p
      <4>1. p \notin overrun => \A t \in 1 .. MaxLogins : age[t] = "fresh"
        BY <1>0, <1>1 DEF TokenKnows, TokenKnowsOf
      <4> QED
        BY <1>1, <1>3, <1>4, <1>5, <3>1, <4>1 DEF TokenKnowsOf
    <3>2. CASE q # p
      BY <1>0, <1>1, <1>5, <2>1, <3>2 DEF TokenKnows, TokenKnowsOf
    <3> QED
      BY <3>1, <3>2
  <2> QED
    BY <2>3, <2>4, <2>5, <2>6 DEF TokenKnows
<1> QED
  BY <1>6, <1>7, TokenIInvNext

\* Who has the lease or the lock reads the row once more.
LEMMA TokenRecheck ==
    ASSUME Token!TokenAssumption, Token!IInv, NEW p \in Proc, Token!Recheck(p)
    PROVE  Token!IInv'
<1>0. Token!Typed /\ TokenKnows
  BY TokenIInv
<1>1. /\ users \in [Proc -> Token!Requests] /\ users[p].pc = "recheck" /\ TokenRests
      /\ stored \in 0 .. newest /\ users[p].kind \in {"lease", "initial"}
  BY <1>0, TokenTypes, TokenRequest DEF Token!Recheck, Token!store, Token!locks, TokenRests
<1>2. FirstLogin(users[p]) <=> users[p].kind = "initial"
  BY <1>1 DEF FirstLogin
<1>3. CASE Token!Fresh(stored)
  <2>1. Token!Answer(p, stored, "finish")
    BY <1>3 DEF Token!Recheck
  <2> QED
    BY <1>1, <1>2, <2>1, TokenTakes
<1>4. CASE ~Token!Fresh(stored)
  <2> DEFINE prev == IF stored # 0 THEN stored ELSE users[p].prev
  <2>1. users' = Remembering(p, "login", prev) /\ UNCHANGED cache
    <3>1. users' = [users EXCEPT ![p].pc = "login",
                                ![p].prev = IF stored # 0 THEN stored ELSE @]
          /\ UNCHANGED cache
      BY <1>4 DEF Token!Recheck
    <3> QED
      BY <1>1, <3>1 DEF Remembering, Token!Requests
  <2>2. "login" \in Steps /\ prev \in 0 .. MaxLogins /\ prev \in 0 .. newest
    BY <1>1, TokenTypes DEF Steps
  <2> HIDE DEF prev
  <2>3. PICK new \in Token!Requests :
          /\ Remembering(p, "login", prev) = [users EXCEPT ![p] = new]
          /\ new.pc = "login" /\ new.kind = users[p].kind /\ new.token = users[p].token
          /\ new.prev = prev
    BY <1>1, <2>2, TokenRemembers
  <2>4. /\ FirstLogin(new) <=> FirstLogin(users[p])
        /\ LeaseRenewal(new) <=> LeaseRenewal(users[p])
        /\ LockRenewal(new) <=> LockRenewal(users[p])
        /\ LockRenewal(users[p]) => FirstLogin(users[p])
    BY <1>1, <2>3 DEF FirstLogin, LeaseRenewal, LockRenewal
  <2>5. newest' \in newest .. MaxLogins /\ slips' \in Nat /\ cache' \in [Instance -> 0 .. newest']
    BY <1>1, <2>1, TokenTypes DEF TokenRests
  <2>6. new.token \in 0 .. newest' /\ new.prev \in 0 .. newest'
    BY <1>1, <2>2, <2>3, TokenTypes DEF TokenRests
  <2>7. ~(stored # 0 /\ age[stored] = "fresh")
    BY <1>4 DEF Token!Fresh
  <2>8. LeaseRenewal(new) => \E t \in 1 .. MaxLogins : age[t] # "fresh"
    <3>1. LeaseRenewal(new) => stored \in 1 .. MaxLogins
      BY <1>0, <2>4, TokenTypes DEF TokenKnows, TokenKnowsOf
    <3> QED
      BY <2>7, <3>1
  <2>9. overrun = {} /\ LockRenewal(new) => stored = 0
    <3>1. overrun = {} /\ LockRenewal(new) => \A t \in 1 .. MaxLogins : age[t] = "fresh"
      BY <1>0, <2>4 DEF TokenKnows, TokenKnowsOf
    <3>2. stored # 0 => stored \in 1 .. MaxLogins
      BY TokenTypes
    <3> QED
      BY <2>7, <3>1, <3>2
  <2> QED
    BY <1>1, <2>1, <2>3, <2>4, <2>5, <2>6, <2>7, <2>8, <2>9, TokenQuiet DEF TokenRests
<1> QED
  BY <1>3, <1>4

\* The login.
LEMMA TokenLogIn ==
    ASSUME Token!TokenAssumption, Token!IInv, NEW p \in Proc, Token!LogIn(p)
    PROVE  Token!IInv'
<1>0. Token!Typed /\ TokenKnows
  BY TokenIInv
<1>1. /\ users \in [Proc -> Token!Requests] /\ users[p].pc = "login"
      /\ UNCHANGED <<stored, age, cache, lease, lock, inFlight, overrun>>
      /\ stored \in 0 .. newest /\ users[p].kind \in {"lease", "initial"}
      /\ cache \in [Instance -> 0 .. newest] /\ newest \in 0 .. MaxLogins
      /\ slips \in Nat /\ MaxLogins \in Nat
      /\ users[p].token \in 0 .. newest /\ users[p].prev \in 0 .. newest
  BY <1>0, TokenTypes, TokenRequest DEF Token!LogIn, Token!locks
<1>2. CASE /\ newest < MaxLogins /\ newest' = newest + 1 /\ UNCHANGED slips
           /\ users' = Answering(p, "save", newest + 1)
  <2>1. PICK made \in 0 .. MaxLogins : made = newest + 1
    BY <1>1, <1>2
  <2>8. users \in [Proc -> Token!Requests] /\ "save" \in Steps
    BY <1>1 DEF Steps
  <2>7. users' = Answering(p, "save", made)
    BY <1>2, <2>1
  <2>2. PICK new \in Token!Requests :
          /\ Answering(p, "save", made) = [users EXCEPT ![p] = new]
          /\ new.pc = "save" /\ new.kind = users[p].kind /\ new.token = made
          /\ new.prev = users[p].prev /\ new.rejected = users[p].rejected
          /\ new.waited = users[p].waited
    BY <2>8, TokenAnswers
  <2>3. /\ FirstLogin(new) <=> FirstLogin(users[p])
        /\ LeaseRenewal(new) <=> LeaseRenewal(users[p])
        /\ LockRenewal(new) <=> LockRenewal(users[p])
    BY <1>1, <2>2 DEF FirstLogin, LeaseRenewal, LockRenewal
  <2>4. newest' \in newest .. MaxLogins /\ slips' \in Nat /\ cache' \in [Instance -> 0 .. newest']
    BY <1>1, <1>2
  <2>5. /\ new.token \in 0 .. newest' /\ new.prev \in 0 .. newest'
        /\ new.token \in stored + 1 .. newest'
    BY <1>1, <1>2, <2>1, <2>2
  <2>6. /\ LeaseRenewal(new) => \E t \in 1 .. MaxLogins : age[t] # "fresh"
        /\ overrun = {} /\ LockRenewal(new) => stored = 0
    BY <1>0, <1>1, <2>3 DEF TokenKnows, TokenKnowsOf
  <2> QED
    BY <1>1, <1>2, <2>2, <2>3, <2>4, <2>5, <2>6, <2>7, TokenQuiet
<1>3. CASE /\ slips' = IF newest = MaxLogins THEN slips ELSE slips + 1
           /\ users' = Going(p, "failed") /\ UNCHANGED newest
  <2>1. "failed" \in Steps
    BY DEF Steps
  <2>2. PICK new \in Token!Requests :
          /\ Going(p, "failed") = [users EXCEPT ![p] = new]
          /\ new.pc = "failed" /\ new.kind = users[p].kind /\ new.token = users[p].token
          /\ new.prev = users[p].prev /\ new.rejected = users[p].rejected
          /\ new.waited = users[p].waited
    BY <1>1, <2>1, TokenGoes
  <2>3. /\ FirstLogin(new) <=> FirstLogin(users[p])
        /\ ~LeaseRenewal(new) /\ ~LockRenewal(new)
    BY <1>1, <2>2 DEF FirstLogin, LeaseRenewal, LockRenewal
  <2>4. newest' \in newest .. MaxLogins /\ slips' \in Nat /\ cache' \in [Instance -> 0 .. newest']
    BY <1>1, <1>3
  <2>5. new.token \in 0 .. newest' /\ new.prev \in 0 .. newest'
    BY <1>1, <1>3, <2>2
  <2> QED
    BY <1>1, <1>3, <2>2, <2>3, <2>4, <2>5, TokenQuiet
<1> QED
  BY <1>2, <1>3 DEF Token!LogIn, Token!Goto, Going, Answering

\* The token is stored by who still has the lease, or made the first row.
LEMMA TokenSave ==
    ASSUME Token!TokenAssumption, Token!IInv, NEW p \in Proc, Token!Save(p)
    PROVE  Token!IInv'
<1>0. Token!Typed /\ TokenKnows
  BY TokenIInv
<1>1. /\ users \in [Proc -> Token!Requests] /\ users[p].pc = "save"
      /\ UNCHANGED <<newest, age, lock, inFlight, overrun, slips>>
      /\ users[p].kind \in {"lease", "initial"} /\ users[p].token \in 1 .. newest
  BY <1>0, TokenTypes, TokenRequest DEF Token!Save, TokenKnows, TokenKnowsOf
<1>2. FirstLogin(users[p]) <=> users[p].kind = "initial"
  BY <1>1 DEF FirstLogin
<1> DEFINE mine == IF users[p].kind = "lease" THEN lease.holder = p ELSE stored = 0
<1>3. CASE ~mine
  <2>1. users' = Going(p, "lost") /\ UNCHANGED <<stored, lease, cache>> /\ "lost" \in Steps
    BY <1>3 DEF Token!Save, Token!Goto, Going, Steps
  <2>2. PICK new \in Token!Requests :
             /\ Going(p, "lost") = [users EXCEPT ![p] = new]
             /\ new.pc = "lost" /\ new.kind = users[p].kind /\ new.token = users[p].token
             /\ new.prev = users[p].prev /\ new.rejected = users[p].rejected
             /\ new.waited = users[p].waited
    BY <1>1, <2>1, TokenGoes
  <2>3. /\ FirstLogin(new) <=> FirstLogin(users[p])
        /\ ~LeaseRenewal(new) /\ ~LockRenewal(new)
    BY <1>1, <2>2 DEF FirstLogin, LeaseRenewal, LockRenewal
  <2>4. cache' \in [Instance -> 0 .. newest] /\ new.token \in 0 .. newest
        /\ new.prev \in 0 .. newest
    BY <1>1, <2>1, <2>2, TokenTypes
  <2> QED
    BY <1>1, <1>2, <2>1, <2>2, <2>3, <2>4, TokenStill
<1>4. CASE mine
  <2>1. /\ Token!Answer(p, users[p].token, "finish") /\ stored' = users[p].token
        /\ lease' = IF users[p].kind = "lease" THEN Token!Free ELSE lease
    BY <1>4 DEF Token!Save
  <2>2. users[p].token \in 0 .. newest
    BY <1>1, TokenTypes
  <2>3. /\ cache' \in [Instance -> 0 .. newest]
        /\ \E new \in Token!Requests :
                /\ users' = [users EXCEPT ![p] = new]
                /\ new.pc = "finish" /\ new.kind = users[p].kind /\ new.token = users[p].token
                /\ new.token \in 0 .. newest /\ new.prev \in 0 .. newest
    BY <2>1, <2>2, TokenAnswered
  <2>4. PICK new \in Token!Requests :
                /\ users' = [users EXCEPT ![p] = new]
                /\ new.pc = "finish" /\ new.kind = users[p].kind /\ new.token = users[p].token
                /\ new.token \in 0 .. newest /\ new.prev \in 0 .. newest
    BY <2>3
  <2>5. /\ FirstLogin(new) <=> FirstLogin(users[p])
        /\ ~LeaseRenewal(new) /\ ~LockRenewal(new)
    BY <1>1, <2>4 DEF FirstLogin, LeaseRenewal, LockRenewal
  <2>6. /\ users' \in [Proc -> Token!Requests]
        /\ users'[p] = new /\ \A q \in Proc \ {p} : users'[q] = users[q]
    BY <1>1, <2>4, TokenPut
  <2>7. Token!Free.holder = None /\ ~Token!Free.expired
        /\ Token!Free \in [holder : Proc \cup {None}, expired : BOOLEAN]
    BY DEF Token!Free
  <2>8. stored' \in 1 .. newest /\ stored < stored'
    BY <1>0, <1>1, <1>4, <2>1, TokenTypes DEF TokenKnows, TokenKnowsOf
  <2>9. Token!Typed'
    <3>1. \A q \in Proc : users'[q].token \in 0 .. newest /\ users'[q].prev \in 0 .. newest
      BY <2>4, <2>6, TokenTypes
    <3>2. /\ lease' \in [holder : Proc \cup {None}, expired : BOOLEAN]
          /\ lease'.holder = None => ~lease'.expired
      BY <2>1, <2>7, TokenTypes
    <3> QED
      BY <1>0, <1>1, <2>3, <2>6, <2>8, <3>1, <3>2 DEF Token!Typed, Token!TypeOK, Token!Token
  <2>10. TokenKnows'
    <3>1. \A q \in Proc : FirstLogin(users'[q]) <=> FirstLogin(users[q])
      BY <2>5, <2>6
    <3>2. (\A t \in 1 .. MaxLogins : stored < t => age[t] = "fresh")'
      BY <1>0, <1>1, <2>8, TokenTypes DEF TokenKnows
    <3>3. (/\ \A r \in Proc : FirstLogin(users[r]) => Home[r] \in inFlight
           /\ \A r, q \in Proc :
                 FirstLogin(users[r]) /\ FirstLogin(users[q]) /\ Home[r] = Home[q] => r = q)'
      BY <1>0, <1>1, <3>1 DEF TokenKnows
    <3>4. (lock # None => FirstLogin(users[lock]) /\ users[lock].pc # "lock")'
      BY <1>0, <1>1, <2>4, <2>6, <3>1, TokenTypes DEF TokenKnows
    <3>5. ASSUME NEW q \in Proc
          PROVE  TokenKnowsOf(q)'
      <4>1. CASE q = p
        <5>1. FirstLogin(users[p]) /\ p \notin overrun
              => \A t \in 1 .. MaxLogins : age[t] = "fresh"
          BY <1>0 DEF TokenKnows, TokenKnowsOf
        <5> QED
          BY <1>1, <2>4, <2>5, <2>6, <4>1, <5>1 DEF TokenKnowsOf
      <4>2. CASE q # p
        <5>1. TokenKnowsOf(q) /\ TokenKnowsOf(p) /\ users'[q] = users[q]
          BY <1>0, <2>6, <4>2 DEF TokenKnows
        <5>2. CASE users[p].kind = "lease"
          <6>1. lease.holder = p /\ LeaseRenewal(users[p]) /\ lease'.holder = None
            BY <1>1, <1>4, <2>1, <2>7, <5>2 DEF LeaseRenewal
          <6>2. LeaseRenewal(users[q]) => q \in overrun
            BY <4>2, <5>1, <6>1 DEF TokenKnowsOf
          <6>3. overrun = {} => ~LockRenewal(users[q])
            <7>1. \E t \in 1 .. MaxLogins : age[t] # "fresh"
              BY <1>1, <5>1, <6>1 DEF TokenKnowsOf
            <7>2. LockRenewal(users[q]) => FirstLogin(users[q])
              BY DEF FirstLogin, LockRenewal
            <7> QED
              BY <5>1, <7>1, <7>2 DEF TokenKnowsOf
          <6>4. users[q].pc = "login" => LeaseRenewal(users[q]) \/ LockRenewal(users[q])
            BY <1>1, TokenRequest DEF LeaseRenewal, LockRenewal
          <6>5. None # q
            BY TokenTypes
          <6> QED
            BY <1>1, <2>8, <5>1, <6>1, <6>2, <6>3, <6>4, <6>5 DEF TokenKnowsOf
        <5>3. CASE users[p].kind = "initial"
          <6>1. stored = 0 /\ LockRenewal(users[p]) /\ UNCHANGED lease
            BY <1>1, <1>4, <2>1, <5>3 DEF LockRenewal
          <6>2. ~LeaseRenewal(users[q])
            BY <5>1, <6>1 DEF TokenKnowsOf
          <6>3. overrun = {} => ~LockRenewal(users[q])
            BY <4>2, <5>1, <6>1 DEF TokenKnowsOf
          <6>4. users[q].pc \in {"login", "save"}
                => LeaseRenewal(users[q]) \/ LockRenewal(users[q])
            BY <1>1, TokenRequest DEF LeaseRenewal, LockRenewal
          <6>5. ~(users[q].pc = "save" /\ users[q].kind = "lease")
            BY <6>2 DEF LeaseRenewal
          <6> QED
            BY <1>1, <2>8, <5>1, <6>1, <6>2, <6>3, <6>4, <6>5 DEF TokenKnowsOf
        <5> QED
          BY <1>1, <5>2, <5>3
      <4> QED
        BY <4>1, <4>2
    <3> QED
      BY <3>2, <3>3, <3>4, <3>5 DEF TokenKnows
  <2> QED
    BY <2>9, <2>10, TokenIInvNext
<1> QED
  BY <1>3, <1>4

\* Who lost the lease, or the first row, takes what there is.
LEMMA TokenResolve ==
    ASSUME Token!TokenAssumption, Token!IInv, NEW p \in Proc, Token!ResolveAfterLost(p)
    PROVE  Token!IInv'
<1>1. /\ users \in [Proc -> Token!Requests] /\ users[p].pc = "lost" /\ TokenRests
      /\ users[p].kind \in {"lease", "initial"}
      /\ stored \in 0 .. newest /\ users[p].prev \in 0 .. newest
  BY TokenTypes, TokenRequest DEF Token!ResolveAfterLost, Token!store, Token!locks, TokenRests
<1>2. FirstLogin(users[p]) <=> users[p].kind = "initial"
  BY <1>1 DEF FirstLogin
<1>3. \/ Token!Answer(p, stored, "finish")
      \/ Token!Answer(p, users[p].prev, "finish")
      \/ users' = Answering(p, "finish", 0) /\ UNCHANGED cache
  BY DEF Token!ResolveAfterLost, Answering
<1>4. CASE users' = Answering(p, "finish", 0) /\ UNCHANGED cache
  <2>1. 0 \in 0 .. MaxLogins /\ 0 \in 0 .. newest /\ "finish" \in Steps
    BY TokenTypes DEF Steps
  <2>2. PICK new \in Token!Requests :
          /\ Answering(p, "finish", 0) = [users EXCEPT ![p] = new]
          /\ new.pc = "finish" /\ new.kind = users[p].kind /\ new.token = 0
          /\ new.prev = users[p].prev /\ new.rejected = users[p].rejected
          /\ new.waited = users[p].waited
    BY <1>1, <2>1, TokenAnswers
  <2>3. /\ FirstLogin(new) <=> FirstLogin(users[p])
        /\ ~LeaseRenewal(new) /\ ~LockRenewal(new)
    BY <1>1, <2>2 DEF FirstLogin, LeaseRenewal, LockRenewal
  <2>4. cache' \in [Instance -> 0 .. newest] /\ new.token \in 0 .. newest
        /\ new.prev \in 0 .. newest
    BY <1>1, <1>4, <2>1, <2>2, TokenTypes
  <2> QED
    BY <1>1, <1>4, <2>2, <2>3, <2>4, TokenStill DEF TokenRests
<1> QED
  BY <1>1, <1>2, <1>3, <1>4, TokenTakes

\* A failed login gives up the lease: its own, or when it has none whichever there is.
LEMMA TokenFails ==
    ASSUME Token!TokenAssumption, Token!IInv, NEW p \in Proc, Token!LoginFailed(p)
    PROVE  Token!IInv'
<1>0. Token!Typed /\ TokenKnows
  BY TokenIInv
<1>1. /\ users \in [Proc -> Token!Requests] /\ users[p].pc = "failed"
      /\ UNCHANGED <<stored, newest, age, lock, inFlight, slips>>
      /\ users[p].kind \in {"lease", "initial"} /\ users[p].prev \in 0 .. newest
  BY TokenTypes, TokenRequest DEF Token!LoginFailed, Token!store
<1>2. FirstLogin(users[p]) <=> users[p].kind = "initial"
  BY <1>1 DEF FirstLogin
<1>3. /\ cache' \in [Instance -> 0 .. newest]
      /\ \E new \in Token!Requests :
           /\ users' = [users EXCEPT ![p] = new]
           /\ new.pc = "finish" /\ new.kind = users[p].kind
           /\ new.token \in 0 .. newest /\ new.prev \in 0 .. newest
  <2>1. \/ Token!Answer(p, users[p].prev, "finish")
        \/ users' = Answering(p, "finish", 0) /\ UNCHANGED cache
    BY DEF Token!LoginFailed, Answering
  <2>2. CASE Token!Answer(p, users[p].prev, "finish")
    BY <1>1, <2>2, TokenAnswered
  <2>3. CASE users' = Answering(p, "finish", 0) /\ UNCHANGED cache
    <3>1. 0 \in 0 .. MaxLogins /\ 0 \in 0 .. newest /\ "finish" \in Steps
      BY TokenTypes DEF Steps
    <3>2. PICK new \in Token!Requests :
            /\ Answering(p, "finish", 0) = [users EXCEPT ![p] = new]
            /\ new.pc = "finish" /\ new.kind = users[p].kind /\ new.token = 0
            /\ new.prev = users[p].prev /\ new.rejected = users[p].rejected
            /\ new.waited = users[p].waited
      BY <1>1, <3>1, TokenAnswers
    <3>3. cache' \in [Instance -> 0 .. newest]
      BY <2>3, TokenTypes
    <3> QED
      BY <1>1, <2>3, <3>1, <3>2, <3>3
  <2> QED
    BY <2>1, <2>2, <2>3
<1>4. PICK new \in Token!Requests :
           /\ users' = [users EXCEPT ![p] = new]
           /\ new.pc = "finish" /\ new.kind = users[p].kind
           /\ new.token \in 0 .. newest /\ new.prev \in 0 .. newest
  BY <1>3
<1>5. /\ FirstLogin(new) <=> FirstLogin(users[p])
      /\ ~LeaseRenewal(new) /\ ~LockRenewal(new)
  BY <1>1, <1>4 DEF FirstLogin, LeaseRenewal, LockRenewal
<1>6. CASE UNCHANGED <<lease, overrun>>
  BY <1>1, <1>3, <1>4, <1>5, <1>6, TokenStill
<1>7. CASE lease' = Token!Free /\ overrun' = overrun \cup ({lease.holder} \ {p, None})
  <2>1. /\ users' \in [Proc -> Token!Requests]
        /\ users'[p] = new /\ \A q \in Proc \ {p} : users'[q] = users[q]
    BY <1>1, <1>4, TokenPut
  <2>2. lease'.holder = None /\ ~lease'.expired
        /\ lease' \in [holder : Proc \cup {None}, expired : BOOLEAN]
    BY <1>7 DEF Token!Free
  <2>3. overrun' \subseteq Proc
    BY <1>7, TokenTypes
  <2>4. Token!Typed'
    <3>1. \A q \in Proc : users'[q].token \in 0 .. newest /\ users'[q].prev \in 0 .. newest
      BY <1>4, <2>1, TokenTypes
    <3> QED
      BY <1>0, <1>1, <1>3, <2>1, <2>2, <2>3, <3>1 DEF Token!Typed, Token!TypeOK, Token!Token
  <2>5. TokenKnows'
    <3>1. \A q \in Proc : FirstLogin(users'[q]) <=> FirstLogin(users[q])
      BY <1>5, <2>1
    <3>2. (\A t \in 1 .. MaxLogins : stored < t => age[t] = "fresh")'
      BY <1>0, <1>1 DEF TokenKnows
    <3>3. (/\ \A r \in Proc : FirstLogin(users[r]) => Home[r] \in inFlight
           /\ \A r, q \in Proc :
                 FirstLogin(users[r]) /\ FirstLogin(users[q]) /\ Home[r] = Home[q] => r = q)'
      BY <1>0, <1>1, <3>1 DEF TokenKnows
    <3>4. (lock # None => FirstLogin(users[lock]) /\ users[lock].pc # "lock")'
      BY <1>0, <1>1, <1>4, <2>1, <3>1, TokenTypes DEF TokenKnows
    <3>5. ASSUME NEW q \in Proc
          PROVE  TokenKnowsOf(q)'
      <4>1. CASE q = p
        <5>1. FirstLogin(users[p]) /\ p \notin overrun
              => \A t \in 1 .. MaxLogins : age[t] = "fresh"
          BY <1>0 DEF TokenKnows, TokenKnowsOf
        <5> QED
          BY <1>1, <1>4, <1>5, <1>7, <2>1, <4>1, <5>1 DEF TokenKnowsOf
      <4>2. CASE q # p
        <5>1. TokenKnowsOf(q) /\ users'[q] = users[q] /\ q # None
          BY <1>0, <2>1, <4>2, TokenTypes DEF TokenKnows
        <5>2. LeaseRenewal(users[q]) => q \in overrun'
          BY <1>7, <4>2, <5>1 DEF TokenKnowsOf
        <5>3. overrun \subseteq overrun'
          BY <1>7
        <5> QED
          BY <1>1, <2>2, <5>1, <5>2, <5>3 DEF TokenKnowsOf
      <4> QED
        BY <4>1, <4>2
    <3> QED
      BY <3>2, <3>3, <3>4, <3>5 DEF TokenKnows
  <2> QED
    BY <2>4, <2>5, TokenIInvNext
<1> QED
  BY <1>6, <1>7 DEF Token!LoginFailed

\* The finally gives back what the request has of the lease and the lock.
LEMMA TokenFinishes ==
    ASSUME Token!TokenAssumption, Token!IInv, NEW p \in Proc, Token!Finish(p)
    PROVE  Token!IInv'
<1>0. Token!Typed /\ TokenKnows
  BY TokenIInv
<1>1. /\ users \in [Proc -> Token!Requests] /\ users[p].pc = "finish"
      /\ UNCHANGED <<stored, newest, age, cache, overrun, slips>>
      /\ users[p].kind \in {"lease", "initial"}
      /\ users[p].token \in 0 .. newest /\ users[p].prev \in 0 .. newest
  BY TokenTypes, TokenRequest DEF Token!Finish, Token!store
<1>2. FirstLogin(users[p]) <=> users[p].kind = "initial"
  BY <1>1 DEF FirstLogin
<1>3. PICK new \in Token!Requests :
           /\ users' = [users EXCEPT ![p] = new] /\ new.pc \in {"idle", "call"}
           /\ new.token \in 0 .. newest /\ new.prev \in 0 .. newest
  <2>1. CASE Token!Throws(p)
    <3>1. users' = [users EXCEPT ![p] = Token!Idle]
      BY <2>1 DEF Token!Finish
    <3>2. 0 \in 0 .. newest
      BY TokenTypes
    <3> QED
      BY <3>1, <3>2, TokenIdle
  <2>2. CASE ~Token!Throws(p)
    <3>1. users' = Going(p, "call") /\ "call" \in Steps
      BY <1>1, <2>2 DEF Token!Finish, Going, Steps
    <3>2. PICK new \in Token!Requests :
            /\ Going(p, "call") = [users EXCEPT ![p] = new]
            /\ new.pc = "call" /\ new.kind = users[p].kind /\ new.token = users[p].token
            /\ new.prev = users[p].prev /\ new.rejected = users[p].rejected
            /\ new.waited = users[p].waited
      BY <1>1, <3>1, TokenGoes
    <3> QED
      BY <1>1, <3>1, <3>2
  <2> QED
    BY <2>1, <2>2
<1>4. ~FirstLogin(new) /\ ~LeaseRenewal(new) /\ ~LockRenewal(new)
  BY <1>3 DEF FirstLogin, LeaseRenewal, LockRenewal
<1>5. /\ users' \in [Proc -> Token!Requests]
      /\ users'[p] = new /\ \A q \in Proc \ {p} : users'[q] = users[q]
  BY <1>1, <1>3, TokenPut
<1>6. /\ lease' = IF users[p].kind = "lease" /\ lease.holder = p THEN Token!Free ELSE lease
      /\ lock' = IF lock = p THEN None ELSE lock
      /\ inFlight' = IF users[p].kind = "initial" THEN inFlight \ {Home[p]} ELSE inFlight
  BY DEF Token!Finish
<1>7. /\ lease' \in [holder : Proc \cup {None}, expired : BOOLEAN]
      /\ lease'.holder = None => ~lease'.expired
      /\ \A q \in Proc \ {p} : lease.holder = q => lease' = lease
      /\ \A q \in Proc \ {p} : lease'.holder = q => lease' = lease
      /\ stored = 0 => lease'.holder = None
  BY <1>6, TokenTypes DEF Token!Free
<1>8. \A q \in Proc \ {p} : FirstLogin(users[q]) => Home[q] \in inFlight'
  BY <1>0, <1>2, <1>6 DEF TokenKnows
<1>9. /\ lock' \in Proc \cup {None} /\ inFlight' \subseteq Instance
      /\ lock' # None => lock' = lock /\ lock \in Proc \ {p} /\ FirstLogin(users[lock])
  BY <1>0, <1>6, TokenTypes DEF TokenKnows
<1>10. Token!Typed'
  <2>1. \A q \in Proc : users'[q].token \in 0 .. newest /\ users'[q].prev \in 0 .. newest
    BY <1>3, <1>5, TokenTypes
  <2>2. (lock # None => Home[lock] \in inFlight)'
    BY <1>8, <1>9
  <2> QED
    BY <1>0, <1>1, <1>5, <1>7, <1>9, <2>1, <2>2 DEF Token!Typed, Token!TypeOK, Token!Token
<1>11. TokenKnows'
  <2>1. (\A t \in 1 .. MaxLogins : stored < t => age[t] = "fresh")'
    BY <1>0, <1>1 DEF TokenKnows
  <2>2. (/\ \A r \in Proc : FirstLogin(users[r]) => Home[r] \in inFlight
         /\ \A r, q \in Proc :
               FirstLogin(users[r]) /\ FirstLogin(users[q]) /\ Home[r] = Home[q] => r = q)'
    BY <1>0, <1>4, <1>5, <1>8 DEF TokenKnows
  <2>3. (lock # None => FirstLogin(users[lock]) /\ users[lock].pc # "lock")'
    BY <1>0, <1>5, <1>9 DEF TokenKnows
  <2>4. ASSUME NEW q \in Proc
        PROVE  TokenKnowsOf(q)'
    <3>1. CASE q = p
      BY <1>3, <1>4, <1>5, <3>1 DEF TokenKnowsOf
    <3>2. CASE q # p
      <4>1. TokenKnowsOf(q) /\ users'[q] = users[q]
        BY <1>0, <1>5, <3>2 DEF TokenKnows
      <4>2. lock = q => lock' = q
        BY <1>6, <3>2
      <4>3. lease.holder = q => lease' = lease
        BY <1>7, <3>2
      <4>4. lease'.holder = q => lease' = lease
        BY <1>7, <3>2
      <4> QED
        BY <1>1, <4>1, <4>2, <4>3, <4>4 DEF TokenKnowsOf
    <3> QED
      BY <3>1, <3>2
  <2> QED
    BY <2>1, <2>2, <2>3, <2>4 DEF TokenKnows
<1> QED
  BY <1>10, <1>11, TokenIInvNext

\* Tokens grow old, and who waits to make the first row has overrun then.
LEMMA TokenGrows ==
    ASSUME Token!TokenAssumption, Token!IInv, NEW t \in 1 .. MaxLogins, Token!Grow(t)
    PROVE  Token!IInv'
<1>0. Token!Typed /\ TokenKnows
  BY TokenIInv
<1>1. /\ UNCHANGED <<stored, newest, cache, users, lease, lock, inFlight, slips>>
      /\ t <= stored /\ age[t] # "expired"
      /\ age' = [age EXCEPT ![t] = IF age[t] = "fresh" THEN "stale" ELSE "expired"]
      /\ overrun' = overrun \cup
           {p \in Proc : users[p].pc = "first" \/ FirstLogin(users[p])}
  BY DEF Token!Grow, Token!locks, Token!InFirstLogin, FirstLogin
<1>2. /\ age' \in [1 .. MaxLogins -> {"fresh", "stale", "expired"}]
      /\ age'[t] # "fresh" /\ \A u \in 1 .. MaxLogins : age'[u] = "fresh" => age[u] = "fresh"
      /\ \A u \in 1 .. MaxLogins : u # t => age'[u] = age[u]
  BY <1>1, TokenTypes
<1>3. Token!Typed'
  <2>1. overrun' \subseteq Proc
    BY <1>1, TokenTypes
  <2> QED
    BY <1>0, <1>1, <1>2, <2>1 DEF Token!Typed, Token!TypeOK, Token!Token
<1>4. TokenKnows'
  <2>1. (\A u \in 1 .. MaxLogins : stored < u => age[u] = "fresh")'
    <3>1. stored \in Nat /\ MaxLogins \in Nat
      BY TokenTypes
    <3> QED
      BY <1>0, <1>1, <1>2, <3>1 DEF TokenKnows
  <2>2. ASSUME NEW q \in Proc
        PROVE  TokenKnowsOf(q)'
    <3>1. TokenKnowsOf(q) /\ users' = users /\ overrun \subseteq overrun'
      BY <1>0, <1>1 DEF TokenKnows
    <3>2. (users[q].pc = "first" \/ FirstLogin(users[q])) => q \in overrun'
      BY <1>1
    <3>3. stored # 0 => (age'[stored] = "fresh" => age[stored] = "fresh")
      BY <1>2, TokenTypes
    <3>4. \E u \in 1 .. MaxLogins : age'[u] # "fresh"
      BY <1>2
    <3> QED
      BY <1>1, <3>1, <3>2, <3>3, <3>4 DEF TokenKnowsOf
  <2> QED
    BY <1>0, <1>1, <2>1, <2>2 DEF TokenKnows
<1> QED
  BY <1>3, <1>4, TokenIInvNext

\* What the invariant does not speak of may change.
LEMMA TokenRevokes ==
    ASSUME Token!TokenAssumption, Token!IInv, slips' \in Nat,
           UNCHANGED <<stored, newest, age, cache, users, lease, lock, inFlight, overrun>>
    PROVE  Token!IInv'
<1>0. Token!Typed /\ TokenKnows
  BY TokenIInv
<1>1. Token!Typed'
  BY <1>0 DEF Token!Typed, Token!TypeOK, Token!Token
<1>2. TokenKnows'
  BY <1>0 DEF TokenKnows, TokenKnowsOf
<1> QED
  BY <1>1, <1>2, TokenIInvNext

\* The lease runs out.
LEMMA TokenLeaseExpires ==
    ASSUME Token!TokenAssumption, Token!IInv, Token!LeaseExpires
    PROVE  Token!IInv'
<1>0. Token!Typed /\ TokenKnows
  BY TokenIInv
<1>1. /\ UNCHANGED <<stored, newest, age, cache, users, lock, inFlight>>
      /\ slips' \in Nat /\ lease.holder \in Proc
      /\ lease' = [lease EXCEPT !.expired = TRUE]
      /\ overrun' = IF Token!Holding THEN overrun \cup {lease.holder} ELSE overrun
  BY TokenTypes DEF Token!LeaseExpires, Token!store
<1>2. /\ lease' \in [holder : Proc \cup {None}, expired : BOOLEAN]
      /\ lease'.holder = lease.holder /\ lease.holder # None
  BY <1>1, TokenTypes
<1>3. LeaseRenewal(users[lease.holder]) => lease.holder \in overrun'
  BY <1>1, <1>2 DEF Token!Holding, LeaseRenewal
<1>4. overrun \subseteq overrun' /\ overrun' \subseteq Proc
  BY <1>1, TokenTypes
<1>5. Token!Typed'
  BY <1>0, <1>1, <1>2, <1>4 DEF Token!Typed, Token!TypeOK, Token!Token
<1>6. TokenKnows'
  <2>1. ASSUME NEW q \in Proc
        PROVE  TokenKnowsOf(q)'
    <3>1. TokenKnowsOf(q)
      BY <1>0 DEF TokenKnows
    <3>2. LeaseRenewal(users[q]) => q \in overrun'
      BY <1>3, <1>4, <3>1 DEF TokenKnowsOf
    <3> QED
      BY <1>1, <1>2, <1>4, <3>1, <3>2 DEF TokenKnowsOf
  <2> QED
    BY <1>0, <1>1, <2>1 DEF TokenKnows
<1> QED
  BY <1>5, <1>6, TokenIInvNext

\* The lock is lost with its transaction.
LEMMA TokenLockTimesOut ==
    ASSUME Token!TokenAssumption, Token!IInv, Token!LockTimesOut
    PROVE  Token!IInv'
<1>0. Token!Typed /\ TokenKnows
  BY TokenIInv
<1>1. /\ UNCHANGED <<stored, newest, age, cache, users, lease, inFlight>>
      /\ slips' \in Nat /\ lock' = None /\ overrun' = overrun \cup {lock}
      /\ lock \in Proc
  BY TokenTypes DEF Token!LockTimesOut, Token!store
<1>2. overrun' \subseteq Proc /\ overrun \subseteq overrun' /\ lock \in overrun'
  BY <1>1, TokenTypes
<1>3. Token!Typed'
  BY <1>0, <1>1, <1>2 DEF Token!Typed, Token!TypeOK, Token!Token
<1>4. TokenKnows'
  <2>1. ASSUME NEW q \in Proc
        PROVE  TokenKnowsOf(q)'
    <3>1. TokenKnowsOf(q)
      BY <1>0 DEF TokenKnows
    <3>2. LockRenewal(users[q]) => q \in overrun'
      BY <1>2, <3>1 DEF TokenKnowsOf
    <3> QED
      BY <1>1, <1>2, <3>1, <3>2 DEF TokenKnowsOf
  <2> QED
    BY <1>0, <1>1, <2>1 DEF TokenKnows
<1> QED
  BY <1>3, <1>4, TokenIInvNext

\* The requests of an instance that dies are nowhere any more; what it had of the lease stays.
LEMMA TokenCrash ==
    ASSUME Token!TokenAssumption, Token!IInv, NEW i \in Instance, Token!Crash(i)
    PROVE  Token!IInv'
<1>0. Token!Typed /\ TokenKnows
  BY TokenIInv
<1>1. /\ UNCHANGED <<stored, newest, age, lease, overrun>>
      /\ slips' \in Nat /\ cache' = [cache EXCEPT ![i] = 0]
      /\ inFlight' = inFlight \ {i}
      /\ lock' = IF lock # None /\ Home[lock] = i THEN None ELSE lock
      /\ users' = [p \in Proc |-> IF Home[p] = i THEN Token!Idle ELSE users[p]]
  BY TokenTypes DEF Token!Crash, Token!store
<1>2. /\ Token!Idle \in Token!Requests /\ Token!Idle.pc = "idle"
      /\ Token!Idle.token = 0 /\ Token!Idle.prev = 0 /\ 0 \in 0 .. newest
  BY TokenIdle, TokenTypes
<1>3. ~FirstLogin(Token!Idle) /\ ~LeaseRenewal(Token!Idle) /\ ~LockRenewal(Token!Idle)
  BY <1>2 DEF FirstLogin, LeaseRenewal, LockRenewal
<1>4. /\ users' \in [Proc -> Token!Requests]
      /\ \A p \in Proc : Home[p] = i => users'[p] = Token!Idle
      /\ \A p \in Proc : Home[p] # i => users'[p] = users[p]
  BY <1>1, <1>2, TokenTypes
<1>5. /\ cache' \in [Instance -> 0 .. newest] /\ inFlight' \subseteq Instance
      /\ lock' \in Proc \cup {None}
      /\ lock' # None => lock' = lock /\ lock \in Proc /\ Home[lock] # i
  BY <1>1, TokenTypes
<1>6. Token!Typed'
  <2>1. \A q \in Proc : users'[q].token \in 0 .. newest /\ users'[q].prev \in 0 .. newest
    BY <1>2, <1>4, TokenTypes
  <2>2. (lock # None => Home[lock] \in inFlight)'
    BY <1>1, <1>5, TokenTypes
  <2> QED
    BY <1>0, <1>1, <1>4, <1>5, <2>1, <2>2 DEF Token!Typed, Token!TypeOK, Token!Token
<1>7. TokenKnows'
  <2>1. \A q \in Proc : FirstLogin(users'[q]) => FirstLogin(users[q]) /\ Home[q] # i
    BY <1>3, <1>4
  <2>2. (\A t \in 1 .. MaxLogins : stored < t => age[t] = "fresh")'
    BY <1>0, <1>1 DEF TokenKnows
  <2>3. (/\ \A r \in Proc : FirstLogin(users[r]) => Home[r] \in inFlight
         /\ \A r, q \in Proc :
               FirstLogin(users[r]) /\ FirstLogin(users[q]) /\ Home[r] = Home[q] => r = q)'
    BY <1>0, <1>1, <2>1 DEF TokenKnows
  <2>4. (lock # None => FirstLogin(users[lock]) /\ users[lock].pc # "lock")'
    BY <1>0, <1>4, <1>5 DEF TokenKnows
  <2>5. ASSUME NEW q \in Proc
        PROVE  TokenKnowsOf(q)'
    <3>1. CASE Home[q] = i
      BY <1>2, <1>3, <1>4, <3>1 DEF TokenKnowsOf
    <3>2. CASE Home[q] # i
      <4>1. TokenKnowsOf(q) /\ users'[q] = users[q]
        BY <1>0, <1>4, <3>2 DEF TokenKnows
      <4>2. lock = q => lock' = q
        BY <1>1, <3>2
      <4> QED
        BY <1>1, <4>1, <4>2 DEF TokenKnowsOf
    <3> QED
      BY <3>1, <3>2
  <2> QED
    BY <2>2, <2>3, <2>4, <2>5 DEF TokenKnows
<1> QED
  BY <1>6, <1>7, TokenIInvNext

\* The initial states meet the invariant.
LEMMA TokenStart ==
    ASSUME Token!TokenAssumption, Token!Init
    PROVE  Token!IInv
<1>1. /\ Token!Idle \in Token!Requests /\ Token!Idle.pc = "idle" /\ Token!Idle.kind = "lease"
      /\ Token!Idle.token = 0 /\ Token!Idle.prev = 0
  BY TokenIdle
<1>2. \A p \in Proc : users[p] = Token!Idle
  BY DEF Token!Init
<1>3. Token!Typed
  BY <1>1, <1>2
  DEF Token!Init, Token!Typed, Token!TypeOK, Token!Token, Token!Free, Token!TokenAssumption
<1>4. TokenKnows
  BY <1>1, <1>2 DEF Token!Init, TokenKnows, TokenKnowsOf, FirstLogin, LeaseRenewal, LockRenewal,
                    Token!Token
<1> QED
  BY <1>3, <1>4, TokenIInv

\* Every step keeps the invariant of the token.
LEMMA TokenInductive ==
    ASSUME Token!TokenAssumption, Token!IInv, Token!Next
    PROVE  Token!IInv'
<1>1. ASSUME NEW p \in Proc, Token!Step(p)
      PROVE  Token!IInv'
  BY <1>1, TokenReadStored, TokenReadAgain, TokenAcquire, TokenEnter, TokenTakesLock,
     TokenRecheck, TokenLogIn, TokenSave, TokenResolve, TokenFails, TokenFinishes, TokenCall
  DEF Token!Step
<1>2. ASSUME NEW t \in 1 .. MaxLogins, Token!Revoke(t)
      PROVE  Token!IInv'
  BY <1>2, TokenRevokes, TokenTypes DEF Token!Revoke, Token!locks
<1> QED
  BY <1>1, <1>2, TokenGet, TokenGiveUp, TokenGrows, TokenLeaseExpires, TokenLockTimesOut,
     TokenCrash
  DEF Token!Next, Token!Token

\* The counts of the model are those the theorems about finite sets speak of.
LEMMA TokenCounts == \A S : Token!Cardinality(S) = Cardinality(S)
  BY DEF Token!Cardinality, Cardinality

\* At most one of those who have not overrun logs in: two would hold the lease together, or
\* the lock, or one found an old token and the other that none has grown old.
LEMMA TokenOneLogin ==
    ASSUME Token!TokenAssumption, Token!IInv
    PROVE  Token!OneLoginAtATime
<1>0. TokenKnows /\ users \in [Proc -> Token!Requests]
  BY TokenIInv, TokenTypes
<1> DEFINE S == Token!LoggingIn \ overrun
<1>1. ASSUME NEW p \in S
      PROVE  /\ p \in Proc /\ p \notin overrun /\ TokenKnowsOf(p)
             /\ LeaseRenewal(users[p]) \/ (LockRenewal(users[p]) /\ FirstLogin(users[p]))
             /\ users[p].pc # "recheck"
  BY <1>0, TokenRequest DEF Token!LoggingIn, TokenKnows, LeaseRenewal, LockRenewal, FirstLogin
<1>2. ASSUME NEW p \in S, NEW q \in S
      PROVE  p = q
  <2>1. CASE LeaseRenewal(users[p]) /\ LeaseRenewal(users[q])
    BY <1>1, <2>1 DEF TokenKnowsOf
  <2>2. CASE LockRenewal(users[p]) /\ LockRenewal(users[q])
    BY <1>1, <2>2 DEF TokenKnowsOf
  <2>3. ~(LeaseRenewal(users[p]) /\ LockRenewal(users[q]) /\ FirstLogin(users[q]))
    BY <1>1 DEF TokenKnowsOf
  <2>4. ~(LeaseRenewal(users[q]) /\ LockRenewal(users[p]) /\ FirstLogin(users[p]))
    BY <1>1 DEF TokenKnowsOf
  <2> QED
    BY <1>1, <2>1, <2>2, <2>3, <2>4
<1>3. CASE S = {}
  BY <1>3, FS_EmptySet, TokenCounts DEF Token!OneLoginAtATime
<1>4. CASE S # {}
  <2>1. PICK p \in S : S = {p}
    BY <1>2, <1>4
  <2>2. Cardinality(S) = 1
    BY <2>1, FS_Singleton
  <2> QED
    BY <2>2, TokenCounts DEF Token!OneLoginAtATime
<1> QED
  BY <1>3, <1>4

\* A stored token is replaced by a later one only.
LEMMA TokenNewest ==
    ASSUME Token!TokenAssumption, Token!IInv, Token!Next
    PROVE  stored' >= stored
<1>0. TokenKnows /\ users \in [Proc -> Token!Requests] /\ stored \in Nat /\ newest \in Nat
  BY TokenIInv, TokenTypes
<1>1. CASE UNCHANGED stored
  BY <1>0, <1>1
<1>2. ASSUME NEW p \in Proc, Token!Save(p)
      PROVE  stored' >= stored
  <2>1. /\ users[p].pc = "save" /\ users[p].kind \in {"lease", "initial"}
        /\ users[p].token \in 1 .. newest
    BY <1>0, <1>2, TokenRequest DEF Token!Save, TokenKnows, TokenKnowsOf
  <2>2. UNCHANGED stored \/ (/\ stored' = users[p].token
                             /\ IF users[p].kind = "lease" THEN lease.holder = p ELSE stored = 0)
    BY <1>2 DEF Token!Save
  <2> QED
    BY <1>0, <2>1, <2>2 DEF TokenKnows, TokenKnowsOf
<1>3. ASSUME NEW p \in Proc, Token!Step(p)
      PROVE  stored' >= stored
  BY <1>1, <1>2, <1>3
  DEF Token!Step, Token!ReadStored, Token!ReadAgain, Token!AcquireLease, Token!EnterFirstLogin,
      Token!TakeLock, Token!Recheck, Token!LogIn, Token!ResolveAfterLost, Token!LoginFailed,
      Token!Finish, Token!Call, Token!store
<1> QED
  BY <1>1, <1>3
  DEF Token!Next, Token!GetBearerToken, Token!GiveUp, Token!Grow, Token!Revoke, Token!Crash,
      Token!LeaseExpires, Token!LockTimesOut, Token!store

\* What a step leaves of the tokens that the requests have.
LEMMA TokensGoing ==
    ASSUME users \in [Proc -> Token!Requests], NEW p \in Proc, NEW pc \in Steps
    PROVE  \A q \in Proc : Going(p, pc)[q].token = users[q].token
<1>1. PICK new \in Token!Requests :
           /\ Going(p, pc) = [users EXCEPT ![p] = new]
           /\ new.pc = pc /\ new.kind = users[p].kind /\ new.token = users[p].token
           /\ new.prev = users[p].prev /\ new.rejected = users[p].rejected
           /\ new.waited = users[p].waited
  BY TokenGoes
<1> QED
  BY <1>1

\* So it is for one that waits,
LEMMA TokensWaiting ==
    ASSUME users \in [Proc -> Token!Requests], NEW p \in Proc, NEW pc \in Steps
    PROVE  \A q \in Proc : Waiting(p, pc)[q].token = users[q].token
<1>1. PICK new \in Token!Requests :
           /\ Waiting(p, pc) = [users EXCEPT ![p] = new]
           /\ new.pc = pc /\ new.kind = users[p].kind /\ new.token = users[p].token
           /\ new.prev = users[p].prev
  BY TokenWaits
<1> QED
  BY <1>1

\* for one that turns to the lease or the first login,
LEMMA TokensTurning ==
    ASSUME users \in [Proc -> Token!Requests], NEW p \in Proc, NEW pc \in Steps,
           NEW kind \in {"lease", "initial"}
    PROVE  \A q \in Proc : Turning(p, pc, kind)[q].token = users[q].token
<1>1. PICK new \in Token!Requests :
           /\ Turning(p, pc, kind) = [users EXCEPT ![p] = new]
           /\ new.pc = pc /\ new.kind = kind /\ new.token = users[p].token
           /\ new.prev = users[p].prev
  BY TokenTurns
<1> QED
  BY <1>1

\* for one that remembers the token it found,
LEMMA TokensRemembering ==
    ASSUME users \in [Proc -> Token!Requests], NEW p \in Proc, NEW pc \in Steps,
           NEW t \in 0 .. MaxLogins
    PROVE  \A q \in Proc : Remembering(p, pc, t)[q].token = users[q].token
<1>1. PICK new \in Token!Requests :
           /\ Remembering(p, pc, t) = [users EXCEPT ![p] = new]
           /\ new.pc = pc /\ new.kind = users[p].kind /\ new.token = users[p].token
           /\ new.prev = t
  BY TokenRemembers
<1> QED
  BY <1>1

\* for one that is answered,
LEMMA TokensAnswering ==
    ASSUME users \in [Proc -> Token!Requests], NEW p \in Proc, NEW pc \in Steps,
           NEW t \in 0 .. MaxLogins
    PROVE  \A q \in Proc :
             Answering(p, pc, t)[q].token = IF q = p THEN t ELSE users[q].token
<1>1. PICK new \in Token!Requests :
           /\ Answering(p, pc, t) = [users EXCEPT ![p] = new]
           /\ new.pc = pc /\ new.kind = users[p].kind /\ new.token = t
           /\ new.prev = users[p].prev /\ new.rejected = users[p].rejected
           /\ new.waited = users[p].waited
  BY TokenAnswers
<1> QED
  BY <1>1

\* for one that goes to call with its token,
LEMMA TokensCalling ==
    ASSUME Token!TokenAssumption, users \in [Proc -> Token!Requests], NEW p \in Proc,
           NEW t \in 0 .. MaxLogins,
           users' = [users EXCEPT ![p] = [Token!Idle EXCEPT !.pc = "call", !.token = t]]
    PROVE  \A q \in Proc : users'[q].token = IF q = p THEN t ELSE users[q].token
<1>1. PICK new \in Token!Requests :
             /\ new = [Token!Idle EXCEPT !.pc = "call", !.token = t] /\ new.pc = "call"
             /\ new.kind = "lease" /\ new.token = t /\ new.prev = 0
  BY TokenCalls
<1>2. users' = [users EXCEPT ![p] = new]
  BY <1>1
<1> QED
  BY <1>1, <1>2

\* and for one that comes back with a rejected token.
LEMMA TokensForced ==
    ASSUME Token!TokenAssumption, users \in [Proc -> Token!Requests], NEW p \in Proc,
           NEW t \in 0 .. MaxLogins,
           users' = [users EXCEPT ![p] = [Token!Idle EXCEPT !.pc = "read", !.rejected = t]]
    PROVE  \A q \in Proc : users'[q].token = IF q = p THEN 0 ELSE users[q].token
<1>1. PICK new \in Token!Requests :
             /\ new = [Token!Idle EXCEPT !.pc = "read", !.rejected = t] /\ new.pc = "read"
             /\ new.kind = "lease" /\ new.token = 0 /\ new.prev = 0
  BY TokenForces
<1>2. users' = [users EXCEPT ![p] = new]
  BY <1>1
<1> QED
  BY <1>1, <1>2

\* Nobody is given a token that has expired.
TokenIsAlive ==
    \A p \in Proc : users'[p].token # 0 /\ users'[p].token # users[p].token
                    => age'[users'[p].token] # "expired"

\* A step gives a request no token, the one it has, or one that is alive.
LEMMA TokenGives ==
    ASSUME NEW p \in Proc, NEW t,
           \A q \in Proc : users'[q].token = IF q = p THEN t ELSE users[q].token,
           UNCHANGED age, t = 0 \/ t = users[p].token \/ age[t] # "expired"
    PROVE  TokenIsAlive
  BY DEF TokenIsAlive

\* An answer that is no token, the request's own, or one alive.
LEMMA TokenGivesAnswer ==
    ASSUME Token!TokenAssumption, Token!IInv, NEW p \in Proc, NEW t \in 0 .. MaxLogins,
           NEW pc \in Steps, users' = Answering(p, pc, t),
           UNCHANGED age, t = 0 \/ t = users[p].token \/ age[t] # "expired"
    PROVE  TokenIsAlive
<1>1. users \in [Proc -> Token!Requests]
  BY TokenTypes
<1>2. \A q \in Proc : users'[q].token = IF q = p THEN t ELSE users[q].token
  BY <1>1, TokensAnswering
<1> QED
  BY <1>2, TokenGives

\* A step that leaves every request its token.
LEMMA TokenGivesNothing ==
    ASSUME NEW p \in Proc, \A q \in Proc : users'[q].token = users[q].token
    PROVE  TokenIsAlive
  BY DEF TokenIsAlive

\* A request that ends has no token.
LEMMA TokenIdles ==
    ASSUME Token!TokenAssumption, Token!IInv, NEW p \in Proc, UNCHANGED age,
           users' = [users EXCEPT ![p] = Token!Idle]
    PROVE  TokenIsAlive
<1>1. users \in [Proc -> Token!Requests] /\ Token!Idle.token = 0
  BY TokenTypes, TokenIdle
<1>2. \A q \in Proc : users'[q].token = IF q = p THEN 0 ELSE users[q].token
  BY <1>1
<1> QED
  BY <1>2, TokenGives

\* A request comes in, with the token of the cache.
LEMMA TokenGetAlive ==
    ASSUME Token!TokenAssumption, Token!IInv, NEW p \in Proc, Token!GetBearerToken(p)
    PROVE  TokenIsAlive
<1>1. /\ UNCHANGED age /\ users \in [Proc -> Token!Requests]
      /\ cache[Home[p]] \in 0 .. MaxLogins
  BY TokenTypes DEF Token!GetBearerToken, Token!store
<1>2. CASE Token!Fresh(cache[Home[p]])
  <2>1. users' = [users EXCEPT ![p] =
                    [Token!Idle EXCEPT !.pc = "call", !.token = cache[Home[p]]]]
    BY <1>2 DEF Token!GetBearerToken
  <2>2. \A q \in Proc : users'[q].token = IF q = p THEN cache[Home[p]] ELSE users[q].token
    BY <1>1, <2>1, TokensCalling
  <2> QED
    BY <1>1, <1>2, <2>2, TokenGives DEF Token!Fresh
<1>3. CASE ~Token!Fresh(cache[Home[p]])
  <2>1. users' = [users EXCEPT ![p] = [Token!Idle EXCEPT !.pc = "read"]]
    BY <1>3 DEF Token!GetBearerToken
  <2>2. PICK new \in Token!Requests :
          /\ new = [Token!Idle EXCEPT !.pc = "read"] /\ new.pc = "read"
          /\ new.kind = "lease" /\ new.token = 0 /\ new.prev = 0
    BY TokenReads
  <2>3. users' = [users EXCEPT ![p] = new]
    BY <2>1, <2>2
  <2>4. \A q \in Proc : users'[q].token = IF q = p THEN 0 ELSE users[q].token
    BY <1>1, <2>2, <2>3
  <2> QED
    BY <1>1, <2>4, TokenGives
<1> QED
  BY <1>2, <1>3

\* A fresh row is an answer.
LEMMA TokenFreshIsAlive ==
    ASSUME Token!TokenAssumption, Token!IInv, NEW p \in Proc, UNCHANGED age,
           NEW pc \in Steps, Token!Answer(p, stored, pc), Token!Fresh(stored)
    PROVE  TokenIsAlive
<1>1. users' = Answering(p, pc, stored) /\ age[stored] # "expired"
  BY DEF Token!Answer, Answering, Token!Fresh
<1>2. stored \in 0 .. MaxLogins
  BY TokenTypes
<1> QED
  BY <1>1, <1>2, TokenGivesAnswer

\* The steps that read the row.
LEMMA TokenReadsAlive ==
    ASSUME Token!TokenAssumption, Token!IInv, NEW p \in Proc,
           Token!ReadStored(p) \/ Token!ReadAgain(p) \/ Token!Recheck(p)
    PROVE  TokenIsAlive
<1>1. /\ UNCHANGED age /\ users \in [Proc -> Token!Requests]
      /\ stored \in 0 .. MaxLogins /\ users[p].prev \in 0 .. MaxLogins
  BY TokenTypes DEF Token!ReadStored, Token!ReadAgain, Token!Recheck, Token!store
<1>2. {"call", "finish", "loop", "first", "acquire", "login"} \subseteq Steps
  BY DEF Steps
<1>3. \/ Token!Fresh(stored) /\ \E pc \in {"call", "finish"} : Token!Answer(p, stored, pc)
      \/ users' = Remembering(p, "loop", stored)
      \/ \E pc \in {"first", "acquire"} : users' = Going(p, pc)
      \/ \E t \in 0 .. MaxLogins : users' = Remembering(p, "login", t)
  <2>1. CASE Token!ReadStored(p)
    BY <2>1 DEF Token!ReadStored, Remembering
  <2>2. CASE Token!ReadAgain(p)
    BY <2>2 DEF Token!ReadAgain, Token!Goto, Going
  <2>3. CASE Token!Recheck(p)
    <3>1. CASE Token!Fresh(stored)
      BY <2>3, <3>1 DEF Token!Recheck
    <3>2. CASE ~Token!Fresh(stored)
      <4> DEFINE prev == IF stored # 0 THEN stored ELSE users[p].prev
      <4>1. users' = [users EXCEPT ![p].pc = "login",
                                  ![p].prev = IF stored # 0 THEN stored ELSE @]
        BY <2>3, <3>2 DEF Token!Recheck
      <4>2. users' = Remembering(p, "login", prev)
        BY <1>1, <4>1 DEF Remembering, Token!Requests
      <4>3. prev \in 0 .. MaxLogins
        BY <1>1
      <4> HIDE DEF prev
      <4> QED
        BY <4>2, <4>3
    <3> QED
      BY <3>1, <3>2
  <2> QED
    BY <2>1, <2>2, <2>3
<1>4. CASE Token!Fresh(stored) /\ \E pc \in {"call", "finish"} : Token!Answer(p, stored, pc)
  BY <1>1, <1>2, <1>4, TokenFreshIsAlive
<1>5. CASE users' = Remembering(p, "loop", stored)
  <2>1. "loop" \in Steps
    BY <1>2
  <2>2. \A q \in Proc : users'[q].token = users[q].token
    BY <1>1, <1>5, <2>1, TokensRemembering
  <2> QED
    BY <2>2, TokenGivesNothing
<1>6. CASE \E pc \in {"first", "acquire"} : users' = Going(p, pc)
  <2>1. PICK pc \in Steps : users' = Going(p, pc)
    BY <1>2, <1>6
  <2>2. \A q \in Proc : users'[q].token = users[q].token
    BY <1>1, <2>1, TokensGoing
  <2> QED
    BY <2>2, TokenGivesNothing
<1>7. CASE \E t \in 0 .. MaxLogins : users' = Remembering(p, "login", t)
  <2>1. PICK t \in 0 .. MaxLogins : users' = Remembering(p, "login", t)
    BY <1>7
  <2>2. "login" \in Steps
    BY <1>2
  <2>3. \A q \in Proc : users'[q].token = users[q].token
    BY <1>1, <2>1, <2>2, TokensRemembering
  <2> QED
    BY <2>3, TokenGivesNothing
<1> QED
  BY <1>3, <1>4, <1>5, <1>6, <1>7

\* The steps that take the lease or the lock.
LEMMA TokenLocksAlive ==
    ASSUME Token!TokenAssumption, Token!IInv, NEW p \in Proc,
           Token!AcquireLease(p) \/ Token!EnterFirstLogin(p) \/ Token!TakeLock(p)
    PROVE  TokenIsAlive
<1>1. users \in [Proc -> Token!Requests]
  BY TokenTypes
<1>2. "loop" \in Steps /\ "recheck" \in Steps /\ "lock" \in Steps
  BY DEF Steps
<1>3. \/ users' = Waiting(p, "loop")
      \/ users' = Turning(p, "recheck", "lease") \/ users' = Turning(p, "lock", "initial")
      \/ users' = Going(p, "recheck")
  BY DEF Token!AcquireLease, Token!EnterFirstLogin, Token!TakeLock, Token!Goto, Waiting, Turning,
         Going
<1>4. \A q \in Proc : users'[q].token = users[q].token
  <2>1. CASE users' = Waiting(p, "loop")
    BY <1>1, <1>2, <2>1, TokensWaiting
  <2>2. CASE users' = Turning(p, "recheck", "lease")
    BY <1>1, <1>2, <2>2, TokensTurning
  <2>3. CASE users' = Turning(p, "lock", "initial")
    BY <1>1, <1>2, <2>3, TokensTurning
  <2>4. CASE users' = Going(p, "recheck")
    BY <1>1, <1>2, <2>4, TokensGoing
  <2> QED
    BY <1>3, <2>1, <2>2, <2>3, <2>4
<1> QED
  BY <1>4, TokenGivesNothing

\* A login gives a fresh token.
LEMMA TokenLoginAlive ==
    ASSUME Token!TokenAssumption, Token!IInv, NEW p \in Proc, Token!LogIn(p)
    PROVE  TokenIsAlive
<1>0. TokenKnows
  BY TokenIInv
<1>1. /\ users \in [Proc -> Token!Requests] /\ UNCHANGED age
      /\ stored \in 0 .. newest /\ newest \in 0 .. MaxLogins /\ MaxLogins \in Nat
  BY TokenTypes DEF Token!LogIn
<1>2. "save" \in Steps /\ "failed" \in Steps
  BY DEF Steps
<1>3. CASE newest < MaxLogins /\ users' = Answering(p, "save", newest + 1)
  <2>1. PICK made \in 0 .. MaxLogins : made = newest + 1
    BY <1>1, <1>3
  <2>2. users' = Answering(p, "save", made)
    BY <1>3, <2>1
  <2>3. age[made] = "fresh"
    BY <1>0, <1>1, <2>1 DEF TokenKnows
  <2> QED
    BY <1>1, <1>2, <2>2, <2>3, TokenGivesAnswer
<1>4. CASE users' = Going(p, "failed")
  <2>1. \A q \in Proc : users'[q].token = users[q].token
    BY <1>1, <1>2, <1>4, TokensGoing
  <2> QED
    BY <2>1, TokenGivesNothing
<1> QED
  BY <1>3, <1>4 DEF Token!LogIn, Token!Goto, Going, Answering

\* The steps that store it or find that another did.
LEMMA TokenEndsAlive ==
    ASSUME Token!TokenAssumption, Token!IInv, NEW p \in Proc,
           Token!Save(p) \/ Token!ResolveAfterLost(p) \/ Token!LoginFailed(p)
    PROVE  TokenIsAlive
<1>1. /\ users \in [Proc -> Token!Requests] /\ UNCHANGED age
      /\ stored \in 0 .. MaxLogins /\ users[p].prev \in 0 .. MaxLogins
      /\ users[p].token \in 0 .. MaxLogins /\ 0 \in 0 .. MaxLogins
  BY TokenTypes DEF Token!Save, Token!ResolveAfterLost, Token!LoginFailed, Token!store
<1>2. "finish" \in Steps /\ "lost" \in Steps
  BY DEF Steps
<1>3. \/ users' = Going(p, "lost")
      \/ \E t \in 0 .. MaxLogins :
            /\ users' = Answering(p, "finish", t)
            /\ t = 0 \/ t = users[p].token \/ age[t] # "expired"
  <2>1. CASE Token!Save(p)
    <3>1. users' = Going(p, "lost") \/ users' = Answering(p, "finish", users[p].token)
      BY <2>1 DEF Token!Save, Token!Goto, Token!Answer, Going, Answering
    <3> QED
      BY <1>1, <3>1
  <2>2. CASE Token!ResolveAfterLost(p)
    <3>1. \/ users' = Answering(p, "finish", stored) /\ age[stored] # "expired"
          \/ users' = Answering(p, "finish", users[p].prev) /\ age[users[p].prev] # "expired"
          \/ users' = Answering(p, "finish", 0)
      BY <2>2 DEF Token!ResolveAfterLost, Token!Answer, Answering, Token!Expired
    <3> QED
      BY <1>1, <3>1
  <2>3. CASE Token!LoginFailed(p)
    <3>1. \/ users' = Answering(p, "finish", users[p].prev) /\ age[users[p].prev] # "expired"
          \/ users' = Answering(p, "finish", 0)
      BY <2>3 DEF Token!LoginFailed, Token!Answer, Answering, Token!Expired
    <3> QED
      BY <1>1, <3>1
  <2> QED
    BY <2>1, <2>2, <2>3
<1>4. CASE users' = Going(p, "lost")
  <2>1. \A q \in Proc : users'[q].token = users[q].token
    BY <1>1, <1>2, <1>4, TokensGoing
  <2> QED
    BY <2>1, TokenGivesNothing
<1>5. CASE \E t \in 0 .. MaxLogins :
             /\ users' = Answering(p, "finish", t)
             /\ t = 0 \/ t = users[p].token \/ age[t] # "expired"
  BY <1>1, <1>2, <1>5, TokenGivesAnswer
<1> QED
  BY <1>3, <1>4, <1>5

\* The steps after the token was given.
LEMMA TokenLeavesAlive ==
    ASSUME Token!TokenAssumption, Token!IInv, NEW p \in Proc,
           Token!Finish(p) \/ Token!Call(p) \/ Token!GiveUp(p)
    PROVE  TokenIsAlive
<1>1. /\ users \in [Proc -> Token!Requests] /\ UNCHANGED age
      /\ users[p].token \in 0 .. MaxLogins
  BY TokenTypes DEF Token!Finish, Token!Call, Token!GiveUp, Token!store
<1>2. \/ users' = [users EXCEPT ![p] = Token!Idle]
      \/ users' = Going(p, "call")
      \/ users' = [users EXCEPT ![p] =
                     [Token!Idle EXCEPT !.pc = "read", !.rejected = users[p].token]]
  <2>1. CASE Token!Finish(p)
    <3>1. CASE Token!Throws(p)
      BY <2>1, <3>1 DEF Token!Finish
    <3>2. CASE ~Token!Throws(p)
      BY <1>1, <2>1, <3>2 DEF Token!Finish, Going
    <3> QED
      BY <3>1, <3>2
  <2>2. CASE Token!Call(p)
    BY <2>2 DEF Token!Call
  <2>3. CASE Token!GiveUp(p)
    BY <2>3 DEF Token!GiveUp
  <2> QED
    BY <2>1, <2>2, <2>3
<1>3. CASE users' = [users EXCEPT ![p] = Token!Idle]
  BY <1>1, <1>3, TokenIdles
<1>4. CASE users' = Going(p, "call")
  <2>1. "call" \in Steps
    BY DEF Steps
  <2>2. \A q \in Proc : users'[q].token = users[q].token
    BY <1>1, <1>4, <2>1, TokensGoing
  <2> QED
    BY <2>2, TokenGivesNothing
<1>5. CASE users' = [users EXCEPT ![p] =
                       [Token!Idle EXCEPT !.pc = "read", !.rejected = users[p].token]]
  <2>1. \A q \in Proc : users'[q].token = IF q = p THEN 0 ELSE users[q].token
    BY <1>1, <1>5, TokensForced
  <2> QED
    BY <1>1, <2>1, TokenGives
<1> QED
  BY <1>2, <1>3, <1>4, <1>5

\* The rest of the steps leave the requests as they are, or bring them to nothing.
LEMMA TokenOthersAlive ==
    ASSUME Token!TokenAssumption, Token!IInv,
           \/ UNCHANGED users
           \/ \E i \in Instance : Token!Crash(i)
    PROVE  TokenIsAlive
<1>1. CASE UNCHANGED users
  BY <1>1 DEF TokenIsAlive
<1>2. ASSUME NEW i \in Instance, Token!Crash(i)
      PROVE  TokenIsAlive
  <2>1. users' = [p \in Proc |-> IF Home[p] = i THEN Token!Idle ELSE users[p]]
    BY <1>2 DEF Token!Crash
  <2>2. \A p \in Proc : users'[p].token = 0 \/ users'[p].token = users[p].token
    BY <2>1, TokenIdle
  <2> QED
    BY <2>2 DEF TokenIsAlive
<1> QED
  BY <1>1, <1>2

\* No step gives a token that has expired.
LEMMA TokenAlive ==
    ASSUME Token!TokenAssumption, Token!IInv, Token!Next
    PROVE  TokenIsAlive
<1>1. ASSUME NEW p \in Proc, Token!Step(p)
      PROVE  TokenIsAlive
  BY <1>1, TokenReadsAlive, TokenLocksAlive, TokenLoginAlive, TokenEndsAlive, TokenLeavesAlive
  DEF Token!Step
<1>2. ASSUME NEW p \in Proc, Token!GetBearerToken(p) \/ Token!GiveUp(p)
      PROVE  TokenIsAlive
  BY <1>2, TokenGetAlive, TokenLeavesAlive
<1> QED
  BY <1>1, <1>2, TokenOthersAlive
  DEF Token!Next, Token!Grow, Token!Revoke, Token!LeaseExpires, Token!LockTimesOut

-----------------------------------------------------------------------------
(* ShiprocketOrders.                                                       *)

OrderStates == {"none", "new", "assigned", "moving", "cancelled"}
Posts == {"create", "assign", "cancel"}
CallCodes == Orders!Unclear \cup Orders!Clear \cup {"none"}
CallRecords ==
    [op : {"none", "createBooking", "getBooking", "cancelBooking"},
     pc : {"lookup", "create", "recover", "assign", "confirm", "show", "preflight", "post",
           "verify", "done"},
     awb : BOOLEAN, thrown : CallCodes]

\* The invariant, with its types in one place.
LEMMA OrdersTypes ==
    ASSUME Orders!OrdersAssumption, Orders!IInv
    PROVE  /\ order \in OrderStates /\ awb \in BOOLEAN /\ copies \in Nat /\ late \subseteq Posts
           /\ slow \in BOOLEAN /\ call \in CallRecords /\ calls \in 0 .. MaxCalls
           /\ faults \in 0 .. MaxFaults /\ MaxCalls \in Nat /\ MaxFaults \in Nat
           /\ order = "none" => ~awb
           /\ (order = "none") = (copies = 0)
           /\ result.outcome \in Orders!Outcomes
           /\ call.op \in {"none", "createBooking", "getBooking", "cancelBooking"}
           /\ call.pc \in {"lookup", "create", "recover", "assign", "confirm", "show",
                           "preflight", "post", "verify", "done"}
           /\ call.awb \in BOOLEAN /\ call.thrown \in CallCodes
           /\ ~slow => late = {}
  BY DEF Orders!OrdersAssumption, Orders!IInv, Orders!TypeOK, OrderStates, Posts, CallCodes,
         CallRecords

\* What Shiprocket does in a step, in which n orders are created that no POST made before.
There(n) ==
    /\ order' \in OrderStates /\ awb' \in BOOLEAN /\ copies' \in Nat /\ late' \subseteq Posts
    /\ order' = "none" => ~awb'
    /\ (order' = "none") = (copies' = 0)
    /\ awb => awb'
    /\ ~slow => late' = {} /\ copies' <= copies + n
    /\ copies' + Orders!Count("create" \in late') <= copies + Orders!Count("create" \in late) + n

\* What becomes of the call and of its result.
Here(n) ==
    /\ call' \in CallRecords /\ result'.outcome \in Orders!Outcomes
    /\ calls' \in 0 .. MaxCalls /\ faults' \in 0 .. MaxFaults
    /\ n + Orders!Count(Orders!MayCreate)' <= Orders!Count(Orders!MayCreate) + (calls' - calls)
    /\ call'.op # "none" => result'.outcome = "none"
    /\ call'.op = "none" => call'.pc = "done"
    /\ call'.awb => awb'
    /\ result'.outcome = "BOOKED" => awb'
    /\ result'.outcome = "CANCELLED" => order' = "cancelled"
    /\ ~slow /\ result'.outcome = "FAILED" /\ result'.looked = "404" => order' = "none"
    /\ ~slow /\ call'.pc = "create" => order' = "none"

\* The bound on orders adds up: what arrives, what is still late and what the call may add.
LEMMA OrdersSum ==
    ASSUME NEW c0 \in Int, NEW c1 \in Int, NEW k0 \in Int, NEW k1 \in Int, NEW a \in Int,
           NEW b \in Int, NEW c \in Int, NEW d \in Int, NEW n \in Int,
           c0 + a + c <= k0, c1 + b <= c0 + a + n, n + d <= c + (k1 - k0)
    PROVE  c1 + b + d <= k1
  OBVIOUS

\* The two make the invariant, when nothing is created but by who found nothing.
LEMMA OrdersKeep ==
    ASSUME Orders!OrdersAssumption, Orders!IInv, UNCHANGED slow, NEW n \in {0, 1},
           There(n), Here(n), ~slow /\ n = 1 => copies = 0
    PROVE  Orders!IInv'
<1>1. Orders!Count("create" \in late) \in {0, 1} /\ Orders!Count("create" \in late') \in {0, 1}
      /\ Orders!Count(Orders!MayCreate) \in {0, 1} /\ Orders!Count(Orders!MayCreate)' \in {0, 1}
  BY DEF Orders!Count
<1>2. copies + Orders!Count("create" \in late) + Orders!Count(Orders!MayCreate) <= calls
  BY DEF Orders!IInv
<1>3. /\ copies \in Nat /\ copies' \in Nat /\ calls \in Nat /\ calls' \in Nat /\ n \in Nat
      /\ calls' <= MaxCalls /\ MaxCalls \in Nat
  BY OrdersTypes DEF There, Here
<1>4. copies' + Orders!Count("create" \in late') + Orders!Count(Orders!MayCreate)' <= calls'
  <2>1. PICK a \in Int, b \in Int, c \in Int, d \in Int :
          /\ a = Orders!Count("create" \in late) /\ b = Orders!Count("create" \in late')
          /\ c = Orders!Count(Orders!MayCreate) /\ d = Orders!Count(Orders!MayCreate)'
    BY <1>1
  <2>2. PICK c0 \in Int, c1 \in Int, k0 \in Int, k1 \in Int, m \in Int :
          /\ c0 = copies /\ c1 = copies' /\ k0 = calls /\ k1 = calls' /\ m = n
    BY <1>3
  <2>3. c0 + a + c <= k0 /\ c1 + b <= c0 + a + m /\ m + d <= c + (k1 - k0)
    BY <1>2, <2>1, <2>2 DEF There, Here
  <2>4. c1 + b + d <= k1
    BY <2>3, OrdersSum
  <2> QED
    BY <2>1, <2>2, <2>4
<1>5. copies' \in 0 .. MaxCalls
  BY <1>1, <1>3, <1>4
<1>6. ~slow => copies' <= 1
  BY <1>3, OrdersTypes DEF There, Orders!IInv
<1>7. Orders!TypeOK'
  BY <1>5, OrdersTypes
  DEF Orders!TypeOK, There, Here, OrderStates, Posts, CallRecords, CallCodes, Orders!Outcomes
<1>8. (Orders!BookedIsAssigned /\ Orders!CancelledIsCancelled /\ Orders!FailureIsTrue)'
  BY DEF Orders!BookedIsAssigned, Orders!CancelledIsCancelled, Orders!FailureIsTrue, Here
<1>9. /\ (call \in [op : {"none", "createBooking", "getBooking", "cancelBooking"},
                 pc : {"lookup", "create", "recover", "assign", "confirm", "show",
                       "preflight", "post", "verify", "done"},
                 awb : BOOLEAN, thrown : Orders!Unclear \cup Orders!Clear \cup {"none"}])'
      /\ (result.outcome \in Orders!Outcomes /\ copies \in Nat /\ calls \in 0 .. MaxCalls)'
      /\ (call.op # "none" => result.outcome = "none")'
      /\ (call.op = "none" => call.pc = "done")'
      /\ (call.awb => awb)'
      /\ (~slow => late = {} /\ copies <= 1)'
      /\ (~slow /\ call.pc = "create" => order = "none")'
  BY <1>3, <1>6 DEF There, Here, CallRecords, CallCodes, Orders!Outcomes
<1> QED
  BY <1>4, <1>7, <1>8, <1>9 DEF Orders!IInv

\* Shiprocket rests, does what a POST asks for, drops it, or does it later.
LEMMA ThereRests ==
    ASSUME Orders!OrdersAssumption, Orders!IInv, UNCHANGED Orders!shiprocket
    PROVE  There(0)
<1>1. Orders!Count("create" \in late) \in {0, 1}
  BY DEF Orders!Count
<1> QED
  BY <1>1, OrdersTypes DEF There, Orders!shiprocket

\* An order is created.
LEMMA ThereCreated ==
    ASSUME Orders!OrdersAssumption, Orders!IInv, Orders!Created, UNCHANGED late
    PROVE  There(1)
<1>1. Orders!Count("create" \in late) \in {0, 1}
  BY DEF Orders!Count
<1> QED
  BY <1>1, OrdersTypes DEF There, Orders!Created, OrderStates

\* A courier is assigned, or the order is cancelled.
LEMMA ThereMoves ==
    ASSUME Orders!OrdersAssumption, Orders!IInv, Orders!Assigned \/ Orders!CancelledThere
    PROVE  /\ order' \in OrderStates /\ (order' = "none" <=> order = "none")
           /\ awb' \in BOOLEAN /\ (awb => awb') /\ (awb' => order # "none") /\ copies' = copies
<1>1. order \in OrderStates /\ awb \in BOOLEAN /\ (awb => order # "none")
  BY OrdersTypes
<1>2. CASE Orders!Assigned
  BY <1>1, <1>2 DEF Orders!Assigned, OrderStates
<1>3. CASE Orders!CancelledThere
  BY <1>1, <1>3 DEF Orders!CancelledThere, OrderStates
<1> QED
  BY <1>2, <1>3

\* That adds no order.
LEMMA ThereChanged ==
    ASSUME Orders!OrdersAssumption, Orders!IInv, UNCHANGED late,
           Orders!Assigned \/ Orders!CancelledThere
    PROVE  There(0)
<1>1. Orders!Count("create" \in late) \in {0, 1}
  BY DEF Orders!Count
<1>2. /\ order' \in OrderStates /\ (order' = "none" <=> order = "none")
      /\ awb' \in BOOLEAN /\ (awb => awb') /\ (awb' => order # "none") /\ copies' = copies
  BY ThereMoves
<1> QED
  BY <1>1, <1>2, OrdersTypes DEF There

\* A POST is delayed.
LEMMA ThereLate ==
    ASSUME Orders!OrdersAssumption, Orders!IInv, NEW post \in Posts,
           slow, late' = late \cup {post}, UNCHANGED <<order, awb, copies>>,
           NEW n \in {0, 1}, post = "create" => n = 1
    PROVE  There(n)
<1>1. Orders!Count("create" \in late') <= Orders!Count("create" \in late) + n
  <2>1. CASE post = "create"
    BY <2>1 DEF Orders!Count
  <2>2. CASE post # "create"
    BY <2>2 DEF Orders!Count
  <2> QED
    BY <2>1, <2>2
<1>2. Orders!Count("create" \in late) \in {0, 1} /\ Orders!Count("create" \in late') \in {0, 1}
  BY DEF Orders!Count
<1> QED
  BY <1>1, <1>2, OrdersTypes DEF There

\* A late POST arrives; one that creates was counted when it was delayed.
LEMMA ThereArrives ==
    ASSUME Orders!OrdersAssumption, Orders!IInv, NEW post \in Posts,
           post \in late, late' = late \ {post}, Orders!Execute(post)
    PROVE  There(0)
<1>1. slow /\ "create" \notin late \ {"create"}
  BY OrdersTypes
<1>2. CASE post = "create"
  <2>1. Orders!Count("create" \in late) = 1 /\ Orders!Count("create" \in late') = 0
    BY <1>2 DEF Orders!Count
  <2>2. Orders!Created
    BY <1>2 DEF Orders!Execute
  <2> QED
    BY <1>1, <2>1, <2>2, OrdersTypes DEF There, Orders!Created, OrderStates
<1>3. CASE post # "create"
  <2>1. /\ Orders!Count("create" \in late') = Orders!Count("create" \in late)
        /\ Orders!Count("create" \in late) \in {0, 1}
    BY <1>3 DEF Orders!Count
  <2>2. Orders!Assigned \/ Orders!CancelledThere
    BY <1>3 DEF Orders!Execute
  <2>3. /\ order' \in OrderStates /\ (order' = "none" <=> order = "none")
        /\ awb' \in BOOLEAN /\ (awb => awb') /\ (awb' => order # "none") /\ copies' = copies
    BY <2>2, ThereMoves
  <2> QED
    BY <1>1, <2>1, <2>3, OrdersTypes DEF There
<1> QED
  BY <1>2, <1>3

\* The answer of a POST is lost, whether it was executed, is delayed, or never arrived.
LEMMA ThereLost ==
    ASSUME Orders!OrdersAssumption, Orders!IInv, NEW post \in Posts, Orders!Lost(post)
    PROVE  There(1) /\ (post # "create" => There(0))
<1>1. There(0) => There(1)
  <2>1. Orders!Count("create" \in late) \in {0, 1} /\ Orders!Count("create" \in late') \in {0, 1}
    BY DEF Orders!Count
  <2> QED
    BY <2>1, OrdersTypes DEF There
<1>2. CASE Orders!Execute(post) /\ UNCHANGED late
  BY <1>1, <1>2, ThereCreated, ThereChanged DEF Orders!Execute
<1>3. CASE UNCHANGED Orders!shiprocket
  BY <1>1, <1>3, ThereRests
<1>4. CASE slow /\ late' = late \cup {post} /\ UNCHANGED <<order, awb, copies>>
  BY <1>4, ThereLate
<1> QED
  BY <1>2, <1>3, <1>4 DEF Orders!Lost

\* The call ends with a result, goes on, or begins.
Ends(outcome, looked) ==
    result'.outcome = outcome /\ result'.looked = looked /\ call' = Orders!NoCall

\* The call ends with a result that what is there bears out.
LEMMA HereEnds ==
    ASSUME Orders!OrdersAssumption, Orders!IInv, NEW outcome \in Orders!Outcomes, NEW looked,
           Ends(outcome, looked),
           calls' = calls, faults' \in 0 .. MaxFaults,
           NEW n \in {0, 1}, n = 1 => Orders!MayCreate,
           outcome = "BOOKED" => awb', outcome = "CANCELLED" => order' = "cancelled",
           ~slow /\ outcome = "FAILED" /\ looked = "404" => order' = "none"
    PROVE  Here(n)
<1>1. /\ Orders!NoCall \in CallRecords /\ Orders!NoCall.op = "none" /\ Orders!NoCall.pc = "done"
      /\ ~Orders!NoCall.awb
  BY DEF Orders!NoCall, CallRecords, CallCodes
<1>2. call' = Orders!NoCall /\ result'.outcome = outcome /\ result'.looked = looked
  BY DEF Ends
<1>3. Orders!Count(Orders!MayCreate)' = 0
  BY <1>1, <1>2 DEF Orders!Count, Orders!MayCreate
<1>4. n <= Orders!Count(Orders!MayCreate) /\ Orders!Count(Orders!MayCreate) \in {0, 1}
  BY DEF Orders!Count
<1>5. calls \in 0 .. MaxCalls /\ calls \in Int
  BY OrdersTypes
<1> QED
  BY <1>1, <1>2, <1>3, <1>4, <1>5 DEF Here

\* The call goes on.
LEMMA HereGoes ==
    ASSUME Orders!OrdersAssumption, Orders!IInv, NEW new \in CallRecords, call' = new,
           UNCHANGED <<result, calls>>, faults' \in 0 .. MaxFaults,
           new.op = call.op, new.op # "none", new.pc \notin {"lookup", "done"}, new.awb => awb',
           NEW n \in {0, 1}, n = 1 => Orders!MayCreate /\ new.pc # "create",
           new.pc = "create" => Orders!MayCreate /\ (~slow => order' = "none")
    PROVE  Here(n)
<1>1. result'.outcome = "none"
  BY DEF Orders!IInv
<1>2. n + Orders!Count(Orders!MayCreate)' <= Orders!Count(Orders!MayCreate)
  <2>1. Orders!MayCreate' <=> (call.op = "createBooking" /\ new.pc = "create")
    BY DEF Orders!MayCreate
  <2>2. Orders!MayCreate' => Orders!MayCreate /\ n = 0
    BY <2>1
  <2>3. \/ n = 0 /\ Orders!Count(Orders!MayCreate)' = 0
        \/ n = 0 /\ Orders!Count(Orders!MayCreate)' = 1 /\ Orders!Count(Orders!MayCreate) = 1
        \/ n = 1 /\ Orders!Count(Orders!MayCreate)' = 0 /\ Orders!Count(Orders!MayCreate) = 1
    BY <2>2 DEF Orders!Count
  <2>4. Orders!Count(Orders!MayCreate) \in {0, 1}
    BY DEF Orders!Count
  <2> QED
    BY <2>3, <2>4
<1>3. calls \in 0 .. MaxCalls /\ calls \in Int /\ Orders!Count(Orders!MayCreate) \in {0, 1}
  BY OrdersTypes DEF Orders!Count
<1>4. result'.outcome \in Orders!Outcomes
  BY <1>1 DEF Orders!Outcomes
<1> QED
  BY <1>1, <1>2, <1>3, <1>4 DEF Here

\* A call begins.
LEMMA HereBegins ==
    ASSUME Orders!OrdersAssumption, Orders!IInv,
           NEW op \in {"createBooking", "getBooking", "cancelBooking"},
           NEW pc \in {"lookup", "show", "preflight"}, Orders!Begin(op, pc)
    PROVE  Orders!OrdersAssumption /\ Here(0) /\ There(0)
<1> DEFINE one == [Orders!NoCall EXCEPT !.op = op]
           new == [one EXCEPT !.pc = pc]
<1>1. one \in CallRecords /\ one.op = op /\ ~one.awb
  BY DEF Orders!NoCall, CallRecords, CallCodes
<1>2. call' = new
  BY DEF Orders!Begin
<1> HIDE DEF one
<1>3. new \in CallRecords /\ new.op = op /\ ~new.awb /\ new.pc = pc
  BY <1>1 DEF CallRecords
<1> HIDE DEF new
<1>4. /\ call.op = "none" /\ calls < MaxCalls /\ calls' = calls + 1
      /\ result' = Orders!NoResult /\ UNCHANGED <<Orders!shiprocket, faults>>
  BY DEF Orders!Begin
<1>5. Orders!NoResult.outcome = "none" /\ "none" \in Orders!Outcomes
  BY DEF Orders!NoResult, Orders!Outcomes
<1>6. /\ calls' \in 0 .. MaxCalls /\ calls' - calls = 1 /\ faults' \in 0 .. MaxFaults
  BY <1>4, OrdersTypes
<1>7. 0 + Orders!Count(Orders!MayCreate)' <= Orders!Count(Orders!MayCreate) + 1
  BY DEF Orders!Count
<1>8. There(0)
  BY <1>4, ThereRests
<1> QED
  BY <1>2, <1>3, <1>4, <1>5, <1>6, <1>7, <1>8 DEF Here

\* Faults are bounded, whether one happens or not.
LEMMA OrdersFaults ==
    ASSUME Orders!OrdersAssumption, Orders!IInv, Orders!Fault \/ Orders!NoFault
    PROVE  faults' \in 0 .. MaxFaults
  BY OrdersTypes DEF Orders!Fault, Orders!NoFault

\* What the classification makes of an error is no success.
LEMMA ErrorsAreNoSuccess ==
    ASSUME NEW c
    PROVE  /\ Orders!classifyProviderAdapterError(c) \in {"UNKNOWN", "FAILED"}
           /\ Orders!classifyCancellationError(c) = "UNKNOWN"
           /\ {"UNKNOWN", "FAILED", "BOOKED", "CANCELLED", "REJECTED"} \subseteq Orders!Outcomes
  BY DEF Orders!classifyProviderAdapterError, Orders!classifyCancellationError, Orders!Outcomes

\* A call that fails ends, and says nothing of the order but what its lookup found.
LEMMA HereFails ==
    ASSUME Orders!OrdersAssumption, Orders!IInv, NEW c, NEW looked,
           Orders!FailBooking(c, looked), calls' = calls, faults' \in 0 .. MaxFaults,
           NEW n \in {0, 1}, n = 1 => Orders!MayCreate,
           ~slow /\ looked = "404" => order' = "none"
    PROVE  Here(n)
<1>1. PICK outcome \in {"UNKNOWN", "FAILED"} : Ends(outcome, looked)
  BY ErrorsAreNoSuccess DEF Orders!FailBooking, Orders!Finish, Ends
<1>2. outcome \in Orders!Outcomes
  BY ErrorsAreNoSuccess
<1> QED
  BY <1>1, <1>2, HereEnds

\* A cancellation ends with an error.
LEMMA HereCancelFails ==
    ASSUME Orders!OrdersAssumption, Orders!IInv, NEW c, Orders!CancelError(c),
           calls' = calls, faults' \in 0 .. MaxFaults
    PROVE  Here(0)
<1>1. Ends("UNKNOWN", "error") /\ "UNKNOWN" \in Orders!Outcomes
  BY ErrorsAreNoSuccess DEF Orders!CancelError, Orders!Finish, Ends
<1> QED
  BY <1>1, HereEnds

\* The call goes to another of its steps, with a snapshot, or with the error it had.
LEMMA HereGoto ==
    ASSUME Orders!OrdersAssumption, Orders!IInv,
           NEW pc \in {"create", "confirm", "post", "verify"},
           Orders!Goto(pc), calls' = calls, faults' \in 0 .. MaxFaults, call.op # "none",
           awb => awb', pc = "create" => Orders!MayCreate /\ (~slow => order' = "none")
    PROVE  Here(0)
<1> DEFINE new == [call EXCEPT !.pc = pc]
<1>1. call \in CallRecords
  BY OrdersTypes
<1>2. /\ new \in CallRecords /\ new.op = call.op /\ new.pc = pc /\ new.awb = call.awb
  BY <1>1 DEF CallRecords
<1>3. call' = new /\ UNCHANGED result
  BY DEF Orders!Goto
<1>4. call.awb => awb
  BY DEF Orders!IInv
<1> HIDE DEF new
<1> QED
  BY <1>2, <1>3, <1>4, HereGoes

\* The order was found, and its courier is next.
LEMMA HereFound ==
    ASSUME Orders!OrdersAssumption, Orders!IInv,
           call' = [call EXCEPT !.pc = "assign", !.awb = awb], UNCHANGED result,
           calls' = calls, faults' \in 0 .. MaxFaults, call.op = "createBooking", awb => awb',
           NEW n \in {0, 1}, n = 1 => Orders!MayCreate
    PROVE  Here(n)
<1> DEFINE one == [call EXCEPT !.pc = "assign"]
           new == [one EXCEPT !.awb = awb]
<1>1. call \in CallRecords /\ awb \in BOOLEAN
  BY OrdersTypes
<1>2. one \in CallRecords /\ one.op = call.op /\ one.pc = "assign"
  BY <1>1 DEF CallRecords
<1>3. call' = new
  OBVIOUS
<1> HIDE DEF one
<1>4. new \in CallRecords /\ new.op = call.op /\ new.pc = "assign" /\ new.awb = awb
  BY <1>1, <1>2 DEF CallRecords
<1> HIDE DEF new
<1> QED
  BY <1>3, <1>4, HereGoes

\* The call goes to its recovery.
LEMMA HereRecovers ==
    ASSUME Orders!OrdersAssumption, Orders!IInv, NEW c \in CallCodes, Orders!ToRecover(c),
           calls' = calls, faults' \in 0 .. MaxFaults, call.op = "createBooking", awb => awb',
           NEW n \in {0, 1}, n = 1 => Orders!MayCreate
    PROVE  Here(n)
<1> DEFINE one == [call EXCEPT !.pc = "recover"]
           new == [one EXCEPT !.thrown = c]
<1>1. call \in CallRecords
  BY OrdersTypes
<1>2. /\ one \in CallRecords /\ one.op = call.op /\ one.pc = "recover" /\ one.awb = call.awb
  BY <1>1 DEF CallRecords
<1>3. call' = new /\ UNCHANGED result
  BY DEF Orders!ToRecover
<1>4. call.awb => awb
  BY DEF Orders!IInv
<1> HIDE DEF one
<1>5. new \in CallRecords /\ new.op = call.op /\ new.pc = "recover" /\ new.awb = call.awb
  BY <1>2 DEF CallRecords
<1> HIDE DEF new
<1> QED
  BY <1>3, <1>4, <1>5, HereGoes

\* createBooking.
LEMMA OrdersRefuse ==
    ASSUME Orders!OrdersAssumption, Orders!IInv, UNCHANGED slow, Orders!Refuse
    PROVE  Orders!IInv'
<1>1. PICK c : Orders!FailBooking(c, "none")
  BY DEF Orders!Refuse
<1>2. There(0) /\ faults' \in 0 .. MaxFaults /\ calls' = calls
  BY ThereRests, OrdersFaults DEF Orders!Refuse
<1>3. Here(0)
  BY <1>1, <1>2, HereFails
<1> QED
  BY <1>2, <1>3, OrdersKeep

\* The search before a booking fails.
LEMMA OrdersLookUpError ==
    ASSUME Orders!OrdersAssumption, Orders!IInv, UNCHANGED slow, Orders!LookUpError,
           There(0), calls' = calls
    PROVE  Orders!IInv'
<1>1. PICK c : Orders!FailBooking(c, "error")
  BY DEF Orders!LookUpError
<1>2. faults' \in 0 .. MaxFaults
  BY OrdersFaults DEF Orders!LookUpError, Orders!Probe
<1>3. Here(0)
  BY <1>1, <1>2, HereFails
<1> QED
  BY <1>3, OrdersKeep

\* The search before a booking, however it is answered.
LEMMA OrdersLookUp ==
    ASSUME Orders!OrdersAssumption, Orders!IInv, UNCHANGED slow, Orders!LookUp
    PROVE  Orders!IInv'
<1>1. /\ There(0) /\ calls' = calls /\ order' = order /\ awb' = awb
      /\ call.op = "createBooking" /\ call.pc = "lookup" /\ Orders!MayCreate
  BY ThereRests DEF Orders!LookUp, Orders!shiprocket, Orders!MayCreate
<1>2. CASE Orders!Probe("found") /\ Orders!Found
  <2>1. faults' \in 0 .. MaxFaults
    BY <1>2, OrdersFaults DEF Orders!Probe
  <2>2. Here(0)
    BY <1>1, <1>2, <2>1, HereFound DEF Orders!Found
  <2> QED
    BY <1>1, <2>2, OrdersKeep
<1>3. CASE Orders!Probe("404") /\ Orders!Goto("create")
  <2>1. faults' \in 0 .. MaxFaults /\ order' = "none"
    BY <1>1, <1>3, OrdersFaults DEF Orders!Probe
  <2>2. Here(0)
    BY <1>1, <1>3, <2>1, HereGoto
  <2> QED
    BY <1>1, <2>2, OrdersKeep
<1> QED
  BY <1>1, <1>2, <1>3, OrdersLookUpError DEF Orders!LookUp

\* The search after a POST that failed.
LEMMA OrdersRecover ==
    ASSUME Orders!OrdersAssumption, Orders!IInv, UNCHANGED slow, Orders!Recover
    PROVE  Orders!IInv'
<1>1. /\ There(0) /\ calls' = calls /\ order' = order /\ awb' = awb
      /\ call.op = "createBooking"
  BY ThereRests DEF Orders!Recover, Orders!shiprocket
<1>2. CASE Orders!Probe("found") /\ Orders!Found
  <2>1. faults' \in 0 .. MaxFaults
    BY <1>2, OrdersFaults DEF Orders!Probe
  <2>2. Here(0)
    BY <1>1, <1>2, <2>1, HereFound DEF Orders!Found
  <2> QED
    BY <1>1, <2>2, OrdersKeep
<1>3. CASE Orders!Probe("404") /\ Orders!FailBooking(call.thrown, "404")
  <2>1. faults' \in 0 .. MaxFaults /\ order' = "none"
    BY <1>1, <1>3, OrdersFaults DEF Orders!Probe
  <2>2. Here(0)
    BY <1>1, <1>3, <2>1, HereFails
  <2> QED
    BY <1>1, <2>2, OrdersKeep
<1> QED
  BY <1>1, <1>2, <1>3, OrdersLookUpError DEF Orders!Recover

\* In the step that creates nothing was there, when no POST is late.
LEMMA OrdersNone ==
    ASSUME Orders!OrdersAssumption, Orders!IInv, call.op = "createBooking", call.pc = "create"
    PROVE  Orders!MayCreate /\ (~slow => copies = 0)
  BY OrdersTypes DEF Orders!IInv, Orders!MayCreate

\* The order is created and its answer comes, readable or not.
LEMMA OrdersCreates ==
    ASSUME Orders!OrdersAssumption, Orders!IInv, UNCHANGED slow,
           Orders!CreateAdhocOrder \/ Orders!CreateUnreadable
    PROVE  Orders!IInv'
<1>1. /\ There(1) /\ calls' = calls /\ faults' \in 0 .. MaxFaults /\ UNCHANGED awb
      /\ call.op = "createBooking" /\ call.pc = "create"
  BY ThereCreated, OrdersFaults, OrdersTypes
  DEF Orders!CreateAdhocOrder, Orders!CreateUnreadable, Orders!Created
<1>2. CASE Orders!CreateAdhocOrder
  <2>1. Here(1)
    BY <1>1, <1>2, OrdersNone, HereFound DEF Orders!CreateAdhocOrder
  <2> QED
    BY <1>1, <2>1, OrdersNone, OrdersKeep
<1>3. CASE Orders!CreateUnreadable
  <2>1. Here(1)
    BY <1>1, <1>3, OrdersNone, HereFails DEF Orders!CreateUnreadable
  <2> QED
    BY <1>1, <2>1, OrdersNone, OrdersKeep
<1> QED
  BY <1>2, <1>3

\* The POST of an order is refused.
LEMMA OrdersCreateRefused ==
    ASSUME Orders!OrdersAssumption, Orders!IInv, UNCHANGED slow, Orders!CreateRefused
    PROVE  Orders!IInv'
<1>1. /\ There(0) /\ calls' = calls /\ faults' \in 0 .. MaxFaults /\ UNCHANGED awb
      /\ call.op = "createBooking"
  BY ThereRests, OrdersFaults DEF Orders!CreateRefused, Orders!shiprocket
<1>2. ASSUME NEW c \in {"PROVIDER_VALIDATION_ERROR", "PROVIDER_AUTHENTICATION_ERROR"},
             Orders!ToRecover(c)
      PROVE  Orders!IInv'
  <2>1. c \in CallCodes
    BY DEF CallCodes, Orders!Clear
  <2>2. Here(0)
    BY <1>1, <1>2, <2>1, HereRecovers
  <2> QED
    BY <1>1, <2>2, OrdersKeep
<1>3. CASE Orders!FailBooking("PROVIDER_SERVICE_UNAVAILABLE", "none")
  <2>1. Here(0)
    BY <1>1, <1>3, HereFails
  <2> QED
    BY <1>1, <2>1, OrdersKeep
<1> QED
  BY <1>2, <1>3 DEF Orders!CreateRefused

\* The answer to the POST of an order is lost.
LEMMA OrdersCreateLost ==
    ASSUME Orders!OrdersAssumption, Orders!IInv, UNCHANGED slow, Orders!CreateLost
    PROVE  Orders!IInv'
<1>1. /\ There(1) /\ calls' = calls /\ faults' \in 0 .. MaxFaults /\ (awb => awb')
      /\ call.op = "createBooking" /\ call.pc = "create"
  BY ThereLost, OrdersFaults DEF Orders!CreateLost, Posts, There
<1>2. PICK c \in Orders!Thrown : Orders!ToRecover(c)
  BY DEF Orders!CreateLost
<1>3. c \in CallCodes
  BY DEF CallCodes, Orders!Thrown, Orders!Unclear
<1>4. Here(1)
  BY <1>1, <1>2, <1>3, OrdersNone, HereRecovers
<1> QED
  BY <1>1, <1>4, OrdersNone, OrdersKeep

\* The order that was found has a courier already.
LEMMA OrdersHasAwb ==
    ASSUME Orders!OrdersAssumption, Orders!IInv, UNCHANGED slow, Orders!HasAwb
    PROVE  Orders!IInv'
<1>1. /\ There(0) /\ calls' = calls /\ faults' \in 0 .. MaxFaults /\ awb'
      /\ Ends("BOOKED", "found") /\ "BOOKED" \in Orders!Outcomes
  BY ThereRests, OrdersTypes, ErrorsAreNoSuccess
  DEF Orders!HasAwb, Orders!shiprocket, Orders!IInv, Orders!Finish, Ends
<1>2. Here(0)
  BY <1>1, HereEnds
<1> QED
  BY <1>1, <1>2, OrdersKeep

\* A courier is assigned, or it remains unclear.
LEMMA OrdersAssign ==
    ASSUME Orders!OrdersAssumption, Orders!IInv, UNCHANGED slow,
           Orders!AssignAwb \/ Orders!AssignUnclear
    PROVE  Orders!IInv'
<1>1. /\ calls' = calls /\ faults' \in 0 .. MaxFaults /\ call.op = "createBooking"
  BY OrdersTypes, OrdersFaults DEF Orders!AssignAwb, Orders!AssignUnclear
<1>2. There(0)
  <2>1. \/ Orders!Assigned /\ UNCHANGED late
        \/ slow /\ late' = late \cup {"assign"} /\ UNCHANGED <<order, awb, copies>>
        \/ Orders!Lost("assign")
        \/ UNCHANGED Orders!shiprocket
    BY DEF Orders!AssignAwb, Orders!AssignUnclear
  <2>2. "assign" \in Posts /\ "assign" # "create"
    BY DEF Posts
  <2>3. CASE slow /\ late' = late \cup {"assign"} /\ UNCHANGED <<order, awb, copies>>
    BY <2>2, <2>3, ThereLate
  <2> QED
    BY <2>1, <2>2, <2>3, ThereChanged, ThereLost, ThereRests
<1>3. \/ awb' /\ Ends("BOOKED", "none")
      \/ Orders!Goto("confirm")
      \/ Ends("UNKNOWN", "none")
  BY DEF Orders!AssignAwb, Orders!AssignUnclear, Orders!Finish, Ends
<1>4. Here(0)
  <2>1. CASE Orders!Goto("confirm")
    BY <1>1, <1>2, <2>1, HereGoto DEF There
  <2>2. CASE awb' /\ Ends("BOOKED", "none")
    BY <1>1, <2>2, ErrorsAreNoSuccess, HereEnds
  <2>3. CASE Ends("UNKNOWN", "none")
    BY <1>1, <2>3, ErrorsAreNoSuccess, HereEnds
  <2> QED
    BY <1>3, <2>1, <2>2, <2>3
<1> QED
  BY <1>2, <1>4, OrdersKeep

\* The courier is confirmed by reading the order.
LEMMA OrdersConfirm ==
    ASSUME Orders!OrdersAssumption, Orders!IInv, UNCHANGED slow, Orders!ConfirmAwb
    PROVE  Orders!IInv'
<1>1. There(0) /\ calls' = calls /\ awb' = awb
  BY ThereRests DEF Orders!ConfirmAwb, Orders!shiprocket
<1>2. CASE Orders!LookUpError
  BY <1>1, <1>2, OrdersLookUpError
<1>3. CASE ~Orders!LookUpError
  <2>1. faults' \in 0 .. MaxFaults
    BY <1>3, OrdersFaults DEF Orders!ConfirmAwb, Orders!Probe
  <2>2. \/ awb /\ Ends("BOOKED", "found")
        \/ Ends("UNKNOWN", "found")
        \/ Ends("UNKNOWN", "404")
    BY <1>3 DEF Orders!ConfirmAwb, Orders!Finish, Ends
  <2>3. Here(0)
    BY <1>1, <2>1, <2>2, ErrorsAreNoSuccess, HereEnds
  <2> QED
    BY <1>1, <2>3, OrdersKeep
<1> QED
  BY <1>2, <1>3

\* getBooking and cancelBooking.
LEMMA OrdersBegin ==
    ASSUME Orders!OrdersAssumption, Orders!IInv, UNCHANGED slow,
           Orders!CreateBooking \/ Orders!GetBooking \/ Orders!CancelBooking
    PROVE  Orders!IInv'
<1>1. PICK op \in {"createBooking", "getBooking", "cancelBooking"},
           pc \in {"lookup", "show", "preflight"} : Orders!Begin(op, pc)
  BY DEF Orders!CreateBooking, Orders!GetBooking, Orders!CancelBooking
<1>2. Here(0) /\ There(0)
  BY <1>1, HereBegins
<1> QED
  BY <1>2, OrdersKeep

\* A booking is read.
LEMMA OrdersShowBooking ==
    ASSUME Orders!OrdersAssumption, Orders!IInv, UNCHANGED slow, Orders!ShowBooking
    PROVE  Orders!IInv'
<1>1. There(0) /\ calls' = calls /\ order' = order /\ awb' = awb /\ faults' \in 0 .. MaxFaults
  BY ThereRests, OrdersFaults DEF Orders!ShowBooking, Orders!Show, Orders!shiprocket
<1>2. CASE \E c \in Orders!ShowErrors : Orders!FailBooking(c, "error")
  <2>1. Here(0)
    BY <1>1, <1>2, HereFails
  <2> QED
    BY <1>1, <2>1, OrdersKeep
<1>3. CASE (awb /\ Ends("BOOKED", "found")) \/ Ends("UNKNOWN", "found")
  <2>1. Here(0)
    BY <1>1, <1>3, ErrorsAreNoSuccess, HereEnds
  <2> QED
    BY <1>1, <2>1, OrdersKeep
<1>4. \/ \E c \in Orders!ShowErrors : Orders!FailBooking(c, "error")
      \/ Orders!Finish(IF awb THEN "BOOKED" ELSE "UNKNOWN", TRUE, "found")
  BY DEF Orders!ShowBooking
<1>5. CASE Orders!Finish(IF awb THEN "BOOKED" ELSE "UNKNOWN", TRUE, "found")
  <2>1. CASE awb
    BY <1>3, <1>5, <2>1 DEF Orders!Finish, Ends
  <2>2. CASE ~awb
    BY <1>3, <1>5, <2>2 DEF Orders!Finish, Ends
  <2> QED
    BY <2>1, <2>2
<1> QED
  BY <1>2, <1>4, <1>5

\* The order is read before it is cancelled, or after.
LEMMA OrdersPreflight ==
    ASSUME Orders!OrdersAssumption, Orders!IInv, UNCHANGED slow,
           Orders!Preflight \/ Orders!VerifyCancel
    PROVE  Orders!IInv'
<1>1. There(0) /\ calls' = calls /\ order' = order /\ awb' = awb /\ faults' \in 0 .. MaxFaults
  BY ThereRests, OrdersFaults
  DEF Orders!Preflight, Orders!VerifyCancel, Orders!Show, Orders!shiprocket
<1>2. CASE \E c \in Orders!ShowErrors : Orders!CancelError(c)
  <2>1. Here(0)
    BY <1>1, <1>2, HereCancelFails
  <2> QED
    BY <1>1, <2>1, OrdersKeep
<1>3. CASE \/ order = "cancelled" /\ Ends("CANCELLED", "found")
           \/ Ends("REJECTED", "found")
           \/ Ends("UNKNOWN", "found")
  <2>1. Here(0)
    BY <1>1, <1>3, ErrorsAreNoSuccess, HereEnds
  <2> QED
    BY <1>1, <2>1, OrdersKeep
<1>4. CASE Orders!Goto("post") /\ call.op = "cancelBooking"
  <2>1. Here(0)
    BY <1>1, <1>4, HereGoto
  <2> QED
    BY <1>1, <2>1, OrdersKeep
<1>5. CASE Orders!Preflight
  <2>1. \/ \E c \in Orders!ShowErrors : Orders!CancelError(c)
        \/ order = "cancelled" /\ Orders!Finish("CANCELLED", TRUE, "found")
        \/ Orders!Finish("REJECTED", FALSE, "found")
        \/ Orders!Finish("UNKNOWN", FALSE, "found")
        \/ Orders!Goto("post") /\ call.op = "cancelBooking"
    BY <1>5 DEF Orders!Preflight
  <2> QED
    BY <1>2, <1>3, <1>4, <2>1 DEF Orders!Finish, Ends
<1>6. CASE Orders!VerifyCancel
  <2>1. \/ \E c \in Orders!ShowErrors : Orders!CancelError(c)
        \/ order = "cancelled" /\ Orders!Finish("CANCELLED", TRUE, "found")
        \/ Orders!Finish("REJECTED", FALSE, "found")
        \/ Orders!Finish("UNKNOWN", FALSE, "found")
    BY <1>6 DEF Orders!VerifyCancel
  <2> QED
    BY <1>2, <1>3, <2>1 DEF Orders!Finish, Ends
<1> QED
  BY <1>5, <1>6

\* The cancellation is executed, refused, or its answer is lost.
LEMMA OrdersCancels ==
    ASSUME Orders!OrdersAssumption, Orders!IInv, UNCHANGED slow,
           Orders!CancelOrders \/ Orders!CancelRefused \/ Orders!CancelLost
    PROVE  Orders!IInv'
<1>1. /\ calls' = calls /\ faults' \in 0 .. MaxFaults /\ call.op = "cancelBooking"
  BY OrdersTypes, OrdersFaults DEF Orders!CancelOrders, Orders!CancelRefused, Orders!CancelLost
<1>2. There(0)
  <2>1. \/ Orders!CancelledThere /\ UNCHANGED late
        \/ slow /\ late' = late \cup {"cancel"} /\ UNCHANGED <<order, awb, copies>>
        \/ Orders!Lost("cancel")
        \/ UNCHANGED Orders!shiprocket
    BY DEF Orders!CancelOrders, Orders!CancelRefused, Orders!CancelLost
  <2>2. "cancel" \in Posts /\ "cancel" # "create"
    BY DEF Posts
  <2>3. CASE slow /\ late' = late \cup {"cancel"} /\ UNCHANGED <<order, awb, copies>>
    BY <2>2, <2>3, ThereLate
  <2> QED
    BY <2>1, <2>2, <2>3, ThereChanged, ThereLost, ThereRests
<1>3. \/ Orders!Goto("verify")
      \/ Ends("REJECTED", "none")
      \/ Orders!CancelError("PROVIDER_TIMEOUT")
  BY DEF Orders!CancelOrders, Orders!CancelRefused, Orders!CancelLost, Orders!Finish, Ends
<1>4. Here(0)
  <2>1. CASE Orders!Goto("verify")
    BY <1>1, <1>2, <2>1, HereGoto DEF There
  <2>2. CASE Ends("REJECTED", "none")
    BY <1>1, <2>2, ErrorsAreNoSuccess, HereEnds
  <2>3. CASE Orders!CancelError("PROVIDER_TIMEOUT")
    BY <1>1, <2>3, HereCancelFails
  <2> QED
    BY <1>3, <2>1, <2>2, <2>3
<1> QED
  BY <1>2, <1>4, OrdersKeep

\* What Shiprocket does by itself, later or at once, takes nothing back that was reported.
LEMMA HereRests ==
    ASSUME Orders!OrdersAssumption, Orders!IInv, UNCHANGED <<call, result, calls, faults>>,
           awb => awb', order = "cancelled" => order' = "cancelled",
           ~slow /\ order = "none" => order' = "none"
    PROVE  Here(0)
<1>1. call'.op # "none" => result'.outcome = "none"
  BY DEF Orders!IInv
<1>2. Orders!Count(Orders!MayCreate)' = Orders!Count(Orders!MayCreate)
  BY DEF Orders!Count, Orders!MayCreate
<1>3. calls \in Int /\ Orders!Count(Orders!MayCreate) \in {0, 1}
  BY OrdersTypes DEF Orders!Count
<1>4. /\ call'.op = "none" => call'.pc = "done"
      /\ call'.awb => awb'
      /\ result'.outcome = "BOOKED" => awb'
      /\ result'.outcome = "CANCELLED" => order' = "cancelled"
      /\ ~slow /\ result'.outcome = "FAILED" /\ result'.looked = "404" => order' = "none"
      /\ ~slow /\ call'.pc = "create" => order' = "none"
  BY DEF Orders!IInv, Orders!BookedIsAssigned, Orders!CancelledIsCancelled, Orders!FailureIsTrue
<1> QED
  BY <1>1, <1>2, <1>3, <1>4, OrdersTypes DEF Here

\* A late POST is executed.
LEMMA OrdersArrive ==
    ASSUME Orders!OrdersAssumption, Orders!IInv, UNCHANGED slow, NEW post \in Posts,
           Orders!Arrive(post)
    PROVE  Orders!IInv'
<1>1. There(0) /\ slow
  BY ThereArrives, OrdersTypes DEF Orders!Arrive
<1>2. /\ UNCHANGED <<call, result, calls, faults>>
      /\ order = "cancelled" => order' = "cancelled"
  BY DEF Orders!Arrive, Orders!Execute, Orders!Created, Orders!Assigned, Orders!CancelledThere
<1>3. Here(0)
  BY <1>1, <1>2, HereRests DEF There
<1> QED
  BY <1>1, <1>3, OrdersKeep

\* The courier picks the parcel up, or somebody cancels the order at Shiprocket.
LEMMA OrdersByHand ==
    ASSUME Orders!OrdersAssumption, Orders!IInv, UNCHANGED slow,
           Orders!PickUp \/ Orders!CancelByHand
    PROVE  Orders!IInv'
<1>1. /\ UNCHANGED <<awb, copies, late, call, result, calls, faults>>
      /\ order' \in OrderStates /\ order' # "none" /\ order # "none" /\ order # "cancelled"
  BY DEF Orders!PickUp, Orders!CancelByHand, OrderStates
<1>2. Orders!Count("create" \in late) \in {0, 1}
  BY DEF Orders!Count
<1>3. There(0)
  BY <1>1, <1>2, OrdersTypes DEF There
<1>4. Here(0)
  BY <1>1, HereRests
<1> QED
  BY <1>3, <1>4, OrdersKeep

\* The initial states meet the invariant.
LEMMA OrdersStart ==
    ASSUME Orders!OrdersAssumption, Orders!Init
    PROVE  Orders!IInv
<1>1. Orders!Count("create" \in late) = 0 /\ Orders!Count(Orders!MayCreate) = 0
  BY DEF Orders!Init, Orders!Count, Orders!MayCreate, Orders!NoCall
<1>2. Orders!TypeOK
  <2>1. /\ Orders!NoCall.op = "none" /\ Orders!NoCall.pc = "done"
        /\ Orders!NoCall.thrown = "none" /\ Orders!NoResult.outcome = "none"
    BY DEF Orders!NoCall, Orders!NoResult
  <2>2. /\ order = "none" /\ ~awb /\ awb \in BOOLEAN /\ copies = 0 /\ late = {}
        /\ slow \in BOOLEAN /\ call = Orders!NoCall /\ result = Orders!NoResult /\ faults = 0
        /\ MaxCalls \in Nat /\ MaxFaults \in Nat
    BY DEF Orders!OrdersAssumption, Orders!Init
  <2> QED
    BY <2>1, <2>2 DEF Orders!TypeOK
<1>3. Orders!BookedIsAssigned /\ Orders!CancelledIsCancelled /\ Orders!FailureIsTrue
  BY DEF Orders!BookedIsAssigned, Orders!CancelledIsCancelled, Orders!FailureIsTrue, Orders!Init,
         Orders!NoResult
<1> QED
  BY <1>1, <1>2, <1>3
  DEF Orders!OrdersAssumption, Orders!Init, Orders!IInv, Orders!NoCall, Orders!NoResult,
      Orders!Outcomes

\* Every step keeps the invariant of the orders.
LEMMA OrdersInductive ==
    ASSUME Orders!OrdersAssumption, Orders!IInv, Orders!Next
    PROVE  Orders!IInv'
<1>1. UNCHANGED slow
  BY DEF Orders!Next
<1>2. CASE Orders!Booking
  BY <1>1, <1>2, OrdersBegin, OrdersRefuse, OrdersLookUp, OrdersRecover, OrdersCreates,
     OrdersCreateRefused, OrdersCreateLost, OrdersHasAwb, OrdersAssign, OrdersConfirm
  DEF Orders!Booking
<1>3. CASE Orders!Cancel
  BY <1>1, <1>3, OrdersBegin, OrdersPreflight, OrdersCancels DEF Orders!Cancel
<1> QED
  BY <1>1, <1>2, <1>3, OrdersBegin, OrdersShowBooking, OrdersByHand, OrdersArrive
  DEF Orders!Next, Posts

\* What is reported is so.
LEMMA OrdersReported ==
    ASSUME Orders!IInv
    PROVE  /\ Orders!TypeOK /\ Orders!BookedIsAssigned /\ Orders!CancelledIsCancelled
           /\ Orders!FailureIsTrue /\ Orders!OneOrder
  BY DEF Orders!IInv, Orders!OneOrder

-----------------------------------------------------------------------------
(* ConfirmPricing.                                                         *)

\* What a handler in state u knows of the rows.
PricingKnows(u) ==
    /\ u.pc \in {"findPayment", "order", "checkout"} => u.amount # Null
    /\ u.pc = "findPayment" => \E i \in DOMAIN options : options[i].amount = u.amount
    /\ u.pc \in {"order", "checkout"} => payment # Null /\ payment.amount = u.amount
    /\ u.pc \in {"fresh", "count", "start"}
       => /\ u.option \in DOMAIN options /\ u.amount # Null
          /\ Pricing!Near(u.amount, options[u.option].amount)
          /\ payment # Null /\ payment.status = "PAID"
    /\ u.pc = "fresh" => u.amount = options[u.option].amount
    /\ u.pc = "finalize" => u.number \in DOMAIN bookings

\* The rows only grow: options and bookings stay, and a payment keeps its amount.
PricingGrows ==
    /\ \A i \in DOMAIN options : i \in DOMAIN options' /\ options'[i] = options[i]
    /\ payment # Null => /\ payment' # Null /\ payment'.amount = payment.amount
                         /\ payment.status = "PAID" => payment'.status = "PAID"
    /\ DOMAIN bookings \subseteq DOMAIN bookings'

\* What a handler knows depends on its record alone.
LEMMA PricingKnowsOf ==
    ASSUME NEW p \in Proc
    PROVE  Pricing!Knows(p) <=> PricingKnows(handlers[p])
  BY DEF Pricing!Knows, PricingKnows

PricingTyped == handlers \in [Proc -> Pricing!Handlers]
PricingAllKnow == \A p \in Proc : PricingKnows(handlers[p])

\* The invariant, in three parts.
LEMMA PricingInvariant == Pricing!IInv <=> Pricing!RowsAgree /\ PricingTyped /\ PricingAllKnow
  BY PricingKnowsOf DEF Pricing!IInv, PricingTyped, PricingAllKnow

\* What was known stays known.
LEMMA PricingStillKnows ==
    ASSUME PricingGrows, NEW u, PricingKnows(u)
    PROVE  PricingKnows(u)'
<1>1. u.pc = "findPayment" => \E i \in DOMAIN options' : options'[i].amount = u.amount
  BY DEF PricingKnows, PricingGrows
<1>2. u.pc \in {"order", "checkout"} => payment' # Null /\ payment'.amount = u.amount
  BY DEF PricingKnows, PricingGrows
<1>3. u.pc \in {"fresh", "count", "start"}
      => u.option \in DOMAIN options /\ u.option \in DOMAIN options'
         /\ options'[u.option] = options[u.option]
         /\ payment' # Null /\ payment'.status = "PAID"
  BY DEF PricingKnows, PricingGrows
<1>4. u.pc = "finalize" => u.number \in DOMAIN bookings'
  BY DEF PricingKnows, PricingGrows
<1>5. u.pc \in {"fresh", "count", "start"}
      => u.amount # Null /\ Pricing!Near(u.amount, options'[u.option].amount)
  BY <1>3 DEF PricingKnows
<1>6. u.pc = "fresh" => u.amount = options'[u.option].amount
  BY <1>3 DEF PricingKnows
<1>7. u.pc \in {"findPayment", "order", "checkout"} => u.amount # Null
  BY DEF PricingKnows
<1> QED
  BY <1>1, <1>2, <1>3, <1>4, <1>5, <1>6, <1>7 DEF PricingKnows, Pricing!Near

\* A step of no handler, and of one.
LEMMA PricingStill ==
    ASSUME Pricing!IInv, Pricing!RowsAgree', PricingGrows, UNCHANGED handlers
    PROVE  Pricing!IInv'
<1>1. PricingAllKnow'
  <2> SUFFICES ASSUME NEW p \in Proc
               PROVE  PricingKnows(handlers[p])'
    BY DEF PricingAllKnow
  <2>1. PICK u : u = handlers[p]
    OBVIOUS
  <2>2. PricingKnows(u)'
    BY <2>1, PricingStillKnows, PricingInvariant DEF PricingAllKnow
  <2> QED
    BY <2>1, <2>2 DEF PricingKnows
<1>2. PricingTyped'
  BY PricingInvariant DEF PricingTyped, Pricing!Handlers
<1> QED
  BY <1>1, <1>2, PricingInvariant, PTL

\* The step of one handler, which knows afterwards what its new state requires.
LEMMA PricingMoves ==
    ASSUME Pricing!IInv, Pricing!RowsAgree', PricingGrows, NEW p \in Proc,
           NEW new \in Pricing!Handlers, handlers' = [handlers EXCEPT ![p] = new],
           PricingKnows(new)'
    PROVE  Pricing!IInv'
<1>1. /\ handlers \in [Proc -> Pricing!Handlers]
      /\ \A q \in Proc : PricingKnows(handlers[q])
  BY PricingInvariant DEF PricingTyped, PricingAllKnow
<1>2. PricingTyped'
  BY <1>1 DEF PricingTyped, Pricing!Handlers
<1>3. PricingAllKnow'
  <2> SUFFICES ASSUME NEW q \in Proc
               PROVE  PricingKnows(handlers[q])'
    BY DEF PricingAllKnow
  <2>1. CASE q = p
    <3>1. handlers'[q] = new
      BY <1>1, <2>1
    <3> QED
      BY <3>1 DEF PricingKnows
  <2>2. CASE q # p
    <3>1. handlers'[q] = handlers[q]
      BY <1>1, <2>2
    <3>2. PICK u : u = handlers[q]
      OBVIOUS
    <3>3. PricingKnows(u)
      BY <1>1, <3>2
    <3>4. PricingKnows(u)'
      BY <3>3, PricingStillKnows
    <3> QED
      BY <3>1, <3>2, <3>4 DEF PricingKnows
  <2> QED
    BY <2>1, <2>2
<1> QED
  BY <1>2, <1>3, PricingInvariant, PTL

\* The rows rest, and agree.
LEMMA PricingRests ==
    ASSUME Pricing!RowsAgree, UNCHANGED <<Pricing!rows, gatewayOrder>>,
           now' \in now .. MaxTime, price' \in Prices, ended' \in Nat
    PROVE  Pricing!RowsAgree' /\ PricingGrows
<1>1. UNCHANGED <<confirmed, options, payment, bookings, gatewayOrder>>
  BY DEF Pricing!rows
<1>2. now \in 0 .. MaxTime /\ now' \in 0 .. MaxTime /\ \A t \in 0 .. now : t \in 0 .. now'
  BY DEF Pricing!RowsAgree, Pricing!TypeOK
<1>3. Pricing!TypeOK'
  BY <1>1, <1>2 DEF Pricing!RowsAgree, Pricing!TypeOK
<1>4. PricingGrows
  BY <1>1 DEF PricingGrows
<1>5. (Pricing!OrderIsForPayment)'
  BY <1>1 DEF Pricing!RowsAgree, Pricing!OrderIsForPayment
<1> QED
  BY <1>1, <1>3, <1>4, <1>5 DEF Pricing!RowsAgree, Pricing!Near, Pricing!Options, Pricing!Bookings,
     Pricing!Payments

\* The forms of a handler's next state.
LEMMA PricingHandler ==
    ASSUME Pricing!PricingAssumption, Pricing!IInv, NEW p \in Proc
    PROVE  /\ handlers[p] \in Pricing!Handlers
           /\ PricingKnows(handlers[p])
           /\ Pricing!Idle \in Pricing!Handlers
           /\ PricingKnows(Pricing!Idle) /\ Pricing!Idle.pc = "idle"
  BY PricingInvariant
  DEF Pricing!IInv, Pricing!Handlers, Pricing!Idle, PricingKnows, PricingTyped, PricingAllKnow

\* A handler returns.
LEMMA PricingReturns ==
    ASSUME Pricing!PricingAssumption, Pricing!IInv, Pricing!RowsAgree', PricingGrows,
           NEW p \in Proc, Pricing!Return(p)
    PROVE  Pricing!IInv'
<1>1. handlers' = [handlers EXCEPT ![p] = Pricing!Idle] /\ Pricing!Idle \in Pricing!Handlers
  BY PricingHandler DEF Pricing!Return
<1>2. PICK new \in Pricing!Handlers : new = Pricing!Idle
  BY <1>1
<1>3. PricingKnows(new)'
  BY <1>2 DEF PricingKnows, Pricing!Idle
<1> QED
  BY <1>1, <1>2, <1>3, PricingMoves

\* A handler that goes on with what it has.
LEMMA PricingGoes ==
    ASSUME Pricing!IInv, NEW p \in Proc,
           NEW pc \in {"idle", "quote", "findPayment", "order", "checkout", "fresh", "count",
                       "start", "finalize"},
           Pricing!Goto(p, pc)
    PROVE  \E new \in Pricing!Handlers :
              /\ handlers' = [handlers EXCEPT ![p] = new] /\ new.pc = pc
              /\ new.option = handlers[p].option /\ new.amount = handlers[p].amount
              /\ new.number = handlers[p].number
<1> DEFINE new == [handlers[p] EXCEPT !.pc = pc]
<1>1. handlers[p] \in Pricing!Handlers
  BY PricingInvariant DEF PricingTyped
<1>2. /\ new \in Pricing!Handlers /\ new.pc = pc /\ new.option = handlers[p].option
      /\ new.amount = handlers[p].amount /\ new.number = handlers[p].number
  BY <1>1 DEF Pricing!Handlers
<1>3. handlers' = [handlers EXCEPT ![p] = new]
  BY DEF Pricing!Goto
<1> HIDE DEF new
<1> QED
  BY <1>2, <1>3

\* Time, the price and a handler that ends.
LEMMA PricingTick ==
    ASSUME Pricing!PricingAssumption, Pricing!IInv,
           Pricing!Tick \/ \E x \in Prices : Pricing!MovePrice(x)
    PROVE  Pricing!IInv'
<1>1. Pricing!RowsAgree /\ now \in 0 .. MaxTime /\ price \in Prices /\ ended \in Nat
      /\ MaxTime \in Nat
  BY DEF Pricing!IInv, Pricing!RowsAgree, Pricing!TypeOK, Pricing!PricingAssumption
<1>2. /\ UNCHANGED <<Pricing!rows, gatewayOrder>> /\ UNCHANGED handlers
      /\ now' \in now .. MaxTime /\ price' \in Prices /\ ended' \in Nat
  BY <1>1 DEF Pricing!Tick, Pricing!MovePrice
<1> QED
  BY <1>1, <1>2, PricingRests, PricingStill

\* The process of a handler dies.
LEMMA PricingCrash ==
    ASSUME Pricing!PricingAssumption, Pricing!IInv, NEW p \in Proc, Pricing!Crash(p)
    PROVE  Pricing!IInv'
<1>1. Pricing!RowsAgree /\ now \in 0 .. MaxTime /\ price \in Prices /\ ended \in Nat
  BY DEF Pricing!IInv, Pricing!RowsAgree, Pricing!TypeOK
<1>2. /\ UNCHANGED <<Pricing!rows, gatewayOrder>>
      /\ now' \in now .. MaxTime /\ price' \in Prices /\ ended' \in Nat
  BY <1>1 DEF Pricing!Crash, Pricing!outside
<1> QED
  BY <1>1, <1>2, PricingRests, PricingReturns DEF Pricing!Crash

\* What a handler does that only reads.
LEMMA PricingReads ==
    ASSUME Pricing!PricingAssumption, Pricing!IInv,
           UNCHANGED <<Pricing!rows, Pricing!outside, ended>>
    PROVE  Pricing!RowsAgree' /\ PricingGrows
<1>1. Pricing!RowsAgree /\ now \in 0 .. MaxTime /\ price \in Prices /\ ended \in Nat
  BY DEF Pricing!IInv, Pricing!RowsAgree, Pricing!TypeOK
<1> QED
  BY <1>1, PricingRests DEF Pricing!outside

\* The option of a delivery that has one.
LEMMA PricingOption ==
    ASSUME Pricing!IInv, confirmed = "OPTION_READY"
    PROVE  /\ Len(options) \in DOMAIN options /\ Len(options) \in Nat
           /\ options[Len(options)].amount \in Prices
<1>1. options \in Seq(Pricing!Options) /\ options # << >>
  BY DEF Pricing!IInv, Pricing!RowsAgree
<1>2. Len(options) \in Nat /\ Len(options) # 0 /\ DOMAIN options = 1 .. Len(options)
  BY <1>1, EmptySeq, LenProperties
<1>3. Len(options) \in 1 .. Len(options)
  BY <1>2
<1>4. options[Len(options)] \in Pricing!Options
  BY <1>1, <1>2, <1>3, ElementOfSeq
<1> QED
  BY <1>2, <1>3, <1>4 DEF Pricing!Options

\* The amount of an option is near itself.
LEMMA PricingNear ==
    ASSUME Pricing!PricingAssumption, NEW a \in Prices
    PROVE  Pricing!Near(a, a)
<1>1. a \in Nat /\ TolerancePercent \in Nat
  BY DEF Pricing!PricingAssumption
<1>2. PICK t \in Nat : t = a * TolerancePercent
  BY <1>1
<1>3. (a - a) * 100 = 0
  BY <1>1
<1> QED
  BY <1>2, <1>3 DEF Pricing!Near

\* The difference of two amounts, as the code and as the tolerance put it.
LEMMA PricingChange ==
    ASSUME NEW a \in Nat, NEW b \in Nat, NEW t \in Nat
    PROVE  (IF b > a THEN b - a ELSE a - b) * 100 > t <=> (b - a) * 100 \notin -t .. t
  OBVIOUS

\* Near is what is no material change.
LEMMA PricingMaterial ==
    ASSUME Pricing!PricingAssumption, NEW a \in Prices, NEW b \in Prices
    PROVE  Pricing!Near(b, a) <=> ~Pricing!hasMaterialPriceChange(a, b)
<1>1. a \in Nat /\ b \in Nat /\ TolerancePercent \in Nat
  BY DEF Pricing!PricingAssumption
<1>2. PICK t \in Nat : t = a * TolerancePercent
  BY <1>1
<1>3. (IF b > a THEN b - a ELSE a - b) * 100 > t <=> (b - a) * 100 \notin -t .. t
  BY <1>1, PricingChange
<1> QED
  BY <1>2, <1>3 DEF Pricing!Near, Pricing!hasMaterialPriceChange

\* The amount is taken from the newest option.
LEMMA PricingResolve ==
    ASSUME Pricing!PricingAssumption, Pricing!IInv, NEW p \in Proc,
           Pricing!resolveAuthoritativePricing(p)
    PROVE  Pricing!IInv'
<1> DEFINE one == [Pricing!Idle EXCEPT !.pc = "findPayment"]
           new == [one EXCEPT !.amount = options[Len(options)].amount]
<1>1. confirmed = "OPTION_READY" /\ UNCHANGED <<Pricing!rows, Pricing!outside, ended>>
  BY DEF Pricing!resolveAuthoritativePricing
<1>2. Pricing!RowsAgree' /\ PricingGrows
  BY <1>1, PricingReads
<1>3. one \in Pricing!Handlers /\ one.pc = "findPayment"
  BY PricingHandler DEF Pricing!Idle, Pricing!Handlers
<1>4. handlers' = [handlers EXCEPT ![p] = new]
  BY DEF Pricing!resolveAuthoritativePricing
<1> HIDE DEF one
<1>5. Len(options) \in DOMAIN options /\ options[Len(options)].amount \in Prices
  BY <1>1, PricingOption
<1>6. /\ new \in Pricing!Handlers /\ new.pc = "findPayment"
      /\ new.amount = options[Len(options)].amount
  BY <1>3, <1>5 DEF Pricing!Handlers
<1> HIDE DEF new
<1>7. PICK u \in Pricing!Handlers : u = new
  BY <1>6
<1>8. PricingKnows(u)
  <2>1. u.amount # Null
    BY <1>5, <1>6, <1>7 DEF Pricing!PricingAssumption
  <2> QED
    BY <2>1, <1>5, <1>6, <1>7 DEF PricingKnows
<1>9. PricingKnows(u)'
  BY <1>2, <1>8, PricingStillKnows
<1> QED
  BY <1>2, <1>4, <1>7, <1>9, PricingMoves

\* The customer confirms, and the payment is found paid.
LEMMA PricingConfirm ==
    ASSUME Pricing!PricingAssumption, Pricing!IInv, NEW p \in Proc, Pricing!Confirm(p)
    PROVE  Pricing!IInv'
<1> DEFINE one == [Pricing!Idle EXCEPT !.pc = "fresh"]
           two == [one EXCEPT !.option = Len(options)]
           new == [two EXCEPT !.amount = options[Len(options)].amount]
<1>1. /\ confirmed = "OPTION_READY" /\ UNCHANGED <<Pricing!rows, Pricing!outside, ended>>
      /\ payment # Null /\ payment.status = "PAID"
  BY DEF Pricing!Confirm
<1>2. Pricing!RowsAgree' /\ PricingGrows
  BY <1>1, PricingReads
<1>3. one \in Pricing!Handlers /\ one.pc = "fresh"
  BY PricingHandler DEF Pricing!Idle, Pricing!Handlers
<1>4. handlers' = [handlers EXCEPT ![p] = new]
  BY DEF Pricing!Confirm
<1> HIDE DEF one
<1>5. Len(options) \in DOMAIN options /\ Len(options) \in Nat
      /\ options[Len(options)].amount \in Prices
  BY <1>1, PricingOption
<1>6. two \in Pricing!Handlers /\ two.pc = "fresh" /\ two.option = Len(options)
  BY <1>3, <1>5 DEF Pricing!Handlers
<1> HIDE DEF two
<1>7. /\ new \in Pricing!Handlers /\ new.pc = "fresh" /\ new.option = Len(options)
      /\ new.amount = options[Len(options)].amount
  BY <1>5, <1>6 DEF Pricing!Handlers
<1> HIDE DEF new
<1>8. PICK u \in Pricing!Handlers : u = new
  BY <1>7
<1>9. PricingKnows(u)
  <2>1. u.amount # Null
    BY <1>5, <1>7, <1>8 DEF Pricing!PricingAssumption
  <2>2. Pricing!Near(u.amount, options[u.option].amount)
    BY <1>5, <1>7, <1>8, PricingNear
  <2> QED
    BY <2>1, <2>2, <1>1, <1>5, <1>7, <1>8 DEF PricingKnows
<1>10. PricingKnows(u)'
  BY <1>2, <1>9, PricingStillKnows
<1> QED
  BY <1>2, <1>4, <1>8, <1>10, PricingMoves

\* A handler that goes on keeps what it knows of the rows, if they are as it needs them.
LEMMA PricingGoesOn ==
    ASSUME Pricing!PricingAssumption, Pricing!IInv, Pricing!RowsAgree', PricingGrows,
           NEW p \in Proc,
           NEW pc \in {"idle", "quote", "findPayment", "order", "checkout", "fresh", "count",
                       "start", "finalize"},
           Pricing!Goto(p, pc),
           \/ pc = "quote"
           \/ /\ pc \in {"order", "checkout"} /\ handlers[p].pc \in {"findPayment", "order"}
              /\ payment' # Null /\ payment'.amount = handlers[p].amount
           \/ pc = "count" /\ handlers[p].pc = "fresh"
           \/ pc = "finalize" /\ handlers[p].number \in DOMAIN bookings'
    PROVE  Pricing!IInv'
<1>1. PICK new \in Pricing!Handlers :
          /\ handlers' = [handlers EXCEPT ![p] = new] /\ new.pc = pc
          /\ new.option = handlers[p].option /\ new.amount = handlers[p].amount
          /\ new.number = handlers[p].number
  BY PricingGoes
<1>2. PICK old \in Pricing!Handlers : old = handlers[p]
  BY PricingHandler
<1>3. PricingKnows(old) /\ PricingKnows(old)'
  BY <1>2, PricingHandler, PricingStillKnows
<1>4. /\ new.option = old.option /\ new.amount = old.amount /\ new.number = old.number
      /\ new.pc = pc
      /\ \/ pc = "quote"
         \/ /\ pc \in {"order", "checkout"} /\ old.pc \in {"findPayment", "order"}
            /\ payment' # Null /\ payment'.amount = old.amount
         \/ pc = "count" /\ old.pc = "fresh"
         \/ pc = "finalize" /\ old.number \in DOMAIN bookings'
  BY <1>1, <1>2
<1>5. PricingKnows(new)'
  <2>1. CASE pc = "quote"
    BY <1>4, <2>1 DEF PricingKnows
  <2>2. CASE pc \in {"order", "checkout"}
    BY <1>3, <1>4, <2>2 DEF PricingKnows
  <2>3. CASE pc = "count"
    BY <1>3, <1>4, <2>3 DEF PricingKnows
  <2>4. CASE pc = "finalize"
    BY <1>4, <2>4 DEF PricingKnows
  <2> QED
    BY <1>4, <2>1, <2>2, <2>3, <2>4
<1> QED
  BY <1>1, <1>5, PricingMoves

\* A stale option is orchestrated again, and confirmed if its price is near.
LEMMA PricingFreshen ==
    ASSUME Pricing!PricingAssumption, Pricing!IInv, NEW p \in Proc, Pricing!Freshen(p)
    PROVE  Pricing!IInv'
<1>1. handlers[p].pc = "fresh" /\ UNCHANGED <<Pricing!rows, Pricing!outside, ended>>
  BY DEF Pricing!Freshen
<1>2. Pricing!RowsAgree' /\ PricingGrows
  BY <1>1, PricingReads
<1>3. CASE Pricing!Goto(p, "count")
  BY <1>1, <1>2, <1>3, PricingGoesOn
<1>4. CASE Pricing!Return(p)
  BY <1>2, <1>4, PricingReturns
<1>5. CASE /\ ~Pricing!hasMaterialPriceChange(options[handlers[p].option].amount, price)
           /\ handlers' = [handlers EXCEPT ![p].pc = "count", ![p].amount = price]
  <2> DEFINE one == [handlers[p] EXCEPT !.pc = "count"]
             new == [one EXCEPT !.amount = price]
  <2>1. handlers[p] \in Pricing!Handlers /\ price \in Prices
    BY PricingHandler DEF Pricing!IInv, Pricing!RowsAgree, Pricing!TypeOK
  <2>2. one \in Pricing!Handlers /\ one.pc = "count" /\ one.option = handlers[p].option
    BY <2>1 DEF Pricing!Handlers
  <2>3. handlers' = [handlers EXCEPT ![p] = new]
    <3>1. handlers \in [Proc -> Pricing!Handlers]
      BY PricingInvariant DEF PricingTyped
    <3> QED
      BY <1>5, <3>1
  <2> HIDE DEF one
  <2>4. /\ new \in Pricing!Handlers /\ new.pc = "count" /\ new.option = handlers[p].option
        /\ new.amount = price
    BY <2>1, <2>2 DEF Pricing!Handlers
  <2> HIDE DEF new
  <2>5. PICK u \in Pricing!Handlers : u = new
    BY <2>4
  <2>6. /\ handlers[p].option \in DOMAIN options /\ handlers[p].amount # Null
        /\ handlers[p].amount = options[handlers[p].option].amount
        /\ handlers[p].amount \in Prices
        /\ payment # Null /\ payment.status = "PAID"
    BY <1>1, <2>1, PricingHandler DEF PricingKnows, Pricing!Handlers
  <2>7. Pricing!Near(price, options[handlers[p].option].amount)
    BY <1>5, <2>1, <2>6, PricingMaterial
  <2>8. price # Null
    BY <2>1 DEF Pricing!PricingAssumption
  <2>9. PricingKnows(u)
    BY <2>4, <2>5, <2>6, <2>7, <2>8 DEF PricingKnows
  <2>10. PricingKnows(u)'
    BY <1>2, <2>9, PricingStillKnows
  <2> QED
    BY <1>2, <2>3, <2>5, <2>10, PricingMoves
<1>6. PICK providerSupportsQuote \in BOOLEAN :
        LET quoted == options[handlers[p].option]
            asks == Pricing!isQuoteStale(quoted.quotedAt) /\ providerSupportsQuote
        IN  \/ ~asks /\ Pricing!Goto(p, "count")
            \/ asks /\ Pricing!Return(p)
            \/ /\ asks
               /\ ~Pricing!hasMaterialPriceChange(quoted.amount, price)
               /\ handlers' = [handlers EXCEPT ![p].pc = "count", ![p].amount = price]
  BY DEF Pricing!Freshen
<1> QED
  BY <1>3, <1>4, <1>5, <1>6

\* The bookings are counted for the number of the next.
LEMMA PricingCount ==
    ASSUME Pricing!PricingAssumption, Pricing!IInv, NEW p \in Proc, Pricing!CountBookings(p)
    PROVE  Pricing!IInv'
<1> DEFINE one == [handlers[p] EXCEPT !.pc = "start"]
           new == [one EXCEPT !.number = Len(bookings) + 1]
<1>1. handlers[p].pc = "count" /\ UNCHANGED <<Pricing!rows, Pricing!outside, ended>>
  BY DEF Pricing!CountBookings
<1>2. Pricing!RowsAgree' /\ PricingGrows
  BY <1>1, PricingReads
<1>3. handlers \in [Proc -> Pricing!Handlers] /\ handlers[p] \in Pricing!Handlers
      /\ Len(bookings) + 1 \in Nat
  BY PricingInvariant DEF PricingTyped, Pricing!RowsAgree
<1>4. /\ one \in Pricing!Handlers /\ one.pc = "start" /\ one.option = handlers[p].option
      /\ one.amount = handlers[p].amount
  BY <1>3 DEF Pricing!Handlers
<1>5. handlers' = [handlers EXCEPT ![p] = new]
  BY <1>3 DEF Pricing!CountBookings
<1> HIDE DEF one
<1>6. /\ new \in Pricing!Handlers /\ new.pc = "start" /\ new.option = handlers[p].option
      /\ new.amount = handlers[p].amount
  BY <1>3, <1>4 DEF Pricing!Handlers
<1> HIDE DEF new
<1>7. PICK u \in Pricing!Handlers : u = new
  BY <1>6
<1>8. PricingKnows(u)
  <2>1. PricingKnows(handlers[p])
    BY PricingHandler
  <2> QED
    BY <2>1, <1>1, <1>6, <1>7 DEF PricingKnows
<1>9. PricingKnows(u)'
  BY <1>2, <1>8, PricingStillKnows
<1> QED
  BY <1>2, <1>5, <1>7, <1>9, PricingMoves

\* The status of the delivery changes, and an option may be appended.
LEMMA PricingOrchestrate ==
    ASSUME Pricing!PricingAssumption, Pricing!IInv, NEW p \in Proc, Pricing!Orchestrate(p)
    PROVE  Pricing!IInv'
<1>1. UNCHANGED <<options, payment, bookings, Pricing!outside, ended>>
  BY DEF Pricing!Orchestrate
<1>2. Pricing!RowsAgree
  BY DEF Pricing!IInv
<1>3. PricingGrows
  BY <1>1 DEF PricingGrows
<1>4. CASE UNCHANGED <<confirmed, handlers>>
  <2>1. Pricing!RowsAgree'
    BY <1>1, <1>4, PricingReads DEF Pricing!rows
  <2> QED
    BY <1>3, <1>4, <2>1, PricingStill
<1>5. CASE /\ confirmed \in {"CREATED", "FAILED"}
           /\ confirmed' = "ORCHESTRATING" /\ Pricing!Goto(p, "quote")
  <2>1. Pricing!TypeOK'
    BY <1>1, <1>2, <1>5 DEF Pricing!RowsAgree, Pricing!TypeOK, Pricing!outside
  <2>2. (Pricing!OrderIsForPayment)'
    BY <1>1, <1>2 DEF Pricing!RowsAgree, Pricing!OrderIsForPayment, Pricing!outside
  <2>3. Pricing!RowsAgree'
    BY <1>1, <1>2, <1>5, <2>1, <2>2
    DEF Pricing!RowsAgree, Pricing!outside, Pricing!Near, Pricing!Options, Pricing!Bookings,
        Pricing!Payments
  <2> QED
    BY <1>3, <1>5, <2>3, PricingGoesOn
<1> QED
  BY <1>4, <1>5 DEF Pricing!Orchestrate

\* The steps of the rows need the rows that agree, and the knowledge of who makes them.
LEMMA PricingRun ==
    ASSUME Pricing!PricingAssumption, Pricing!IInv, NEW p \in Proc, Pricing!RunOrchestration(p)
    PROVE  Pricing!IInv'
<1>1. /\ confirmed = "ORCHESTRATING" /\ Pricing!Return(p)
      /\ UNCHANGED <<payment, bookings, now, price, gatewayOrder, ended>>
  BY DEF Pricing!RunOrchestration, Pricing!outside
<1>2. /\ Pricing!RowsAgree /\ options \in Seq(Pricing!Options)
      /\ price \in Prices /\ now \in 0 .. MaxTime /\ MaxTime \in Nat
  BY DEF Pricing!IInv, Pricing!RowsAgree, Pricing!TypeOK, Pricing!PricingAssumption
<1>3. CASE confirmed' = "FAILED" /\ UNCHANGED options
  <2>1. Pricing!TypeOK' /\ (Pricing!OrderIsForPayment)' /\ PricingGrows
    BY <1>1, <1>2, <1>3
    DEF Pricing!RowsAgree, Pricing!TypeOK, Pricing!OrderIsForPayment, PricingGrows
  <2>2. Pricing!RowsAgree'
    BY <1>1, <1>2, <1>3, <2>1
    DEF Pricing!RowsAgree, Pricing!Near, Pricing!Options, Pricing!Bookings, Pricing!Payments
  <2> QED
    BY <1>1, <2>1, <2>2, PricingReturns
<1>4. CASE /\ confirmed' = "OPTION_READY"
           /\ options' = Append(options, [amount |-> price, quotedAt |-> now])
  <2>1. PICK new \in Pricing!Options : new = [amount |-> price, quotedAt |-> now]
    <3>1. now \in Nat
      BY <1>2
    <3> QED
      BY <1>2, <3>1 DEF Pricing!Options
  <2>2. PICK n \in Nat : n = Len(options)
    BY <1>2, LenProperties
  <2>3. /\ options' \in Seq(Pricing!Options) /\ Len(options') = n + 1
        /\ DOMAIN options = 1 .. n /\ DOMAIN options' = 1 .. n + 1
        /\ options'[n + 1] = new /\ \A i \in 1 .. n : options'[i] = options[i]
    <3>1. options' = Append(options, new)
      BY <1>4, <2>1
    <3> QED
      BY <1>2, <2>2, <3>1, Appended
  <2>4. options' # << >>
    <3>1. Len(options') # 0
      BY <2>3, <2>2
    <3> QED
      BY <3>1, EmptySeq
  <2>5. options = << >> => n = 0
    BY <2>2, EmptySeq
  <2>6. \A i \in DOMAIN options : i \in DOMAIN options' /\ options'[i] = options[i]
    BY <2>2, <2>3
  <2>7. PricingGrows
    BY <1>1, <2>6 DEF PricingGrows
  <2>8. \A i \in DOMAIN options' : options'[i].amount \in Prices /\ options'[i].quotedAt \in 0 .. now
    <3> SUFFICES ASSUME NEW i \in DOMAIN options'
                 PROVE  options'[i].amount \in Prices /\ options'[i].quotedAt \in 0 .. now
      OBVIOUS
    <3>1. CASE i = n + 1
      BY <1>2, <2>1, <2>3, <3>1
    <3>2. CASE i # n + 1
      <4>1. i \in DOMAIN options
        BY <2>2, <2>3, <3>2
      <4>2. options[i].amount \in Prices /\ options[i].quotedAt \in 0 .. now
        BY <4>1, <1>2 DEF Pricing!RowsAgree, Pricing!TypeOK
      <4> QED
        BY <4>1, <4>2, <2>6
    <3> QED
      BY <3>1, <3>2
  <2>9. \A i \in DOMAIN bookings : /\ bookings[i].option \in DOMAIN options
                                   /\ bookings[i].option \in DOMAIN options'
                                   /\ options'[bookings[i].option] = options[bookings[i].option]
                                   /\ bookings[i].amount \in Prices
    BY <1>2, <2>6 DEF Pricing!RowsAgree, Pricing!TypeOK
  <2>10. Pricing!TypeOK'
    BY <1>1, <1>2, <1>4, <2>8, <2>9 DEF Pricing!RowsAgree, Pricing!TypeOK
  <2>11. (Pricing!OrderIsForPayment)'
    BY <1>1, <1>2 DEF Pricing!RowsAgree, Pricing!OrderIsForPayment
  <2>12. \A i \in DOMAIN bookings :
            Pricing!Near(bookings[i].amount, options'[bookings[i].option].amount)
    BY <1>2, <2>9 DEF Pricing!RowsAgree
  <2>13. payment # Null => options'[1] = options[1]
    <3>1. payment # Null => options # << >>
      BY <1>2 DEF Pricing!RowsAgree
    <3>2. options # << >> => n # 0
      BY <1>2, <2>2, EmptySeq
    <3>3. n # 0 => 1 \in 1 .. n
      BY <2>2
    <3> QED
      BY <3>1, <3>2, <3>3, <2>3
  <2>14. payment = Null \/ payment.status # "PAID" => bookings = << >> /\ options = << >>
    BY <1>1, <1>2 DEF Pricing!RowsAgree
  <2>15. options = << >> => Len(options') <= 1
    BY <2>2, <2>3, <2>5
  <2>16. bookings = << >> => options = << >>
    BY <1>1, <1>2 DEF Pricing!RowsAgree
  <2>17. Pricing!RowsAgree'
    <3>1. (\A i \in DOMAIN bookings :
             Pricing!Near(bookings[i].amount, options[bookings[i].option].amount))'
      BY <1>1, <2>12 DEF Pricing!Near
    <3>2. /\ (bookings \in Seq(Pricing!Bookings))'
          /\ (payment \in Pricing!Payments \cup {Null} /\ gatewayOrder \in Prices \cup {Null})'
          /\ (ended \in Nat /\ options \in Seq(Pricing!Options))'
          /\ (gatewayOrder # Null => payment # Null)'
      BY <1>1, <1>2, <2>3
      DEF Pricing!RowsAgree, Pricing!Bookings, Pricing!Payments, Pricing!Options
    <3>3. (payment # Null => options # << >> /\ payment.amount = options[1].amount)'
      BY <1>1, <1>2, <2>4, <2>13 DEF Pricing!RowsAgree
    <3>4. /\ (payment = Null \/ payment.status # "PAID"
                => /\ bookings = << >> /\ Len(options) <= 1 /\ confirmed = "OPTION_READY")'
          /\ (bookings = << >> => Len(options) <= 1)'
          /\ (bookings # << >> => payment # Null /\ bookings[1].option = 1)'
          /\ (confirmed = "OPTION_READY")'
      BY <1>1, <1>2, <1>4, <2>14, <2>15, <2>16 DEF Pricing!RowsAgree
    <3> QED
      BY <2>4, <2>10, <2>11, <3>1, <3>2, <3>3, <3>4 DEF Pricing!RowsAgree
  <2> QED
    BY <1>1, <2>7, <2>17, PricingReturns
<1> QED
  BY <1>3, <1>4 DEF Pricing!RunOrchestration

\* The rows agree on another state of the payment, with its amount, and of the order.
LEMMA PricingPays ==
    ASSUME Pricing!PricingAssumption, Pricing!IInv,
           UNCHANGED <<confirmed, options, bookings, now, price, ended>>,
           payment # Null, NEW new \in Pricing!Payments, payment' = new,
           new.amount = payment.amount, payment.status = "PAID" => new.status = "PAID",
           new.attempt \in {Null, payment.amount},
           gatewayOrder' \in {Null, payment.amount}
    PROVE  Pricing!RowsAgree' /\ PricingGrows
<1>1. Pricing!RowsAgree
  BY DEF Pricing!IInv
<1>2. new # Null /\ new.amount \in Prices
  BY DEF Pricing!PricingAssumption, Pricing!Payments
<1>3. PricingGrows
  BY <1>2 DEF PricingGrows
<1>4. Pricing!TypeOK'
  BY <1>1, <1>2 DEF Pricing!RowsAgree, Pricing!TypeOK, Pricing!Payments
<1>5. (Pricing!OrderIsForPayment)'
  BY <1>1, <1>2 DEF Pricing!RowsAgree, Pricing!OrderIsForPayment
<1>6. gatewayOrder' \in Prices \cup {Null}
  BY <1>2
<1>7. Pricing!RowsAgree'
  BY <1>1, <1>2, <1>4, <1>5, <1>6
  DEF Pricing!RowsAgree, Pricing!Near, Pricing!Options, Pricing!Bookings, Pricing!Payments
<1> QED
  BY <1>3, <1>7

\* A payment and the amounts that depend on it.
LEMMA PricingPayment ==
    ASSUME Pricing!PricingAssumption, Pricing!IInv, payment # Null
    PROVE  /\ payment \in Pricing!Payments /\ payment.amount \in Prices
           /\ payment.attempt \in {Null, payment.amount}
           /\ gatewayOrder \in {Null, payment.amount}
  BY DEF Pricing!IInv, Pricing!RowsAgree, Pricing!OrderIsForPayment, Pricing!Payments

\* The gateway captures the payment.
LEMMA PricingCapture ==
    ASSUME Pricing!PricingAssumption, Pricing!IInv, Pricing!Capture
    PROVE  Pricing!IInv'
<1> DEFINE new == [payment EXCEPT !.status = "PAID"]
<1>1. /\ payment # Null /\ payment' = new
      /\ UNCHANGED <<confirmed, options, bookings, now, price, gatewayOrder, handlers, ended>>
  BY DEF Pricing!Capture, Pricing!outside
<1>2. payment \in Pricing!Payments
  BY <1>1, PricingPayment
<1>3. /\ new \in Pricing!Payments /\ new.status = "PAID" /\ new.amount = payment.amount
      /\ new.attempt = payment.attempt
  BY <1>2 DEF Pricing!Payments
<1> HIDE DEF new
<1>4. gatewayOrder' \in {Null, payment.amount} /\ payment.attempt \in {Null, payment.amount}
  BY <1>1, PricingPayment
<1>5. Pricing!RowsAgree' /\ PricingGrows
  BY <1>1, <1>3, <1>4, PricingPays
<1> QED
  BY <1>1, <1>5, PricingStill

\* The order is created at the gateway, for the amount of the payment.
LEMMA PricingOrder ==
    ASSUME Pricing!PricingAssumption, Pricing!IInv, NEW p \in Proc, Pricing!CreatePaymentOrder(p)
    PROVE  Pricing!IInv'
<1>1. /\ handlers[p].pc = "order" /\ Pricing!Goto(p, "checkout")
      /\ gatewayOrder' = (IF gatewayOrder = Null THEN handlers[p].amount ELSE gatewayOrder)
      /\ UNCHANGED <<confirmed, options, payment, bookings, now, price, ended>>
  BY DEF Pricing!CreatePaymentOrder, Pricing!rows
<1>2. payment # Null /\ payment.amount = handlers[p].amount
  BY <1>1, PricingHandler DEF PricingKnows
<1>3. gatewayOrder' \in {Null, payment.amount}
  BY <1>1, <1>2, PricingPayment
<1>4. Pricing!RowsAgree' /\ PricingGrows
  BY <1>1, <1>2, <1>3, PricingPayment, PricingPays
<1> QED
  BY <1>1, <1>2, <1>4, PricingGoesOn

\* The checkout is stored.
LEMMA PricingCheckout ==
    ASSUME Pricing!PricingAssumption, Pricing!IInv, NEW p \in Proc, Pricing!StoreCheckout(p)
    PROVE  Pricing!IInv'
<1>1. /\ handlers[p].pc = "checkout" /\ Pricing!Return(p)
      /\ UNCHANGED <<confirmed, options, bookings, now, price, gatewayOrder, ended>>
  BY DEF Pricing!StoreCheckout, Pricing!outside
<1>2. payment # Null /\ payment.amount = handlers[p].amount
  BY <1>1, PricingHandler DEF PricingKnows
<1>3. /\ payment \in Pricing!Payments /\ payment.attempt \in {Null, payment.amount}
      /\ gatewayOrder' \in {Null, payment.amount} /\ payment.amount \in Prices
  BY <1>1, <1>2, PricingPayment
<1>4. \E new \in Pricing!Payments :
         /\ payment' = new /\ new.amount = payment.amount
         /\ payment.status = "PAID" => new.status = "PAID"
         /\ new.attempt \in {Null, payment.amount}
  <2>1. CASE payment.status \notin {"CREATED", "PENDING"}
    BY <1>3, <2>1 DEF Pricing!StoreCheckout
  <2>2. CASE payment.status \in {"CREATED", "PENDING"}
    <3> DEFINE one == [payment EXCEPT !.status = "PENDING"]
               new == [one EXCEPT !.attempt = IF @ = Null THEN handlers[p].amount ELSE @]
    <3>1. payment' = new
      BY <1>3, <2>2 DEF Pricing!StoreCheckout, Pricing!Payments
    <3>2. /\ one \in Pricing!Payments /\ one.amount = payment.amount
          /\ one.attempt = payment.attempt
      BY <1>3 DEF Pricing!Payments
    <3> HIDE DEF one
    <3>3. /\ new \in Pricing!Payments /\ new.amount = payment.amount
          /\ new.attempt \in {Null, payment.amount}
      BY <1>2, <1>3, <3>2 DEF Pricing!Payments
    <3> HIDE DEF new
    <3> QED
      BY <2>2, <3>1, <3>3
  <2> QED
    BY <2>1, <2>2
<1>5. Pricing!RowsAgree' /\ PricingGrows
  BY <1>1, <1>2, <1>3, <1>4, PricingPays
<1> QED
  BY <1>1, <1>5, PricingReturns

\* The payment is created, or found.
LEMMA PricingCreatePayment ==
    ASSUME Pricing!PricingAssumption, Pricing!IInv, NEW p \in Proc, Pricing!CreatePayment(p)
    PROVE  Pricing!IInv'
<1>1. /\ handlers[p].pc = "findPayment"
      /\ UNCHANGED <<confirmed, options, bookings, now, price, gatewayOrder, ended>>
  BY DEF Pricing!CreatePayment, Pricing!outside
<1>2. Pricing!RowsAgree /\ options \in Seq(Pricing!Options)
  BY DEF Pricing!IInv, Pricing!RowsAgree
<1>3. PICK n \in Nat : n = Len(options) /\ DOMAIN options = 1 .. n
  BY <1>2, LenProperties
<1>4. PICK i \in DOMAIN options : options[i].amount = handlers[p].amount
  BY <1>1, PricingHandler DEF PricingKnows
<1>5. options # << >> /\ handlers[p].amount \in Prices
  BY <1>1, <1>4, EmptySeq, PricingHandler DEF PricingKnows, Pricing!Handlers
<1>6. payment = Null \/ payment.status # "PAID" => options[1].amount = handlers[p].amount
  <2>1. payment = Null \/ payment.status # "PAID" => n <= 1
    BY <1>2, <1>3 DEF Pricing!RowsAgree
  <2> QED
    BY <1>3, <1>4, <2>1
<1>7. CASE /\ payment = Null
           /\ payment' = [status |-> "CREATED", amount |-> handlers[p].amount, attempt |-> Null]
           /\ Pricing!Goto(p, "order")
  <2>1. PICK new \in Pricing!Payments :
           new = [status |-> "CREATED", amount |-> handlers[p].amount, attempt |-> Null]
    BY <1>5 DEF Pricing!Payments
  <2>2. /\ payment' = new /\ new # Null /\ new.amount = handlers[p].amount
        /\ new.attempt = Null /\ new.status = "CREATED"
    BY <1>7, <2>1 DEF Pricing!PricingAssumption
  <2>3. PricingGrows
    BY <1>1, <1>7 DEF PricingGrows
  <2>4. gatewayOrder = Null
    BY <1>2, <1>7 DEF Pricing!RowsAgree
  <2>5. Pricing!TypeOK' /\ (Pricing!OrderIsForPayment)'
    BY <1>1, <1>2, <2>2, <2>4 DEF Pricing!RowsAgree, Pricing!TypeOK, Pricing!OrderIsForPayment
  <2>6. /\ bookings = << >> /\ Len(options) <= 1 /\ confirmed = "OPTION_READY"
    BY <1>2, <1>5, <1>7 DEF Pricing!RowsAgree
  <2>7. Pricing!RowsAgree'
    BY <1>1, <1>2, <1>5, <1>6, <1>7, <2>2, <2>4, <2>5, <2>6
    DEF Pricing!RowsAgree, Pricing!Near, Pricing!Options, Pricing!Bookings, Pricing!Payments
  <2> QED
    BY <1>1, <1>7, <2>2, <2>3, <2>7, PricingGoesOn
<1>8. CASE payment # Null /\ UNCHANGED payment /\ Pricing!Return(p)
  <2>1. Pricing!RowsAgree' /\ PricingGrows
    BY <1>1, <1>8, PricingPays, PricingPayment
  <2> QED
    BY <1>8, <2>1, PricingReturns
<1>9. CASE /\ payment # Null /\ UNCHANGED payment
           /\ payment.status = "CREATED" /\ Pricing!Goto(p, "order")
  <2>1. Pricing!RowsAgree' /\ PricingGrows
    BY <1>1, <1>9, PricingPays, PricingPayment
  <2>2. payment.amount = options[1].amount /\ payment.amount = handlers[p].amount
    BY <1>2, <1>6, <1>9 DEF Pricing!RowsAgree
  <2> QED
    BY <1>1, <1>9, <2>1, <2>2, PricingGoesOn
<1> QED
  BY <1>7, <1>8, <1>9 DEF Pricing!CreatePayment

\* The booking is created, unless another one is open.
LEMMA PricingStart ==
    ASSUME Pricing!PricingAssumption, Pricing!IInv, NEW p \in Proc, Pricing!StartBooking(p)
    PROVE  Pricing!IInv'
<1>1. /\ handlers[p].pc = "start"
      /\ UNCHANGED <<options, payment, now, price, gatewayOrder, ended>>
  BY DEF Pricing!StartBooking, Pricing!outside
<1>2. /\ Pricing!RowsAgree /\ options \in Seq(Pricing!Options)
      /\ bookings \in Seq(Pricing!Bookings)
  BY DEF Pricing!IInv, Pricing!RowsAgree
<1>3. /\ handlers[p].option \in DOMAIN options /\ handlers[p].amount # Null
      /\ handlers[p].amount \in Prices
      /\ Pricing!Near(handlers[p].amount, options[handlers[p].option].amount)
      /\ payment # Null /\ payment.status = "PAID"
  BY <1>1, PricingHandler DEF PricingKnows, Pricing!Handlers
<1>4. CASE Pricing!Return(p) /\ UNCHANGED <<confirmed, bookings>>
  <2>1. Pricing!RowsAgree' /\ PricingGrows
    BY <1>1, <1>4, PricingReads DEF Pricing!rows, Pricing!outside
  <2> QED
    BY <1>4, <2>1, PricingReturns
<1>5. CASE /\ confirmed = "OPTION_READY" /\ handlers[p].number = Len(bookings) + 1
           /\ confirmed' = "BOOKING"
           /\ bookings' = Append(bookings, [option |-> handlers[p].option,
                                            amount |-> handlers[p].amount,
                                            status |-> "BOOKING"])
           /\ Pricing!Goto(p, "finalize")
  <2>1. PICK n \in Nat : n = Len(options) /\ DOMAIN options = 1 .. n
    BY <1>2, LenProperties
  <2>2. PICK m \in Nat : m = Len(bookings) /\ DOMAIN bookings = 1 .. m
    BY <1>2, LenProperties
  <2>3. PICK new \in Pricing!Bookings :
           new = [option |-> handlers[p].option, amount |-> handlers[p].amount,
                  status |-> "BOOKING"]
    <3>1. handlers[p].option \in Nat
      BY <1>3, <2>1
    <3> QED
      BY <1>3, <3>1 DEF Pricing!Bookings
  <2>4. new.option = handlers[p].option /\ new.amount = handlers[p].amount
    BY <2>3
  <2>5. /\ bookings' \in Seq(Pricing!Bookings) /\ Len(bookings') = m + 1
        /\ DOMAIN bookings' = 1 .. m + 1
        /\ bookings'[m + 1] = new /\ \A i \in 1 .. m : bookings'[i] = bookings[i]
    <3>1. bookings' = Append(bookings, new)
      BY <1>5, <2>3
    <3> QED
      BY <1>2, <2>2, <3>1, Appended
  <2>6. \A i \in DOMAIN bookings' :
           \/ i \in DOMAIN bookings /\ bookings'[i] = bookings[i]
           \/ i = m + 1 /\ bookings'[i] = new
    BY <2>2, <2>5
  <2>7. PricingGrows
    <3>1. DOMAIN bookings \subseteq DOMAIN bookings'
      BY <2>2, <2>5
    <3> QED
      BY <1>1, <3>1 DEF PricingGrows
  <2>8. \A i \in DOMAIN bookings' :
           /\ bookings'[i].option \in DOMAIN options /\ bookings'[i].amount \in Prices
           /\ Pricing!Near(bookings'[i].amount, options[bookings'[i].option].amount)
    <3> SUFFICES ASSUME NEW i \in DOMAIN bookings'
                 PROVE  /\ bookings'[i].option \in DOMAIN options
                        /\ bookings'[i].amount \in Prices
                        /\ Pricing!Near(bookings'[i].amount, options[bookings'[i].option].amount)
      OBVIOUS
    <3>1. CASE i \in DOMAIN bookings /\ bookings'[i] = bookings[i]
      BY <1>2, <3>1 DEF Pricing!RowsAgree, Pricing!TypeOK
    <3>2. CASE i = m + 1 /\ bookings'[i] = new
      BY <1>3, <2>4, <3>2
    <3> QED
      BY <2>6, <3>1, <3>2
  <2>9. bookings' # << >>
    <3>1. Len(bookings') # 0
      BY <2>2, <2>5
    <3> QED
      BY <3>1, EmptySeq
  <2>10. bookings'[1].option = 1
    <3>1. CASE m = 0
      <4>1. bookings = << >>
        BY <1>2, <2>2, <3>1, EmptySeq
      <4>2. n <= 1
        BY <1>2, <2>1, <4>1 DEF Pricing!RowsAgree
      <4> QED
        BY <1>3, <2>1, <2>4, <2>5, <3>1, <4>2
    <3>2. CASE m # 0
      <4>1. bookings # << >>
        BY <2>2, <3>2, EmptySeq
      <4>2. bookings'[1] = bookings[1]
        BY <2>2, <2>5, <3>2
      <4> QED
        BY <1>2, <4>1, <4>2 DEF Pricing!RowsAgree
    <3> QED
      BY <3>1, <3>2
  <2>11. Pricing!TypeOK'
    BY <1>1, <1>2, <1>5, <2>8 DEF Pricing!RowsAgree, Pricing!TypeOK
  <2>12. (Pricing!OrderIsForPayment)'
    BY <1>1, <1>2 DEF Pricing!RowsAgree, Pricing!OrderIsForPayment
  <2>13. (\A i \in DOMAIN bookings :
            Pricing!Near(bookings[i].amount, options[bookings[i].option].amount))'
    BY <1>1, <2>8 DEF Pricing!Near
  <2>14. Pricing!RowsAgree'
    <3>1. /\ (options \in Seq(Pricing!Options) /\ ended \in Nat)'
          /\ (payment \in Pricing!Payments \cup {Null} /\ gatewayOrder \in Prices \cup {Null})'
          /\ (bookings \in Seq(Pricing!Bookings))'
          /\ (gatewayOrder # Null => payment # Null)'
      BY <1>1, <1>2, <2>5
      DEF Pricing!RowsAgree, Pricing!Bookings, Pricing!Payments, Pricing!Options
    <3>2. (payment # Null => options # << >> /\ payment.amount = options[1].amount)'
      BY <1>1, <1>2 DEF Pricing!RowsAgree
    <3>3. (options # << >>)'
      BY <1>1, <1>2, <1>3 DEF Pricing!RowsAgree
    <3> QED
      BY <1>1, <1>3, <1>5, <2>9, <2>10, <2>11, <2>12, <2>13, <3>1, <3>2, <3>3
      DEF Pricing!RowsAgree
  <2>15. handlers[p].number \in DOMAIN bookings'
    BY <1>5, <2>2, <2>5
  <2> QED
    BY <1>5, <2>7, <2>14, <2>15, PricingGoesOn
<1> QED
  BY <1>4, <1>5 DEF Pricing!StartBooking

\* The booking is settled with the provider's answer.
LEMMA PricingFinalize ==
    ASSUME Pricing!PricingAssumption, Pricing!IInv, NEW p \in Proc,
           NEW outcome \in {"BOOKED", "FAILED", "UNKNOWN"}, Pricing!FinalizeBooking(p, outcome)
    PROVE  Pricing!IInv'
<1>1. /\ handlers[p].pc = "finalize" /\ Pricing!Return(p)
      /\ UNCHANGED <<options, payment, now, price, gatewayOrder, ended>>
      /\ confirmed' \in {"BOOKING", "BOOKED", "FAILED"}
  BY DEF Pricing!FinalizeBooking, Pricing!outside
<1>2. Pricing!RowsAgree /\ bookings \in Seq(Pricing!Bookings)
  BY DEF Pricing!IInv, Pricing!RowsAgree
<1>3. PICK k \in DOMAIN bookings : k = handlers[p].number
  BY <1>1, PricingHandler DEF PricingKnows
<1>4. PICK m \in Nat : m = Len(bookings) /\ DOMAIN bookings = 1 .. m
  BY <1>2, LenProperties
<1> DEFINE new == [bookings[k] EXCEPT !.status = outcome]
<1>5. bookings[k] \in Pricing!Bookings
  BY <1>2, <1>4, ElementOfSeq
<1>6. /\ new \in Pricing!Bookings /\ new.option = bookings[k].option
      /\ new.amount = bookings[k].amount
  BY <1>5 DEF Pricing!Bookings
<1>7. bookings' = [bookings EXCEPT ![k] = new]
  BY <1>3 DEF Pricing!FinalizeBooking
<1> HIDE DEF new
<1>8. /\ bookings' \in Seq(Pricing!Bookings) /\ Len(bookings') = m
      /\ DOMAIN bookings' = 1 .. m
      /\ \A i \in 1 .. m : bookings'[i] = IF i = k THEN new ELSE bookings[i]
  BY <1>2, <1>4, <1>6, <1>7, Replaced
<1>9. DOMAIN bookings' = DOMAIN bookings
      /\ \A i \in DOMAIN bookings : /\ bookings'[i].option = bookings[i].option
                                    /\ bookings'[i].amount = bookings[i].amount
  BY <1>4, <1>6, <1>8
<1>10. PricingGrows
  BY <1>1, <1>9 DEF PricingGrows
<1>11. bookings # << >> /\ bookings' # << >> /\ 1 \in DOMAIN bookings
  <2>1. m # 0 /\ 1 \in 1 .. m
    BY <1>4
  <2> QED
    BY <2>1, <1>4, <1>8, EmptySeq
<1>12. /\ payment # Null /\ bookings[1].option = 1 /\ options # << >>
       /\ payment.status = "PAID"
  BY <1>2, <1>11 DEF Pricing!RowsAgree
<1>13. Pricing!TypeOK'
  BY <1>1, <1>2, <1>9 DEF Pricing!RowsAgree, Pricing!TypeOK
<1>14. (Pricing!OrderIsForPayment)'
  BY <1>1, <1>2 DEF Pricing!RowsAgree, Pricing!OrderIsForPayment
<1>15. (\A i \in DOMAIN bookings :
          Pricing!Near(bookings[i].amount, options[bookings[i].option].amount))'
  BY <1>1, <1>2, <1>9 DEF Pricing!RowsAgree, Pricing!Near
<1>16. Pricing!RowsAgree'
  <2>1. /\ (options \in Seq(Pricing!Options) /\ ended \in Nat)'
        /\ (payment \in Pricing!Payments \cup {Null} /\ gatewayOrder \in Prices \cup {Null})'
        /\ (bookings \in Seq(Pricing!Bookings))'
        /\ (gatewayOrder # Null => payment # Null)'
    BY <1>1, <1>2, <1>8 DEF Pricing!RowsAgree, Pricing!Bookings, Pricing!Payments, Pricing!Options
  <2>2. (payment # Null => options # << >> /\ payment.amount = options[1].amount)'
    BY <1>1, <1>2 DEF Pricing!RowsAgree
  <2>3. (bookings # << >> => payment # Null /\ bookings[1].option = 1)'
    BY <1>1, <1>9, <1>11, <1>12
  <2>4. (options # << >> /\ payment # Null /\ payment.status = "PAID" /\ bookings # << >>)'
    BY <1>1, <1>11, <1>12
  <2> QED
    BY <1>13, <1>14, <1>15, <2>1, <2>2, <2>3, <2>4 DEF Pricing!RowsAgree
<1> QED
  BY <1>1, <1>10, <1>16, PricingReturns

\* The invariant begins, is kept, and says what the properties say.
LEMMA PricingBegins ==
    ASSUME Pricing!PricingAssumption, Pricing!Init
    PROVE  Pricing!IInv
<1>1. Pricing!Idle \in Pricing!Handlers /\ PricingKnows(Pricing!Idle)
  BY DEF Pricing!Idle, Pricing!Handlers, PricingKnows
<1>2. PricingTyped /\ PricingAllKnow
  BY <1>1 DEF Pricing!Init, PricingTyped, PricingAllKnow
<1>3. /\ << >> \in Seq(Pricing!Options) /\ << >> \in Seq(Pricing!Bookings)
      /\ DOMAIN << >> = {} /\ Len(<< >>) = 0
  BY EmptySeq
<1>4. MaxTime \in Nat
  BY DEF Pricing!PricingAssumption
<1>5. /\ now = 0 /\ price \in Prices /\ confirmed = "CREATED" /\ options = << >>
      /\ payment = Null /\ bookings = << >> /\ gatewayOrder = Null /\ ended = 0
  BY DEF Pricing!Init
<1>6. Pricing!TypeOK
  BY <1>3, <1>4, <1>5 DEF Pricing!TypeOK
<1>7. Pricing!OrderIsForPayment
  BY <1>5 DEF Pricing!OrderIsForPayment
<1>8. Pricing!RowsAgree
  BY <1>3, <1>5, <1>6, <1>7 DEF Pricing!RowsAgree
<1> QED
  BY <1>2, <1>8, PricingInvariant

\* Every step keeps the invariant of the price.
LEMMA PricingInductive ==
    ASSUME Pricing!PricingAssumption, Pricing!IInv, Pricing!Next
    PROVE  Pricing!IInv'
<1>1. CASE Pricing!Tick \/ Pricing!Capture \/ \E x \in Prices : Pricing!MovePrice(x)
  BY <1>1, PricingTick, PricingCapture
<1>2. CASE \E p \in Proc :
             \/ Pricing!Orchestrate(p) \/ Pricing!RunOrchestration(p)
             \/ Pricing!resolveAuthoritativePricing(p) \/ Pricing!CreatePayment(p)
             \/ Pricing!CreatePaymentOrder(p) \/ Pricing!StoreCheckout(p)
  BY <1>2, PricingOrchestrate, PricingRun, PricingResolve, PricingCreatePayment, PricingOrder,
     PricingCheckout
<1>3. CASE \E p \in Proc :
             \/ Pricing!Confirm(p) \/ Pricing!Freshen(p) \/ Pricing!CountBookings(p)
             \/ Pricing!StartBooking(p) \/ Pricing!Crash(p)
             \/ \E outcome \in {"BOOKED", "FAILED", "UNKNOWN"} :
                   Pricing!FinalizeBooking(p, outcome)
  BY <1>3, PricingConfirm, PricingFreshen, PricingCount, PricingStart, PricingCrash,
     PricingFinalize
<1> QED
  BY <1>1, <1>2, <1>3 DEF Pricing!Next

\* From the invariant follow the properties.
LEMMA PricingKept ==
    ASSUME Pricing!PricingAssumption, Pricing!IInv
    PROVE  /\ Pricing!TypeOK /\ Pricing!OrderIsForPayment /\ Pricing!BookedNearItsOption
           /\ Pricing!FirstIsPaidFor
<1>1. /\ Pricing!RowsAgree /\ Pricing!TypeOK /\ Pricing!OrderIsForPayment
      /\ bookings \in Seq(Pricing!Bookings) /\ options \in Seq(Pricing!Options)
  BY DEF Pricing!IInv, Pricing!RowsAgree
<1>2. Pricing!BookedNearItsOption
  BY <1>1 DEF Pricing!RowsAgree, Pricing!BookedNearItsOption, Pricing!Near
<1>3. ASSUME bookings # << >>
      PROVE  ~Pricing!hasMaterialPriceChange(payment.amount, bookings[1].amount)
  <2>1. payment # Null /\ bookings[1].option = 1 /\ payment.amount = options[1].amount
    BY <1>1, <1>3 DEF Pricing!RowsAgree
  <2>2. 1 \in DOMAIN bookings
    <3>1. Len(bookings) \in Nat \ {0} /\ DOMAIN bookings = 1 .. Len(bookings)
      BY <1>1, <1>3, EmptySeq, LenProperties
    <3> QED
      BY <3>1
  <2>3. bookings[1].amount \in Prices /\ options[1].amount \in Prices
        /\ Pricing!Near(bookings[1].amount, options[1].amount)
    BY <1>1, <2>1, <2>2 DEF Pricing!RowsAgree, Pricing!TypeOK
  <2> QED
    BY <2>1, <2>3, PricingMaterial
<1> QED
  BY <1>1, <1>2, <1>3 DEF Pricing!FirstIsPaidFor

-----------------------------------------------------------------------------
(* ProviderRegistry.                                                       *)

Pcs == {"idle", "create", "refresh", "status", "credentials", "capabilities", "write", "test",
        "record", "item"}
ProviderRows ==
    [enabled : BOOLEAN, orchestration : BOOLEAN, status : {"ACTIVE", "INACTIVE", "SUSPENDED"},
     health : {"UNKNOWN", "HEALTHY", "UNHEALTHY"}, integration : Statuses]

\* What holds of a request in state u.
RequestHolds(u) ==
    /\ u.pc \notin {"idle", "create"} => Exists
    /\ u.pc = "status" => u.integration \in {"ACTIVE", "INACTIVE", "SUSPENDED"}
    /\ u.pc = "credentials" => u.number # 0 /\ \A f \in Field \ u.fields : u.gone[f] = {}
    /\ u.pc \in {"write", "record"}
       => u.integration \in Statuses /\ (u.integration = "READY" => HasCredentials)
    /\ u.pc = "write" /\ u.integration = "READY" => row.health # "UNKNOWN"
    /\ u.pc = "item" => u.item \in Item
    /\ u.pc # "idle" => u.answer = "none"

RequestsTyped == req \in [Admin -> Requests] /\ served \in 0 .. MaxRequests
RequestsHold == \A a \in Admin : RequestHolds(req[a])
RegistryRows == TypeOK /\ ReadyWasTested

\* A provider stays, and so do credentials and a test.
RegistryGrows ==
    /\ Exists => Exists'
    /\ HasCredentials => HasCredentials'
    /\ Exists /\ row.health # "UNKNOWN" => row'.health # "UNKNOWN"

\* What holds of a request depends on its record alone.
LEMMA RequestHoldsOf ==
    ASSUME NEW a \in Admin
    PROVE  Holds(a) <=> RequestHolds(req[a])
  BY DEF Holds, RequestHolds

\* The invariant, in three parts.
LEMMA RegistryInvariant == IInv <=> RegistryRows /\ RequestsTyped /\ RequestsHold
  BY RequestHoldsOf DEF IInv, RegistryRows, RequestsTyped, RequestsHold

\* What held of a request holds while the provider only gains.
LEMMA RequestStillHolds ==
    ASSUME RegistryGrows, NEW u \in Requests, RequestHolds(u)
    PROVE  RequestHolds(u)'
<1>1. u.pc \notin {"idle", "create"} => Exists /\ Exists'
  BY DEF RequestHolds, RegistryGrows
<1>2. u.pc \in {"write", "record"} /\ u.integration = "READY" => HasCredentials'
  BY DEF RequestHolds, RegistryGrows
<1>3. u.pc = "write" /\ u.integration = "READY" => row'.health # "UNKNOWN"
  BY <1>1 DEF RequestHolds, RegistryGrows
<1> QED
  BY <1>1, <1>2, <1>3 DEF RequestHolds

\* A step of one request, which is then in state new.
LEMMA RegistryMoves ==
    ASSUME IInv, RegistryRows', RegistryGrows, served' \in 0 .. MaxRequests,
           NEW a \in Admin, NEW new \in Requests, req' = [req EXCEPT ![a] = new],
           RequestHolds(new)'
    PROVE  IInv'
<1>1. /\ req \in [Admin -> Requests] /\ \A b \in Admin : RequestHolds(req[b])
  BY RegistryInvariant DEF RequestsTyped, RequestsHold
<1>2. RequestsTyped'
  BY <1>1 DEF RequestsTyped, Requests
<1>3. RequestsHold'
  <2> SUFFICES ASSUME NEW b \in Admin
               PROVE  RequestHolds(req[b])'
    BY DEF RequestsHold
  <2>1. CASE b = a
    <3>1. req'[b] = new
      BY <1>1, <2>1
    <3> QED
      BY <3>1 DEF RequestHolds
  <2>2. CASE b # a
    <3>1. req'[b] = req[b]
      BY <1>1, <2>2
    <3>2. PICK u \in Requests : u = req[b]
      BY <1>1
    <3>3. RequestHolds(u)
      BY <1>1, <3>2
    <3>4. RequestHolds(u)'
      BY <3>3, RequestStillHolds
    <3> QED
      BY <3>1, <3>2, <3>4 DEF RequestHolds
  <2> QED
    BY <2>1, <2>2
<1> QED
  BY <1>2, <1>3, RegistryInvariant, PTL

\* The types of the rows and of a request.
LEMMA RegistryTypes ==
    ASSUME RegistryAssumption, IInv, NEW a \in Admin
    PROVE  /\ row \in {NoRow} \cup ProviderRows /\ capabilities \in SUBSET Capability
           /\ credentials \in [Field -> SUBSET (1 .. MaxRequests)]
           /\ items \in [Item -> {"absent", "on", "off"}]
           /\ row = NoRow => capabilities = {} /\ ~HasCredentials
           /\ req[a] \in Requests /\ RequestHolds(req[a])
           /\ served \in 0 .. MaxRequests /\ MaxRequests \in Nat
           /\ req \in [Admin -> Requests]
  BY RegistryInvariant
  DEF RegistryRows, TypeOK, ProviderRows, RequestsTyped, RequestsHold, RegistryAssumption

\* The record of a request that is over.
LEMMA IdleRequest ==
    ASSUME RegistryAssumption, NEW answer \in {"none", "error", "detail", "done"}
    PROVE  /\ Idle(answer) \in Requests /\ Idle(answer).pc = "idle"
           /\ Idle(answer).answer = answer
  BY DEF Idle, Requests, RegistryAssumption

\* The record of a request that goes on.
LEMMA StartRequest ==
    ASSUME RegistryAssumption, NEW pc \in Pcs
    PROVE  /\ Start(pc) \in Requests /\ Start(pc).pc = pc /\ Start(pc).answer = "none"
<1> DEFINE one == Idle("none")
<1>1. one \in Requests /\ one.answer = "none"
  BY IdleRequest
<1> HIDE DEF one
<1>2. LET new == [one EXCEPT !.pc = pc] IN new \in Requests /\ new.pc = pc /\ new.answer = "none"
  BY <1>1 DEF Requests, Pcs
<1> QED
  BY <1>2 DEF Start, one

\* The statuses that are computed.
LEMMA StatusComputed ==
    ASSUME NEW health
    PROVE  /\ computeIntegrationStatus \in {"NOT_CONFIGURED", "CONFIGURED"}
           /\ StatusWithAdapter(health) \in Statuses
           /\ StatusWithAdapter(health) = "READY" => HasCredentials /\ health = "HEALTHY"
           /\ computeIntegrationStatus = "CONFIGURED" => HasCredentials
  BY DEF computeIntegrationStatus, StatusWithAdapter, canMarkProviderReady, Statuses

\* The rows rest.
LEMMA RegistryRests ==
    ASSUME IInv, UNCHANGED <<row, capabilities, credentials>>,
           items' \in [Item -> {"absent", "on", "off"}]
    PROVE  RegistryRows' /\ RegistryGrows
<1>1. HasCredentials' <=> HasCredentials
  BY DEF HasCredentials
<1>2. TypeOK' /\ ReadyWasTested'
  BY <1>1 DEF IInv, TypeOK, ReadyWasTested, Statuses, Item
<1> QED
  BY <1>1, <1>2 DEF RegistryRows, RegistryGrows, Exists

\* The row changes: what it says stays sound when the new status was earned.
LEMMA RegistryStores ==
    ASSUME RegistryAssumption, IInv, Exists, UNCHANGED <<capabilities, credentials, items>>,
           NEW new \in ProviderRows, row' = new,
           row.health # "UNKNOWN" => new.health # "UNKNOWN",
           new.integration = "READY" => HasCredentials /\ new.health # "UNKNOWN"
    PROVE  RegistryRows' /\ RegistryGrows
<1>1. HasCredentials' <=> HasCredentials
  BY DEF HasCredentials
<1>2. new # NoRow
  BY DEF ProviderRows, NoRow
<1>3. TypeOK'
  BY <1>2 DEF IInv, TypeOK, ProviderRows, Statuses, Item
<1>4. ReadyWasTested'
  BY <1>1 DEF ReadyWasTested
<1> QED
  BY <1>1, <1>2, <1>3, <1>4 DEF RegistryRows, RegistryGrows, Exists

\* A stored provider that is ready has credentials and was tested.
LEMMA RowStored ==
    ASSUME IInv, Exists
    PROVE  /\ row \in ProviderRows
           /\ row.integration = "READY" => HasCredentials /\ row.health # "UNKNOWN"
  BY DEF IInv, TypeOK, Exists, ProviderRows, ReadyWasTested

\* A request that is taken, that ends, and that goes on.
LEMMA RegistryTakes ==
    ASSUME RegistryAssumption, IInv, RegistryRows', RegistryGrows, NEW a \in Admin,
           NEW new \in Requests, Take(a, new), RequestHolds(new)'
    PROVE  IInv'
<1>1. served' \in 0 .. MaxRequests
  BY RegistryTypes DEF Take
<1> QED
  BY <1>1, RegistryMoves DEF Take

\* A request is answered.
LEMMA RegistryAnswers ==
    ASSUME RegistryAssumption, IInv, RegistryRows', RegistryGrows, NEW a \in Admin,
           NEW answer \in {"none", "error", "detail", "done"},
           Take(a, Idle(answer)) \/ (Done(a, answer) /\ UNCHANGED served)
    PROVE  IInv'
<1>1. PICK new \in Requests : new = Idle(answer) /\ new.pc = "idle"
  BY IdleRequest
<1>2. served' \in 0 .. MaxRequests /\ req' = [req EXCEPT ![a] = new]
  BY <1>1, RegistryTypes DEF Take, Done
<1>3. RequestHolds(new)'
  BY <1>1 DEF RequestHolds
<1> QED
  BY <1>1, <1>2, <1>3, RegistryMoves

\* A request goes on to compute the status, or to test the connection.
LEMMA RegistryRefreshes ==
    ASSUME RegistryAssumption, IInv, RegistryRows', RegistryGrows, NEW a \in Admin, Exists',
           NEW pc \in {"refresh", "test"},
           Take(a, Start(pc)) \/ (req' = [req EXCEPT ![a] = Start(pc)] /\ UNCHANGED served)
    PROVE  IInv'
<1>1. PICK new \in Requests : new = Start(pc) /\ new.pc = pc /\ new.answer = "none"
  BY StartRequest DEF Pcs
<1>2. served' \in 0 .. MaxRequests /\ req' = [req EXCEPT ![a] = new]
  BY <1>1, RegistryTypes DEF Take
<1>3. RequestHolds(new)'
  BY <1>1 DEF RequestHolds
<1> QED
  BY <1>1, <1>2, <1>3, RegistryMoves

\* Requests that only read and are taken.
LEMMA RegistryTaken ==
    ASSUME RegistryAssumption, IInv, NEW a \in Admin,
           \/ CreateProvider(a) \/ UpdateProviderStatus(a) \/ UpsertCredentials(a)
           \/ TestConnection(a) \/ \E i \in Item : CreateItem(a, i)
    PROVE  IInv'
<1>1. /\ UNCHANGED <<row, capabilities, credentials, items>>
      /\ items \in [Item -> {"absent", "on", "off"}]
  BY RegistryTypes
  DEF CreateProvider, UpdateProviderStatus, UpsertCredentials, TestConnection, CreateItem
<1>2. RegistryRows' /\ RegistryGrows
  BY <1>1, RegistryRests
<1>3. Exists' <=> Exists
  BY <1>1 DEF Exists
<1>4. CASE Take(a, Idle("error"))
  BY <1>2, <1>4, RegistryAnswers
<1>5. CASE \E on \in BOOLEAN, caps \in SUBSET Capability :
              Take(a, [Start("create") EXCEPT !.on = on, !.caps = caps])
  <2>1. PICK on \in BOOLEAN, caps \in SUBSET Capability :
           Take(a, [Start("create") EXCEPT !.on = on, !.caps = caps])
    BY <1>5
  <2> DEFINE one == Start("create")
             new == [one EXCEPT !.on = on, !.caps = caps]
  <2>2. one \in Requests /\ one.pc = "create" /\ one.answer = "none"
    BY StartRequest DEF Pcs
  <2>3. Take(a, new)
    BY <2>1
  <2> HIDE DEF one
  <2>4. new \in Requests /\ new.pc = "create" /\ new.answer = "none"
    BY <2>2 DEF Requests
  <2> HIDE DEF new
  <2>5. PICK u \in Requests : u = new
    BY <2>4
  <2>6. RequestHolds(u)'
    BY <2>4, <2>5 DEF RequestHolds
  <2> QED
    BY <1>2, <2>3, <2>5, <2>6, RegistryTakes
<1>6. CASE /\ Exists
           /\ \E status \in {"ACTIVE", "INACTIVE", "SUSPENDED"}, on \in BOOLEAN :
                 Take(a, [Start("status") EXCEPT !.on = on, !.integration = status])
  <2>1. PICK status \in {"ACTIVE", "INACTIVE", "SUSPENDED"}, on \in BOOLEAN :
           Take(a, [Start("status") EXCEPT !.on = on, !.integration = status])
    BY <1>6
  <2> DEFINE one == Start("status")
             new == [one EXCEPT !.on = on, !.integration = status]
  <2>2. one \in Requests /\ one.pc = "status" /\ one.answer = "none"
    BY StartRequest DEF Pcs
  <2>3. Take(a, new)
    BY <2>1
  <2> HIDE DEF one
  <2>4. /\ new \in Requests /\ new.pc = "status" /\ new.answer = "none"
        /\ new.integration = status
    BY <2>2 DEF Requests
  <2> HIDE DEF new
  <2>5. PICK u \in Requests : u = new
    BY <2>4
  <2>6. RequestHolds(u)'
    BY <1>3, <1>6, <2>4, <2>5 DEF RequestHolds
  <2> QED
    BY <1>2, <2>3, <2>5, <2>6, RegistryTakes
<1>7. CASE /\ Exists
           /\ \E fields \in (SUBSET Field) \ {{}} :
                 Take(a, [Start("credentials") EXCEPT !.fields = fields,
                       !.gone = [f \in Field |-> IF f \in fields THEN credentials[f] ELSE {}],
                       !.number = served + 1])
  <2>1. PICK fields \in (SUBSET Field) \ {{}} :
           Take(a, [Start("credentials") EXCEPT !.fields = fields,
                       !.gone = [f \in Field |-> IF f \in fields THEN credentials[f] ELSE {}],
                       !.number = served + 1])
    BY <1>7
  <2> DEFINE one == Start("credentials")
             dropped == [f \in Field |-> IF f \in fields THEN credentials[f] ELSE {}]
             new == [one EXCEPT !.fields = fields, !.gone = dropped, !.number = served + 1]
  <2>2. one \in Requests /\ one.pc = "credentials" /\ one.answer = "none"
    BY StartRequest DEF Pcs
  <2>3. /\ dropped \in [Field -> SUBSET (1 .. MaxRequests)]
        /\ \A f \in Field \ fields : dropped[f] = {}
    BY RegistryTypes
  <2>4. Take(a, new)
    BY <2>1
  <2>5. served < MaxRequests
    BY <2>1 DEF Take
  <2>6. served + 1 \in 0 .. MaxRequests /\ served + 1 # 0
    BY <2>5, RegistryTypes
  <2> HIDE DEF one, dropped
  <2>7. /\ new \in Requests /\ new.pc = "credentials" /\ new.answer = "none"
        /\ new.fields = fields /\ new.gone = dropped /\ new.number = served + 1
    BY <2>2, <2>3, <2>6 DEF Requests
  <2> HIDE DEF new
  <2>8. PICK u \in Requests : u = new
    BY <2>7
  <2>9. RequestHolds(u)'
    BY <1>3, <1>7, <2>3, <2>6, <2>7, <2>8 DEF RequestHolds
  <2> QED
    BY <1>2, <2>4, <2>8, <2>9, RegistryTakes
<1>8. CASE Exists /\ Take(a, Start("test"))
  BY <1>2, <1>3, <1>8, RegistryRefreshes
<1>9. CASE Exists /\ \E i \in Item : Take(a, [Start("item") EXCEPT !.item = i])
  <2>1. PICK i \in Item : Take(a, [Start("item") EXCEPT !.item = i])
    BY <1>9
  <2> DEFINE one == Start("item")
             new == [one EXCEPT !.item = i]
  <2>2. one \in Requests /\ one.pc = "item" /\ one.answer = "none"
    BY StartRequest DEF Pcs
  <2>3. Take(a, new)
    BY <2>1
  <2> HIDE DEF one
  <2>4. new \in Requests /\ new.pc = "item" /\ new.answer = "none" /\ new.item = i
    BY <2>2 DEF Requests
  <2> HIDE DEF new
  <2>5. PICK u \in Requests : u = new
    BY <2>4
  <2>6. RequestHolds(u)'
    BY <1>3, <1>9, <2>4, <2>5 DEF RequestHolds, Item
  <2> QED
    BY <1>2, <2>3, <2>5, <2>6, RegistryTakes
<1>10. CASE CreateProvider(a)
  <2>1. \E on \in BOOLEAN, caps \in SUBSET Capability :
           \/ Take(a, Idle("error"))
           \/ Take(a, [Start("create") EXCEPT !.on = on, !.caps = caps])
    BY <1>10 DEF CreateProvider
  <2> QED
    BY <2>1, <1>4, <1>5
<1>11. CASE UpdateProviderStatus(a)
  <2>1. \E status \in {"ACTIVE", "INACTIVE", "SUSPENDED"}, on \in BOOLEAN :
           \/ Take(a, Idle("error"))
           \/ Exists /\ Take(a, [Start("status") EXCEPT !.on = on, !.integration = status])
    BY <1>11 DEF UpdateProviderStatus
  <2> QED
    BY <2>1, <1>4, <1>6
<1>12. CASE UpsertCredentials(a)
  <2>1. \E fields \in (SUBSET Field) \ {{}} :
           \/ Take(a, Idle("error"))
           \/ /\ Exists
              /\ Take(a, [Start("credentials") EXCEPT !.fields = fields,
                       !.gone = [f \in Field |-> IF f \in fields THEN credentials[f] ELSE {}],
                       !.number = served + 1])
    BY <1>12 DEF UpsertCredentials
  <2> QED
    BY <2>1, <1>4, <1>7
<1>13. CASE TestConnection(a)
  BY <1>4, <1>8, <1>13 DEF TestConnection
<1>14. CASE \E i \in Item : CreateItem(a, i)
  <2>1. \E i \in Item : \/ Take(a, Idle("error"))
                        \/ Exists /\ Take(a, [Start("item") EXCEPT !.item = i])
    BY <1>14 DEF CreateItem
  <2> QED
    BY <2>1, <1>4, <1>9
<1> QED
  BY <1>10, <1>11, <1>12, <1>13, <1>14

\* The insert.
LEMMA RegistryInserts ==
    ASSUME RegistryAssumption, IInv, NEW a \in Admin, InsertProvider(a)
    PROVE  IInv'
<1>1. req[a].pc = "create" /\ UNCHANGED <<credentials, items, served>>
  BY DEF InsertProvider
<1>2. CASE Done(a, "error") /\ UNCHANGED <<row, capabilities>>
  BY <1>1, <1>2, RegistryTypes, RegistryRests, RegistryAnswers
<1>3. CASE /\ ~Exists /\ capabilities' = req[a].caps /\ Goto(a, "refresh")
           /\ \E orchestration \in BOOLEAN :
                 row' = [enabled |-> req[a].on, orchestration |-> orchestration,
                         status |-> IF req[a].on THEN "ACTIVE" ELSE "INACTIVE",
                         health |-> "UNKNOWN", integration |-> "NOT_CONFIGURED"]
  <2>1. req[a] \in Requests /\ RequestHolds(req[a]) /\ req[a].answer = "none"
    BY <1>1, RegistryTypes DEF RequestHolds
  <2>2. /\ row' \in ProviderRows /\ row'.integration = "NOT_CONFIGURED"
        /\ capabilities' \in SUBSET Capability
    BY <1>3, <2>1 DEF ProviderRows, Requests, Statuses
  <2>3. row' # NoRow
    BY <2>2 DEF ProviderRows, NoRow
  <2>4. RegistryRows'
    BY <1>1, <2>2, <2>3
    DEF RegistryRows, TypeOK, ReadyWasTested, IInv, ProviderRows, Statuses, Item
  <2>5. RegistryGrows /\ Exists'
    BY <1>1, <1>3, <2>3 DEF RegistryGrows, Exists, HasCredentials
  <2> DEFINE new == [req[a] EXCEPT !.pc = "refresh"]
  <2>6. new \in Requests /\ new.pc = "refresh" /\ new.answer = "none"
    BY <2>1 DEF Requests
  <2>7. req' = [req EXCEPT ![a] = new]
    BY <1>3 DEF Goto
  <2> HIDE DEF new
  <2>8. PICK u \in Requests : u = new
    BY <2>6
  <2>9. RequestHolds(u)'
    BY <2>5, <2>6, <2>8 DEF RequestHolds
  <2>10. served' \in 0 .. MaxRequests
    BY <1>1, RegistryTypes
  <2> QED
    BY <2>4, <2>5, <2>7, <2>8, <2>9, <2>10, RegistryMoves
<1> QED
  BY <1>2, <1>3 DEF InsertProvider

\* Changes of the row.
LEMMA RegistryUpdates ==
    ASSUME RegistryAssumption, IInv, NEW a \in Admin, UpdateProvider(a)
    PROVE  IInv'
<1>1. PICK orchestration \in BOOLEAN :
         /\ Take(a, IF Exists THEN Start("refresh") ELSE Idle("error"))
         /\ row' = IF Exists THEN [row EXCEPT !.orchestration = orchestration] ELSE row
         /\ UNCHANGED <<capabilities, credentials, items>>
  BY DEF UpdateProvider
<1>2. CASE ~Exists
  BY <1>1, <1>2, RegistryTypes, RegistryRests, RegistryAnswers
<1>3. CASE Exists
  <2> DEFINE new == [row EXCEPT !.orchestration = orchestration]
  <2>1. /\ row \in ProviderRows
        /\ row.integration = "READY" => HasCredentials /\ row.health # "UNKNOWN"
    BY <1>3, RowStored
  <2>2. /\ new \in ProviderRows /\ new.health = row.health
        /\ new.integration = row.integration
    BY <2>1 DEF ProviderRows
  <2>3. row' = new
    BY <1>1, <1>3
  <2> HIDE DEF new
  <2>4. RegistryRows' /\ RegistryGrows
    BY <1>1, <1>3, <2>1, <2>2, <2>3, RegistryStores
  <2> QED
    BY <1>1, <1>3, <2>4, RegistryRefreshes DEF RegistryGrows
<1> QED
  BY <1>2, <1>3

\* The operational status of the provider is stored.
LEMMA RegistryStoresStatus ==
    ASSUME RegistryAssumption, IInv, NEW a \in Admin, StoreStatus(a)
    PROVE  IInv'
<1> DEFINE new == [row EXCEPT !.status = req[a].integration, !.enabled = req[a].on]
<1>1. /\ req[a].pc = "status" /\ row' = new
      /\ req' = [req EXCEPT ![a] = Start("refresh")]
      /\ UNCHANGED <<capabilities, credentials, items, served>>
  BY DEF StoreStatus
<1>2. /\ Exists /\ req[a].on \in BOOLEAN
      /\ req[a].integration \in {"ACTIVE", "INACTIVE", "SUSPENDED"}
  BY <1>1, RegistryTypes DEF RequestHolds, Requests
<1>3. /\ row \in ProviderRows
      /\ row.integration = "READY" => HasCredentials /\ row.health # "UNKNOWN"
  BY <1>2, RowStored
<1>4. /\ new \in ProviderRows /\ new.health = row.health /\ new.integration = row.integration
  BY <1>2, <1>3 DEF ProviderRows
<1> HIDE DEF new
<1>5. RegistryRows' /\ RegistryGrows
  BY <1>1, <1>2, <1>3, <1>4, RegistryStores
<1> QED
  BY <1>1, <1>2, <1>5, RegistryRefreshes DEF RegistryGrows

\* The computed integration status is written.
LEMMA RegistryWrites ==
    ASSUME RegistryAssumption, IInv, NEW a \in Admin, WriteStatus(a)
    PROVE  IInv'
<1> DEFINE new == [row EXCEPT !.integration = req[a].integration]
<1>1. /\ req[a].pc = "write" /\ row' = new /\ Done(a, "detail")
      /\ UNCHANGED <<capabilities, credentials, items, served>>
  BY DEF WriteStatus
<1>2. /\ Exists /\ req[a].integration \in Statuses
      /\ req[a].integration = "READY" => HasCredentials /\ row.health # "UNKNOWN"
  BY <1>1, RegistryTypes DEF RequestHolds
<1>3. row \in ProviderRows
  BY <1>2, RowStored
<1>4. /\ new \in ProviderRows /\ new.health = row.health
      /\ new.integration = req[a].integration
  BY <1>2, <1>3 DEF ProviderRows
<1> HIDE DEF new
<1>5. RegistryRows' /\ RegistryGrows
  BY <1>1, <1>2, <1>4, RegistryStores
<1> QED
  BY <1>1, <1>5, RegistryAnswers

\* The result of the test is stored, with the status it gives.
LEMMA RegistryStoresResult ==
    ASSUME RegistryAssumption, IInv, NEW a \in Admin, StoreResult(a)
    PROVE  IInv'
<1> DEFINE tested == IF req[a].on THEN "HEALTHY" ELSE "UNHEALTHY"
           new == [row EXCEPT !.health = tested, !.integration = req[a].integration]
<1>1. /\ req[a].pc = "record" /\ row' = new /\ Done(a, "detail")
      /\ UNCHANGED <<capabilities, credentials, items, served>>
  BY DEF StoreResult
<1>2. /\ Exists /\ req[a].integration \in Statuses
      /\ req[a].integration = "READY" => HasCredentials
  BY <1>1, RegistryTypes DEF RequestHolds
<1>3. row \in ProviderRows /\ tested \in {"HEALTHY", "UNHEALTHY"}
  BY <1>2, RowStored
<1> HIDE DEF tested
<1>4. /\ new \in ProviderRows /\ new.health = tested
      /\ new.integration = req[a].integration
  BY <1>2, <1>3 DEF ProviderRows
<1> HIDE DEF new
<1>5. RegistryRows' /\ RegistryGrows
  BY <1>1, <1>2, <1>3, <1>4, RegistryStores
<1> QED
  BY <1>1, <1>5, RegistryAnswers

\* Credentials are replaced at once, so that no field is ever without.
LEMMA RegistryCommits ==
    ASSUME RegistryAssumption, IInv, NEW a \in Admin, CommitCredentials(a)
    PROVE  IInv' /\ \A f \in Field : credentials[f] # {} => credentials'[f] # {}
<1>1. /\ req[a].pc = "credentials" /\ UNCHANGED <<row, capabilities, items, served>>
      /\ req' = [req EXCEPT ![a] = Start("refresh")]
      /\ credentials' = [f \in Field |-> (credentials[f] \ req[a].gone[f])
                              \cup IF f \in req[a].fields THEN {req[a].number} ELSE {}]
  BY DEF CommitCredentials
<1>2. /\ Exists /\ req[a].number # 0 /\ \A f \in Field \ req[a].fields : req[a].gone[f] = {}
      /\ req[a] \in Requests
  BY <1>1, RegistryTypes DEF RequestHolds
<1>3. req[a].number \in 1 .. MaxRequests /\ req[a].fields \in SUBSET Field
  BY <1>2, RegistryTypes DEF Requests
<1>4. credentials \in [Field -> SUBSET (1 .. MaxRequests)]
  BY RegistryTypes
<1>5. \A f \in Field : credentials'[f] = (credentials[f] \ req[a].gone[f])
                              \cup IF f \in req[a].fields THEN {req[a].number} ELSE {}
  BY <1>1
<1>6. \A f \in Field : credentials[f] # {} => credentials'[f] # {}
  BY <1>2, <1>5
<1>7. credentials' \in [Field -> SUBSET (1 .. MaxRequests)]
  <2>1. \A f \in Field : (credentials[f] \ req[a].gone[f])
             \cup (IF f \in req[a].fields THEN {req[a].number} ELSE {}) \in SUBSET (1 .. MaxRequests)
    BY <1>3, <1>4
  <2> QED
    BY <1>1, <2>1
<1>8. HasCredentials => HasCredentials'
  BY <1>6 DEF HasCredentials
<1>9. Exists' /\ RegistryGrows
  BY <1>1, <1>2, <1>8 DEF RegistryGrows, Exists
<1>10. RegistryRows'
  BY <1>1, <1>2, <1>7, <1>8
  DEF RegistryRows, TypeOK, ReadyWasTested, IInv, Exists, Statuses, Item
<1> QED
  BY <1>1, <1>6, <1>9, <1>10, RegistryRefreshes

\* Capabilities come and go.
LEMMA RegistryCapabilities ==
    ASSUME RegistryAssumption, IInv, NEW a \in Admin,
           ReplaceCapabilities(a) \/ CreateCapabilities(a)
    PROVE  IInv'
<1>1. UNCHANGED <<row, credentials, items>>
  BY DEF ReplaceCapabilities, CreateCapabilities
<1>2. RegistryGrows /\ (Exists' <=> Exists) /\ (HasCredentials' <=> HasCredentials)
  BY <1>1 DEF RegistryGrows, Exists, HasCredentials
<1>3. capabilities' \in SUBSET Capability /\ (~Exists => capabilities' = {})
  <2>1. capabilities \in SUBSET Capability /\ (~Exists => capabilities = {})
    BY RegistryTypes DEF Exists
  <2>2. CASE ReplaceCapabilities(a)
    BY <2>1, <2>2 DEF ReplaceCapabilities
  <2>3. CASE CreateCapabilities(a)
    <3>1. Exists /\ req[a] \in Requests
      BY <2>3, RegistryTypes DEF CreateCapabilities, RequestHolds
    <3> QED
      BY <2>1, <2>3, <3>1 DEF CreateCapabilities, Requests
  <2> QED
    BY <2>2, <2>3
<1>4. RegistryRows'
  BY <1>1, <1>2, <1>3
  DEF RegistryRows, TypeOK, ReadyWasTested, IInv, Exists, Statuses, Item
<1>5. CASE Take(a, Idle("error")) \/ (Done(a, "error") /\ UNCHANGED served)
  BY <1>2, <1>4, <1>5, RegistryAnswers
<1>6. CASE /\ Exists
           /\ \E caps \in SUBSET Capability, twice \in BOOLEAN :
                 Take(a, [Start("capabilities") EXCEPT !.caps = caps, !.twice = twice])
  <2>1. PICK caps \in SUBSET Capability, twice \in BOOLEAN :
           Take(a, [Start("capabilities") EXCEPT !.caps = caps, !.twice = twice])
    BY <1>6
  <2> DEFINE one == Start("capabilities")
             new == [one EXCEPT !.caps = caps, !.twice = twice]
  <2>2. one \in Requests /\ one.pc = "capabilities" /\ one.answer = "none"
    BY StartRequest DEF Pcs
  <2>3. Take(a, new)
    BY <2>1
  <2> HIDE DEF one
  <2>4. new \in Requests /\ new.pc = "capabilities" /\ new.answer = "none"
    BY <2>2 DEF Requests
  <2> HIDE DEF new
  <2>5. PICK u \in Requests : u = new
    BY <2>4
  <2>6. RequestHolds(u)'
    BY <1>2, <1>6, <2>4, <2>5 DEF RequestHolds
  <2> QED
    BY <1>2, <1>4, <2>3, <2>5, <2>6, RegistryTakes
<1>7. CASE Exists /\ req' = [req EXCEPT ![a] = Start("refresh")] /\ UNCHANGED served
  BY <1>2, <1>4, <1>7, RegistryRefreshes
<1>8. CASE ReplaceCapabilities(a)
  <2>1. \E caps \in SUBSET Capability, twice \in BOOLEAN :
           \/ Take(a, Idle("error"))
           \/ /\ Exists
              /\ Take(a, [Start("capabilities") EXCEPT !.caps = caps, !.twice = twice])
    BY <1>8 DEF ReplaceCapabilities
  <2> QED
    BY <2>1, <1>5, <1>6
<1>9. CASE CreateCapabilities(a)
  <2>1. Exists
    BY <1>9, RegistryTypes DEF CreateCapabilities, RequestHolds
  <2>2. \/ Done(a, "error") /\ UNCHANGED served
        \/ req' = [req EXCEPT ![a] = Start("refresh")] /\ UNCHANGED served
    BY <1>9 DEF CreateCapabilities
  <2> QED
    BY <2>1, <2>2, <1>5, <1>7
<1> QED
  BY <1>8, <1>9

\* A status is computed, to be stored later.
LEMMA RegistryComputes ==
    ASSUME RegistryAssumption, IInv, NEW a \in Admin, ReadStatus(a) \/ RecordResult(a)
    PROVE  IInv'
<1>1. UNCHANGED <<row, capabilities, credentials, items, served>> /\ Exists
      /\ req[a] \in Requests /\ req[a].answer = "none"
      /\ items \in [Item -> {"absent", "on", "off"}] /\ served \in 0 .. MaxRequests
      /\ row \in ProviderRows
  BY RegistryTypes, RowStored DEF ReadStatus, RecordResult, RequestHolds
<1>2. RegistryRows' /\ RegistryGrows
  BY <1>1, RegistryRests
<1>3. Exists' /\ (HasCredentials' <=> HasCredentials)
  BY <1>1 DEF Exists, HasCredentials
<1>4. CASE Done(a, "detail")
  BY <1>1, <1>2, <1>4, RegistryAnswers
<1>5. CASE req' = [req EXCEPT ![a].pc = "write", ![a].integration = StatusWithAdapter(row.health)]
  <2> DEFINE one == StatusWithAdapter(row.health)
             new == [req[a] EXCEPT !.pc = "write", !.integration = one]
  <2>1. /\ one \in Statuses
        /\ one = "READY" => HasCredentials /\ row.health = "HEALTHY"
    BY StatusComputed
  <2>2. req' = [req EXCEPT ![a] = new]
    <3>1. req \in [Admin -> Requests]
      BY RegistryTypes
    <3> QED
      BY <1>5, <3>1
  <2> HIDE DEF one
  <2>3. /\ new \in Requests /\ new.pc = "write" /\ new.integration = one
        /\ new.answer = "none"
    BY <1>1, <2>1 DEF Requests
  <2> HIDE DEF new
  <2>4. PICK u \in Requests : u = new
    BY <2>3
  <2>5. RequestHolds(u)'
    BY <1>1, <1>3, <2>1, <2>3, <2>4 DEF RequestHolds
  <2> QED
    BY <1>1, <1>2, <2>2, <2>4, <2>5, RegistryMoves
<1>6. CASE \E connected \in BOOLEAN :
              req' = [req EXCEPT ![a].pc = "record", ![a].on = connected,
                              ![a].integration = IF connected THEN StatusWithAdapter("HEALTHY")
                                                 ELSE computeIntegrationStatus]
  <2>1. PICK connected \in BOOLEAN :
           req' = [req EXCEPT ![a].pc = "record", ![a].on = connected,
                              ![a].integration = IF connected THEN StatusWithAdapter("HEALTHY")
                                                 ELSE computeIntegrationStatus]
    BY <1>6
  <2> DEFINE one == IF connected THEN StatusWithAdapter("HEALTHY") ELSE computeIntegrationStatus
             new == [req[a] EXCEPT !.pc = "record", !.on = connected, !.integration = one]
  <2>2. one \in Statuses /\ (one = "READY" => HasCredentials)
    BY StatusComputed DEF Statuses
  <2>3. req' = [req EXCEPT ![a] = new]
    <3>1. req \in [Admin -> Requests]
      BY RegistryTypes
    <3> QED
      BY <2>1, <3>1
  <2> HIDE DEF one
  <2>4. /\ new \in Requests /\ new.pc = "record" /\ new.integration = one
        /\ new.answer = "none"
    BY <1>1, <2>2 DEF Requests
  <2> HIDE DEF new
  <2>5. PICK u \in Requests : u = new
    BY <2>4
  <2>6. RequestHolds(u)'
    BY <1>3, <2>2, <2>4, <2>5 DEF RequestHolds
  <2> QED
    BY <1>1, <1>2, <2>3, <2>5, <2>6, RegistryMoves
<1> QED
  BY <1>4, <1>5, <1>6 DEF ReadStatus, RecordResult

\* Services and vehicles, and requests that die.
LEMMA RegistryItems ==
    ASSUME RegistryAssumption, IInv, NEW a \in Admin,
           \/ InsertItem(a) \/ (\E s \in Service : UpdateService(a, s))
           \/ (\E v \in Vehicle : UpdateVehicle(a, v)) \/ Crash(a)
    PROVE  IInv'
<1>1. /\ items \in [Item -> {"absent", "on", "off"}] /\ req[a] \in Requests
      /\ RequestHolds(req[a])
  BY RegistryTypes
<1>2. UNCHANGED <<row, capabilities, credentials>>
  BY DEF InsertItem, UpdateService, UpdateVehicle, Crash
<1>3. items' \in [Item -> {"absent", "on", "off"}]
  BY <1>1 DEF InsertItem, UpdateService, UpdateVehicle, Crash
<1>4. RegistryRows' /\ RegistryGrows
  BY <1>2, <1>3, RegistryRests
<1>5. \/ Take(a, Idle("done"))
      \/ \E answer \in {"none", "error", "done"} : Done(a, answer) /\ UNCHANGED served
  BY DEF InsertItem, UpdateService, UpdateVehicle, Crash
<1> QED
  BY <1>4, <1>5, RegistryAnswers

\* The initial states meet the invariant.
LEMMA RegistryStarts ==
    ASSUME RegistryAssumption, Init
    PROVE  IInv
<1>1. /\ row = NoRow /\ capabilities = {} /\ credentials = [f \in Field |-> {}]
      /\ items = [i \in Item |-> "absent"] /\ req = [a \in Admin |-> Idle("none")]
      /\ served = 0
  BY DEF Init
<1>2. ~HasCredentials /\ NoRow.integration = "none"
  BY <1>1 DEF HasCredentials, NoRow
<1>3. RegistryRows
  BY <1>1, <1>2 DEF RegistryRows, TypeOK, ReadyWasTested
<1>4. Idle("none") \in Requests /\ Idle("none").pc = "idle"
  BY IdleRequest
<1>5. RequestHolds(Idle("none"))
  BY <1>4 DEF RequestHolds
<1>6. RequestsTyped /\ RequestsHold
  BY <1>1, <1>4, <1>5 DEF RequestsTyped, RequestsHold, RegistryAssumption
<1> QED
  BY <1>3, <1>6, RegistryInvariant

\* Every step of an administrator keeps the invariant.
LEMMA RegistryInductive ==
    ASSUME RegistryAssumption, IInv, NEW a \in Admin, Step(a)
    PROVE  IInv'
<1>1. CASE \/ CreateProvider(a) \/ UpdateProviderStatus(a) \/ UpsertCredentials(a)
           \/ TestConnection(a) \/ \E i \in Item : CreateItem(a, i)
  BY <1>1, RegistryTaken
<1>2. CASE InsertProvider(a) \/ UpdateProvider(a) \/ StoreStatus(a) \/ WriteStatus(a)
           \/ StoreResult(a)
  BY <1>2, RegistryInserts, RegistryUpdates, RegistryStoresStatus, RegistryWrites,
     RegistryStoresResult
<1>3. CASE CommitCredentials(a) \/ ReplaceCapabilities(a) \/ CreateCapabilities(a)
           \/ ReadStatus(a) \/ RecordResult(a)
  BY <1>3, RegistryCommits, RegistryCapabilities, RegistryComputes
<1>4. CASE \/ InsertItem(a) \/ (\E s \in Service : UpdateService(a, s))
           \/ (\E v \in Vehicle : UpdateVehicle(a, v)) \/ Crash(a)
  BY <1>4, RegistryItems
<1> QED
  BY <1>1, <1>2, <1>3, <1>4 DEF Step

\* No step leaves a field without the credential it had.
LEMMA RegistryKeepsCredentials ==
    ASSUME RegistryAssumption, IInv, NEW a \in Admin, Step(a)
    PROVE  \A f \in Field : credentials[f] # {} => credentials'[f] # {}
<1>1. CASE CommitCredentials(a)
  BY <1>1, RegistryCommits
<1>2. CASE UNCHANGED credentials
  BY <1>2
<1>3. CommitCredentials(a) \/ UNCHANGED credentials
  BY DEF Step, CreateProvider, InsertProvider, UpdateProvider, UpdateProviderStatus, StoreStatus,
         UpsertCredentials, ReplaceCapabilities, CreateCapabilities, ReadStatus, WriteStatus,
         TestConnection, RecordResult, StoreResult, CreateItem, InsertItem, UpdateService,
         UpdateVehicle, Crash
<1> QED
  BY <1>1, <1>2, <1>3

\* From the invariant follows that who is eligible is usable.
LEMMA RegistryUsable ==
    ASSUME IInv
    PROVE  TypeOK /\ EligibleIsUsable
<1>1. TypeOK /\ ReadyWasTested
  BY DEF IInv
<1>2. isOrchestrationEligible => row \in ProviderRows
  BY <1>1 DEF isOrchestrationEligible, TypeOK, ProviderRows, NoRow
<1> QED
  BY <1>1, <1>2 DEF EligibleIsUsable, isOrchestrationEligible, ReadyWasTested, ProviderRows

\* Of requests one after the other: the step of one leaves the others idle, so what the next
\* state says is of that one.
LEMMA AloneStep ==
    ASSUME SettledAlone, NEW a \in Admin, \A b \in Admin \ {a} : req[b] = Idle("none"),
           \A b \in Admin \ {a} : req'[b] = req[b], Settled(a)'
    PROVE  SettledAlone'
<1>1. \A b \in Admin \ {a} : req'[b] = Idle("none")
  OBVIOUS
<1>2. Idle("none").pc = "idle" /\ Idle("none").answer = "none"
  BY DEF Idle
<1>3. Idle("none")' = Idle("none")
  BY DEF Idle
<1>4. \A b \in Admin \ {a} : Settled(b)'
  BY <1>1, <1>2 DEF Settled
<1>5. \A b, c \in Admin : b = c \/ req'[b] = Idle("none") \/ req'[c] = Idle("none")
  BY <1>1
<1>6. (\A b \in Admin : Settled(b))'
  BY <1>4
<1>7. (\A b, c \in Admin : b = c \/ req[b] = Idle("none") \/ req[c] = Idle("none"))'
  BY <1>3, <1>5
<1> QED
  BY <1>6, <1>7 DEF SettledAlone

\* A request that computes nothing and is not answered with a detail.
Boring(u) == u.pc \notin {"write", "record"} /\ u.answer # "detail"

\* A step to such a state keeps what holds of administrators one after the other.
LEMMA AloneBoring ==
    ASSUME RegistryAssumption, IInv, SettledAlone, NEW a \in Admin,
           \A b \in Admin \ {a} : req[b] = Idle("none"),
           NEW new, req' = [req EXCEPT ![a] = new], Boring(new)
    PROVE  SettledAlone'
<1>1. req \in [Admin -> Requests]
  BY RegistryTypes
<1>2. req'[a] = new /\ \A b \in Admin \ {a} : req'[b] = req[b]
  BY <1>1
<1>3. Settled(a)'
  BY <1>2 DEF Settled, Boring
<1> QED
  BY <1>2, <1>3, AloneStep

\* The records that requests start, go on and end with.
LEMMA BoringRequests ==
    ASSUME RegistryAssumption
    PROVE  /\ \A answer \in {"none", "error", "done"} : Boring(Idle(answer))
           /\ \A pc \in {"create", "refresh", "status", "credentials", "capabilities", "test",
                         "item"} : Boring(Start(pc))
  BY IdleRequest, StartRequest DEF Boring, Pcs


\* Nor do these.
LEMMA BoringVariants ==
    ASSUME RegistryAssumption, NEW on, NEW caps, NEW status, NEW fields, NEW dropped, NEW n,
           NEW twice, NEW i
    PROVE  /\ Boring([Start("create") EXCEPT !.on = on, !.caps = caps])
           /\ Boring([Start("status") EXCEPT !.on = on, !.integration = status])
           /\ Boring([Start("credentials") EXCEPT !.fields = fields, !.gone = dropped,
                                                  !.number = n])
           /\ Boring([Start("capabilities") EXCEPT !.caps = caps, !.twice = twice])
           /\ Boring([Start("item") EXCEPT !.item = i])
  BY DEF Boring, Start, Idle

\* The steps that begin a request.
LEMMA BoringTaken ==
    ASSUME RegistryAssumption, NEW a \in Admin,
           \/ CreateProvider(a) \/ UpdateProviderStatus(a) \/ UpsertCredentials(a)
           \/ ReplaceCapabilities(a) \/ \E i \in Item : CreateItem(a, i)
    PROVE  \E new : req' = [req EXCEPT ![a] = new] /\ Boring(new)
<1>1. Boring(Idle("error"))
  BY BoringRequests
<1>2. CASE CreateProvider(a)
  <2>1. PICK on \in BOOLEAN, caps \in SUBSET Capability :
           \/ Take(a, Idle("error"))
           \/ Take(a, [Start("create") EXCEPT !.on = on, !.caps = caps])
    BY <1>2 DEF CreateProvider
  <2>2. Boring([Start("create") EXCEPT !.on = on, !.caps = caps])
    BY BoringVariants
  <2> QED
    BY <1>1, <2>1, <2>2 DEF Take
<1>3. CASE UpdateProviderStatus(a)
  <2>1. PICK status \in {"ACTIVE", "INACTIVE", "SUSPENDED"}, on \in BOOLEAN :
           \/ Take(a, Idle("error"))
           \/ Take(a, [Start("status") EXCEPT !.on = on, !.integration = status])
    BY <1>3 DEF UpdateProviderStatus
  <2>2. Boring([Start("status") EXCEPT !.on = on, !.integration = status])
    BY BoringVariants
  <2> QED
    BY <1>1, <2>1, <2>2 DEF Take
<1>4. CASE UpsertCredentials(a)
  <2>1. PICK fields \in (SUBSET Field) \ {{}} :
           \/ Take(a, Idle("error"))
           \/ Take(a, [Start("credentials") EXCEPT !.fields = fields,
                       !.gone = [f \in Field |-> IF f \in fields THEN credentials[f] ELSE {}],
                       !.number = served + 1])
    BY <1>4 DEF UpsertCredentials
  <2> DEFINE dropped == [f \in Field |-> IF f \in fields THEN credentials[f] ELSE {}]
  <2> HIDE DEF dropped
  <2>2. \/ Take(a, Idle("error"))
        \/ Take(a, [Start("credentials") EXCEPT !.fields = fields, !.gone = dropped,
                                                !.number = served + 1])
    BY <2>1 DEF dropped
  <2>3. Boring([Start("credentials") EXCEPT !.fields = fields, !.gone = dropped,
                                            !.number = served + 1])
    BY BoringVariants
  <2> QED
    BY <1>1, <2>2, <2>3 DEF Take
<1>5. CASE ReplaceCapabilities(a)
  <2>1. PICK caps \in SUBSET Capability, twice \in BOOLEAN :
           \/ Take(a, Idle("error"))
           \/ Take(a, [Start("capabilities") EXCEPT !.caps = caps, !.twice = twice])
    BY <1>5 DEF ReplaceCapabilities
  <2>2. Boring([Start("capabilities") EXCEPT !.caps = caps, !.twice = twice])
    BY BoringVariants
  <2> QED
    BY <1>1, <2>1, <2>2 DEF Take
<1>6. CASE \E i \in Item : CreateItem(a, i)
  <2>1. PICK i \in Item : \/ Take(a, Idle("error"))
                          \/ Take(a, [Start("item") EXCEPT !.item = i])
    BY <1>6 DEF CreateItem
  <2>2. Boring([Start("item") EXCEPT !.item = i])
    BY BoringVariants
  <2> QED
    BY <1>1, <2>1, <2>2 DEF Take
<1> QED
  BY <1>2, <1>3, <1>4, <1>5, <1>6

\* The steps that go on without computing a status.
LEMMA BoringGone ==
    ASSUME RegistryAssumption, IInv, NEW a \in Admin,
           \/ InsertProvider(a) \/ UpdateProvider(a) \/ StoreStatus(a) \/ CommitCredentials(a)
           \/ CreateCapabilities(a) \/ TestConnection(a) \/ InsertItem(a)
           \/ (\E s \in Service : UpdateService(a, s))
           \/ (\E v \in Vehicle : UpdateVehicle(a, v)) \/ Crash(a)
    PROVE  \E new : req' = [req EXCEPT ![a] = new] /\ Boring(new)
<1>1. /\ \A answer \in {"none", "error", "done"} : Boring(Idle(answer))
      /\ Boring(Start("refresh")) /\ Boring(Start("test"))
  BY BoringRequests
<1>2. CASE \/ \E answer \in {"none", "error", "done"} : Take(a, Idle(answer)) \/ Done(a, answer)
           \/ Take(a, Start("refresh")) \/ Take(a, Start("test"))
           \/ req' = [req EXCEPT ![a] = Start("refresh")]
  BY <1>1, <1>2 DEF Take, Done
<1>3. CASE req[a].pc = "create" /\ Goto(a, "refresh")
  <2> DEFINE new == [req[a] EXCEPT !.pc = "refresh"]
  <2>1. req[a] \in Requests /\ req[a].answer = "none"
    BY <1>3, RegistryTypes DEF RequestHolds
  <2>2. req' = [req EXCEPT ![a] = new]
    BY <1>3 DEF Goto
  <2>3. Boring(new)
    BY <2>1 DEF Boring, Requests
  <2> HIDE DEF new
  <2> QED
    BY <2>2, <2>3
<1>4. CASE InsertProvider(a)
  <2>1. Done(a, "error") \/ (req[a].pc = "create" /\ Goto(a, "refresh"))
    BY <1>4 DEF InsertProvider
  <2> QED
    BY <2>1, <1>2, <1>3
<1>5. CASE \/ UpdateProvider(a) \/ StoreStatus(a) \/ CommitCredentials(a)
           \/ CreateCapabilities(a) \/ TestConnection(a)
  <2>1. \/ Take(a, Idle("error")) \/ Done(a, "error") \/ Take(a, Start("refresh"))
        \/ Take(a, Start("test")) \/ req' = [req EXCEPT ![a] = Start("refresh")]
    BY <1>5 DEF UpdateProvider, StoreStatus, CommitCredentials, CreateCapabilities,
                TestConnection
  <2> QED
    BY <2>1, <1>2
<1>6. CASE \/ InsertItem(a) \/ (\E s \in Service : UpdateService(a, s))
           \/ (\E v \in Vehicle : UpdateVehicle(a, v)) \/ Crash(a)
  <2>1. \E answer \in {"none", "error", "done"} : Take(a, Idle(answer)) \/ Done(a, answer)
    BY <1>6 DEF InsertItem, UpdateService, UpdateVehicle, Crash
  <2> QED
    BY <2>1, <1>2
<1> QED
  BY <1>4, <1>5, <1>6

\* What a request computed when nobody else ran is what it writes, and is so when it is
\* answered.
LEMMA AloneComputes ==
    ASSUME RegistryAssumption, IInv, SettledAlone, NEW a \in Admin,
           \A b \in Admin \ {a} : req[b] = Idle("none"),
           ReadStatus(a) \/ WriteStatus(a) \/ RecordResult(a) \/ StoreResult(a)
    PROVE  SettledAlone'
<1>1. /\ Exists /\ req[a] \in Requests /\ req[a].answer = "none"
      /\ req \in [Admin -> Requests] /\ row \in ProviderRows
  BY RegistryTypes, RowStored DEF ReadStatus, WriteStatus, RecordResult, StoreResult, RequestHolds
<1>2. /\ \A b \in Admin \ {a} : req'[b] = req[b]
  BY <1>1 DEF ReadStatus, WriteStatus, RecordResult, StoreResult, Done
<1>3. Idle("detail").pc = "idle" /\ Idle("detail").answer = "detail"
  BY DEF Idle
<1>4. Settled(a)
  BY DEF SettledAlone
<1>5. CASE ReadStatus(a) /\ Done(a, "detail")
  <2>1. UNCHANGED <<row, capabilities, credentials>> /\ req'[a] = Idle("detail")
        /\ row.integration = StatusWithAdapter(row.health)
    <3>1. row.integration = StatusWithAdapter(row.health) \/ req'[a].pc = "write"
      BY <1>1, <1>5 DEF ReadStatus, Requests
    <3>2. req'[a] = Idle("detail")
      BY <1>1, <1>5 DEF Done
    <3> QED
      BY <1>3, <1>5, <3>1, <3>2 DEF ReadStatus
  <2>2. Settled(a)'
    BY <1>3, <2>1
    DEF Settled, StatusWithAdapter, computeIntegrationStatus, canMarkProviderReady,
        HasCredentials
  <2> QED
    BY <1>2, <2>2, AloneStep
<1>6. CASE /\ ReadStatus(a)
           /\ req' = [req EXCEPT ![a].pc = "write",
                                 ![a].integration = StatusWithAdapter(row.health)]
  <2>1. /\ UNCHANGED <<row, capabilities, credentials>>
        /\ req'[a].pc = "write" /\ req'[a].integration = StatusWithAdapter(row.health)
        /\ req'[a].answer = "none"
    <3> DEFINE one == StatusWithAdapter(row.health)
    <3> HIDE DEF one
    <3>1. req' = [req EXCEPT ![a].pc = "write", ![a].integration = one]
      BY <1>6 DEF one
    <3>2. /\ req'[a].pc = "write" /\ req'[a].integration = one /\ req'[a].answer = "none"
      BY <1>1, <3>1 DEF Requests
    <3> QED
      BY <1>6, <3>2 DEF one, ReadStatus
  <2>2. Settled(a)'
    BY <2>1
    DEF Settled, StatusWithAdapter, computeIntegrationStatus, canMarkProviderReady,
        HasCredentials
  <2> QED
    BY <1>2, <2>2, AloneStep
<1>7. CASE WriteStatus(a)
  <2>1. /\ req[a].integration = StatusWithAdapter(row.health)
        /\ row' = [row EXCEPT !.integration = req[a].integration]
        /\ UNCHANGED <<capabilities, credentials>>
    BY <1>4, <1>7 DEF WriteStatus, Settled
  <2>2. /\ row'.integration = req[a].integration /\ row'.health = row.health
        /\ row'.enabled = row.enabled
    BY <1>1, <2>1 DEF ProviderRows
  <2>3. req'[a] = Idle("detail")
    BY <1>1, <1>7 DEF WriteStatus, Done
  <2>4. Settled(a)'
    BY <1>3, <2>1, <2>2, <2>3
    DEF Settled, StatusWithAdapter, computeIntegrationStatus, canMarkProviderReady,
        HasCredentials
  <2> QED
    BY <1>2, <2>4, AloneStep
<1>8. CASE RecordResult(a)
  <2>1. PICK connected \in BOOLEAN :
           req' = [req EXCEPT ![a].pc = "record", ![a].on = connected,
                              ![a].integration = IF connected THEN StatusWithAdapter("HEALTHY")
                                                 ELSE computeIntegrationStatus]
    BY <1>8 DEF RecordResult
  <2> DEFINE one == IF connected THEN StatusWithAdapter("HEALTHY") ELSE computeIntegrationStatus
  <2> HIDE DEF one
  <2>2. req' = [req EXCEPT ![a].pc = "record", ![a].on = connected, ![a].integration = one]
    BY <2>1 DEF one
  <2>3. /\ req'[a].pc = "record" /\ req'[a].integration = one /\ req'[a].answer = "none"
        /\ req'[a].on = connected
    BY <1>1, <2>2 DEF Requests
  <2>4. UNCHANGED <<row, capabilities, credentials>>
    BY <1>8 DEF RecordResult
  <2>5. Settled(a)'
    BY <2>3, <2>4
    DEF one, Settled, StatusWithAdapter, computeIntegrationStatus, canMarkProviderReady,
        HasCredentials
  <2> QED
    BY <1>2, <2>5, AloneStep
<1>9. CASE StoreResult(a)
  <2>1. /\ req[a].integration = IF req[a].on THEN StatusWithAdapter("HEALTHY")
                                ELSE computeIntegrationStatus
        /\ row' = [row EXCEPT !.health = IF req[a].on THEN "HEALTHY" ELSE "UNHEALTHY",
                              !.integration = req[a].integration]
        /\ UNCHANGED <<capabilities, credentials>>
    BY <1>4, <1>9 DEF StoreResult, Settled
  <2>2. /\ row'.integration = req[a].integration /\ row'.enabled = row.enabled
        /\ row'.health = IF req[a].on THEN "HEALTHY" ELSE "UNHEALTHY"
    BY <1>1, <2>1 DEF ProviderRows
  <2>3. req'[a] = Idle("detail")
    BY <1>1, <1>9 DEF StoreResult, Done
  <2>4. Settled(a)'
    BY <1>3, <2>1, <2>2, <2>3
    DEF Settled, StatusWithAdapter, computeIntegrationStatus, canMarkProviderReady,
        HasCredentials
  <2> QED
    BY <1>2, <2>4, AloneStep
<1> QED
  BY <1>5, <1>6, <1>7, <1>8, <1>9 DEF ReadStatus

\* Every step of administrators one after the other keeps it.
LEMMA AloneInductive ==
    ASSUME RegistryAssumption, IInv, SettledAlone, NEW a \in Admin, Step(a),
           \A b \in Admin \ {a} : req[b] = Idle("none")
    PROVE  SettledAlone'
<1>1. CASE \E new : req' = [req EXCEPT ![a] = new] /\ Boring(new)
  BY <1>1, AloneBoring
<1>2. CASE ReadStatus(a) \/ WriteStatus(a) \/ RecordResult(a) \/ StoreResult(a)
  BY <1>2, AloneComputes
<1>3. CASE \/ CreateProvider(a) \/ UpdateProviderStatus(a) \/ UpsertCredentials(a)
           \/ ReplaceCapabilities(a) \/ \E i \in Item : CreateItem(a, i)
  BY <1>1, <1>3, BoringTaken
<1>4. CASE \/ InsertProvider(a) \/ UpdateProvider(a) \/ StoreStatus(a) \/ CommitCredentials(a)
           \/ CreateCapabilities(a) \/ TestConnection(a) \/ InsertItem(a)
           \/ (\E s \in Service : UpdateService(a, s))
           \/ (\E v \in Vehicle : UpdateVehicle(a, v)) \/ Crash(a)
  BY <1>1, <1>4, BoringGone
<1> QED
  BY <1>2, <1>3, <1>4 DEF Step

\* The initial states have no request.
LEMMA AloneStarts ==
    ASSUME Init
    PROVE  SettledAlone
<1>1. Idle("none").pc = "idle" /\ Idle("none").answer = "none"
  BY DEF Idle
<1>2. \A a \in Admin : req[a] = Idle("none")
  BY DEF Init
<1> QED
  BY <1>1, <1>2 DEF SettledAlone, Settled

\* So the status that is answered is the one the configuration gives.
LEMMA AloneSettled ==
    ASSUME SettledAlone
    PROVE  AnsweredIsSettled
  BY DEF SettledAlone, Settled, AnsweredIsSettled

-----------------------------------------------------------------------------
(* ProviderEvaluation.                                                     *)

\* A configuration that resolves is that of a provider that is on, ready and has an adapter;
\* one that does not is reported with an error that is skipped.
LEMMA EvaluationResolves ==
    ASSUME NEW c \in Evaluation!Configurations, NEW op
    PROVE  /\ Evaluation!Resolution(c, op) = "none"
              => c.enabled /\ c.integration = "READY"
                 /\ c.kind \in {"executor", "probe", "hyperlocal"}
           /\ Evaluation!Resolution(c, op) # "none"
              => Evaluation!Resolution(c, op) \in Evaluation!Skippable
  BY DEF Evaluation!Resolution, Evaluation!Configurations, Evaluation!Skippable

\* An error is a skip or an error, and the latter is the provider's own.
LEMMA EvaluationThrows ==
    ASSUME NEW category,
           category \in Evaluation!Skippable \cup Evaluation!ProviderError
                            \cup {"PROVIDER_ADAPTER_ERROR"}
    PROVE  /\ Evaluation!ErrorOutcome(category).status \in {"SKIPPED", "ERROR"}
           /\ Evaluation!ErrorOutcome(category).status = "ERROR"
              => Evaluation!ErrorOutcome(category).category
                     \in Evaluation!ProviderError \cup {"PROVIDER_ADAPTER_ERROR"}
           /\ category # "none"
  BY DEF Evaluation!ErrorOutcome, Evaluation!Skippable, Evaluation!ProviderError

\* Nothing is an answer, too.
LEMMA EvaluationUnanswered == Evaluation!Unanswered \in Evaluation!Answers
  BY DEF Evaluation!Unanswered, Evaluation!Answers

\* A provider that is listed meets the invariant.
LEMMA EvaluationBegins ==
    ASSUME Evaluation!EvaluationAssumption, Evaluation!Init
    PROVE  Evaluation!IInv
<1>1. /\ listed \in Provider /\ parcel \in Delivery /\ configured = listed /\ stage = "listed"
      /\ replies = Evaluation!Unanswered /\ thrown = "none" /\ judged = Evaluation!NoOutcome
  BY DEF Evaluation!Init
<1>2. /\ Evaluation!NoOutcome.status = "none" /\ configured \in Evaluation!Configurations
  BY <1>1 DEF Evaluation!NoOutcome, Evaluation!EvaluationAssumption
<1>3. replies \in Evaluation!Answers
  BY <1>1, EvaluationUnanswered
<1>4. /\ Evaluation!TypeOK /\ Evaluation!EligibleCanDeliver /\ Evaluation!ErrorIsTheProviders
      /\ Evaluation!Checked
  BY <1>1, <1>2
  DEF Evaluation!TypeOK, Evaluation!EligibleCanDeliver,
      Evaluation!ErrorIsTheProviders, Evaluation!Checked
<1> QED
  BY <1>1, <1>2, <1>3, <1>4 DEF Evaluation!IInv

\* Before it is done an evaluation has neither an outcome nor an error.
LEMMA EvaluationOpen ==
    ASSUME Evaluation!IInv, stage # "done"
    PROVE  /\ judged = Evaluation!NoOutcome /\ thrown = "none"
           /\ judged.status = "none"
           /\ listed \in Provider /\ parcel \in Delivery
           /\ configured \in Evaluation!Configurations /\ configured.kind = listed.kind
  BY DEF Evaluation!IInv, Evaluation!TypeOK, Evaluation!NoOutcome

\* A step to another stage, with no outcome yet.
LEMMA EvaluationGoesOn ==
    ASSUME Evaluation!IInv, stage # "done",
           UNCHANGED <<listed, parcel, thrown, judged>>,
           stage' \in {"listed", "left", "resolve", "probe", "hyperlocal", "executor", "policy"},
           configured' \in Evaluation!Configurations, configured'.kind = listed.kind,
           replies' \in Evaluation!Answers, Evaluation!Checked'
    PROVE  Evaluation!IInv'
<1>1. judged' = Evaluation!NoOutcome /\ thrown' = "none" /\ judged'.status = "none"
      /\ listed' \in Provider /\ parcel' \in Delivery
  BY EvaluationOpen
<1> QED
  BY <1>1
  DEF Evaluation!IInv, Evaluation!TypeOK, Evaluation!EligibleCanDeliver,
      Evaluation!ErrorIsTheProviders, Evaluation!NoOutcome

\* An error ends the evaluation, before the provider has answered.
LEMMA EvaluationFails ==
    ASSUME Evaluation!IInv, stage \in {"resolve", "probe", "hyperlocal", "executor"},
           UNCHANGED <<listed, configured, parcel, replies>>, NEW category,
           category \in Evaluation!Skippable \cup Evaluation!ProviderError
                            \cup {"PROVIDER_ADAPTER_ERROR"},
           Evaluation!Throw(category)
    PROVE  Evaluation!IInv'
<1>1. /\ judged' = Evaluation!ErrorOutcome(category) /\ thrown' = category /\ stage' = "done"
  BY DEF Evaluation!Throw
<1>2. /\ judged'.status \in {"SKIPPED", "ERROR"}
      /\ judged'.status = "ERROR"
         => judged'.category \in Evaluation!ProviderError \cup {"PROVIDER_ADAPTER_ERROR"}
  BY <1>1, EvaluationThrows
<1>3. /\ listed \in Provider /\ parcel \in Delivery /\ replies = Evaluation!Unanswered
      /\ configured \in Evaluation!Configurations /\ configured.kind = listed.kind
  BY EvaluationOpen DEF Evaluation!IInv, Evaluation!Checked
<1>4. Evaluation!ErrorIsTheProviders' /\ Evaluation!EligibleCanDeliver'
  BY <1>2, <1>3 DEF Evaluation!ErrorIsTheProviders, Evaluation!EligibleCanDeliver,
     Evaluation!ProviderError
<1>5. Evaluation!TypeOK' /\ Evaluation!Checked'
  BY <1>1, <1>2, <1>3 DEF Evaluation!TypeOK, Evaluation!Checked
<1> QED
  BY <1>1, <1>3, <1>4, <1>5 DEF Evaluation!IInv

\* A provider is reconfigured while it is listed, or its evaluation starts with the weight
\* of the parcel.
LEMMA EvaluationListed ==
    ASSUME Evaluation!EvaluationAssumption, Evaluation!IInv,
           Evaluation!Reconfigure \/ Evaluation!Start
    PROVE  Evaluation!IInv'
<1>1. /\ stage = "listed" /\ UNCHANGED <<listed, parcel, replies, thrown>>
      /\ replies = Evaluation!Unanswered
  BY DEF Evaluation!Reconfigure, Evaluation!Start, Evaluation!IInv, Evaluation!Checked
<1>2. /\ judged = Evaluation!NoOutcome /\ listed \in Provider /\ parcel \in Delivery
      /\ configured \in Evaluation!Configurations /\ configured.kind = listed.kind
      /\ listed \in Evaluation!Configurations
  BY <1>1, EvaluationOpen DEF Evaluation!EvaluationAssumption
<1>3. CASE Evaluation!Reconfigure
  <2>1. configured' \in Evaluation!Configurations /\ configured'.kind = listed.kind
        /\ stage' = "listed" /\ UNCHANGED judged
    <3>1. \A b \in BOOLEAN : LET new == [listed EXCEPT !.enabled = b]
                            IN  new \in Evaluation!Configurations /\ new.kind = listed.kind
      BY <1>2 DEF Evaluation!Configurations
    <3>2. LET new == [listed EXCEPT !.integration = "CONFIGURED"]
          IN  new \in Evaluation!Configurations /\ new.kind = listed.kind
      BY <1>2 DEF Evaluation!Configurations
    <3>3. LET new == [listed EXCEPT !.capabilities = {"PRICING"}]
          IN  new \in Evaluation!Configurations /\ new.kind = listed.kind
      BY <1>2 DEF Evaluation!Configurations
    <3>4. configured' \in {[listed EXCEPT !.enabled = FALSE],
                           [listed EXCEPT !.integration = "CONFIGURED"],
                           [listed EXCEPT !.capabilities = {"PRICING"}]}
      BY <1>3 DEF Evaluation!Reconfigure
    <3>5. stage' = "listed" /\ UNCHANGED judged
      BY <1>3 DEF Evaluation!Reconfigure
    <3> QED
      BY <3>1, <3>2, <3>3, <3>4, <3>5
  <2>2. Evaluation!Checked'
    BY <1>1, <2>1 DEF Evaluation!Checked
  <2> QED
    BY <1>1, <2>1, <2>2, EvaluationGoesOn, EvaluationUnanswered
<1>4. CASE Evaluation!Start /\ stage' \in {"left", "resolve"} /\ UNCHANGED judged
  <2>1. UNCHANGED configured
        /\ (stage' = "resolve" => /\ Evaluation!WeightFits(listed, parcel.weight)
                                  /\ Evaluation!TypeFits(listed, parcel))
    BY <1>4 DEF Evaluation!Start, Evaluation!PreCheck
  <2>2. (Evaluation!Checked)'
    BY <1>1, <1>4, <2>1 DEF Evaluation!Checked, Evaluation!WeightFits, Evaluation!TypeFits
  <2> QED
    BY <1>1, <1>2, <1>4, <2>1, <2>2, EvaluationGoesOn, EvaluationUnanswered
<1>5. CASE /\ Evaluation!Start /\ stage' = "done"
           /\ judged' = [status |-> "INELIGIBLE", reasons |-> Evaluation!PreCheck(listed, parcel),
                         category |-> "none"]
  <2>1. judged'.status = "INELIGIBLE" /\ thrown' = "none" /\ UNCHANGED configured
    BY <1>1, <1>5, EvaluationOpen DEF Evaluation!Start
  <2>2. Evaluation!TypeOK' /\ Evaluation!Checked' /\ Evaluation!ErrorIsTheProviders'
        /\ Evaluation!EligibleCanDeliver'
    BY <1>1, <1>2, <1>5, <2>1
    DEF Evaluation!TypeOK, Evaluation!Checked, Evaluation!ErrorIsTheProviders,
        Evaluation!EligibleCanDeliver
  <2> QED
    BY <1>1, <1>2, <1>5, <2>1, <2>2 DEF Evaluation!IInv
<1> QED
  BY <1>3, <1>4, <1>5 DEF Evaluation!Start

\* The configuration of the adapter resolves, or the evaluation ends with an error.
LEMMA EvaluationResolve ==
    ASSUME Evaluation!EvaluationAssumption, Evaluation!IInv, Evaluation!Resolve
    PROVE  Evaluation!IInv'
<1>1. stage = "resolve" /\ UNCHANGED <<listed, configured, parcel, replies>>
  BY DEF Evaluation!Resolve
<1>2. /\ configured \in Evaluation!Configurations /\ configured.kind = listed.kind
      /\ replies = Evaluation!Unanswered
      /\ Evaluation!WeightFits(listed, parcel.weight) /\ Evaluation!TypeFits(listed, parcel)
  BY <1>1, EvaluationOpen DEF Evaluation!IInv, Evaluation!Checked
<1>3. CASE /\ Evaluation!Resolution(configured, "getQuote") # "none"
           /\ Evaluation!Throw(Evaluation!Resolution(configured, "getQuote"))
  <2>1. PICK category \in Evaluation!Skippable :
           category = Evaluation!Resolution(configured, "getQuote")
    BY <1>2, <1>3, EvaluationResolves
  <2> QED
    BY <1>1, <1>3, <2>1, EvaluationFails
<1>4. CASE /\ Evaluation!Resolution(configured, "getQuote") = "none"
           /\ stage' = configured.kind /\ UNCHANGED <<thrown, judged>>
  <2>1. stage' \in {"executor", "probe", "hyperlocal"}
    BY <1>2, <1>4, EvaluationResolves
  <2>2. (Evaluation!Checked)'
    BY <1>1, <1>2, <1>4, <2>1
    DEF Evaluation!Checked, Evaluation!WeightFits, Evaluation!TypeFits, Evaluation!Resolution
  <2> QED
    BY <1>1, <1>2, <1>4, <2>1, <2>2, EvaluationGoesOn, EvaluationUnanswered
<1> QED
  BY <1>3, <1>4 DEF Evaluation!Resolve

\* The provider answers, or a call of it throws.
LEMMA EvaluationAnswered ==
    ASSUME Evaluation!EvaluationAssumption, Evaluation!IInv,
           stage \in {"probe", "hyperlocal", "executor"}, stage' = "policy",
           UNCHANGED <<listed, configured, parcel, thrown, judged>>,
           replies' \in Evaluation!Answers
    PROVE  Evaluation!IInv'
<1>1. /\ configured \in Evaluation!Configurations /\ configured.kind = listed.kind
      /\ Evaluation!WeightFits(listed, parcel.weight) /\ Evaluation!TypeFits(listed, parcel)
      /\ Evaluation!Resolution(configured, "getQuote") = "none"
  BY EvaluationOpen DEF Evaluation!IInv, Evaluation!Checked
<1>2. (Evaluation!Checked)'
  BY <1>1
  DEF Evaluation!Checked, Evaluation!WeightFits, Evaluation!TypeFits, Evaluation!Resolution
<1> QED
  BY <1>1, <1>2, EvaluationGoesOn

\* The provider answers, one call after the other or all together.
LEMMA EvaluationCalls ==
    ASSUME Evaluation!EvaluationAssumption, Evaluation!IInv,
           Evaluation!CallDirectly \/ Evaluation!CallTogether
    PROVE  Evaluation!IInv'
<1>1. /\ stage \in {"probe", "hyperlocal", "executor"}
      /\ UNCHANGED <<listed, configured, parcel>>
      /\ configured \in Evaluation!Configurations /\ replies = Evaluation!Unanswered
  BY DEF Evaluation!CallDirectly, Evaluation!CallTogether, Evaluation!IInv, Evaluation!Checked
<1>2. CASE stage' = "policy" /\ UNCHANGED <<thrown, judged>>
  <2>1. replies' \in Evaluation!Answers
    <3>1. CASE Evaluation!CallDirectly
      <4>1. \E s \in {"serviceable", "unserviceable"},
               t \in {"unknown", "available", "unavailable"}, q \in {"quoted", "unavailable"},
               k \in {"known", "unknown"} :
               replies' = [checkServiceability |-> s, getAvailability |-> t,
                           getQuote |-> q, policy |-> k]
        BY <1>1, <1>2, <3>1
        DEF Evaluation!CallDirectly, Evaluation!Throw, Evaluation!Answer
      <4> QED
        BY <4>1 DEF Evaluation!Answers
    <3>2. CASE Evaluation!CallTogether
      <4>1. \E s \in {"none", "serviceable", "unserviceable"}, q \in {"quoted", "unavailable"},
            t \in {"unknown", "available", "unavailable"} :
               replies' = [replies EXCEPT !.getQuote = q, !.checkServiceability = s,
                                          !.getAvailability = t]
        <5>1. replies \in Evaluation!Answers
          BY <1>1, EvaluationUnanswered
        <5>2. \E s \in Evaluation!Answer("checkServiceability"), q \in Evaluation!Answer("getQuote"),
                 t \in Evaluation!Answer("getAvailability") :
                 replies' = [replies EXCEPT
                    !.getQuote = q,
                    !.checkServiceability =
                        IF "checkServiceability" \in Evaluation!Called(listed, configured)
                        THEN s ELSE @,
                    !.getAvailability =
                        IF "getAvailability" \in Evaluation!Called(listed, configured)
                        THEN t ELSE @]
          BY <1>2, <3>2 DEF Evaluation!CallTogether, Evaluation!Throw
        <5> QED
          BY ZenonT(30), <5>1, <5>2 DEF Evaluation!Answer, Evaluation!Answers
      <4> QED
        BY <1>1, <4>1, EvaluationUnanswered DEF Evaluation!Answers
    <3> QED
      BY <3>1, <3>2
  <2> QED
    BY <1>1, <1>2, <2>1, EvaluationAnswered
<1>3. CASE /\ UNCHANGED replies
           /\ \E e \in Evaluation!ProviderError : Evaluation!Throw(e)
  BY <1>1, <1>3, EvaluationFails
<1>4. CASE /\ UNCHANGED replies
           /\ \E op \in Evaluation!Called(listed, configured) :
                 \E e \in Evaluation!Failure(configured, op) : Evaluation!Throw(e)
  <2>1. PICK op : \E e \in Evaluation!Failure(configured, op) : Evaluation!Throw(e)
    BY <1>4
  <2>3. PICK e \in Evaluation!Failure(configured, op) : Evaluation!Throw(e)
    BY <2>1
  <2>2. e \in Evaluation!Skippable \cup {"PROVIDER_ADAPTER_ERROR"}
    BY <1>1, EvaluationResolves DEF Evaluation!Failure, Evaluation!Wrapped
  <2> QED
    BY <1>1, <1>4, <2>3, <2>2, EvaluationFails
<1> QED
  BY <1>2, <1>3, <1>4 DEF Evaluation!CallDirectly, Evaluation!CallTogether

\* Who is eligible has answered everything, and was checked before.
LEMMA EvaluationPolicy ==
    ASSUME Evaluation!EvaluationAssumption, Evaluation!IInv, Evaluation!ResolvePolicy
    PROVE  Evaluation!IInv'
<1>1. /\ stage = "policy" /\ stage' = "done" /\ UNCHANGED <<listed, configured, parcel, thrown>>
      /\ judged' = Evaluation!Outcome(replies')
  BY DEF Evaluation!ResolvePolicy
<1>2. /\ configured \in Evaluation!Configurations /\ configured.kind = listed.kind
      /\ listed \in Provider /\ parcel \in Delivery /\ thrown = "none"
      /\ Evaluation!WeightFits(listed, parcel.weight) /\ Evaluation!TypeFits(listed, parcel)
      /\ Evaluation!Resolution(configured, "getQuote") = "none"
      /\ replies \in Evaluation!Answers
  BY <1>1, EvaluationOpen DEF Evaluation!IInv, Evaluation!Checked
<1>3. \E k \in {"known", "unknown"} : replies' = [replies EXCEPT !.policy = k]
  BY <1>2 DEF Evaluation!ResolvePolicy, Evaluation!Answers
<1>4. replies' \in Evaluation!Answers
  BY <1>2, <1>3 DEF Evaluation!Answers
<1>5. /\ judged'.status \in {"INELIGIBLE", "ELIGIBLE"}
      /\ judged'.status = "ELIGIBLE"
         => /\ replies'.checkServiceability = "serviceable" /\ replies'.getQuote = "quoted"
            /\ replies'.getAvailability # "unavailable" /\ replies'.policy # "unknown"
  BY <1>1 DEF Evaluation!Outcome, Evaluation!Exclusions
<1>6. configured.enabled /\ configured.integration = "READY"
  BY <1>2, EvaluationResolves
<1>7. Evaluation!EligibleCanDeliver'
  BY <1>1, <1>2, <1>4, <1>5, <1>6
  DEF Evaluation!Answers, Evaluation!EligibleCanDeliver, Evaluation!WeightFits,
      Evaluation!TypeFits, Evaluation!Unset
<1>8. Evaluation!TypeOK' /\ Evaluation!Checked' /\ Evaluation!ErrorIsTheProviders'
  BY <1>1, <1>2, <1>5
  DEF Evaluation!TypeOK, Evaluation!Checked, Evaluation!ErrorIsTheProviders
<1> QED
  BY <1>1, <1>2, <1>4, <1>7, <1>8 DEF Evaluation!IInv

\* Every step of an evaluation keeps its invariant.
LEMMA EvaluationInductive ==
    ASSUME Evaluation!EvaluationAssumption, Evaluation!IInv, Evaluation!Next
    PROVE  Evaluation!IInv'
  BY EvaluationListed, EvaluationResolve, EvaluationCalls, EvaluationPolicy
  DEF Evaluation!Next

\* From the invariant follow the properties.
LEMMA EvaluationSound ==
    ASSUME Evaluation!IInv
    PROVE  Evaluation!TypeOK /\ Evaluation!EligibleCanDeliver /\ Evaluation!ErrorIsTheProviders
  BY DEF Evaluation!IInv

\* Cardinality is the same in the model of the requests.
LEMMA CreationCounts == \A S : Creation!Cardinality(S) = Cardinality(S)
  BY DEF Creation!Cardinality, Cardinality

\* The n-th element of a set of numbers is in it and has n - 1 before it.
LEMMA NthOfNumbers ==
    ASSUME NEW M \in Nat, NEW S \in SUBSET (1 .. M), NEW n \in 1 .. Cardinality(S)
    PROVE  /\ Creation!Nth(S, n) \in S
           /\ Cardinality({k \in S : k < Creation!Nth(S, n)}) = n - 1
<1>1. \E x \in S : Cardinality({k \in S : k < x}) = n - 1
  BY EveryPlaceIsTaken
<1>2. \E x \in S : Creation!Cardinality({k \in S : k < x}) = n - 1
  BY <1>1, CreationCounts
<1> QED
  BY <1>2, CreationCounts DEF Creation!Nth

\* Later places have greater elements, and every element has its place.
LEMMA NthIsInOrder ==
    ASSUME NEW M \in Nat, NEW S \in SUBSET (1 .. M)
    PROVE  /\ \A m, n \in 1 .. Cardinality(S) :
                  m < n => Creation!Nth(S, m) < Creation!Nth(S, n)
           /\ \A r \in S : /\ Cardinality({k \in S : k < r}) + 1 \in 1 .. Cardinality(S)
                           /\ Creation!Nth(S, Cardinality({k \in S : k < r}) + 1) = r
<1> DEFINE before(x) == {k \in S : k < x}
           nth(n) == Creation!Nth(S, n)
<1>1. IsFiniteSet(S) /\ S \subseteq Nat /\ Cardinality(S) \in Nat
  <2>1. IsFiniteSet(S)
    BY UnitsOfOneRow, FS_Subset
  <2>2. S \subseteq Nat
    OBVIOUS
  <2> QED
    BY <2>1, <2>2, FS_CardinalityType
<1>2. \A n \in 1 .. Cardinality(S) : nth(n) \in S /\ Cardinality(before(nth(n))) = n - 1
  BY NthOfNumbers
<1>3. \A i, j \in S : i < j => Cardinality(before(i)) < Cardinality(before(j))
  BY <1>1, LaterHasMoreBefore
<1>4. \A r \in S : Cardinality(before(r)) + 1 \in 1 .. Cardinality(S)
  <2> TAKE r \in S
  <2>1. before(r) \in SUBSET (S \ {r}) /\ before(r) \in SUBSET S /\ S \ {r} \in SUBSET S
    OBVIOUS
  <2>2. /\ Cardinality(before(r)) \in Nat
        /\ Cardinality(before(r)) <= Cardinality(S \ {r})
        /\ Cardinality(S \ {r}) = Cardinality(S) - 1
    <3> HIDE DEF before
    <3> QED
      BY <1>1, <2>1, PartsCounted, S \in SUBSET S
  <2> QED
    BY <1>1, <2>2
<1>5. \A r \in S : Cardinality(before(r)) \in Nat
  BY <1>1, PartsCounted, \A r \in S : before(r) \in SUBSET S
<1> HIDE DEF before, nth
<1>6. \A m, n \in 1 .. Cardinality(S) : m < n => nth(m) < nth(n)
  <2> SUFFICES ASSUME NEW m \in 1 .. Cardinality(S), NEW n \in 1 .. Cardinality(S), m < n
               PROVE  nth(m) < nth(n)
    OBVIOUS
  <2>1. /\ nth(m) \in S /\ nth(m) \in Nat /\ Cardinality(before(nth(m))) = m - 1
        /\ nth(n) \in S /\ nth(n) \in Nat /\ Cardinality(before(nth(n))) = n - 1
    BY <1>1, <1>2
  <2>2. ~(nth(n) < nth(m)) /\ nth(n) # nth(m)
    BY <1>1, <1>3, <2>1
  <2> QED
    BY <2>1, <2>2
<1>7. \A r \in S : nth(Cardinality(before(r)) + 1) = r
  <2> TAKE r \in S
  <2> DEFINE x == nth(Cardinality(before(r)) + 1)
  <2>a. Cardinality(before(r)) + 1 \in 1 .. Cardinality(S) /\ Cardinality(before(r)) \in Nat
    BY <1>4, <1>5
  <2>b. x \in S /\ Cardinality(before(x)) = Cardinality(before(r)) + 1 - 1
    BY <1>2, <2>a
  <2> HIDE DEF x
  <2>1. x \in S /\ x \in Nat /\ r \in Nat /\ Cardinality(before(x)) = Cardinality(before(r))
    <3>1. x \in Nat /\ r \in Nat
      BY <1>1, <2>b
    <3> QED
      BY <3>1, <2>a, <2>b
  <2>2. ~(x < r) /\ ~(r < x)
    BY <1>3, <1>5, <2>1
  <2> QED
    BY <2>1, <2>2 DEF x
<1> QED
  BY <1>4, <1>6, <1>7 DEF before, nth

\* The requirements that are handed on do not hold NONE.
LEMMA NoneIsDropped ==
    ASSUME NEW b, Creation!IsBody(b)
    PROVE  "NONE" \notin Creation!Range(Creation!HandlingRequirements(b.requirements))
<1> DEFINE asks == b.requirements
           first == {i \in DOMAIN asks : asks[i] # "NONE"
                        /\ \A j \in DOMAIN asks : j < i => asks[j] # asks[i]}
<1>1. Len(asks) \in Nat /\ first \in SUBSET (1 .. Len(asks))
  BY DEF Creation!IsBody
<1>2. Creation!HandlingRequirements(asks) =
        [n \in 1 .. Cardinality(first) |-> asks[Creation!Nth(first, n)]]
  BY CreationCounts DEF Creation!HandlingRequirements
<1>3. \A n \in 1 .. Cardinality(first) : Creation!Nth(first, n) \in first
  <2> HIDE DEF first
  <2> QED
    BY <1>1, NthOfNumbers
<1>4. \A i \in first : asks[i] # "NONE"
  OBVIOUS
<1> HIDE DEF first
<1>5. \A n \in 1 .. Cardinality(first) : asks[Creation!Nth(first, n)] # "NONE"
  BY <1>3, <1>4
<1> QED
  BY <1>2, <1>5 DEF Creation!Range

\* What is drawn from strings: a set of the three dimensions has three, one of the two
\* coordinates two.
LEMMA DimensionsCounted ==
    /\ Creation!Cardinality(Creation!Dimensions) = 3
    /\ Creation!Cardinality(Creation!Coordinates) = 2
    /\ Creation!Cardinality({}) = 0
<1>1. Cardinality({}) = 0 /\ IsFiniteSet({})
  BY FS_EmptySet
<1>2. ASSUME NEW S, IsFiniteSet(S), NEW x, x \notin S
      PROVE  IsFiniteSet(S \cup {x}) /\ Cardinality(S \cup {x}) = Cardinality(S) + 1
  BY <1>2, FS_AddElement
<1>3. IsFiniteSet({"latitude"}) /\ Cardinality({"latitude"}) = 1
  <2>1. {} \cup {"latitude"} = {"latitude"}
    OBVIOUS
  <2> QED
    BY <1>1, <1>2, <2>1
<1>4. IsFiniteSet({"lengthCm"}) /\ Cardinality({"lengthCm"}) = 1
  <2>1. {} \cup {"lengthCm"} = {"lengthCm"}
    OBVIOUS
  <2> QED
    BY <1>1, <1>2, <2>1
<1>5. Cardinality({"latitude"} \cup {"longitude"}) = 2
  <2>1. "longitude" \notin {"latitude"}
    OBVIOUS
  <2> QED
    BY <1>2, <1>3, <2>1
<1>6. /\ IsFiniteSet({"lengthCm"} \cup {"widthCm"})
      /\ Cardinality({"lengthCm"} \cup {"widthCm"}) = 2
  <2>1. "widthCm" \notin {"lengthCm"}
    OBVIOUS
  <2> QED
    BY <1>2, <1>4, <2>1
<1>7. Cardinality(({"lengthCm"} \cup {"widthCm"}) \cup {"heightCm"}) = 3
  <2>1. "heightCm" \notin {"lengthCm"} \cup {"widthCm"}
    OBVIOUS
  <2> QED
    BY <1>2, <1>6, <2>1
<1>8. /\ Creation!Coordinates = {"latitude"} \cup {"longitude"}
      /\ Creation!Dimensions = ({"lengthCm"} \cup {"widthCm"}) \cup {"heightCm"}
  BY DEF Creation!Coordinates, Creation!Dimensions
<1> QED
  BY <1>1, <1>5, <1>7, <1>8, CreationCounts

\* The weight that is stored and the one that was asked for are on the same side of a
\* threshold, unless the first is the threshold.
LEMMA WeightRounds ==
    ASSUME NEW w \in 1 .. Creation!MAX_WEIGHT
    PROVE  /\ Creation!Decimal3(w) \in Nat
           /\ Creation!Decimal3(w) < 500 => w <= Creation!SMALL_PACKAGE_MAX_WEIGHT
           /\ Creation!Decimal3(w) > 500 => w > Creation!SMALL_PACKAGE_MAX_WEIGHT
           /\ Creation!Decimal3(w) < 2500 => w <= Creation!MEDIUM_PACKAGE_MAX_WEIGHT
           /\ Creation!Decimal3(w) > 2500 => w > Creation!MEDIUM_PACKAGE_MAX_WEIGHT
           /\ Creation!Decimal3(w) > 3000 => w > Creation!DIMENSIONS_REQUIRED_ABOVE
<1>1. w \in Nat /\ w >= 1
  OBVIOUS
<1>2. PICK d \in Nat : d = (w + 2) \div 4
  BY <1>1
<1>3. 4 * d <= w + 2 /\ w + 2 < 4 * d + 4
  BY <1>1, <1>2
<1> QED
  BY <1>1, <1>2, <1>3
  DEF Creation!Decimal3, Creation!SMALL_PACKAGE_MAX_WEIGHT,
      Creation!MEDIUM_PACKAGE_MAX_WEIGHT, Creation!DIMENSIONS_REQUIRED_ABOVE

\* What the schema accepts, the operations can carry.
LEMMA AcceptedIsCarriable ==
    ASSUME NEW b, NEW at, Creation!IsBody(b), Creation!Accepted(b, at)
    PROVE  Creation!Carriable(Creation!normalizeCreateInput(Creation!Parsed(b)))
<1> DEFINE d == Creation!normalizeCreateInput(Creation!Parsed(b))
<1>1. /\ d.packageType = b.packageType /\ d.mode = b.mode
      /\ d.weight = Creation!Decimal3(b.weight)
      /\ d.description = Creation!optionalTrimmed(b.description)
      /\ d.dimensions = b.dimensions /\ d.coordinates = b.coordinates
      /\ d.sizeTier = Creation!deriveSizeTier(b.weight)
  BY DEF Creation!normalizeCreateInput, Creation!Parsed
<1>2. d.requirements = Creation!Range(Creation!HandlingRequirements(b.requirements))
  BY DEF Creation!normalizeCreateInput, Creation!Parsed
<1>3. /\ d.scheduledAt = IF b.mode = "SCHEDULED" THEN b.windowStart ELSE Null
      /\ d.windowEnd = IF b.mode = "SCHEDULED" THEN b.windowEnd ELSE Null
  BY DEF Creation!normalizeCreateInput, Creation!Parsed
<1> HIDE DEF d
<1>4. b.weight \in 1 .. Creation!MAX_WEIGHT
  BY DEF Creation!Accepted, Creation!PackageOk
<1>5. /\ d.weight \in Nat
      /\ d.weight < 500 => b.weight <= Creation!SMALL_PACKAGE_MAX_WEIGHT
      /\ d.weight > 500 => ~(b.weight <= Creation!SMALL_PACKAGE_MAX_WEIGHT)
      /\ d.weight < 2500 => b.weight <= Creation!MEDIUM_PACKAGE_MAX_WEIGHT
      /\ d.weight > 2500 => /\ ~(b.weight <= Creation!SMALL_PACKAGE_MAX_WEIGHT)
                           /\ ~(b.weight <= Creation!MEDIUM_PACKAGE_MAX_WEIGHT)
      /\ d.weight > 3000 => b.weight > Creation!DIMENSIONS_REQUIRED_ABOVE
  <2>1. b.weight \in Int /\ d.weight = Creation!Decimal3(b.weight)
    BY <1>1, <1>4
  <2> QED
    BY <1>4, <2>1, WeightRounds
    DEF Creation!SMALL_PACKAGE_MAX_WEIGHT, Creation!MEDIUM_PACKAGE_MAX_WEIGHT
<1>6. /\ d.weight < 500 => d.sizeTier = "SMALL"
      /\ d.weight > 500 => d.sizeTier # "SMALL"
      /\ d.weight < 2500 => d.sizeTier # "LARGE"
      /\ d.weight > 2500 => d.sizeTier = "LARGE"
  BY <1>1, <1>5 DEF Creation!deriveSizeTier
<1>7. /\ d.weight > 3000 => Creation!Cardinality(d.dimensions) = 3
      /\ Creation!Cardinality(d.dimensions) \in {0, 3}
      /\ Creation!Cardinality(d.coordinates) \in {0, 2}
  <2>1. /\ b.weight > Creation!DIMENSIONS_REQUIRED_ABOVE => d.dimensions = Creation!Dimensions
        /\ d.dimensions \in {{}, Creation!Dimensions}
        /\ d.coordinates \in {{}, Creation!Coordinates}
    BY <1>1
    DEF Creation!Accepted, Creation!PackageOk, Creation!LocationOk
  <2>2. d.dimensions = {} \/ d.dimensions = Creation!Dimensions
    BY <2>1
  <2>3. d.coordinates = {} \/ d.coordinates = Creation!Coordinates
    BY <2>1
  <2> QED
    BY <1>5, <2>1, <2>2, <2>3, DimensionsCounted
<1>8. d.packageType = "OTHER" => d.description \notin {Null, "blank"}
  BY <1>1 DEF Creation!Accepted, Creation!PackageOk, Creation!optionalTrimmed
<1>9. "NONE" \notin d.requirements
  BY <1>2, NoneIsDropped
<1>10. IF d.mode = "SCHEDULED" THEN d.scheduledAt < d.windowEnd
       ELSE d.scheduledAt = Null /\ d.windowEnd = Null
  <2>1. CASE b.mode = "SCHEDULED"
    <3>1. b.mode # "ASAP"
      BY <2>1
    <3>2. b.windowStart < b.windowEnd
      BY <3>1 DEF Creation!Accepted, Creation!ScheduleOk
    <3> QED
      BY <1>1, <1>3, <2>1, <3>2
  <2>2. CASE b.mode # "SCHEDULED"
    BY <1>1, <1>3, <2>2
  <2> QED
    BY <2>1, <2>2
<1>11. Creation!Carriable(d)
  BY <1>5, <1>6, <1>7, <1>8, <1>9, <1>10 DEF Creation!Carriable
<1> QED
  BY <1>11 DEF d

\* Whose photos are accepted, his columns have his photos.
LEMMA AcceptedPhotosAreOwn ==
    ASSUME NEW c, NEW b, Creation!PhotosAreOf(c, b.photos)
    PROVE  Creation!PhotosAreOwn(c, Creation!normalizeCreateInput(b))
<1>1. Creation!normalizeCreateInput(b).photos = {b.photos[i] : i \in DOMAIN b.photos}
  BY DEF Creation!normalizeCreateInput, Creation!Range
<1> QED
  BY <1>1
  DEF Creation!PhotosAreOf, Creation!PhotosAreOwn, Creation!isCustomerStagingPhotoKey

\* In the beginning there is nothing.
LEMMA CreationBegins ==
    ASSUME Creation!CreationAssumption, Creation!Init
    PROVE  Creation!IInv
<1>1. Creation!Typed
  <2>1. 0 \in 0 .. MaxSeq /\ 0 \in 0 .. MaxClock
    BY DEF Creation!CreationAssumption
  <2>2. Creation!Idle \in Creation!Handlers
    BY <2>1 DEF Creation!Idle, Creation!Handlers
  <2> QED
    BY <2>1, <2>2 DEF Creation!Init, Creation!Typed
<1> QED
  BY <1>1
  DEF Creation!Init, Creation!IInv, Creation!HandlerOk, Creation!TransactionOk,
      Creation!InTransaction, Creation!Apart, Creation!Idle

\* A step of one handler that leaves the rows and the records alone.
LEMMA HandlerMoves ==
    ASSUME Creation!CreationAssumption, Creation!IInv, NEW p \in Proc,
           NEW h \in Creation!Handlers, creators' = [creators EXCEPT ![p] = h],
           UNCHANGED <<rows, keys, clock>>, seq' \in 0 .. MaxSeq, seq <= seq',
           answers' \subseteq Creation!Answers,
           \A a \in answers' \ answers : Creation!AnswerOk(a),
           Creation!HandlerOk(p)', Creation!TransactionOk(p)',
           \A q \in Proc : q # p => Creation!Apart(p, q)'
    PROVE  Creation!IInv'
<1>1. Creation!Typed'
  BY DEF Creation!IInv, Creation!Typed
<1>2. \A q \in Proc : q # p => creators'[q] = creators[q]
  BY DEF Creation!IInv, Creation!Typed
<1>3. \A r \in Creation!Reference : rows'[r] # Null => Creation!RowOk(r)'
  <2> SUFFICES ASSUME NEW r \in Creation!Reference, rows'[r] # Null
               PROVE  Creation!RowOk(r)'
    OBVIOUS
  <2>1. Creation!RowOk(r)
    BY DEF Creation!IInv
  <2>2. r \in Nat /\ seq \in Nat /\ seq' \in Nat
    BY DEF Creation!IInv, Creation!Typed, Creation!Reference, Creation!CreationAssumption
  <2>3. r <= seq'
    BY <2>1, <2>2 DEF Creation!RowOk
  <2> QED
    BY <2>1, <2>3 DEF Creation!RowOk
<1>4. \A k \in Customers \X Key : keys'[k] # Null => Creation!RecordOk(k)'
  BY DEF Creation!IInv, Creation!RecordOk
<1>5. \A q \in Proc : q # p => Creation!HandlerOk(q)'
  BY <1>2 DEF Creation!IInv, Creation!HandlerOk
<1>6. \A q \in Proc : q # p => Creation!TransactionOk(q)'
  <2> SUFFICES ASSUME NEW q \in Proc, q # p
               PROVE  Creation!TransactionOk(q)'
    OBVIOUS
  <2>1. Creation!TransactionOk(q) /\ creators'[q] = creators[q]
    BY <1>2 DEF Creation!IInv
  <2>2. seq \in Nat /\ seq' \in Nat
    BY DEF Creation!IInv, Creation!Typed, Creation!CreationAssumption
  <2>3. \A r \in Creation!Reference : r <= seq => r <= seq'
    BY <2>2 DEF Creation!Reference
  <2> QED
    BY <2>1, <2>3
    DEF Creation!TransactionOk, Creation!InTransaction, Creation!KeyOf
<1>7. \A q, s \in Proc : q # s => Creation!Apart(q, s)'
  <2> SUFFICES ASSUME NEW q \in Proc, NEW s \in Proc, q # s
               PROVE  Creation!Apart(q, s)'
    OBVIOUS
  <2>1. CASE q = p
    BY <2>1
  <2>2. CASE s = p
    <3>1. Creation!Apart(p, q)'
      BY <2>2
    <3> QED
      BY <3>1, <2>2 DEF Creation!Apart, Creation!InTransaction, Creation!KeyOf
  <2>3. CASE q # p /\ s # p
    <3>1. Creation!Apart(q, s)
      BY DEF Creation!IInv
    <3> QED
      BY <1>2, <2>3, <3>1 DEF Creation!Apart, Creation!InTransaction, Creation!KeyOf
  <2> QED
    BY <2>1, <2>2, <2>3
<1>8. \A a \in answers' : Creation!AnswerOk(a)'
  <2>1. \A a \in answers' : Creation!AnswerOk(a)
    BY DEF Creation!IInv
  <2> QED
    BY <2>1 DEF Creation!AnswerOk
<1> QED
  BY <1>1, <1>3, <1>4, <1>5, <1>6, <1>7, <1>8 DEF Creation!IInv

\* A request that is done.
LEMMA HandlerEnds ==
    ASSUME Creation!CreationAssumption, Creation!IInv, NEW p \in Proc, Creation!Done(p),
           UNCHANGED <<rows, keys, clock, seq>>,
           answers' \subseteq Creation!Answers,
           \A a \in answers' \ answers : Creation!AnswerOk(a)
    PROVE  Creation!IInv'
<1>1. Creation!Idle \in Creation!Handlers
  <2>1. 0 \in 0 .. MaxSeq
    BY DEF Creation!CreationAssumption
  <2> QED
    BY <2>1 DEF Creation!Idle, Creation!Handlers
<1>2. creators' = [creators EXCEPT ![p] = Creation!Idle]
  BY DEF Creation!Done
<1>3. creators'[p].pc = "idle"
  BY <1>2 DEF Creation!IInv, Creation!Typed, Creation!Idle
<1>4. /\ Creation!HandlerOk(p)' /\ Creation!TransactionOk(p)'
      /\ \A q \in Proc : q # p => Creation!Apart(p, q)'
  BY <1>3
  DEF Creation!HandlerOk, Creation!TransactionOk, Creation!Apart, Creation!InTransaction
<1>5. seq' \in 0 .. MaxSeq /\ seq <= seq'
  BY DEF Creation!IInv, Creation!Typed, Creation!CreationAssumption
<1> QED
  BY <1>1, <1>2, <1>4, <1>5, HandlerMoves

\* A handler that goes on with what it has.
LEMMA HandlerGoes ==
    ASSUME Creation!Typed, NEW p \in Proc,
           NEW to \in {"find", "create", "save", "commit", "raced"}, Creation!Goto(p, to)
    PROVE  /\ [creators[p] EXCEPT !.pc = to] \in Creation!Handlers
           /\ creators' = [creators EXCEPT ![p] = [creators[p] EXCEPT !.pc = to]]
           /\ creators'[p].pc = to /\ creators'[p].customer = creators[p].customer
           /\ creators'[p].key = creators[p].key /\ creators'[p].body = creators[p].body
           /\ creators'[p].reference = creators[p].reference
           /\ \A q \in Proc : q # p => creators'[q] = creators[q]
<1>1. creators[p] \in Creation!Handlers /\ creators \in [Proc -> Creation!Handlers]
  BY DEF Creation!Typed
<1>2. \A u \in Creation!Handlers : [u EXCEPT !.pc = to] \in Creation!Handlers
  BY DEF Creation!Handlers
<1>3. \A u \in Creation!Handlers :
         /\ [u EXCEPT !.pc = to].pc = to /\ [u EXCEPT !.pc = to].customer = u.customer
         /\ [u EXCEPT !.pc = to].key = u.key /\ [u EXCEPT !.pc = to].body = u.body
         /\ [u EXCEPT !.pc = to].reference = u.reference
  BY DEF Creation!Handlers
<1>4. creators' = [creators EXCEPT ![p] = [creators[p] EXCEPT !.pc = to]]
  BY <1>1 DEF Creation!Goto
<1>5. creators'[p] = [creators[p] EXCEPT !.pc = to]
  BY <1>1, <1>4
<1>6. \A q \in Proc : q # p => creators'[q] = creators[q]
  BY <1>1, <1>4
<1> QED
  BY <1>1, <1>2, <1>3, <1>4, <1>5, <1>6

\* An answer that tells of the record of its key.
LEMMA AnsweredFromRecord ==
    ASSUME Creation!CreationAssumption, Creation!IInv, NEW p \in Proc,
           creators[p].pc # "idle", keys[Creation!KeyOf(p)] # Null,
           Creation!Replay(p, keys[Creation!KeyOf(p)]), UNCHANGED <<rows, keys, seq, clock>>
    PROVE  Creation!IInv'
<1> DEFINE c == creators[p].customer
           k == creators[p].key
           b == creators[p].body
           rec == keys[<<c, k>>]
           one == [customer |-> c, key |-> k, body |-> b, detail |-> rec.responsePayload]
<1>1. c \in Customers /\ k \in Key /\ b \in {Creation!Parsed(x) : x \in Racing \cup Edges \cup Listed}
  BY DEF Creation!IInv, Creation!HandlerOk
<1>2. rec = keys[Creation!KeyOf(p)] /\ rec \in Creation!Records
  BY <1>1 DEF Creation!KeyOf, Creation!IInv, Creation!Typed
<1>3. rec.responsePayload \in Creation!Details
  BY <1>2 DEF Creation!Records
<1>4. one \in Creation!Answers
  BY <1>1, <1>3 DEF Creation!Answers
<1>5. /\ one.customer = c /\ one.key = k /\ one.body = b /\ one.detail = rec.responsePayload
  OBVIOUS
<1>6. Creation!SameRequest(p, keys[Creation!KeyOf(p)]) => Creation!AnswerOk(one)
  BY <1>2, <1>5
  DEF Creation!SameRequest, Creation!hashDeliveryCreateRequest, Creation!AnswerOk
<1>7. \/ answers' = answers
      \/ Creation!SameRequest(p, keys[Creation!KeyOf(p)]) /\ answers' = answers \cup {one}
  BY <1>2 DEF Creation!Replay, Creation!Created
<1> HIDE DEF one
<1>8. /\ answers' \subseteq Creation!Answers
      /\ \A a \in answers' \ answers : Creation!AnswerOk(a)
  BY <1>4, <1>6, <1>7 DEF Creation!IInv, Creation!Typed
<1>9. Creation!Done(p)
  BY DEF Creation!Replay
<1> QED
  BY <1>8, <1>9, HandlerEnds

\* Nothing new is answered.
LEMMA AnswersStand ==
    ASSUME Creation!IInv, UNCHANGED answers
    PROVE  /\ answers' \subseteq Creation!Answers
           /\ \A a \in answers' \ answers : Creation!AnswerOk(a)
  BY DEF Creation!IInv, Creation!Typed

\* A request that is received, or refused.
LEMMA CreationReceives ==
    ASSUME Creation!CreationAssumption, Creation!IInv, NEW p \in Proc, NEW c \in Customers,
           NEW k \in Key, NEW b \in Racing \cup Edges \cup Listed, Creation!Receive(p, c, k, b)
    PROVE  Creation!IInv'
<1> DEFINE h == [pc |-> "find", customer |-> c, key |-> k, body |-> Creation!Parsed(b),
                 reference |-> 0]
<1>1. h \in Creation!Handlers
  BY DEF Creation!Handlers, Creation!CreationAssumption
<1>2. creators' = [creators EXCEPT ![p] = h] /\ UNCHANGED <<rows, keys, seq, clock, answers>>
  BY DEF Creation!Receive
<1>3. creators'[p] = h
  BY <1>2 DEF Creation!IInv, Creation!Typed
<1>4. Creation!Carriable(Creation!normalizeCreateInput(Creation!Parsed(b)))
  BY AcceptedIsCarriable DEF Creation!Receive, Creation!CreationAssumption
<1>5. Creation!HandlerOk(p)'
  BY <1>3, <1>4 DEF Creation!HandlerOk
<1>6. Creation!TransactionOk(p)' /\ \A q \in Proc : q # p => Creation!Apart(p, q)'
  BY <1>3 DEF Creation!TransactionOk, Creation!Apart, Creation!InTransaction
<1>7. seq' \in 0 .. MaxSeq /\ seq <= seq'
  BY <1>2 DEF Creation!IInv, Creation!Typed, Creation!CreationAssumption
<1> HIDE DEF h
<1> QED
  BY <1>1, <1>2, <1>5, <1>6, <1>7, HandlerMoves, AnswersStand

\* A request looks for its key.
LEMMA CreationFinds ==
    ASSUME Creation!CreationAssumption, Creation!IInv, NEW p \in Proc,
           Creation!FindIdempotency(p)
    PROVE  Creation!IInv'
<1>1. creators[p].pc = "find" /\ UNCHANGED <<rows, keys, seq, clock>>
  BY DEF Creation!FindIdempotency
<1>2. CASE keys[Creation!KeyOf(p)] # Null
  BY <1>1, <1>2, AnsweredFromRecord DEF Creation!FindIdempotency
<1>3. CASE keys[Creation!KeyOf(p)] = Null /\ Creation!Done(p) /\ UNCHANGED answers
  BY <1>1, <1>3, HandlerEnds, AnswersStand
<1>4. CASE /\ keys[Creation!KeyOf(p)] = Null /\ UNCHANGED answers
           /\ Creation!PhotosAreOf(creators[p].customer, creators[p].body.photos)
           /\ Creation!Goto(p, "create")
  <2>1. Creation!Typed /\ Creation!HandlerOk(p)
    BY DEF Creation!IInv
  <2>2. /\ [creators[p] EXCEPT !.pc = "create"] \in Creation!Handlers
        /\ creators' = [creators EXCEPT ![p] = [creators[p] EXCEPT !.pc = "create"]]
        /\ creators'[p].pc = "create" /\ creators'[p].customer = creators[p].customer
        /\ creators'[p].key = creators[p].key /\ creators'[p].body = creators[p].body
    BY <1>4, <2>1, HandlerGoes
  <2>3. Creation!PhotosAreOwn(creators[p].customer,
                              Creation!normalizeCreateInput(creators[p].body))
    BY <1>4, AcceptedPhotosAreOwn
  <2>4. Creation!HandlerOk(p)'
    BY <1>1, <2>1, <2>2, <2>3 DEF Creation!HandlerOk
  <2>5. Creation!TransactionOk(p)' /\ \A q \in Proc : q # p => Creation!Apart(p, q)'
    BY <2>2 DEF Creation!TransactionOk, Creation!Apart, Creation!InTransaction
  <2>6. seq' \in 0 .. MaxSeq /\ seq <= seq'
    BY <1>1, <2>1 DEF Creation!Typed, Creation!CreationAssumption
  <2> QED
    BY <1>1, <1>4, <2>2, <2>4, <2>5, <2>6, HandlerMoves, AnswersStand
<1> QED
  BY <1>2, <1>3, <1>4 DEF Creation!FindIdempotency

\* A request draws a reference.
LEMMA CreationDraws ==
    ASSUME Creation!CreationAssumption, Creation!IInv, NEW p \in Proc,
           Creation!CreateDelivery(p)
    PROVE  Creation!IInv'
<1> DEFINE h == [creators[p] EXCEPT !.pc = "save", !.reference = seq + 1]
<1>1. /\ creators[p].pc = "create" /\ seq' = seq + 1 /\ UNCHANGED <<rows, keys, clock, answers>>
      /\ creators' = [creators EXCEPT ![p].pc = "save", ![p].reference = seq + 1]
  BY DEF Creation!CreateDelivery
<1>2. Creation!Typed /\ Creation!HandlerOk(p)
  BY DEF Creation!IInv
<1>3. seq \in Nat /\ seq' \in 1 .. MaxSeq /\ seq' \in 0 .. MaxSeq /\ seq <= seq'
  BY <1>1, <1>2 DEF Creation!CreateDelivery, Creation!Typed, Creation!CreationAssumption
<1>4. creators[p] \in Creation!Handlers /\ creators \in [Proc -> Creation!Handlers]
  BY <1>2 DEF Creation!Typed
<1>5. \A u \in Creation!Handlers, n \in 0 .. MaxSeq :
         LET v == [u EXCEPT !.pc = "save", !.reference = n] IN
         /\ v \in Creation!Handlers /\ v.pc = "save" /\ v.reference = n
         /\ v.customer = u.customer /\ v.key = u.key /\ v.body = u.body
  BY DEF Creation!Handlers
<1>6. /\ h \in Creation!Handlers /\ h.pc = "save" /\ h.reference = seq'
      /\ h.customer = creators[p].customer /\ h.key = creators[p].key
      /\ h.body = creators[p].body
  BY <1>1, <1>3, <1>4, <1>5
<1>7. creators' = [creators EXCEPT ![p] = h]
  BY <1>1, <1>4
<1>8. /\ creators'[p] = h
      /\ \A q \in Proc : q # p => creators'[q] = creators[q]
  BY <1>4, <1>7
<1> HIDE DEF h
<1>9. Creation!HandlerOk(p)'
  BY <1>1, <1>2, <1>6, <1>8 DEF Creation!HandlerOk
<1>10. rows[seq'] = Null
  <2>1. rows[seq'] # Null => Creation!RowOk(seq')
    BY <1>3 DEF Creation!IInv, Creation!Reference
  <2> QED
    BY <1>1, <1>3, <2>1 DEF Creation!RowOk
<1>11. Creation!TransactionOk(p)'
  <2>1. creators'[p].reference \in Creation!Reference
    BY <1>3, <1>6, <1>8 DEF Creation!Reference
  <2>2. creators'[p].reference <= seq'
    BY <1>3, <1>6, <1>8
  <2> QED
    BY <1>1, <1>6, <1>8, <1>10, <2>1, <2>2
    DEF Creation!TransactionOk, Creation!InTransaction
<1>12. \A q \in Proc : q # p => Creation!Apart(p, q)'
  <2> SUFFICES ASSUME NEW q \in Proc, q # p PROVE Creation!Apart(p, q)'
    OBVIOUS
  <2>1. Creation!TransactionOk(q) /\ creators'[q] = creators[q]
    BY <1>8 DEF Creation!IInv
  <2>2. Creation!InTransaction(q) => creators[q].reference # seq'
    BY <1>1, <1>3, <2>1 DEF Creation!TransactionOk, Creation!Reference
  <2> QED
    BY <1>6, <1>8, <2>1, <2>2 DEF Creation!Apart, Creation!InTransaction
<1> QED
  BY <1>1, <1>3, <1>6, <1>7, <1>9, <1>11, <1>12, HandlerMoves, AnswersStand

\* A request inserts its key, or meets a record.
LEMMA CreationSaves ==
    ASSUME Creation!CreationAssumption, Creation!IInv, NEW p \in Proc,
           Creation!SaveIdempotency(p)
    PROVE  Creation!IInv'
<1>1. /\ creators[p].pc = "save" /\ ~Creation!KeyLocked(p)
      /\ UNCHANGED <<rows, keys, seq, clock, answers>>
  BY DEF Creation!SaveIdempotency
<1>2. /\ Creation!Typed /\ Creation!HandlerOk(p) /\ Creation!TransactionOk(p)
      /\ \A q \in Proc : q # p => Creation!Apart(p, q)
  BY DEF Creation!IInv
<1>3. PICK to \in {"commit", "raced"} :
         /\ Creation!Goto(p, to) /\ (to = "commit") = (keys[Creation!KeyOf(p)] = Null)
  BY DEF Creation!SaveIdempotency
<1>4. /\ [creators[p] EXCEPT !.pc = to] \in Creation!Handlers
      /\ creators' = [creators EXCEPT ![p] = [creators[p] EXCEPT !.pc = to]]
      /\ creators'[p].pc = to /\ creators'[p].customer = creators[p].customer
      /\ creators'[p].key = creators[p].key /\ creators'[p].body = creators[p].body
      /\ creators'[p].reference = creators[p].reference
      /\ \A q \in Proc : q # p => creators'[q] = creators[q]
  BY <1>2, <1>3, HandlerGoes
<1>5. Creation!HandlerOk(p)'
  BY <1>1, <1>2, <1>4 DEF Creation!HandlerOk
<1>6. Creation!TransactionOk(p)'
  BY <1>1, <1>2, <1>3, <1>4
  DEF Creation!TransactionOk, Creation!InTransaction, Creation!KeyOf
<1>7. \A q \in Proc : q # p => Creation!Apart(p, q)'
  BY <1>1, <1>2, <1>4
  DEF Creation!Apart, Creation!InTransaction, Creation!KeyOf, Creation!KeyLocked
<1>8. seq' \in 0 .. MaxSeq /\ seq <= seq'
  BY <1>1, <1>2 DEF Creation!Typed, Creation!CreationAssumption
<1> QED
  BY <1>1, <1>4, <1>5, <1>6, <1>7, <1>8, HandlerMoves, AnswersStand

\* The loser of a race reads the record.
LEMMA CreationRaces ==
    ASSUME Creation!CreationAssumption, Creation!IInv, NEW p \in Proc, Creation!Raced(p)
    PROVE  Creation!IInv'
<1>1. creators[p].pc = "raced" /\ UNCHANGED <<rows, keys, seq, clock>>
  BY DEF Creation!Raced
<1>2. keys[Creation!KeyOf(p)] # Null
  BY <1>1 DEF Creation!IInv, Creation!TransactionOk
<1> QED
  BY <1>1, <1>2, AnsweredFromRecord DEF Creation!Raced

\* A transaction is rolled back.
LEMMA CreationAborts ==
    ASSUME Creation!CreationAssumption, Creation!IInv, NEW p \in Proc, Creation!Abort(p)
    PROVE  Creation!IInv'
  BY HandlerEnds, AnswersStand DEF Creation!Abort

\* What a transaction writes has the types of the tables.
LEMMA WrittenIsTyped ==
    ASSUME NEW c \in Customers, NEW r \in Creation!Reference,
           NEW b \in {Creation!Parsed(x) : x \in Racing \cup Edges \cup Listed}
    PROVE  LET new == Creation!Row(c, r, b)
               rec == [requestHash |-> b, reference |-> r,
                       responsePayload |-> Creation!toDeliveryDetailDto(new)]
           IN  /\ new \in Creation!Deliveries /\ rec \in Creation!Records
               /\ new.customer = c /\ new.reference = r
               /\ new.columns = Creation!normalizeCreateInput(b)
               /\ rec.responsePayload \in Creation!Details
               /\ rec.responsePayload.reference = r
<1> DEFINE new == Creation!Row(c, r, b)
           dto == Creation!toDeliveryDetailDto(new)
           d == Creation!normalizeCreateInput(b)
           E == (Creation!Statuses \cup {Null}) \X Creation!Statuses
           s == << <<Null, "CREATED">> >>
<1>1. "CREATED" \in Creation!Statuses
  BY DEF Creation!Statuses, Creation!DRAFT
<1>2. d \in Creation!Columns
  BY DEF Creation!Columns
<1>3. s \in Seq(E)
  BY <1>1
<1>4. new = [customer |-> c, reference |-> r, status |-> "CREATED", columns |-> d, events |-> s]
  BY DEF Creation!Row
<1> HIDE DEF d, s, new
<1>5. new \in Creation!Deliveries
  BY <1>1, <1>2, <1>3, <1>4 DEF Creation!Deliveries
<1>6. new.customer = c /\ new.reference = r /\ new.columns = d /\ new.status = "CREATED"
  BY <1>4
<1>7. dto = [reference |-> r, status |-> "CREATED", columns |-> d]
  BY <1>6 DEF Creation!toDeliveryDetailDto
<1>8. dto \in Creation!Details /\ dto.reference = r
  BY <1>1, <1>2, <1>7 DEF Creation!Details
<1> HIDE DEF dto
<1>9. [requestHash |-> b, reference |-> r, responsePayload |-> dto] \in Creation!Records
  BY <1>8 DEF Creation!Records
<1> QED
  BY <1>5, <1>6, <1>8, <1>9 DEF new, dto, d

\* A transaction commits: the row, the record, and nobody else has either.
LEMMA TransactionCommits ==
    ASSUME Creation!CreationAssumption, Creation!IInv, NEW p \in Proc,
           creators[p].pc = "commit",
           rows' = [rows EXCEPT ![creators[p].reference] = Creation!MyRow(p)],
           keys' = [keys EXCEPT ![Creation!KeyOf(p)] =
               [requestHash |-> Creation!hashDeliveryCreateRequest(creators[p].body),
                reference |-> creators[p].reference,
                responsePayload |-> Creation!toDeliveryDetailDto(Creation!MyRow(p))]],
           Creation!Done(p), UNCHANGED <<seq, clock>>,
           UNCHANGED answers
           \/ Creation!Created(p, Creation!toDeliveryDetailDto(Creation!MyRow(p)))
    PROVE  Creation!IInv'
<1> DEFINE c == creators[p].customer
           k == creators[p].key
           b == creators[p].body
           r == creators[p].reference
           B == {Creation!Parsed(x) : x \in Racing \cup Edges \cup Listed}
           new == Creation!Row(c, r, b)
           dto == Creation!toDeliveryDetailDto(new)
           rec == [requestHash |-> b, reference |-> r, responsePayload |-> dto]
           one == [customer |-> c, key |-> k, body |-> b, detail |-> dto]
<1>1. /\ Creation!Typed /\ Creation!HandlerOk(p) /\ Creation!TransactionOk(p)
      /\ \A q \in Proc : q # p => Creation!Apart(p, q)
  BY DEF Creation!IInv
<1>2. /\ c \in Customers /\ k \in Key /\ b \in B
      /\ Creation!Carriable(Creation!normalizeCreateInput(b))
      /\ Creation!PhotosAreOwn(c, Creation!normalizeCreateInput(b))
  BY <1>1 DEF Creation!HandlerOk
<1>3. /\ r \in Creation!Reference /\ r <= seq /\ rows[r] = Null /\ keys[<<c, k>>] = Null
  BY <1>1 DEF Creation!TransactionOk, Creation!InTransaction, Creation!KeyOf
<1>4. /\ new \in Creation!Deliveries /\ rec \in Creation!Records
      /\ new.customer = c /\ new.reference = r
      /\ new.columns = Creation!normalizeCreateInput(b)
      /\ dto \in Creation!Details /\ dto.reference = r
      /\ rec.requestHash = b /\ rec.reference = r /\ rec.responsePayload = dto
  BY <1>2, <1>3, WrittenIsTyped
<1>5. /\ rows' = [rows EXCEPT ![r] = new] /\ keys' = [keys EXCEPT ![<<c, k>>] = rec]
      /\ creators' = [creators EXCEPT ![p] = Creation!Idle]
      /\ answers' = answers \/ answers' = answers \cup {one}
  BY DEF Creation!MyRow, Creation!KeyOf, Creation!hashDeliveryCreateRequest, Creation!Done,
         Creation!Created
<1>6. one \in Creation!Answers /\ one.customer = c /\ one.key = k /\ one.body = b
      /\ one.detail = dto
  BY <1>2, <1>4 DEF Creation!Answers
<1>n. new # Null /\ rec # Null
  BY <1>4 DEF Creation!CreationAssumption
<1> HIDE DEF new, dto, rec, one
<1>7. /\ rows'[r] = new /\ \A x \in Creation!Reference : x # r => rows'[x] = rows[x]
      /\ keys'[<<c, k>>] = rec
      /\ \A x \in Customers \X Key : x # <<c, k>> => keys'[x] = keys[x]
      /\ creators'[p] = Creation!Idle /\ \A q \in Proc : q # p => creators'[q] = creators[q]
  BY <1>1, <1>2, <1>3, <1>5 DEF Creation!Typed
<1>8. Creation!Typed'
  <2>1. Creation!Idle \in Creation!Handlers
    BY DEF Creation!Idle, Creation!Handlers, Creation!CreationAssumption
  <2>2. rows' \in [Creation!Reference -> Creation!Deliveries \cup {Null}]
    BY <1>1, <1>4, <1>5 DEF Creation!Typed
  <2>3. keys' \in [Customers \X Key -> Creation!Records \cup {Null}]
    BY <1>1, <1>4, <1>5 DEF Creation!Typed
  <2>4. creators' \in [Proc -> Creation!Handlers] /\ answers' \subseteq Creation!Answers
    BY <1>1, <1>5, <1>6, <2>1 DEF Creation!Typed
  <2> QED
    BY <1>1, <2>2, <2>3, <2>4 DEF Creation!Typed
<1>9. \A x \in Creation!Reference : rows'[x] # Null => Creation!RowOk(x)'
  <2> SUFFICES ASSUME NEW x \in Creation!Reference, rows'[x] # Null
               PROVE  Creation!RowOk(x)'
    OBVIOUS
  <2>1. CASE x = r
    <3>1. keys'[<<rows'[x].customer, k>>] # Null
          /\ keys'[<<rows'[x].customer, k>>].reference = x
      BY <1>4, <1>7, <1>n, <2>1
    <3> QED
      BY <1>2, <1>3, <1>4, <1>7, <2>1, <3>1 DEF Creation!RowOk
  <2>2. CASE x # r
    <3>1. Creation!RowOk(x) /\ rows'[x] = rows[x] /\ rows[x] \in Creation!Deliveries
      BY <1>1, <1>7, <2>2 DEF Creation!IInv, Creation!Typed
    <3>2. PICK y \in Key : /\ keys[<<rows[x].customer, y>>] # Null
                           /\ keys[<<rows[x].customer, y>>].reference = x
      BY <3>1 DEF Creation!RowOk
    <3>3. rows[x].customer \in Customers
      BY <3>1 DEF Creation!Deliveries
    <3>4. keys'[<<rows[x].customer, y>>] = keys[<<rows[x].customer, y>>]
      BY <1>3, <1>7, <3>2, <3>3
    <3> QED
      BY <3>1, <3>2, <3>4 DEF Creation!RowOk
  <2> QED
    BY <2>1, <2>2
<1>10. \A x \in Customers \X Key : keys'[x] # Null => Creation!RecordOk(x)'
  <2> SUFFICES ASSUME NEW x \in Customers \X Key, keys'[x] # Null
               PROVE  Creation!RecordOk(x)'
    OBVIOUS
  <2>1. CASE x = <<c, k>>
    BY <1>2, <1>3, <1>4, <1>7, <1>n, <2>1 DEF Creation!RecordOk
  <2>2. CASE x # <<c, k>>
    <3>1. keys'[x] = keys[x] /\ Creation!RecordOk(x) /\ keys[x] \in Creation!Records
      BY <1>1, <1>7, <2>2 DEF Creation!IInv, Creation!Typed
    <3>2. keys[x].reference \in Creation!Reference
      BY <3>1 DEF Creation!Records
    <3>3. rows'[keys[x].reference] = rows[keys[x].reference]
      BY <1>3, <1>7, <3>1, <3>2 DEF Creation!RecordOk
    <3> QED
      BY <3>1, <3>3 DEF Creation!RecordOk
  <2> QED
    BY <2>1, <2>2
<1>11. \A q \in Proc : Creation!HandlerOk(q)' /\ Creation!TransactionOk(q)'
  <2> SUFFICES ASSUME NEW q \in Proc
               PROVE  Creation!HandlerOk(q)' /\ Creation!TransactionOk(q)'
    OBVIOUS
  <2>1. CASE q = p
    BY <1>7, <2>1
    DEF Creation!HandlerOk, Creation!TransactionOk, Creation!InTransaction, Creation!Idle
  <2>2. CASE q # p
    <3>1. /\ creators'[q] = creators[q] /\ Creation!HandlerOk(q) /\ Creation!TransactionOk(q)
          /\ Creation!Apart(p, q) /\ seq' = seq
      BY <1>1, <1>7, <2>2 DEF Creation!IInv
    <3>2. Creation!HandlerOk(q)'
      BY <3>1 DEF Creation!HandlerOk
    <3>3. Creation!InTransaction(q)
          => rows'[creators[q].reference] = rows[creators[q].reference]
      BY <1>7, <3>1 DEF Creation!Apart, Creation!InTransaction, Creation!TransactionOk
    <3>4. creators[q].pc # "idle" => Creation!KeyOf(q) \in Customers \X Key
      BY <3>1 DEF Creation!HandlerOk, Creation!KeyOf
    <3>5. creators[q].pc = "commit" => keys'[Creation!KeyOf(q)] = Null
      BY <1>7, <3>1, <3>4 DEF Creation!TransactionOk, Creation!Apart, Creation!KeyOf
    <3>6. creators[q].pc = "raced" => keys'[Creation!KeyOf(q)] # Null
      BY <1>7, <1>n, <3>1, <3>4 DEF Creation!TransactionOk
    <3>7. Creation!TransactionOk(q)'
      BY <3>1, <3>3, <3>5, <3>6
      DEF Creation!TransactionOk, Creation!InTransaction, Creation!KeyOf
    <3> QED
      BY <3>2, <3>7
  <2> QED
    BY <2>1, <2>2
<1>12. \A q, s \in Proc : q # s => Creation!Apart(q, s)'
  <2> SUFFICES ASSUME NEW q \in Proc, NEW s \in Proc, q # s
               PROVE  Creation!Apart(q, s)'
    OBVIOUS
  <2>1. CASE q = p \/ s = p
    BY <1>7, <2>1 DEF Creation!Apart, Creation!InTransaction, Creation!Idle
  <2>2. CASE q # p /\ s # p
    <3>1. Creation!Apart(q, s)
      BY DEF Creation!IInv
    <3> QED
      BY <1>7, <2>2, <3>1 DEF Creation!Apart, Creation!InTransaction, Creation!KeyOf
  <2> QED
    BY <2>1, <2>2
<1>13. \A a \in answers' : Creation!AnswerOk(a)'
  <2> SUFFICES ASSUME NEW a \in answers' PROVE Creation!AnswerOk(a)'
    OBVIOUS
  <2>1. CASE a = one
    BY <1>4, <1>6, <1>7, <1>n, <2>1 DEF Creation!AnswerOk
  <2>2. CASE a \in answers
    <3>1. Creation!AnswerOk(a) /\ a.customer \in Customers /\ a.key \in Key
      BY <1>1, <2>2 DEF Creation!IInv, Creation!Typed, Creation!Answers
    <3>2. keys'[<<a.customer, a.key>>] = keys[<<a.customer, a.key>>]
      BY <1>3, <1>7, <3>1 DEF Creation!AnswerOk
    <3> QED
      BY <3>1, <3>2 DEF Creation!AnswerOk
  <2> QED
    BY <1>5, <2>1, <2>2
<1> QED
  BY <1>8, <1>9, <1>10, <1>11, <1>12, <1>13 DEF Creation!IInv

\* Another service moves a delivery on.
LEMMA DeliveryMovesOn ==
    ASSUME Creation!CreationAssumption, Creation!IInv, NEW r \in Creation!Reference,
           NEW m \in Moves, Creation!TransitionStatus(r, m[2])
    PROVE  Creation!IInv'
<1> DEFINE to == m[2]
           E == (Creation!Statuses \cup {Null}) \X Creation!Statuses
           new == [rows[r] EXCEPT !.status = to,
                                  !.events = Append(@, <<rows[r].status, to>>)]
           grown == Append(rows[r].events, <<rows[r].status, to>>)
<1>1. /\ rows[r] # Null /\ UNCHANGED <<keys, seq, clock, creators, answers>>
      /\ rows' = [rows EXCEPT ![r].status = to,
                              ![r].events = Append(@, <<rows[r].status, to>>)]
  BY DEF Creation!TransitionStatus, Creation!Exists
<1>2. Creation!Typed /\ rows[r] \in Creation!Deliveries /\ to \in Creation!Statuses
  BY <1>1 DEF Creation!IInv, Creation!Typed, Creation!CreationAssumption
<1>3. ASSUME NEW u \in Creation!Deliveries, NEW s \in Creation!Statuses, NEW e \in Seq(E)
      PROVE  /\ [u EXCEPT !.status = s, !.events = e] \in Creation!Deliveries
             /\ [u EXCEPT !.status = s, !.events = e].customer = u.customer
             /\ [u EXCEPT !.status = s, !.events = e].reference = u.reference
             /\ [u EXCEPT !.status = s, !.events = e].columns = u.columns
  BY DEF Creation!Deliveries
<1>4. grown \in Seq(E)
  <2>1. rows[r].events \in Seq(E) /\ <<rows[r].status, to>> \in E
    BY <1>2 DEF Creation!Deliveries
  <2> HIDE DEF E
  <2> QED
    BY <2>1, Appended
<1>5. new = [rows[r] EXCEPT !.status = to, !.events = grown]
  BY <1>2 DEF Creation!Deliveries
<1> HIDE DEF E, grown
<1>6. /\ new \in Creation!Deliveries /\ new.customer = rows[r].customer
      /\ new.reference = rows[r].reference /\ new.columns = rows[r].columns
  <2> HIDE DEF new
  <2> QED
    BY ZenonT(30), <1>2, <1>3, <1>4, <1>5
<1>7. rows' = [rows EXCEPT ![r] = new]
  BY <1>1, <1>2 DEF Creation!Typed, Creation!Deliveries
<1>8. new # Null
  BY <1>6 DEF Creation!CreationAssumption
<1> HIDE DEF new
<1>9. /\ rows' \in [Creation!Reference -> Creation!Deliveries \cup {Null}]
      /\ rows'[r] = new /\ \A x \in Creation!Reference : x # r => rows'[x] = rows[x]
  BY <1>2, <1>6, <1>7 DEF Creation!Typed
<1>10. Creation!Typed'
  BY <1>1, <1>2, <1>9 DEF Creation!Typed
<1>11. \A x \in Creation!Reference :
          /\ (rows'[x] = Null) = (rows[x] = Null)
          /\ rows'[x].customer = rows[x].customer
          /\ rows'[x].reference = rows[x].reference
          /\ rows'[x].columns = rows[x].columns
  BY <1>1, <1>6, <1>8, <1>9
<1>12. \A x \in Creation!Reference : rows'[x] # Null => Creation!RowOk(x)'
  <2> SUFFICES ASSUME NEW x \in Creation!Reference, rows'[x] # Null
               PROVE  Creation!RowOk(x)'
    OBVIOUS
  <2>1. Creation!RowOk(x)
    BY <1>11 DEF Creation!IInv
  <2> QED
    BY <1>1, <1>11, <2>1 DEF Creation!RowOk
<1>13. \A x \in Customers \X Key : keys'[x] # Null => Creation!RecordOk(x)'
  <2> SUFFICES ASSUME NEW x \in Customers \X Key, keys'[x] # Null
               PROVE  Creation!RecordOk(x)'
    OBVIOUS
  <2>1. keys'[x] = keys[x] /\ Creation!RecordOk(x) /\ keys[x].reference \in Creation!Reference
    BY <1>1, <1>2 DEF Creation!IInv, Creation!Typed, Creation!Records
  <2> QED
    BY <1>11, <2>1 DEF Creation!RecordOk
<1>14. \A q \in Proc : Creation!HandlerOk(q)' /\ Creation!TransactionOk(q)'
  <2> SUFFICES ASSUME NEW q \in Proc
               PROVE  Creation!HandlerOk(q)' /\ Creation!TransactionOk(q)'
    OBVIOUS
  <2>1. Creation!HandlerOk(q) /\ Creation!TransactionOk(q)
    BY DEF Creation!IInv
  <2>2. Creation!HandlerOk(q)'
    BY <1>1, <2>1 DEF Creation!HandlerOk
  <2>3. Creation!TransactionOk(q)'
    BY <1>1, <1>11, <2>1
    DEF Creation!TransactionOk, Creation!InTransaction, Creation!KeyOf
  <2> QED
    BY <2>2, <2>3
<1>15. \A q, s \in Proc : q # s => Creation!Apart(q, s)'
  BY <1>1 DEF Creation!IInv, Creation!Apart, Creation!InTransaction, Creation!KeyOf
<1>16. \A a \in answers' : Creation!AnswerOk(a)'
  BY <1>1 DEF Creation!IInv, Creation!AnswerOk
<1> QED
  BY <1>10, <1>12, <1>13, <1>14, <1>15, <1>16 DEF Creation!IInv

\* Every step of the requests keeps what is known of them.
LEMMA CreationInductive ==
    ASSUME Creation!CreationAssumption, Creation!IInv, Creation!Next
    PROVE  Creation!IInv'
<1>1. CASE \E p \in Proc : Creation!Handle(p)
  <2> SUFFICES ASSUME NEW p \in Proc, Creation!Handle(p) PROVE Creation!IInv'
    BY <1>1
  <2>1. CASE Creation!Commit(p)
    BY <2>1, TransactionCommits DEF Creation!Commit
  <2>2. CASE Creation!CrashAfterCommit(p)
    BY <2>2, TransactionCommits DEF Creation!CrashAfterCommit
  <2> QED
    BY <2>1, <2>2, CreationFinds, CreationDraws, CreationSaves, CreationRaces, CreationAborts
    DEF Creation!Handle
<1>2. CASE \E p \in Proc, c \in Customers, k \in Key, b \in Racing \cup Edges \cup Listed :
             Creation!Receive(p, c, k, b)
  BY <1>2, CreationReceives
<1>3. CASE \E r \in Creation!Reference, m \in Moves : Creation!TransitionStatus(r, m[2])
  BY <1>3, DeliveryMovesOn
<1>4. CASE Creation!Tick
  <2>1. Creation!Typed'
    BY <1>4
    DEF Creation!IInv, Creation!Typed, Creation!Tick, Creation!CreationAssumption
  <2> QED
    BY <1>4, <2>1
    DEF Creation!IInv, Creation!Tick, Creation!RowOk, Creation!RecordOk, Creation!HandlerOk,
        Creation!TransactionOk, Creation!InTransaction, Creation!KeyOf, Creation!Apart,
        Creation!AnswerOk
<1> QED
  BY <1>1, <1>2, <1>3, <1>4 DEF Creation!Next

\* The greater of 1 and a number.
LEMMA AtLeastOne ==
    ASSUME NEW x \in Int
    PROVE  Creation!Max({1, x}) = IF x <= 1 THEN 1 ELSE x
<1> DEFINE m == IF x <= 1 THEN 1 ELSE x
<1>1. m \in {1, x} /\ \A y \in {1, x} : m >= y
  OBVIOUS
<1>2. \A z \in {1, x} : (\A y \in {1, x} : z >= y) => z = m
  OBVIOUS
<1> HIDE DEF m
<1>3. Creation!Max({1, x}) = m
  BY <1>1, <1>2 DEF Creation!Max
<1> QED
  BY <1>3 DEF m

\* Every place is on one of the pages that are announced.
LEMMA PlaceIsOnAPage ==
    ASSUME NEW total \in Nat, NEW limit \in {1, 2}, NEW a \in 1 .. total
    PROVE  \E i \in 1 .. Creation!Max({1, (total + limit - 1) \div limit}) :
             \E m \in 1 .. limit : (i - 1) * limit + m = a
<1> DEFINE pages == (total + limit - 1) \div limit
<1>1. pages \in Int
  OBVIOUS
<1>2. \A i \in Nat : 1 <= i /\ i <= pages => i \in 1 .. Creation!Max({1, pages})
  <2> HIDE DEF pages
  <2> QED
    BY <1>1, AtLeastOne
<1>3. CASE limit = 1
  <2>1. pages = total
    BY <1>3
  <2>2. a \in 1 .. Creation!Max({1, pages})
    BY <1>2, <2>1
  <2>3. (a - 1) * limit + 1 = a /\ 1 \in 1 .. limit
    BY <1>3
  <2> QED
    BY <2>2, <2>3
<1>4. CASE limit = 2
  <2>1. PICK h \in Nat : a = 2 * h + 1 \/ a = 2 * h + 2
    <3>1. (a - 1) \div 2 \in Nat
          /\ (a = 2 * ((a - 1) \div 2) + 1 \/ a = 2 * ((a - 1) \div 2) + 2)
      OBVIOUS
    <3> QED
      BY <3>1
  <2>2. h + 1 <= pages
    BY <1>4, <2>1
  <2>3. h + 1 \in 1 .. Creation!Max({1, pages})
    BY <1>2, <2>2
  <2>4. (h + 1 - 1) * limit = 2 * h
    BY <1>4
  <2>5. \E m \in 1 .. limit : (h + 1 - 1) * limit + m = a
    <3>1. CASE a = 2 * h + 1
      <4>1. 1 \in 1 .. limit /\ (h + 1 - 1) * limit + 1 = a
        BY <1>4, <2>4, <3>1
      <4> QED
        BY <4>1
    <3>2. CASE a = 2 * h + 2
      <4>1. 2 \in 1 .. limit /\ (h + 1 - 1) * limit + 2 = a
        BY <1>4, <2>4, <3>2
      <4> QED
        BY <4>1
    <3> QED
      BY <2>1, <3>1, <3>2
  <2> QED
    BY <2>3, <2>5
<1> QED
  BY <1>3, <1>4

\* P pages of a set of rows, and that they hold each of them once, newest first, and never
\* too many.
ArePages(pages, P, M, limit) ==
    \A i \in 1 .. P :
        /\ pages[i] = [m \in DOMAIN pages[i] |-> pages[i][m]]
        /\ \A m : m \in DOMAIN pages[i]
                 <=> m \in 1 .. limit /\ (i - 1) * limit + m <= Cardinality(M)
        /\ \A m \in DOMAIN pages[i] :
             pages[i][m] = Creation!Nth(M, Cardinality(M) - (i - 1) * limit - m + 1)
HoldAll(pages, P, M, limit) ==
    /\ \A i, j \in 1 .. P : \A m \in DOMAIN pages[i], n \in DOMAIN pages[j] :
           (i < j \/ (i = j /\ m < n)) => pages[i][m] > pages[j][n]
    /\ \A i \in 1 .. P : Len(pages[i]) <= limit
    /\ \A i \in 1 .. P : \A m \in DOMAIN pages[i] : pages[i][m] \in M
    /\ P = Creation!Max({1, (Cardinality(M) + limit - 1) \div limit})
       => \A r \in M : \E i \in 1 .. P : \E m \in DOMAIN pages[i] : pages[i][m] = r

\* The pages of a set of rows hold all of them.
LEMMA PagesHoldAll ==
    ASSUME NEW N \in Nat, NEW M \in SUBSET (1 .. N), NEW limit \in {1, 2},
           NEW P \in Nat, NEW page, ArePages(page, P, M, limit)
    PROVE  HoldAll(page, P, M, limit)
<1> DEFINE total == Cardinality(M)
           at(i, m) == (i - 1) * limit + m
           nth(n) == Creation!Nth(M, n)
           dom(i) == {m \in 1 .. limit : (i - 1) * limit + m <= Cardinality(M)}
<1>1. IsFiniteSet(M) /\ total \in Nat
  <2>1. IsFiniteSet(M)
    BY UnitsOfOneRow, FS_Subset
  <2> QED
    BY <2>1, FS_CardinalityType
<1>2. \A i \in 1 .. P : /\ DOMAIN page[i] = dom(i)
                        /\ \A m \in dom(i) :
                              page[i][m] = nth(total - (i - 1) * limit - m + 1)
                        /\ page[i] = [m \in dom(i) |-> page[i][m]]
  BY DEF ArePages
<1>3. ASSUME NEW i \in 1 .. P, NEW m \in dom(i)
      PROVE  /\ at(i, m) \in 1 .. total /\ total - at(i, m) + 1 \in 1 .. total
             /\ page[i][m] = nth(total - at(i, m) + 1)
             /\ page[i][m] \in M
  <2>1. (i - 1) * limit \in Nat /\ m \in 1 .. limit /\ m \in Nat /\ m >= 1
    <3>1. CASE limit = 1
      BY <3>1
    <3>2. CASE limit = 2
      BY <3>2
    <3> QED
      BY <3>1, <3>2
  <2>2. (i - 1) * limit + m <= total
    BY <1>3
  <2>3. at(i, m) \in 1 .. total /\ total - at(i, m) + 1 \in 1 .. total
    BY <1>1, <2>1, <2>2
  <2>4. total - (i - 1) * limit - m + 1 = total - at(i, m) + 1
    BY <1>1, <2>1
  <2>5. page[i][m] = nth(total - at(i, m) + 1)
    <3>1. page[i][m] = nth(total - (i - 1) * limit - m + 1)
      BY <1>2
    <3> HIDE DEF nth
    <3> QED
      BY <2>4, <3>1
  <2> HIDE DEF at
  <2>6. nth(total - at(i, m) + 1) \in M
    BY <2>3, NthOfNumbers
  <2> QED
    BY <2>3, <2>5, <2>6
<1>4. ASSUME NEW i \in 1 .. P, NEW j \in 1 .. P, NEW m \in dom(i), NEW n \in dom(j),
             i < j \/ (i = j /\ m < n)
      PROVE  page[i][m] > page[j][n]
  <2>1. at(i, m) < at(j, n)
    BY <1>4, PlacesInOrder
  <2>2. /\ at(i, m) \in 1 .. total /\ total - at(i, m) + 1 \in 1 .. total
        /\ at(j, n) \in 1 .. total /\ total - at(j, n) + 1 \in 1 .. total
        /\ page[i][m] = nth(total - at(i, m) + 1) /\ page[i][m] \in M
        /\ page[j][n] = nth(total - at(j, n) + 1) /\ page[j][n] \in M
    BY <1>3
  <2> HIDE DEF at
  <2>3. total - at(j, n) + 1 < total - at(i, m) + 1
    BY <1>1, <2>1, <2>2
  <2>4. nth(total - at(j, n) + 1) < nth(total - at(i, m) + 1)
    <3> DEFINE x == total - at(j, n) + 1
               y == total - at(i, m) + 1
    <3>1. x \in 1 .. total /\ y \in 1 .. total /\ x < y
      BY <2>2, <2>3
    <3> HIDE DEF x, y
    <3>2. nth(x) < nth(y)
      BY <3>1, NthIsInOrder
    <3> QED
      BY <3>2 DEF x, y
  <2>5. page[i][m] \in Int /\ page[j][n] \in Int
    <3>1. \A x \in M : x \in Int
      OBVIOUS
    <3> QED
      BY <2>2, <3>1
  <2> HIDE DEF nth
  <2> QED
    BY <2>2, <2>4, <2>5
<1>5. ASSUME NEW i \in 1 .. P PROVE Len(page[i]) <= limit
  <2>1. PICK len \in 0 .. limit : dom(i) = 1 .. len
    BY <1>1, PlacesOfPage
  <2>2. page[i] \in [1 .. len -> M] /\ len \in Nat
    <3>1. page[i] = [m \in dom(i) |-> page[i][m]]
      BY <1>2
    <3>2. \A m \in dom(i) : page[i][m] \in M
      BY <1>3
    <3> HIDE DEF dom, nth
    <3>3. page[i] = [m \in 1 .. len |-> page[i][m]]
      BY <2>1, <3>1
    <3> QED
      BY <2>1, <3>2, <3>3
  <2>3. Len(page[i]) = len
    BY <2>2, SequenceOf
  <2> QED
    BY <2>1, <2>3
<1>6. ASSUME P = Creation!Max({1, (Cardinality(M) + limit - 1) \div limit}), NEW r \in M
      PROVE  \E i \in 1 .. P : \E m \in DOMAIN page[i] : page[i][m] = r
  <2> DEFINE rank == Cardinality({k \in M : k < r}) + 1
             a == total - rank + 1
  <2>1. rank \in 1 .. total /\ nth(rank) = r
    BY NthIsInOrder
  <2> HIDE DEF rank
  <2>2. a \in 1 .. total /\ total - a + 1 = rank
    BY <1>1, <2>1
  <2> HIDE DEF a
  <2>3. PICK i \in 1 .. P : \E m \in 1 .. limit : (i - 1) * limit + m = a
    <3> HIDE DEF total
    <3>1. \E i \in 1 .. Creation!Max({1, (total + limit - 1) \div limit}) :
             \E m \in 1 .. limit : (i - 1) * limit + m = a
      <4>1. \A t \in Nat : \A b \in 1 .. t :
               \E i \in 1 .. Creation!Max({1, (t + limit - 1) \div limit}) :
                 \E m \in 1 .. limit : (i - 1) * limit + m = b
        BY PlaceIsOnAPage
      <4>2. total \in Nat /\ a \in 1 .. total
        BY <1>1, <2>2
      <4> QED
        BY <4>1, <4>2
    <3> QED
      BY <1>6, <3>1 DEF total
  <2>4. PICK m \in 1 .. limit : (i - 1) * limit + m = a
    BY <2>3
  <2>5. m \in dom(i)
    BY <2>2, <2>4
  <2>6. page[i][m] = nth(total - at(i, m) + 1)
    BY <1>3, <2>5
  <2>7. page[i][m] = r
    BY <2>1, <2>2, <2>4, <2>6
  <2> QED
    BY <1>2, <2>5, <2>7
<1> QED
  BY ZenonT(30), <1>2, <1>3, <1>4, <1>5, <1>6 DEF HoldAll

\* The types of the tables.
LEMMA CreationIsTyped ==
    ASSUME Creation!CreationAssumption, Creation!IInv
    PROVE  Creation!TypeOK
<1>1. Creation!Typed
  BY DEF Creation!IInv
<1>2. \A r \in Creation!Reference : Creation!Exists(r) =>
        /\ rows[r].customer \in Customers /\ rows[r].reference = r
        /\ rows[r].status \in Creation!Statuses
  <2> SUFFICES ASSUME NEW r \in Creation!Reference, Creation!Exists(r)
               PROVE  /\ rows[r].customer \in Customers /\ rows[r].reference = r
                      /\ rows[r].status \in Creation!Statuses
    OBVIOUS
  <2>1. rows[r] \in Creation!Deliveries /\ Creation!RowOk(r)
    BY <1>1 DEF Creation!Typed, Creation!Exists, Creation!IInv
  <2> QED
    BY <2>1 DEF Creation!Deliveries, Creation!RowOk
<1>3. \A k \in Customers \X Key : keys[k] # Null => keys[k].reference \in Creation!Reference
  BY <1>1 DEF Creation!Typed, Creation!Records
<1>4. \A p \in Proc :
        creators[p].pc \in {"idle", "find", "create", "save", "commit", "raced"}
  BY <1>1 DEF Creation!Typed, Creation!Handlers
<1> QED
  BY <1>1, <1>2, <1>3, <1>4 DEF Creation!TypeOK, Creation!Typed

\* One delivery for a key, and answers that agree with it.
LEMMA CreatedOnce ==
    ASSUME Creation!CreationAssumption, Creation!IInv
    PROVE  /\ Creation!OneDeliveryPerKey /\ Creation!AnswersAgree
           /\ Creation!AnsweredIsStored /\ Creation!LoserFindsWinner
           /\ Creation!StoredIsSound
<1>1. Creation!Typed
  BY DEF Creation!IInv
<1>2. Creation!OneDeliveryPerKey
  BY DEF Creation!IInv, Creation!OneDeliveryPerKey, Creation!Exists, Creation!RowOk,
         Creation!RecordOk
<1>3. Creation!AnswersAgree
  BY DEF Creation!IInv, Creation!AnswersAgree, Creation!AnswerOk
<1>4. Creation!AnsweredIsStored
  <2> SUFFICES ASSUME NEW a \in answers
               PROVE  /\ Creation!Exists(a.detail.reference)
                      /\ rows[a.detail.reference].customer = a.customer
                      /\ rows[a.detail.reference].columns = Creation!normalizeCreateInput(a.body)
    BY DEF Creation!AnsweredIsStored
  <2> DEFINE k == <<a.customer, a.key>>
  <2>1. /\ Creation!AnswerOk(a) /\ k \in Customers \X Key /\ k[1] = a.customer
    BY <1>1 DEF Creation!IInv, Creation!Typed, Creation!Answers
  <2>2. /\ keys[k] # Null /\ a.body = keys[k].requestHash
        /\ a.detail = keys[k].responsePayload
    BY <2>1 DEF Creation!AnswerOk
  <2> HIDE DEF k
  <2>3. Creation!RecordOk(k)
    BY <2>1, <2>2 DEF Creation!IInv
  <2> QED
    BY <2>1, <2>2, <2>3 DEF Creation!RecordOk, Creation!Exists
<1>5. Creation!LoserFindsWinner
  BY DEF Creation!IInv, Creation!LoserFindsWinner, Creation!TransactionOk
<1>6. Creation!StoredIsSound
  BY DEF Creation!IInv, Creation!StoredIsSound, Creation!Exists, Creation!RowOk
<1> QED
  BY <1>2, <1>3, <1>4, <1>5, <1>6

\* What a list matches.
LEMMA MatchingIsTheList ==
    ASSUME Creation!CreationAssumption, Creation!IInv, NEW c \in Customers,
           NEW role \in {"CUSTOMER", "ADMIN"}, NEW status
    PROVE  /\ Creation!Matching(c, role, status) =
                {r \in Creation!Reference :
                   /\ Creation!Exists(r)
                   /\ status \in {Null, rows[r].status}
                   /\ role = "ADMIN"
                      \/ (/\ rows[r].customer = c
                          /\ rows[r].status \notin Creation!DRAFT \union {"FAILED"})}
           /\ Creation!Matching(c, role, status) \subseteq Creation!getDelivery(c, role)
           /\ role = "CUSTOMER" /\ status # Null
              /\ status \notin Creation!CUSTOMER_VISIBLE_DELIVERY_STATUSES
              => Creation!Matching(c, role, status) = {}
<1>1. \A r \in Creation!Reference : Creation!Exists(r) => rows[r].status \in Creation!Statuses
  BY CreationIsTyped DEF Creation!TypeOK
<1>2. \A s \in Creation!Statuses :
         s \in Creation!CUSTOMER_VISIBLE_DELIVERY_STATUSES
         <=> s \notin Creation!DRAFT \union {"FAILED"}
  BY DEF Creation!Statuses, Creation!DRAFT, Creation!CUSTOMER_VISIBLE_DELIVERY_STATUSES
<1>3. role = "CUSTOMER" <=> role # "ADMIN"
  OBVIOUS
<1> QED
  BY <1>1, <1>2, <1>3 DEF Creation!Matching, Creation!Of, Creation!getDelivery

\* The pages are the list.
LEMMA PagesAreComplete ==
    ASSUME Creation!CreationAssumption, Creation!IInv
    PROVE  Creation!PagesAreTheList
<1> SUFFICES ASSUME NEW c \in Customers, NEW role \in {"CUSTOMER", "ADMIN"},
                    NEW limit \in {1, 2}, NEW status \in {Null, "CREATED", "FAILED", "BOOKED"}
             PROVE  LET pages == [i \in 1 .. Creation!TotalPages(c, role, status, limit) |->
                                      Creation!Page(c, role, status, i, limit)]
                        list == UNION {Creation!Range(pages[i]) : i \in DOMAIN pages}
                    IN  /\ \A i, j \in DOMAIN pages :
                             \A m \in DOMAIN pages[i], n \in DOMAIN pages[j] :
                               (i < j \/ (i = j /\ m < n)) => pages[i][m] > pages[j][n]
                        /\ \A i \in DOMAIN pages : Len(pages[i]) <= limit
                        /\ list = {r \in Creation!Reference :
                               /\ Creation!Exists(r)
                               /\ status \in {Null, rows[r].status}
                               /\ role = "ADMIN"
                                  \/ (/\ rows[r].customer = c
                                      /\ rows[r].status
                                           \notin Creation!DRAFT \union {"FAILED"})}
                        /\ list \subseteq Creation!getDelivery(c, role)
  BY DEF Creation!PagesAreTheList
<1> DEFINE M == Creation!Matching(c, role, status)
           P == Creation!TotalPages(c, role, status, limit)
           pages == [i \in 1 .. P |-> Creation!Page(c, role, status, i, limit)]
           list == UNION {Creation!Range(pages[i]) : i \in DOMAIN pages}
           hidden == /\ role = "CUSTOMER" /\ status # Null
                     /\ status \notin Creation!CUSTOMER_VISIBLE_DELIVERY_STATUSES
<1>1. MaxSeq \in Nat /\ M \in SUBSET (1 .. MaxSeq)
  BY DEF Creation!CreationAssumption, Creation!Matching, Creation!Of, Creation!Reference
<1>2. P = IF hidden THEN 0 ELSE Creation!Max({1, (Cardinality(M) + limit - 1) \div limit})
  BY CreationCounts DEF Creation!TotalPages, Creation!Total
<1>3. hidden => M = {}
  BY MatchingIsTheList
<1>4. Cardinality(M) \in Nat
  <2> HIDE DEF M
  <2>1. IsFiniteSet(M)
    BY <1>1, UnitsOfOneRow, FS_Subset
  <2> QED
    BY <2>1, FS_CardinalityType
<1>5. P \in Nat
  <2> DEFINE x == (Cardinality(M) + limit - 1) \div limit
  <2>1. x \in Int
    <3> HIDE DEF M
    <3>1. CASE limit = 1
      BY <1>4, <3>1
    <3>2. CASE limit = 2
      BY <1>4, <3>2
    <3> QED
      BY <3>1, <3>2
  <2> HIDE DEF x, M, hidden, P
  <2>2. Creation!Max({1, x}) \in Nat
    BY <2>1, AtLeastOne
  <2> QED
    BY <1>2, <2>2 DEF x
<1>6. \A i \in 1 .. P :
        pages[i] = [m \in {m \in 1 .. limit : (i - 1) * limit + m <= Cardinality(M)} |->
                      Creation!Nth(M, Cardinality(M) - (i - 1) * limit - m + 1)]
  BY CreationCounts DEF Creation!Page
<1>7. DOMAIN pages = 1 .. P
  OBVIOUS
<1> HIDE DEF M, P, pages, hidden
<1>8. HoldAll(pages, P, M, limit)
  <2>1. ArePages(pages, P, M, limit)
    BY <1>6 DEF ArePages
  <2> QED
    BY <1>1, <1>5, <2>1, PagesHoldAll
<1>9. list = M
  <2>1. list \subseteq M
    BY <1>7, <1>8 DEF Creation!Range, HoldAll
  <2>2. \A r \in M : \E i \in 1 .. P : \E m \in DOMAIN pages[i] : pages[i][m] = r
    BY <1>2, <1>3, <1>8 DEF HoldAll
  <2>3. M \subseteq list
    BY <1>7, <2>2 DEF Creation!Range
  <2> QED
    BY <2>1, <2>3
<1> HIDE DEF list
<1>10. /\ list = {r \in Creation!Reference :
                   /\ Creation!Exists(r)
                   /\ status \in {Null, rows[r].status}
                   /\ role = "ADMIN"
                      \/ (/\ rows[r].customer = c
                          /\ rows[r].status \notin Creation!DRAFT \union {"FAILED"})}
       /\ list \subseteq Creation!getDelivery(c, role)
  BY <1>9, MatchingIsTheList DEF M
<1>11. /\ \A i, j \in DOMAIN pages : \A m \in DOMAIN pages[i], n \in DOMAIN pages[j] :
             (i < j \/ (i = j /\ m < n)) => pages[i][m] > pages[j][n]
       /\ \A i \in DOMAIN pages : Len(pages[i]) <= limit
  BY <1>7, <1>8 DEF HoldAll
<1> QED
  BY <1>10, <1>11 DEF pages, list, P

\* The latest of some attempts.
LEMMA LatestAttempt ==
    ASSUME Selection!OrchestrationAssumption, NEW R \in SUBSET Selection!Attempt
    PROVE  /\ R = {} => Selection!Latest(R) = 0
           /\ R # {} => /\ Selection!Latest(R) \in R
                        /\ \A m \in R : m <= Selection!Latest(R)
           /\ Selection!Latest(R) \in 0 .. MaxAttempts
<1>1. MaxAttempts \in Nat /\ R \in SUBSET (0 .. MaxAttempts)
  BY DEF Selection!OrchestrationAssumption, Selection!Attempt
<1>2. CASE R = {}
  BY <1>1, <1>2 DEF Selection!Latest
<1>3. CASE R # {}
  <2>1. PICK x \in R : \A y \in R : y <= x
    BY <1>1, <1>3, GreatestElement
  <2>2. \A y \in R : y \in Nat
    BY <1>1
  <2>3. \E z \in R : \A y \in R : z >= y
    BY <2>1, <2>2
  <2>4. /\ Selection!Latest(R) \in R
        /\ \A y \in R : Selection!Latest(R) >= y
    BY <1>3, <2>3 DEF Selection!Latest, Selection!Max
  <2> QED
    BY <1>1, <1>3, <2>2, <2>4
<1> QED
  BY <1>2, <1>3

\* Nothing is asked in the beginning.
LEMMA OrchestrationBegins ==
    ASSUME Selection!OrchestrationAssumption, Selection!Init
    PROVE  Selection!IInv
<1>1. Selection!Idle \in Selection!Handlers
  BY DEF Selection!OrchestrationAssumption, Selection!Idle,
         Selection!Handlers, Selection!Silent, Selection!Class
<1>2. Selection!NotReading \in Selection!Readers
  BY DEF Selection!NotReading, Selection!Readers
<1>3. Selection!Typed
  BY <1>1, <1>2 DEF Selection!Init, Selection!Typed, Selection!Statuses
<1>4. \A p \in Proc : orchestrators[p].pc = "idle"
  BY DEF Selection!Init, Selection!Idle
<1>5. \A r \in Reader : reader[r].pc = "idle"
  BY DEF Selection!Init, Selection!NotReading
<1>6. Selection!OneOwner /\ Selection!OfferIsLast
  BY <1>4
  DEF Selection!Init, Selection!OneOwner, Selection!Owning,
      Selection!OfferIsLast
<1>7. \A n \in Selection!Attempt : Selection!AttemptOk(n)
  BY DEF Selection!Init, Selection!AttemptOk
<1>8. \A p \in Proc : Selection!HandlerOk(p)
  BY <1>4 DEF Selection!HandlerOk, Selection!Owning
<1>9. \A r \in Reader : Selection!ReaderOk(r)
  BY <1>5 DEF Selection!ReaderOk
<1> QED
  BY <1>3, <1>6, <1>7, <1>8, <1>9 DEF Selection!IInv

\* A handler that changes what it knows, and no row.
LEMMA OrchestratorMoves ==
    ASSUME Selection!IInv, NEW p \in Proc, NEW h \in Selection!Handlers,
           orchestrators' = [orchestrators EXCEPT ![p] = h],
           UNCHANGED <<delivery, request, option, asked, reader>>,
           h.pc \in Selection!Owning => orchestrators[p].pc \in Selection!Owning,
           Selection!HandlerOk(p)'
    PROVE  Selection!IInv'
<1>1. Selection!Typed
  BY DEF Selection!IInv
<1>2. /\ orchestrators'[p] = h
      /\ \A q \in Proc : q # p => orchestrators'[q] = orchestrators[q]
      /\ orchestrators' \in [Proc -> Selection!Handlers]
  BY <1>1 DEF Selection!Typed
<1>3. Selection!Typed'
  BY <1>1, <1>2 DEF Selection!Typed
<1>4. \A q \in Proc : orchestrators'[q].pc \in Selection!Owning
                      => orchestrators[q].pc \in Selection!Owning
  BY <1>2
<1>5. Selection!OneOwner'
  BY <1>4 DEF Selection!IInv, Selection!OneOwner
<1>6. Selection!OfferIsLast'
  BY DEF Selection!IInv, Selection!OfferIsLast, Selection!IsLast
<1>7. \A n \in Selection!Attempt : Selection!AttemptOk(n)'
  BY DEF Selection!IInv, Selection!AttemptOk, Selection!IsLast
<1>8. \A q \in Proc : Selection!HandlerOk(q)'
  <2> SUFFICES ASSUME NEW q \in Proc, q # p PROVE Selection!HandlerOk(q)'
    OBVIOUS
  <2>1. Selection!HandlerOk(q)
    BY DEF Selection!IInv
  <2> QED
    BY <1>2, <2>1 DEF Selection!HandlerOk
<1>9. \A r \in Reader : Selection!ReaderOk(r)'
  BY DEF Selection!IInv, Selection!ReaderOk
<1> QED
  BY <1>3, <1>5, <1>6, <1>7, <1>8, <1>9 DEF Selection!IInv

\* A handler that ends, or dies.
LEMMA OrchestratorEnds ==
    ASSUME Selection!OrchestrationAssumption, Selection!IInv, NEW p \in Proc,
           orchestrators' = [orchestrators EXCEPT ![p] = Selection!Idle],
           UNCHANGED <<delivery, request, option, asked, reader>>
    PROVE  Selection!IInv'
<1>1. Selection!Idle \in Selection!Handlers
  BY DEF Selection!OrchestrationAssumption, Selection!Idle,
         Selection!Handlers, Selection!Silent, Selection!Class
<1>2. orchestrators'[p].pc = "idle"
  BY DEF Selection!IInv, Selection!Typed, Selection!Idle
<1>3. Selection!HandlerOk(p)'
  BY <1>2 DEF Selection!HandlerOk, Selection!Owning
<1>4. Selection!Idle.pc \notin Selection!Owning
  BY DEF Selection!Idle, Selection!Owning
<1> QED
  BY <1>1, <1>3, <1>4, OrchestratorMoves

\* A handler whose program counter, number, outcomes or deadline changes is one still.
LEMMA OrchestratorsGo ==
    ASSUME NEW u \in Selection!Handlers,
           NEW pc \in {"idle", "number", "start", "answer"} \cup Selection!Owning
    PROVE  /\ [u EXCEPT !.pc = pc] \in Selection!Handlers
           /\ [u EXCEPT !.pc = pc].pc = pc
           /\ [u EXCEPT !.pc = pc].attempt = u.attempt
           /\ [u EXCEPT !.pc = pc].outcome = u.outcome
           /\ [u EXCEPT !.pc = pc].late = u.late
           /\ [u EXCEPT !.pc = pc].answer = u.answer
  BY DEF Selection!Handlers

\* Replacing the outcomes of a handler leaves its other fields.
LEMMA OutcomesReplaced ==
    ASSUME NEW u \in Selection!Handlers,
           NEW o \in [Candidate -> Selection!Class \cup {"none", "asked"}]
    PROVE  /\ [u EXCEPT !.outcome = o] \in Selection!Handlers
           /\ [u EXCEPT !.outcome = o].pc = u.pc
           /\ [u EXCEPT !.outcome = o].attempt = u.attempt
           /\ [u EXCEPT !.outcome = o].outcome = o
           /\ [u EXCEPT !.outcome = o].late = u.late
  BY DEF Selection!Handlers

\* A handler that goes on.
LEMMA OrchestratorGoesOn ==
    ASSUME Selection!IInv, NEW p \in Proc,
           NEW pc \in {"idle", "number", "start", "answer"} \cup Selection!Owning,
           Selection!Goto(p, pc), UNCHANGED <<delivery, request, option, asked, reader>>,
           pc \in Selection!Owning => orchestrators[p].pc \in Selection!Owning,
           pc \notin {"start", "ask"}
    PROVE  Selection!IInv'
<1>1. Selection!Typed /\ Selection!HandlerOk(p)
  BY DEF Selection!IInv
<1>2. orchestrators[p] \in Selection!Handlers
  BY <1>1 DEF Selection!Typed
<1>3. PICK h \in Selection!Handlers : h = [orchestrators[p] EXCEPT !.pc = pc]
  BY <1>2, OrchestratorsGo
<1>4. h.pc = pc /\ h.attempt = orchestrators[p].attempt
  BY <1>2, <1>3, OrchestratorsGo
<1>5. orchestrators' = [orchestrators EXCEPT ![p] = h]
  BY <1>1, <1>3 DEF Selection!Goto, Selection!Typed
<1>6. orchestrators'[p] = h
  BY <1>1, <1>5 DEF Selection!Typed
<1>7. Selection!HandlerOk(p)'
  BY <1>1, <1>4, <1>6 DEF Selection!HandlerOk
<1> QED
  BY <1>4, <1>5, <1>7, OrchestratorMoves

\* A request to orchestrate, and its number.
LEMMA OrchestrateBegins ==
    ASSUME Selection!OrchestrationAssumption, Selection!IInv, NEW p \in Proc,
           Selection!Orchestrate(p)
    PROVE  Selection!IInv'
<1>1. Selection!Typed
  BY DEF Selection!IInv
<1>2. Selection!Idle \in Selection!Handlers
  BY DEF Selection!OrchestrationAssumption, Selection!Idle,
         Selection!Handlers, Selection!Silent, Selection!Class
<1>3. PICK h \in Selection!Handlers : h = [Selection!Idle EXCEPT !.pc = "number"]
  BY <1>2, OrchestratorsGo
<1>4. h.pc = "number"
  BY <1>2, <1>3, OrchestratorsGo
<1>5. orchestrators' = [orchestrators EXCEPT ![p] = h]
      /\ UNCHANGED <<delivery, request, option, asked, reader>>
  BY <1>3 DEF Selection!Orchestrate
<1>6. orchestrators'[p] = h
  BY <1>1, <1>5 DEF Selection!Typed
<1>7. Selection!HandlerOk(p)'
  BY <1>4, <1>6 DEF Selection!HandlerOk, Selection!Owning
<1>8. h.pc \notin Selection!Owning
  BY <1>4 DEF Selection!Owning
<1> QED
  BY <1>5, <1>7, <1>8, OrchestratorMoves

\* The number of the next attempt is one more than that of the latest.
LEMMA OrchestrateCounts ==
    ASSUME Selection!OrchestrationAssumption, Selection!IInv, NEW p \in Proc,
           Selection!getNextAttemptNumber(p)
    PROVE  Selection!IInv'
<1> DEFINE R == Selection!Rows({"RUNNING", "COMPLETED", "FAILED"})
           next == Selection!Latest(R) + 1
<1>1. Selection!Typed /\ orchestrators[p] \in Selection!Handlers
  BY DEF Selection!IInv, Selection!Typed
<1>2. /\ next \in Selection!Attempt
      /\ orchestrators' = [orchestrators EXCEPT ![p].pc = "start", ![p].attempt = next]
      /\ UNCHANGED <<delivery, request, option, asked, reader>>
  BY DEF Selection!getNextAttemptNumber
<1>3. \A m \in Selection!Attempt : m < next => request[m] # "NONE"
  <2> SUFFICES ASSUME NEW m \in Selection!Attempt, m < next
               PROVE  request[m] # "NONE"
    OBVIOUS
  <2>1. R \in SUBSET Selection!Attempt /\ m \in Nat /\ m >= 1
    BY DEF Selection!Rows, Selection!Attempt
  <2>2. \A n \in R : request[n] # "NONE"
    BY DEF Selection!Rows
  <2> HIDE DEF R
  <2>3. Selection!Latest(R) \in 0 .. MaxAttempts
    BY <2>1, LatestAttempt
  <2>4. MaxAttempts \in Nat
    BY DEF Selection!OrchestrationAssumption
  <2>5. m <= Selection!Latest(R) /\ Selection!Latest(R) # 0
    BY <2>1, <2>3, <2>4
  <2>6. Selection!Latest(R) \in R
    BY <2>1, <2>5, LatestAttempt
  <2>7. \A k \in Selection!Attempt :
           request[Selection!Latest(R)] # "NONE" /\ k < Selection!Latest(R)
           => request[k] # "NONE"
    BY <2>1, <2>6 DEF Selection!IInv, Selection!AttemptOk
  <2>8. CASE m = Selection!Latest(R)
    BY <2>2, <2>6, <2>8
  <2>9. CASE m < Selection!Latest(R)
    BY <2>2, <2>6, <2>7, <2>9
  <2> QED
    BY <2>1, <2>3, <2>4, <2>5, <2>8, <2>9
<1> HIDE DEF next
<1>4. ASSUME NEW u \in Selection!Handlers, NEW n \in 0 .. MaxAttempts
      PROVE  /\ [u EXCEPT !.pc = "start", !.attempt = n] \in Selection!Handlers
             /\ [u EXCEPT !.pc = "start", !.attempt = n].pc = "start"
             /\ [u EXCEPT !.pc = "start", !.attempt = n].attempt = n
  BY DEF Selection!Handlers
<1>5. next \in 0 .. MaxAttempts
  BY <1>2 DEF Selection!Attempt, Selection!OrchestrationAssumption
<1>6. PICK h \in Selection!Handlers :
         h = [orchestrators[p] EXCEPT !.pc = "start", !.attempt = next]
  BY <1>1, <1>4, <1>5
<1>7. h.pc = "start" /\ h.attempt = next
  BY <1>1, <1>4, <1>5, <1>6
<1>8. orchestrators' = [orchestrators EXCEPT ![p] = h]
  BY <1>1, <1>2, <1>6 DEF Selection!Typed
<1>9. orchestrators'[p] = h
  BY <1>1, <1>8 DEF Selection!Typed
<1>10. Selection!HandlerOk(p)'
  BY <1>2, <1>3, <1>7, <1>9 DEF Selection!HandlerOk, Selection!Owning
<1>11. h.pc \notin Selection!Owning
  BY <1>7 DEF Selection!Owning
<1> QED
  BY <1>2, <1>8, <1>10, <1>11, OrchestratorMoves

\* New outcomes of a handler that asks.
LEMMA OutcomesMove ==
    ASSUME Selection!IInv, NEW p \in Proc, orchestrators[p].pc = "ask",
           NEW h \in Selection!Handlers, h.pc \in {"ask", "finalize"},
           h.attempt = orchestrators[p].attempt,
           \A w \in Preferred : h.outcome[w] # "none",
           orchestrators' = [orchestrators EXCEPT ![p] = h],
           UNCHANGED <<delivery, request, option, asked, reader>>
    PROVE  Selection!IInv'
<1>1. Selection!Typed /\ Selection!HandlerOk(p)
  BY DEF Selection!IInv
<1>2. orchestrators'[p] = h
  BY <1>1 DEF Selection!Typed
<1>3. Selection!HandlerOk(p)'
  BY <1>1, <1>2 DEF Selection!HandlerOk, Selection!Owning
<1>4. orchestrators[p].pc \in Selection!Owning
  BY DEF Selection!Owning
<1> QED
  BY <1>3, <1>4, OrchestratorMoves

\* The preferred providers are asked first, or all of them when none is preferred.
LEMMA ProvidersAreListed ==
    ASSUME Selection!OrchestrationAssumption, Selection!IInv, NEW p \in Proc,
           Selection!ListProviders(p)
    PROVE  Selection!IInv'
<1> DEFINE first == IF Preferred # {} THEN Preferred ELSE Candidate
           o == [v \in Candidate |-> IF v \in first THEN "asked" ELSE "none"]
<1>1. /\ Selection!Typed /\ Selection!HandlerOk(p)
      /\ orchestrators[p] \in Selection!Handlers
  BY DEF Selection!IInv, Selection!Typed
<1>2. /\ orchestrators[p].pc = "list" /\ orchestrators[p].pc \in Selection!Owning
      /\ UNCHANGED <<delivery, request, option, asked, reader>>
  BY DEF Selection!ListProviders, Selection!Owning
<1>3. CASE Selection!Goto(p, "fail")
  <2>1. "fail" \in Selection!Owning /\ "fail" \notin {"start", "ask"}
    BY DEF Selection!Owning
  <2> QED
    BY <1>2, <1>3, <2>1, OrchestratorGoesOn
<1>4. CASE orchestrators' = [orchestrators EXCEPT ![p].pc = "ask", ![p].outcome = o]
  <2>1. o \in [Candidate -> Selection!Class \cup {"none", "asked"}]
    OBVIOUS
  <2>2. \A w \in Preferred : o[w] # "none"
    BY DEF Selection!OrchestrationAssumption
  <2> HIDE DEF o
  <2>3. ASSUME NEW u \in Selection!Handlers
        PROVE  /\ [u EXCEPT !.pc = "ask", !.outcome = o] \in Selection!Handlers
               /\ [u EXCEPT !.pc = "ask", !.outcome = o].pc = "ask"
               /\ [u EXCEPT !.pc = "ask", !.outcome = o].attempt = u.attempt
               /\ [u EXCEPT !.pc = "ask", !.outcome = o].outcome = o
    BY <2>1 DEF Selection!Handlers, Selection!Owning
  <2>4. PICK h \in Selection!Handlers :
           h = [orchestrators[p] EXCEPT !.pc = "ask", !.outcome = o]
    BY <1>1, <2>3
  <2>5. h.pc = "ask" /\ h.attempt = orchestrators[p].attempt /\ h.outcome = o
    BY <1>1, <2>3, <2>4
  <2>6. orchestrators' = [orchestrators EXCEPT ![p] = h]
    BY <1>1, <1>4, <2>4 DEF Selection!Typed
  <2>7. orchestrators'[p] = h
    BY <1>1, <2>6 DEF Selection!Typed
  <2>8. Selection!HandlerOk(p)'
    BY <1>1, <1>2, <2>2, <2>5, <2>7 DEF Selection!HandlerOk, Selection!Owning
  <2> QED
    BY <1>2, <2>6, <2>8, OrchestratorMoves
<1> QED
  BY <1>3, <1>4 DEF Selection!ListProviders

\* A provider answers who has asked it.
LEMMA ProviderAnswers ==
    ASSUME Selection!OrchestrationAssumption, Selection!IInv, NEW p \in Proc,
           NEW v \in Candidate, Selection!Evaluate(p, v)
    PROVE  Selection!IInv'
<1>1. /\ Selection!Typed /\ Selection!HandlerOk(p)
      /\ orchestrators[p] \in Selection!Handlers
  BY DEF Selection!IInv, Selection!Typed
<1>2. PICK c \in Selection!Class :
         /\ orchestrators' = [orchestrators EXCEPT ![p].outcome[v] = c]
         /\ orchestrators[p].pc = "ask"
         /\ UNCHANGED <<delivery, request, option, asked, reader>>
  BY DEF Selection!Evaluate
<1> DEFINE o == [orchestrators[p].outcome EXCEPT ![v] = c]
<1>3. /\ orchestrators[p].outcome \in [Candidate -> Selection!Class \cup {"none", "asked"}]
      /\ o \in [Candidate -> Selection!Class \cup {"none", "asked"}]
  BY <1>1 DEF Selection!Handlers
<1>4. \A w \in Preferred : o[w] # "none"
  BY <1>1, <1>2, <1>3
  DEF Selection!HandlerOk, Selection!OrchestrationAssumption, Selection!Class
<1>5. orchestrators' = [orchestrators EXCEPT ![p] = [orchestrators[p] EXCEPT !.outcome = o]]
  BY <1>1, <1>2 DEF Selection!Typed, Selection!Handlers
<1> HIDE DEF o
<1>6. PICK h \in Selection!Handlers : h = [orchestrators[p] EXCEPT !.outcome = o]
  BY <1>1, <1>3, OutcomesReplaced
<1>7. h.pc = "ask" /\ h.attempt = orchestrators[p].attempt /\ h.outcome = o
  BY <1>1, <1>2, <1>3, <1>6, OutcomesReplaced
<1>8. orchestrators' = [orchestrators EXCEPT ![p] = h]
  BY <1>5, <1>6
<1>9. /\ \A w \in Preferred : h.outcome[w] # "none"
      /\ h.pc \in {"ask", "finalize"} /\ h.attempt = orchestrators[p].attempt
  BY <1>4, <1>7
<1>10. orchestrators[p].pc = "ask" /\ UNCHANGED <<delivery, request, option, asked, reader>>
  BY <1>2
<1> QED
  BY <1>8, <1>9, <1>10, OutcomesMove

\* At the deadline, whoever has not answered counts as timed out.
LEMMA DeadlineComes ==
    ASSUME Selection!OrchestrationAssumption, Selection!IInv, NEW p \in Proc,
           Selection!Deadline(p)
    PROVE  Selection!IInv'
<1> DEFINE o == [v \in Candidate |-> IF orchestrators[p].outcome[v] = "asked" THEN "TIMEOUT"
                                     ELSE orchestrators[p].outcome[v]]
<1>1. /\ Selection!Typed /\ Selection!HandlerOk(p)
      /\ orchestrators[p] \in Selection!Handlers
      /\ orchestrators[p].outcome \in [Candidate -> Selection!Class \cup {"none", "asked"}]
  BY DEF Selection!IInv, Selection!Typed, Selection!Handlers
<1>2. /\ orchestrators[p].pc = "ask" /\ UNCHANGED <<delivery, request, option, asked, reader>>
      /\ orchestrators' = [orchestrators EXCEPT ![p].late = TRUE, ![p].outcome = o]
  BY <1>1 DEF Selection!Deadline, Selection!Typed, Selection!Handlers
<1>3. o \in [Candidate -> Selection!Class \cup {"none", "asked"}]
  BY <1>1 DEF Selection!Class
<1>4. \A w \in Preferred : o[w] # "none"
  BY <1>1, <1>2 DEF Selection!HandlerOk, Selection!OrchestrationAssumption
<1> HIDE DEF o
<1>5. PICK b \in BOOLEAN : orchestrators' = [orchestrators EXCEPT ![p].late = b, ![p].outcome = o]
  BY <1>2
<1>6. ASSUME NEW u \in Selection!Handlers
      PROVE  /\ [u EXCEPT !.late = b, !.outcome = o] \in Selection!Handlers
             /\ [u EXCEPT !.late = b, !.outcome = o].pc = u.pc
             /\ [u EXCEPT !.late = b, !.outcome = o].attempt = u.attempt
             /\ [u EXCEPT !.late = b, !.outcome = o].outcome = o
  BY <1>3 DEF Selection!Handlers
<1>7. PICK h \in Selection!Handlers :
         h = [orchestrators[p] EXCEPT !.late = b, !.outcome = o]
  BY <1>1, <1>6
<1>8. h.pc = "ask" /\ h.attempt = orchestrators[p].attempt /\ h.outcome = o
  BY <1>1, <1>2, <1>6, <1>7
<1>9. orchestrators' = [orchestrators EXCEPT ![p] = h]
  BY <1>1, <1>5, <1>7 DEF Selection!Typed
<1>10. /\ \A w \in Preferred : h.outcome[w] # "none"
       /\ h.pc \in {"ask", "finalize"} /\ h.attempt = orchestrators[p].attempt
  BY <1>4, <1>8
<1>11. orchestrators[p].pc = "ask" /\ UNCHANGED <<delivery, request, option, asked, reader>>
  BY <1>2
<1> QED
  BY <1>9, <1>10, <1>11, OutcomesMove

\* When all that were asked have settled, the fallback providers are asked or the result is
\* stored.
LEMMA AllHaveSettled ==
    ASSUME Selection!OrchestrationAssumption, Selection!IInv, NEW p \in Proc,
           Selection!Settled(p)
    PROVE  Selection!IInv'
<1> DEFINE fallback == {v \in Candidate : orchestrators[p].outcome[v] = "none"}
           o == [v \in Candidate |->
                   IF v \notin fallback THEN orchestrators[p].outcome[v]
                   ELSE IF orchestrators[p].late THEN "TIMEOUT" ELSE "asked"]
<1>1. /\ Selection!Typed /\ Selection!HandlerOk(p)
      /\ orchestrators[p] \in Selection!Handlers
      /\ orchestrators[p].outcome \in [Candidate -> Selection!Class \cup {"none", "asked"}]
  BY DEF Selection!IInv, Selection!Typed, Selection!Handlers
<1>2. orchestrators[p].pc = "ask" /\ UNCHANGED <<delivery, request, option, asked, reader>>
  BY DEF Selection!Settled
<1>3. CASE Selection!Goto(p, "finalize")
  <2>1. /\ "finalize" \in Selection!Owning /\ "finalize" \notin {"start", "ask"}
        /\ orchestrators[p].pc \in Selection!Owning
    BY <1>2 DEF Selection!Owning
  <2> QED
    BY <1>2, <1>3, <2>1, OrchestratorGoesOn
<1>4. CASE orchestrators' = [orchestrators EXCEPT ![p].outcome = o]
  <2>1. o \in [Candidate -> Selection!Class \cup {"none", "asked"}]
    BY <1>1 DEF Selection!Class
  <2>2. \A w \in Preferred : o[w] # "none"
    BY <1>1, <1>2 DEF Selection!HandlerOk, Selection!OrchestrationAssumption
  <2>3. orchestrators' = [orchestrators EXCEPT ![p] = [orchestrators[p] EXCEPT !.outcome = o]]
    BY <1>1, <1>4 DEF Selection!Typed, Selection!Handlers
  <2> HIDE DEF o
  <2>4. PICK h \in Selection!Handlers : h = [orchestrators[p] EXCEPT !.outcome = o]
    BY <1>1, <2>1, OutcomesReplaced
  <2>5. h.pc = "ask" /\ h.attempt = orchestrators[p].attempt /\ h.outcome = o
    BY <1>1, <1>2, <2>1, <2>4, OutcomesReplaced
  <2> QED
    BY <1>2, <2>2, <2>3, <2>4, <2>5, OutcomesMove
<1> QED
  BY <1>1, <1>3, <1>4 DEF Selection!Settled, Selection!Typed, Selection!Handlers

\* What runs is the last row, and runs alone.
LEMMA OneRowRuns ==
    ASSUME Selection!OrchestrationAssumption, Selection!IInv,
           NEW n \in Selection!Attempt, request[n] = "RUNNING"
    PROVE  /\ delivery \in {"ORCHESTRATING", "CANCELLED"}
           /\ \A m \in Selection!Attempt : m > n => request[m] = "NONE"
           /\ \A m \in Selection!Attempt : request[m] = "RUNNING" => m = n
           /\ option[n] = "none"
<1>1. Selection!AttemptOk(n) /\ \A m \in Selection!Attempt : Selection!AttemptOk(m)
  BY DEF Selection!IInv
<1>2. \A m \in Selection!Attempt : m > n => request[m] = "NONE"
  BY <1>1 DEF Selection!AttemptOk, Selection!IsLast
<1>3. \A m \in Selection!Attempt : request[m] = "RUNNING" /\ n > m => request[n] = "NONE"
  BY <1>1 DEF Selection!AttemptOk, Selection!IsLast
<1>4. \A m \in Selection!Attempt : m \in Nat
  BY DEF Selection!Attempt
<1>5. \A m \in Selection!Attempt : request[m] = "RUNNING" => m = n
  BY <1>2, <1>3, <1>4
<1> QED
  BY <1>1, <1>2, <1>5 DEF Selection!AttemptOk

\* The transaction that starts an attempt.
LEMMA AttemptStarts ==
    ASSUME Selection!OrchestrationAssumption, Selection!IInv, NEW p \in Proc,
           Selection!Start(p)
    PROVE  Selection!IInv'
<1> DEFINE n == orchestrators[p].attempt
<1>1. /\ orchestrators[p].pc = "start" /\ UNCHANGED <<option, asked, reader>>
      /\ Selection!Typed /\ Selection!HandlerOk(p)
  BY DEF Selection!Start, Selection!IInv
<1>2. CASE /\ orchestrators' = [orchestrators EXCEPT ![p] = Selection!Idle]
           /\ UNCHANGED <<delivery, request>>
  BY <1>1, <1>2, OrchestratorEnds
<1>3. CASE /\ delivery \in {"CREATED", "FAILED"} /\ request[n] = "NONE"
           /\ delivery' = "ORCHESTRATING" /\ request' = [request EXCEPT ![n] = "RUNNING"]
           /\ Selection!Goto(p, "list")
  <2>1. n \in Selection!Attempt
        /\ \A m \in Selection!Attempt : m < n => request[m] # "NONE"
    BY <1>1 DEF Selection!HandlerOk
  <2>2. \A m \in Selection!Attempt : m \in Nat
    BY DEF Selection!Attempt
  <2>3. \A m \in Selection!Attempt : request[m] # "RUNNING"
    BY <1>3, OneRowRuns
  <2>4. \A q \in Proc : orchestrators[q].pc \notin Selection!Owning
    BY <2>3 DEF Selection!IInv, Selection!HandlerOk
  <2>5. \A m \in Selection!Attempt : m > n => request[m] = "NONE"
    BY <1>3, <2>1, <2>2 DEF Selection!IInv, Selection!AttemptOk
  <2>6. PICK h \in Selection!Handlers : h = [orchestrators[p] EXCEPT !.pc = "list"]
    <3>1. orchestrators[p] \in Selection!Handlers /\ "list" \in Selection!Owning
      BY <1>1 DEF Selection!Typed, Selection!Owning
    <3> QED
      BY <3>1, OrchestratorsGo
  <2>7. h.pc = "list" /\ h.attempt = n
    <3>1. orchestrators[p] \in Selection!Handlers /\ "list" \in Selection!Owning
      BY <1>1 DEF Selection!Typed, Selection!Owning
    <3> QED
      BY <2>6, <3>1, OrchestratorsGo
  <2>8. /\ orchestrators' = [orchestrators EXCEPT ![p] = h]
        /\ orchestrators'[p] = h
        /\ \A q \in Proc : q # p => orchestrators'[q] = orchestrators[q]
        /\ orchestrators' \in [Proc -> Selection!Handlers]
    BY <1>1, <1>3, <2>6 DEF Selection!Typed, Selection!Goto
  <2> HIDE DEF n
  <2>9. /\ request' \in [Selection!Attempt -> {"NONE", "RUNNING", "COMPLETED", "FAILED"}]
        /\ request'[n] = "RUNNING"
        /\ \A m \in Selection!Attempt : m # n => request'[m] = request[m]
    BY <1>1, <1>3, <2>1 DEF Selection!Typed
  <2>10. Selection!Typed'
    BY <1>1, <1>3, <2>8, <2>9 DEF Selection!Typed, Selection!Statuses
  <2>11. Selection!OneOwner'
    BY <2>4, <2>8 DEF Selection!OneOwner
  <2>12. Selection!OfferIsLast'
    BY <1>3 DEF Selection!OfferIsLast
  <2>13. \A m \in Selection!Attempt : Selection!AttemptOk(m)'
    <3> SUFFICES ASSUME NEW m \in Selection!Attempt
                 PROVE  Selection!AttemptOk(m)'
      OBVIOUS
    <3>1. Selection!AttemptOk(m) /\ option' = option /\ asked' = asked
      BY <1>1 DEF Selection!IInv
    <3>2. (request'[m] = "COMPLETED") = (option'[m] # "none")
      BY <1>3, <2>9, <3>1 DEF Selection!AttemptOk
    <3>3. request'[m] # "NONE"
          => \A k \in Selection!Attempt : k < m => request'[k] # "NONE"
      BY <2>1, <2>9, <3>1 DEF Selection!AttemptOk
    <3>4. request'[m] = "RUNNING" => m = n
      BY <2>3, <2>9
    <3>5. \A k \in Selection!Attempt : k > n => request'[k] = "NONE"
      BY <2>1, <2>2, <2>5, <2>9
    <3> QED
      BY <1>3, <3>1, <3>2, <3>3, <3>4, <3>5
      DEF Selection!AttemptOk, Selection!IsLast
  <2>14. \A q \in Proc : Selection!HandlerOk(q)'
    <3> SUFFICES ASSUME NEW q \in Proc PROVE Selection!HandlerOk(q)'
      OBVIOUS
    <3>1. CASE q = p
      BY <2>1, <2>7, <2>8, <2>9, <3>1 DEF Selection!HandlerOk
    <3>2. CASE q # p
      <4>1. Selection!HandlerOk(q) /\ orchestrators'[q] = orchestrators[q]
        BY <2>8, <3>2 DEF Selection!IInv
      <4>2. \A m \in Selection!Attempt : request[m] # "NONE" => request'[m] # "NONE"
        BY <2>9
      <4> QED
        BY <2>4, <4>1, <4>2 DEF Selection!HandlerOk, Selection!Owning
    <3> QED
      BY <3>1, <3>2
  <2>15. \A r \in Reader : Selection!ReaderOk(r)'
    BY <1>1 DEF Selection!IInv, Selection!ReaderOk
  <2> QED
    BY <2>10, <2>11, <2>12, <2>13, <2>14, <2>15 DEF Selection!IInv
<1> QED
  BY <1>2, <1>3 DEF Selection!Start

\* A transaction that ends the attempt that runs.
LEMMA AttemptEnds ==
    ASSUME Selection!OrchestrationAssumption, Selection!IInv, NEW p \in Proc,
           orchestrators[p].pc \in Selection!Owning,
           NEW n \in Selection!Attempt, n = orchestrators[p].attempt,
           NEW st \in {"COMPLETED", "FAILED"}, request' = [request EXCEPT ![n] = st],
           option' \in [Selection!Attempt -> Candidate \cup {"none"}],
           asked' \in [Selection!Attempt -> SUBSET Candidate],
           \A m \in Selection!Attempt : m # n => option'[m] = option[m] /\ asked'[m] = asked[m],
           option'[n] \in asked'[n] \cup {"none"}, (st = "COMPLETED") = (option'[n] # "none"),
           delivery' \in Selection!Statuses,
           delivery' = "OPTION_READY" => st = "COMPLETED",
           NEW h \in Selection!Handlers, h.pc \in {"idle", "answer"},
           orchestrators' = [orchestrators EXCEPT ![p] = h], UNCHANGED reader
    PROVE  Selection!IInv'
<1>1. /\ Selection!Typed /\ Selection!HandlerOk(p) /\ request[n] = "RUNNING"
  BY DEF Selection!IInv, Selection!HandlerOk
<1>2. /\ \A m \in Selection!Attempt : m > n => request[m] = "NONE"
      /\ \A m \in Selection!Attempt : request[m] = "RUNNING" => m = n
  BY <1>1, OneRowRuns
<1>3. /\ orchestrators'[p] = h
      /\ \A q \in Proc : q # p => orchestrators'[q] = orchestrators[q]
      /\ orchestrators' \in [Proc -> Selection!Handlers]
  BY <1>1 DEF Selection!Typed
<1>4. /\ request' \in [Selection!Attempt -> {"NONE", "RUNNING", "COMPLETED", "FAILED"}]
      /\ request'[n] = st
      /\ \A m \in Selection!Attempt : m # n => request'[m] = request[m]
  BY <1>1 DEF Selection!Typed
<1>5. Selection!Typed'
  BY <1>1, <1>3, <1>4 DEF Selection!Typed
<1>6. \A q \in Proc : orchestrators'[q].pc \notin Selection!Owning
  <2>1. h.pc \notin Selection!Owning
    BY DEF Selection!Owning
  <2>2. \A q \in Proc : q # p => orchestrators[q].pc \notin Selection!Owning
    BY DEF Selection!IInv, Selection!OneOwner
  <2> QED
    BY <1>3, <2>1, <2>2
<1>7. Selection!OneOwner'
  BY <1>6 DEF Selection!OneOwner
<1>8. \A m \in Selection!Attempt : m \in Nat
  BY DEF Selection!Attempt
<1>9. \A m \in Selection!Attempt : m > n => request'[m] = "NONE"
  BY <1>2, <1>4, <1>8
<1>10. Selection!OfferIsLast'
  BY <1>4, <1>9 DEF Selection!OfferIsLast, Selection!IsLast
<1>11. \A m \in Selection!Attempt : Selection!AttemptOk(m)'
  <2> SUFFICES ASSUME NEW m \in Selection!Attempt PROVE Selection!AttemptOk(m)'
    OBVIOUS
  <2>1. Selection!AttemptOk(m) /\ Selection!AttemptOk(n)
    BY DEF Selection!IInv
  <2>2. request'[m] # "RUNNING"
    BY <1>2, <1>4
  <2>3. request'[m] # "NONE" => \A k \in Selection!Attempt : k < m => request'[k] # "NONE"
    BY <1>1, <1>4, <2>1 DEF Selection!AttemptOk
  <2>4. /\ (request'[m] = "COMPLETED") = (option'[m] # "none")
        /\ option'[m] \in asked'[m] \cup {"none"}
    BY <1>4, <2>1 DEF Selection!AttemptOk
  <2> QED
    BY <2>2, <2>3, <2>4 DEF Selection!AttemptOk
<1>12. \A q \in Proc : Selection!HandlerOk(q)'
  <2> SUFFICES ASSUME NEW q \in Proc PROVE Selection!HandlerOk(q)'
    OBVIOUS
  <2>1. orchestrators'[q].pc \notin Selection!Owning
    BY <1>6
  <2>2. orchestrators'[q].pc # "ask"
    BY <2>1 DEF Selection!Owning
  <2>3. CASE q = p
    BY <1>3, <2>1, <2>2, <2>3 DEF Selection!HandlerOk
  <2>4. CASE q # p
    <3>1. Selection!HandlerOk(q) /\ orchestrators'[q] = orchestrators[q]
      BY <1>3, <2>4 DEF Selection!IInv
    <3>2. \A m \in Selection!Attempt : request[m] # "NONE" => request'[m] # "NONE"
      BY <1>4
    <3> QED
      BY <2>1, <2>2, <3>1, <3>2 DEF Selection!HandlerOk
  <2> QED
    BY <2>3, <2>4
<1>13. \A r \in Reader : Selection!ReaderOk(r)'
  BY DEF Selection!IInv, Selection!ReaderOk
<1> QED
  BY <1>5, <1>7, <1>10, <1>11, <1>12, <1>13 DEF Selection!IInv

\* The transaction that stores the result.
LEMMA ResultIsStored ==
    ASSUME Selection!OrchestrationAssumption, Selection!IInv, NEW p \in Proc,
           Selection!Finalize(p)
    PROVE  Selection!IInv'
<1> DEFINE n == orchestrators[p].attempt
           eligible == {v \in Candidate : orchestrators[p].outcome[v] = "ELIGIBLE"}
           R == Selection!Rows({"RUNNING", "COMPLETED", "FAILED"})
           chosen == {v \in Candidate : orchestrators[p].outcome[v] # "none"}
<1>1. /\ orchestrators[p].pc = "finalize" /\ UNCHANGED reader
      /\ Selection!Typed /\ Selection!HandlerOk(p)
      /\ orchestrators[p].pc \in Selection!Owning
  BY DEF Selection!Finalize, Selection!IInv, Selection!Owning
<1>2. n \in Selection!Attempt /\ request[n] = "RUNNING"
  BY <1>1 DEF Selection!HandlerOk
<1>3. CASE Selection!Goto(p, "fail") /\ UNCHANGED <<delivery, request, option, asked>>
  <2>1. "fail" \in Selection!Owning /\ "fail" \notin {"start", "ask"}
    BY DEF Selection!Owning
  <2> QED
    BY <1>1, <1>3, <2>1, OrchestratorGoesOn
<1>4. ASSUME NEW w \in IF eligible = {} THEN {"none"} ELSE eligible,
             option' = [option EXCEPT ![n] = w],
             request' = [request EXCEPT ![n] = IF w = "none" THEN "FAILED" ELSE "COMPLETED"],
             delivery' = IF w = "none" THEN "FAILED" ELSE "OPTION_READY",
             orchestrators' = [orchestrators EXCEPT ![p] =
                 [Selection!Idle EXCEPT
                    !.answer = IF w # "none" THEN option[Selection!Latest(R)] ELSE "none",
                    !.pc = IF w # "none" THEN "answer" ELSE "idle"]],
             asked' = [asked EXCEPT ![n] = chosen]
      PROVE  Selection!IInv'
  <2> DEFINE ans == IF w # "none" THEN option[Selection!Latest(R)] ELSE "none"
             to == IF w # "none" THEN "answer" ELSE "idle"
             st == IF w = "none" THEN "FAILED" ELSE "COMPLETED"
  <2>1. w = "none" \/ w \in chosen
    BY <1>4
  <2>2. w \in Candidate \cup {"none"} /\ chosen \in SUBSET Candidate
    BY <2>1
  <2> HIDE DEF eligible, chosen
  <2>3. /\ R \in SUBSET Selection!Attempt /\ R # {}
    BY <1>2 DEF Selection!Rows
  <2> HIDE DEF R
  <2>4. Selection!Latest(R) \in Selection!Attempt
    BY <2>3, LatestAttempt
  <2>5. ans \in Candidate \cup {"none"}
    BY <1>1, <2>4 DEF Selection!Typed
  <2> HIDE DEF ans
  <2>6. ASSUME NEW u \in Selection!Handlers
        PROVE  /\ [u EXCEPT !.answer = ans, !.pc = to] \in Selection!Handlers
               /\ [u EXCEPT !.answer = ans, !.pc = to].pc \in {"idle", "answer"}
    BY <2>5 DEF Selection!Handlers
  <2>7. Selection!Idle \in Selection!Handlers
    BY DEF Selection!OrchestrationAssumption, Selection!Idle,
           Selection!Handlers, Selection!Silent, Selection!Class
  <2>8. PICK h \in Selection!Handlers :
           h = [Selection!Idle EXCEPT !.answer = ans, !.pc = to]
    BY <2>6, <2>7
  <2>9. h.pc \in {"idle", "answer"}
    BY <2>6, <2>7, <2>8
  <2>10. orchestrators' = [orchestrators EXCEPT ![p] = h]
    BY <1>4, <2>8 DEF ans
  <2>11. st \in {"COMPLETED", "FAILED"} /\ request' = [request EXCEPT ![n] = st]
    BY <1>4
  <2>12. /\ delivery' \in Selection!Statuses
         /\ delivery' = "OPTION_READY" => st = "COMPLETED"
    BY <1>4 DEF Selection!Statuses
  <2>13. /\ option' \in [Selection!Attempt -> Candidate \cup {"none"}]
         /\ option'[n] = w
         /\ \A m \in Selection!Attempt : m # n => option'[m] = option[m]
    <3> HIDE DEF n
    <3> QED
      BY <1>1, <1>2, <1>4, <2>2 DEF Selection!Typed
  <2>14. /\ asked' \in [Selection!Attempt -> SUBSET Candidate]
         /\ asked'[n] = chosen
         /\ \A m \in Selection!Attempt : m # n => asked'[m] = asked[m]
    <3> HIDE DEF n
    <3> QED
      BY <1>1, <1>2, <1>4, <2>2 DEF Selection!Typed
  <2>15. option'[n] \in asked'[n] \cup {"none"} /\ (st = "COMPLETED") = (option'[n] # "none")
    BY <2>1, <2>13, <2>14
  <2> HIDE DEF st
  <2>16. \A m \in Selection!Attempt :
            m # n => option'[m] = option[m] /\ asked'[m] = asked[m]
    BY <2>13, <2>14
  <2>17. PICK k \in Selection!Attempt : k = n
    BY <1>2
  <2> HIDE DEF n
  <2>18. request' = [request EXCEPT ![k] = st] /\ k = orchestrators[p].attempt
    BY <2>11, <2>17 DEF n
  <2>19. /\ option'[k] \in asked'[k] \cup {"none"} /\ (st = "COMPLETED") = (option'[k] # "none")
         /\ \A m \in Selection!Attempt :
               m # k => option'[m] = option[m] /\ asked'[m] = asked[m]
    BY <2>15, <2>16, <2>17
  <2>20. /\ option' \in [Selection!Attempt -> Candidate \cup {"none"}]
         /\ asked' \in [Selection!Attempt -> SUBSET Candidate]
    BY <2>13, <2>14
  <2>21. orchestrators[p].pc \in Selection!Owning /\ UNCHANGED reader
         /\ st \in {"COMPLETED", "FAILED"}
    BY <1>1, <2>11
  <2> QED
    BY <2>9, <2>10, <2>12, <2>18, <2>19, <2>20, <2>21, AttemptEnds
<1> QED
  BY <1>3, <1>4 DEF Selection!Finalize

\* The transaction that gives up.
LEMMA AttemptIsGivenUp ==
    ASSUME Selection!OrchestrationAssumption, Selection!IInv, NEW p \in Proc,
           Selection!FailSafely(p)
    PROVE  Selection!IInv'
<1> DEFINE n == orchestrators[p].attempt
<1>1. /\ orchestrators[p].pc = "fail" /\ UNCHANGED <<option, asked, reader>>
      /\ request' = [request EXCEPT ![n] = "FAILED"]
      /\ delivery' = IF delivery = "ORCHESTRATING" THEN "FAILED" ELSE delivery
      /\ orchestrators' = [orchestrators EXCEPT ![p] = Selection!Idle]
  BY DEF Selection!FailSafely
<1>2. /\ Selection!Typed /\ Selection!HandlerOk(p)
      /\ orchestrators[p].pc \in Selection!Owning
  BY <1>1 DEF Selection!IInv, Selection!Owning
<1>3. n \in Selection!Attempt /\ request[n] = "RUNNING"
  BY <1>2 DEF Selection!HandlerOk
<1>4. PICK k \in Selection!Attempt : k = n
  BY <1>3
<1> HIDE DEF n
<1>5. option[k] = "none" /\ delivery \in {"ORCHESTRATING", "CANCELLED"}
  BY <1>3, <1>4, OneRowRuns
<1>6. /\ delivery' \in Selection!Statuses /\ delivery' # "OPTION_READY"
  BY <1>1, <1>5 DEF Selection!Statuses
<1>7. Selection!Idle \in Selection!Handlers /\ Selection!Idle.pc = "idle"
  BY DEF Selection!OrchestrationAssumption, Selection!Idle,
         Selection!Handlers, Selection!Silent, Selection!Class
<1>8. /\ option' \in [Selection!Attempt -> Candidate \cup {"none"}]
      /\ asked' \in [Selection!Attempt -> SUBSET Candidate]
  BY <1>1, <1>2 DEF Selection!Typed
<1>9. PICK st \in {"COMPLETED", "FAILED"} : st = "FAILED"
  OBVIOUS
<1>10. request' = [request EXCEPT ![k] = st] /\ k = orchestrators[p].attempt
  BY <1>1, <1>4, <1>9 DEF n
<1>11. /\ option'[k] \in asked'[k] \cup {"none"} /\ (st = "COMPLETED") = (option'[k] # "none")
       /\ \A m \in Selection!Attempt :
             m # k => option'[m] = option[m] /\ asked'[m] = asked[m]
  BY <1>1, <1>5, <1>9
<1>12. PICK h \in Selection!Handlers : h = Selection!Idle
  BY <1>7
<1>13. h.pc \in {"idle", "answer"} /\ orchestrators' = [orchestrators EXCEPT ![p] = h]
  BY <1>1, <1>7, <1>12
<1>14. orchestrators[p].pc \in Selection!Owning /\ UNCHANGED reader
  BY <1>1, <1>2
<1>15. /\ delivery' \in Selection!Statuses
       /\ delivery' = "OPTION_READY" => st = "COMPLETED"
  BY <1>6
<1> QED
  BY <1>8, <1>10, <1>11, <1>13, <1>14, <1>15, AttemptEnds

\* A reader that changes, and nothing else.
LEMMA ReaderMoves ==
    ASSUME Selection!IInv, NEW r \in Reader, NEW u \in Selection!Readers,
           reader' = [reader EXCEPT ![r] = u],
           UNCHANGED <<delivery, request, option, asked, orchestrators>>,
           u.pc = "running" => u.status # "OPTION_READY",
           u.pc = "answer" /\ u.status = "OPTION_READY" => u.option # "none"
    PROVE  Selection!IInv'
<1>1. Selection!Typed
  BY DEF Selection!IInv
<1>2. reader' \in [Reader -> Selection!Readers] /\ reader'[r] = u
      /\ \A s \in Reader : s # r => reader'[s] = reader[s]
  BY <1>1 DEF Selection!Typed
<1>3. Selection!Typed'
  BY <1>1, <1>2 DEF Selection!Typed
<1>4. \A s \in Reader : Selection!ReaderOk(s)'
  BY <1>2 DEF Selection!IInv, Selection!ReaderOk
<1>5. Selection!OneOwner' /\ Selection!OfferIsLast'
  BY DEF Selection!IInv, Selection!OneOwner, Selection!OfferIsLast,
         Selection!IsLast
<1>6. \A n \in Selection!Attempt : Selection!AttemptOk(n)'
  BY DEF Selection!IInv, Selection!AttemptOk, Selection!IsLast
<1>7. \A p \in Proc : Selection!HandlerOk(p)'
  BY DEF Selection!IInv, Selection!HandlerOk
<1> QED
  BY <1>3, <1>4, <1>5, <1>6, <1>7 DEF Selection!IInv

\* The latest attempt has an option or none.
LEMMA LatestOption ==
    ASSUME Selection!OrchestrationAssumption, Selection!Typed,
           NEW R \in SUBSET Selection!Attempt, Selection!Latest(R) # 0
    PROVE  Selection!Latest(R) \in R /\ option[Selection!Latest(R)] \in Candidate \cup {"none"}
<1>1. R # {}
  BY LatestAttempt
<1>2. Selection!Latest(R) \in R
  BY <1>1, LatestAttempt
<1> QED
  BY <1>2 DEF Selection!Typed

\* A reader's next step.
LEMMA ReaderSteps ==
    ASSUME Selection!OrchestrationAssumption, Selection!IInv, NEW r \in Reader,
           \/ Selection!ReadStatus(r) \/ Selection!ReadBookable(r)
           \/ Selection!ReadOther(r) \/ Selection!Read(r)
    PROVE  Selection!IInv'
<1>1. /\ Selection!Typed /\ Selection!ReaderOk(r)
      /\ reader[r] \in Selection!Readers
  BY DEF Selection!IInv, Selection!Typed
<1>2. Selection!NotReading \in Selection!Readers /\ Selection!NotReading.pc = "idle"
  BY DEF Selection!NotReading, Selection!Readers
<1>3. ASSUME reader' = [reader EXCEPT ![r] = Selection!NotReading],
             UNCHANGED <<delivery, request, option, asked, orchestrators>>
      PROVE  Selection!IInv'
  BY <1>2, <1>3, ReaderMoves
<1>4. ASSUME NEW v \in Selection!Readers, NEW o \in Candidate \cup {"none"}
      PROVE  /\ [v EXCEPT !.pc = "answer", !.option = o] \in Selection!Readers
             /\ [v EXCEPT !.pc = "answer", !.option = o].pc = "answer"
             /\ [v EXCEPT !.pc = "answer", !.option = o].status = v.status
             /\ [v EXCEPT !.pc = "answer", !.option = o].option = o
  BY DEF Selection!Readers
<1>5. ASSUME NEW o \in Candidate \cup {"none"}, reader[r].pc \in {"bookable", "running"},
             o = "none" => reader[r].pc = "running",
             reader' = [reader EXCEPT ![r] = [reader[r] EXCEPT !.pc = "answer", !.option = o]],
             UNCHANGED <<delivery, request, option, asked, orchestrators>>
      PROVE  Selection!IInv'
  <2>1. PICK u \in Selection!Readers :
           u = [reader[r] EXCEPT !.pc = "answer", !.option = o]
    BY <1>1, <1>4
  <2>2. u.pc = "answer" /\ u.status = reader[r].status /\ u.option = o
    BY <1>1, <1>4, <2>1
  <2>3. u.pc = "answer" /\ u.status = "OPTION_READY" => u.option # "none"
    BY <1>1, <1>5, <2>2 DEF Selection!ReaderOk
  <2>4. reader' = [reader EXCEPT ![r] = u]
    BY <1>5, <2>1
  <2>5. u.pc = "running" => u.status # "OPTION_READY"
    BY <2>2
  <2> QED
    BY <1>5, <2>3, <2>4, <2>5, ReaderMoves
<1>6. CASE Selection!ReadStatus(r)
  <2>1. PICK pc \in {"bookable", "running"} :
           /\ (pc = "bookable") = (delivery = "OPTION_READY")
           /\ reader' = [reader EXCEPT ![r] = [pc |-> pc, status |-> delivery, option |-> "none"]]
           /\ UNCHANGED <<delivery, request, option, asked, orchestrators>>
    BY <1>6 DEF Selection!ReadStatus
  <2>2. delivery \in Selection!Statuses
    BY <1>1 DEF Selection!Typed
  <2>3. PICK u \in Selection!Readers : u = [pc |-> pc, status |-> delivery, option |-> "none"]
    BY <2>2 DEF Selection!Readers
  <2>4. u.pc = pc /\ u.status = delivery
    BY <2>3
  <2>5. /\ u.pc = "running" => u.status # "OPTION_READY"
        /\ u.pc # "answer" /\ reader' = [reader EXCEPT ![r] = u]
    BY <2>1, <2>3, <2>4
  <2> QED
    BY <2>1, <2>5, ReaderMoves
<1>7. CASE Selection!ReadBookable(r)
  <2> DEFINE R == Selection!Rows({"COMPLETED"})
             n == Selection!Latest(R)
  <2>1. R \in SUBSET Selection!Attempt
    BY DEF Selection!Rows
  <2>2. /\ reader[r].pc = "bookable"
        /\ UNCHANGED <<delivery, request, option, asked, orchestrators>>
        /\ \/ reader' = [reader EXCEPT ![r] = Selection!NotReading]
           \/ /\ n # 0 /\ option[n] # "none"
              /\ reader' = [reader EXCEPT ![r] =
                               [reader[r] EXCEPT !.pc = "answer", !.option = option[n]]]
    BY <1>1, <1>7 DEF Selection!ReadBookable, Selection!Typed
  <2>3. n # 0 => option[n] \in Candidate \cup {"none"}
    BY <1>1, <2>1, LatestOption
  <2> HIDE DEF n
  <2> QED
    BY <1>3, <1>5, <2>2, <2>3
<1>8. CASE Selection!ReadOther(r)
  <2> DEFINE running == Selection!Rows({"RUNNING"})
             R == IF running # {} THEN running ELSE Selection!Rows({"COMPLETED", "FAILED"})
             n == Selection!Latest(R)
  <2>1. R \in SUBSET Selection!Attempt
    BY DEF Selection!Rows
  <2>2. /\ reader[r].pc = "running"
        /\ UNCHANGED <<delivery, request, option, asked, orchestrators>>
        /\ \/ reader' = [reader EXCEPT ![r] = Selection!NotReading]
           \/ /\ n # 0
              /\ reader' = [reader EXCEPT ![r] =
                               [reader[r] EXCEPT !.pc = "answer", !.option = option[n]]]
    BY <1>1, <1>8 DEF Selection!ReadOther, Selection!Typed
  <2>3. n # 0 => option[n] \in Candidate \cup {"none"}
    BY <1>1, <2>1, LatestOption
  <2> HIDE DEF n
  <2> QED
    BY <1>3, <1>5, <2>2, <2>3
<1>9. CASE Selection!Read(r)
  BY <1>3, <1>9 DEF Selection!Read
<1> QED
  BY <1>6, <1>7, <1>8, <1>9

\* The customer cancels, or a booking is made or fails.
LEMMA CustomerSteps ==
    ASSUME Selection!IInv, Selection!Customer
    PROVE  Selection!IInv'
<1>1. UNCHANGED <<request, option, asked, orchestrators, reader>>
  BY DEF Selection!Customer
<1>2. /\ delivery' \in Selection!Statuses /\ delivery' # "OPTION_READY"
      /\ delivery \in {"ORCHESTRATING", "CANCELLED"} => delivery' = "CANCELLED"
  BY DEF Selection!Customer, Selection!Statuses
<1>3. Selection!Typed'
  BY <1>1, <1>2 DEF Selection!IInv, Selection!Typed
<1>4. Selection!OneOwner' /\ Selection!OfferIsLast'
  BY <1>1, <1>2 DEF Selection!IInv, Selection!OneOwner, Selection!OfferIsLast
<1>5. \A n \in Selection!Attempt : Selection!AttemptOk(n)'
  BY <1>1, <1>2 DEF Selection!IInv, Selection!AttemptOk, Selection!IsLast
<1>6. \A p \in Proc : Selection!HandlerOk(p)'
  BY <1>1 DEF Selection!IInv, Selection!HandlerOk
<1>7. \A r \in Reader : Selection!ReaderOk(r)'
  BY <1>1 DEF Selection!IInv, Selection!ReaderOk
<1> QED
  BY <1>3, <1>4, <1>5, <1>6, <1>7 DEF Selection!IInv

\* Every step keeps what is known of the attempts.
LEMMA OrchestrationInductive ==
    ASSUME Selection!OrchestrationAssumption, Selection!IInv, Selection!Next
    PROVE  Selection!IInv'
<1>1. ASSUME NEW p \in Proc, Selection!Step(p)
      PROVE  Selection!IInv'
  <2>1. CASE Selection!Answer(p)
    BY <2>1, OrchestratorEnds DEF Selection!Answer
  <2> QED
    BY <1>1, <2>1, OrchestrateCounts, AttemptStarts, ProvidersAreListed, AllHaveSettled,
       ResultIsStored, AttemptIsGivenUp
    DEF Selection!Step
<1>2. ASSUME NEW p \in Proc, Selection!Crash(p)
      PROVE  Selection!IInv'
  BY <1>2, OrchestratorEnds DEF Selection!Crash
<1>3. CASE \E p \in Proc : \/ Selection!Orchestrate(p) \/ Selection!Step(p)
                          \/ Selection!Deadline(p) \/ Selection!Crash(p)
                          \/ \E v \in Candidate : Selection!Evaluate(p, v)
  BY <1>1, <1>2, <1>3, OrchestrateBegins, DeadlineComes, ProviderAnswers
<1> QED
  BY <1>3, ReaderSteps, CustomerSteps DEF Selection!Next

\* What the rows and the readers then are.
LEMMA OfferIsKept ==
    ASSUME Selection!OrchestrationAssumption, Selection!IInv
    PROVE  /\ Selection!TypeOK /\ Selection!OneRunning
           /\ Selection!ReadyIsBookable /\ Selection!ReaderGetsOption
<1>1. Selection!Typed /\ \A n \in Selection!Attempt : Selection!AttemptOk(n)
  BY DEF Selection!IInv
<1>2. Selection!TypeOK
  <2>1. \A n \in Selection!Attempt : asked[n] \subseteq Candidate
    BY <1>1 DEF Selection!Typed
  <2>2. \A p \in Proc :
           orchestrators[p].outcome \in [Candidate -> Selection!Class \cup {"none", "asked"}]
    BY <1>1 DEF Selection!Typed, Selection!Handlers
  <2> QED
    BY <1>1, <2>1, <2>2
    DEF Selection!TypeOK, Selection!Typed, Selection!AttemptOk
<1>3. Selection!OneRunning
  <2> DEFINE R == Selection!Rows({"RUNNING"})
  <2>1. \A n \in R : /\ n \in Selection!Attempt /\ request[n] = "RUNNING"
                     /\ delivery \in {"ORCHESTRATING", "CANCELLED"}
                     /\ \A m \in R : m = n
    BY OneRowRuns DEF Selection!Rows
  <2>2. Selection!Cardinality(R) <= 1
    <3>1. Selection!Cardinality(R) = Cardinality(R)
      BY DEF Selection!Cardinality, Cardinality
    <3> HIDE DEF R
    <3>2. CASE R = {}
      BY <3>1, <3>2, FS_EmptySet
    <3>3. CASE R # {}
      <4>1. PICK n \in R : R = {n}
        BY <2>1, <3>3
      <4>2. Cardinality({n}) = 1
        BY FS_Singleton
      <4> QED
        BY <3>1, <4>1, <4>2
    <3> QED
      BY <3>2, <3>3
  <2> QED
    BY <2>1, <2>2 DEF Selection!OneRunning
<1>4. Selection!ReadyIsBookable
  <2> DEFINE R == Selection!Rows({"RUNNING", "COMPLETED", "FAILED"})
  <2> SUFFICES ASSUME delivery = "OPTION_READY"
               PROVE  /\ Selection!Latest(R) # 0
                      /\ request[Selection!Latest(R)] = "COMPLETED"
                      /\ option[Selection!Latest(R)] # "none"
    BY DEF Selection!ReadyIsBookable
  <2>1. PICK n \in Selection!Attempt :
           /\ request[n] = "COMPLETED"
           /\ \A m \in Selection!Attempt : m > n => request[m] = "NONE"
    BY DEF Selection!IInv, Selection!OfferIsLast, Selection!IsLast
  <2>2. n \in R /\ R \in SUBSET Selection!Attempt
    BY <2>1 DEF Selection!Rows
  <2>3. \A m \in R : request[m] # "NONE"
    BY DEF Selection!Rows
  <2>4. \A m \in Selection!Attempt : m \in Nat /\ m # 0
    BY DEF Selection!Attempt
  <2> HIDE DEF R
  <2>5. /\ Selection!Latest(R) \in R
        /\ \A m \in R : m <= Selection!Latest(R)
    BY <2>2, LatestAttempt
  <2>6. Selection!Latest(R) = n
    BY <2>1, <2>2, <2>3, <2>4, <2>5
  <2> QED
    BY <1>1, <2>1, <2>4, <2>6 DEF Selection!AttemptOk
<1>5. Selection!ReaderGetsOption
  BY DEF Selection!IInv, Selection!ReaderOk, Selection!ReaderGetsOption
<1> QED
  BY <1>2, <1>3, <1>4, <1>5

\* A provider of the fallback tier is asked after all preferred ones had no offer.
PreferredAreFirst ==
    \A p \in Proc, v \in Candidate \ Preferred :
        orchestrators[p].outcome[v] = "none" /\ orchestrators'[p].outcome[v] # "none"
        /\ Preferred # {}
        => \A w \in Preferred : orchestrators[p].outcome[w] \in {"INELIGIBLE", "TIMEOUT"}

\* Who changes one handler, and asks nobody new, asks nobody out of turn.
LEMMA NobodyNewIsAsked ==
    ASSUME Selection!Typed, NEW p \in Proc, NEW h,
           orchestrators' = [orchestrators EXCEPT ![p] = h],
           Preferred # {} =>
             \A v \in Candidate \ Preferred :
               orchestrators[p].outcome[v] = "none" => h.outcome[v] = "none"
    PROVE  PreferredAreFirst
<1>1. orchestrators'[p] = h /\ \A q \in Proc : q # p => orchestrators'[q] = orchestrators[q]
  BY DEF Selection!Typed
<1> QED
  BY <1>1 DEF PreferredAreFirst

\* No step asks a fallback provider before every preferred one has declined.
LEMMA PreferredAreAskedFirst ==
    ASSUME Selection!OrchestrationAssumption, Selection!IInv, Selection!Next
    PROVE  PreferredAreFirst
<1>1. Selection!Typed /\ \A p \in Proc : orchestrators[p] \in Selection!Handlers
  BY DEF Selection!IInv, Selection!Typed
<1>2. \A v \in Candidate : Selection!Idle.outcome[v] = "none"
  BY DEF Selection!Idle, Selection!Silent
<1>3. ASSUME UNCHANGED orchestrators PROVE PreferredAreFirst
  BY <1>3 DEF PreferredAreFirst
<1>4. ASSUME NEW p \in Proc, orchestrators' = [orchestrators EXCEPT ![p] = Selection!Idle]
      PROVE  PreferredAreFirst
  BY <1>1, <1>2, <1>4, NobodyNewIsAsked
<1>5. ASSUME NEW p \in Proc,
             NEW pc \in {"idle", "number", "start", "answer"} \cup Selection!Owning,
             Selection!Goto(p, pc)
      PROVE  PreferredAreFirst
  <2>1. [orchestrators[p] EXCEPT !.pc = pc].outcome = orchestrators[p].outcome
    BY <1>1, OrchestratorsGo
  <2>2. orchestrators' = [orchestrators EXCEPT ![p] = [orchestrators[p] EXCEPT !.pc = pc]]
    BY <1>1, <1>5 DEF Selection!Goto, Selection!Typed
  <2> QED
    BY <1>1, <2>1, <2>2, NobodyNewIsAsked
<1>6. ASSUME NEW p \in Proc, NEW o,
             orchestrators' = [orchestrators EXCEPT ![p].outcome = o],
             Preferred # {} => \A v \in Candidate \ Preferred :
                 orchestrators[p].outcome[v] = "none" => o[v] = "none"
      PROVE  PreferredAreFirst
  <2>1. \A u \in Selection!Handlers : [u EXCEPT !.outcome = o].outcome = o
    BY DEF Selection!Handlers
  <2>2. orchestrators' = [orchestrators EXCEPT ![p] = [orchestrators[p] EXCEPT !.outcome = o]]
    BY <1>1, <1>6 DEF Selection!Typed
  <2>3. [orchestrators[p] EXCEPT !.outcome = o].outcome = o
    BY <1>1, <2>1
  <2> DEFINE h == [orchestrators[p] EXCEPT !.outcome = o]
  <2>4. /\ orchestrators' = [orchestrators EXCEPT ![p] = h]
        /\ Preferred # {} => \A v \in Candidate \ Preferred :
                orchestrators[p].outcome[v] = "none" => h.outcome[v] = "none"
    BY <1>6, <2>2, <2>3
  <2> HIDE DEF h
  <2> QED
    BY <1>1, <2>4, NobodyNewIsAsked
<1>7. ASSUME NEW p \in Proc, Selection!Orchestrate(p) PROVE PreferredAreFirst
  <2>1. \A u \in Selection!Handlers : [u EXCEPT !.pc = "number"].outcome = u.outcome
    BY DEF Selection!Handlers
  <2>2. Selection!Idle \in Selection!Handlers
    BY DEF Selection!OrchestrationAssumption, Selection!Idle,
           Selection!Handlers, Selection!Silent, Selection!Class
  <2>3. \A v \in Candidate : [Selection!Idle EXCEPT !.pc = "number"].outcome[v] = "none"
    BY <1>2, <2>1, <2>2
  <2> QED
    BY <1>1, <1>7, <2>3, NobodyNewIsAsked DEF Selection!Orchestrate
<1>8. ASSUME NEW p \in Proc, Selection!getNextAttemptNumber(p) PROVE PreferredAreFirst
  <2>1. PICK n : orchestrators' = [orchestrators EXCEPT ![p].pc = "start", ![p].attempt = n]
    BY <1>8 DEF Selection!getNextAttemptNumber
  <2>2. \A u \in Selection!Handlers :
           [u EXCEPT !.pc = "start", !.attempt = n].outcome = u.outcome
    BY DEF Selection!Handlers
  <2>3. orchestrators' = [orchestrators EXCEPT ![p] =
                             [orchestrators[p] EXCEPT !.pc = "start", !.attempt = n]]
    BY <1>1, <2>1 DEF Selection!Typed
  <2> QED
    BY <1>1, <2>2, <2>3, NobodyNewIsAsked
<1>9. ASSUME NEW p \in Proc, Selection!ListProviders(p) PROVE PreferredAreFirst
  <2> DEFINE first == IF Preferred # {} THEN Preferred ELSE Candidate
             o == [v \in Candidate |-> IF v \in first THEN "asked" ELSE "none"]
  <2>1. CASE Selection!Goto(p, "fail")
    BY <1>5, <2>1 DEF Selection!Owning
  <2>2. CASE orchestrators' = [orchestrators EXCEPT ![p].pc = "ask", ![p].outcome = o]
    <3>1. Preferred # {} => \A v \in Candidate \ Preferred : o[v] = "none"
      OBVIOUS
    <3> HIDE DEF o
    <3>2. \A u \in Selection!Handlers : [u EXCEPT !.pc = "ask", !.outcome = o].outcome = o
      BY DEF Selection!Handlers
    <3>3. orchestrators' = [orchestrators EXCEPT ![p] =
                               [orchestrators[p] EXCEPT !.pc = "ask", !.outcome = o]]
      BY <1>1, <2>2 DEF Selection!Typed
    <3> QED
      BY <1>1, <3>1, <3>2, <3>3, NobodyNewIsAsked
  <2> QED
    BY <1>9, <2>1, <2>2 DEF Selection!ListProviders
<1>10. ASSUME NEW p \in Proc, NEW x \in Candidate, Selection!Evaluate(p, x)
       PROVE  PreferredAreFirst
  <2>1. PICK c \in Selection!Class :
           orchestrators' = [orchestrators EXCEPT ![p].outcome[x] = c]
           /\ orchestrators[p].outcome[x] = "asked"
    BY <1>10 DEF Selection!Evaluate
  <2> DEFINE o == [orchestrators[p].outcome EXCEPT ![x] = c]
  <2>2. \A v \in Candidate : orchestrators[p].outcome[v] = "none" => o[v] = "none"
    BY <1>1, <2>1 DEF Selection!Handlers
  <2>3. orchestrators' = [orchestrators EXCEPT ![p].outcome = o]
    BY <1>1, <2>1 DEF Selection!Typed, Selection!Handlers
  <2> HIDE DEF o
  <2> QED
    BY ZenonT(30), <1>6, <2>2, <2>3
<1>11. ASSUME NEW p \in Proc, Selection!Deadline(p) PROVE PreferredAreFirst
  <2> DEFINE o == [v \in Candidate |-> IF orchestrators[p].outcome[v] = "asked" THEN "TIMEOUT"
                                       ELSE orchestrators[p].outcome[v]]
  <2>1. PICK b \in BOOLEAN : orchestrators' = [orchestrators EXCEPT ![p].late = b, ![p].outcome = o]
    BY <1>1, <1>11
    DEF Selection!Deadline, Selection!Typed, Selection!Handlers
  <2>2. \A v \in Candidate : orchestrators[p].outcome[v] = "none" => o[v] = "none"
    OBVIOUS
  <2> HIDE DEF o
  <2>3. \A u \in Selection!Handlers : [u EXCEPT !.late = b, !.outcome = o].outcome = o
    BY DEF Selection!Handlers
  <2>4. orchestrators' = [orchestrators EXCEPT ![p] =
                             [orchestrators[p] EXCEPT !.late = b, !.outcome = o]]
    BY <1>1, <2>1 DEF Selection!Typed
  <2> QED
    BY <1>1, <2>2, <2>3, <2>4, NobodyNewIsAsked
<1>12. ASSUME NEW p \in Proc, Selection!Settled(p) PROVE PreferredAreFirst
  <2>1. CASE Selection!Goto(p, "finalize")
    BY <1>5, <2>1 DEF Selection!Owning
  <2>2. CASE Selection!shouldRunFallbackTier(orchestrators[p].outcome)
             /\ \A q \in Proc : q # p => orchestrators'[q] = orchestrators[q]
    <3>1. \A w \in Preferred :
             /\ w \in Candidate /\ orchestrators[p].outcome[w] # "none"
             /\ orchestrators[p].outcome[w] # "asked"
      BY <1>12
      DEF Selection!IInv, Selection!HandlerOk, Selection!Settled,
          Selection!OrchestrationAssumption
    <3>2. \A w \in Preferred : orchestrators[p].outcome[w] \in {"INELIGIBLE", "TIMEOUT"}
      BY <1>1, <2>2, <3>1
      DEF Selection!shouldRunFallbackTier, Selection!Handlers, Selection!Class
    <3> QED
      BY <2>2, <3>2 DEF PreferredAreFirst
  <2> QED
    BY <1>1, <1>12, <2>1, <2>2 DEF Selection!Settled, Selection!Typed
<1>13. ASSUME NEW p \in Proc, Selection!Start(p) PROVE PreferredAreFirst
  <2>1. CASE Selection!Goto(p, "list")
    BY <1>5, <2>1 DEF Selection!Owning
  <2> QED
    BY <1>4, <1>13, <2>1 DEF Selection!Start
<1>14. ASSUME NEW p \in Proc, Selection!Finalize(p) PROVE PreferredAreFirst
  <2>1. CASE Selection!Goto(p, "fail")
    BY <1>5, <2>1 DEF Selection!Owning
  <2>2. ASSUME NEW a, NEW to,
               orchestrators' = [orchestrators EXCEPT ![p] =
                                   [Selection!Idle EXCEPT !.answer = a, !.pc = to]]
        PROVE  PreferredAreFirst
    <3>1. \A v \in Candidate :
             [Selection!Idle EXCEPT !.answer = a, !.pc = to].outcome[v] = "none"
      BY DEF Selection!Idle, Selection!Silent
    <3> QED
      BY <1>1, <2>2, <3>1, NobodyNewIsAsked
  <2> DEFINE R == Selection!Rows({"RUNNING", "COMPLETED", "FAILED"})
             ans(w) == IF w # "none" THEN option[Selection!Latest(R)] ELSE "none"
             to(w) == IF w # "none" THEN "answer" ELSE "idle"
  <2>3. ASSUME NEW w, orchestrators' = [orchestrators EXCEPT ![p] =
                         [Selection!Idle EXCEPT !.answer = ans(w), !.pc = to(w)]]
        PROVE  PreferredAreFirst
    <3> HIDE DEF ans, to
    <3> QED
      BY <2>2, <2>3
  <2> QED
    BY <1>14, <2>1, <2>3 DEF Selection!Finalize
<1>15. ASSUME NEW p \in Proc,
              \/ Selection!Answer(p) \/ Selection!FailSafely(p)
              \/ Selection!Crash(p)
       PROVE  PreferredAreFirst
  BY <1>4, <1>15 DEF Selection!Answer, Selection!FailSafely, Selection!Crash
<1>16. CASE \E p \in Proc : \/ Selection!Orchestrate(p) \/ Selection!Step(p)
                           \/ Selection!Deadline(p) \/ Selection!Crash(p)
                           \/ \E v \in Candidate : Selection!Evaluate(p, v)
  BY <1>7, <1>8, <1>9, <1>10, <1>11, <1>12, <1>13, <1>14, <1>15, <1>16
  DEF Selection!Step
<1>17. CASE UNCHANGED orchestrators
  BY <1>3, <1>17
<1> QED
  BY <1>16, <1>17
  DEF Selection!Next, Selection!ReadStatus, Selection!ReadBookable,
      Selection!ReadOther, Selection!Read, Selection!Customer

\* The cardinality of the instance is the cardinality.
LEMMA ScoringCounts == \A S : Scoring!Cardinality(S) = Cardinality(S)
  BY DEF Scoring!Cardinality, Cardinality

\* The signals of an evaluation: what is not known is -1.
AreSignals(o) ==
    /\ o.price \in Scoring!Signal /\ o.eta \in Scoring!Signal
    /\ o.availability \in Scoring!Signal
    /\ o.priority \in Nat /\ o.provider \in Nat

\* Finitely many rows with signals.
AreRows(E) ==
    \E n \in Nat : DOMAIN E = 1 .. n /\ \A k \in 1 .. n : AreSignals(E[k].signals)

\* Every eligible outcome has its row, with its place and its signals.
LEMMA RowsAreOfOutcomes ==
    ASSUME Scoring!ScoringAssumption, NEW s \in Seq(Offered),
           NEW k \in DOMAIN Scoring!Scorable(s)
    PROVE  /\ Scoring!Scorable(s)[k].outcomeIndex \in DOMAIN s
           /\ Scoring!Scorable(s)[k].signals = s[Scoring!Scorable(s)[k].outcomeIndex]
           /\ AreSignals(Scoring!Scorable(s)[k].signals)
<1> DEFINE S == Scoring!Eligible(s)
           i == Scoring!Nth(S, k)
<1>1. Len(s) \in Nat /\ S \in SUBSET (1 .. Len(s)) /\ k \in 1 .. Cardinality(S)
  BY ScoringCounts DEF Scoring!Scorable, Scoring!Eligible
<1>2. \E x \in S : Scoring!Cardinality({j \in S : j < x}) = k - 1
  BY <1>1, EveryPlaceIsTaken, ScoringCounts
<1>3. i \in S
  BY <1>2 DEF Scoring!Nth
<1>4. i \in DOMAIN s /\ s[i] \in Offered
  BY <1>3 DEF Scoring!Eligible
<1>5. /\ Scoring!Scorable(s)[k].outcomeIndex = i
      /\ Scoring!Scorable(s)[k].signals = s[i]
  BY DEF Scoring!Scorable
<1>6. AreSignals(s[i])
  BY <1>4 DEF Scoring!ScoringAssumption, AreSignals
<1> HIDE DEF i
<1> QED
  BY <1>4, <1>5, <1>6

\* The rows that are scored have signals.
LEMMA ScorableAreRows ==
    ASSUME Scoring!ScoringAssumption, NEW s \in Seq(Offered)
    PROVE  AreRows(Scoring!Scorable(s))
<1>1. Scoring!Eligible(s) \in SUBSET (1 .. Len(s)) /\ Len(s) \in Nat
  BY DEF Scoring!Eligible
<1>2. Cardinality(Scoring!Eligible(s)) \in Nat
  BY <1>1, UnitsOfOneRow, FS_Subset, FS_CardinalityType
<1>3. DOMAIN Scoring!Scorable(s) = 1 .. Cardinality(Scoring!Eligible(s))
  BY ScoringCounts DEF Scoring!Scorable
<1>4. \A k \in DOMAIN Scoring!Scorable(s) : AreSignals(Scoring!Scorable(s)[k].signals)
  BY RowsAreOfOutcomes
<1> QED
  BY <1>2, <1>3, <1>4 DEF AreRows

\* Scoring keeps the rows and adds their scores.
LEMMA ScoredKeepsRows ==
    ASSUME NEW s
    PROVE  /\ DOMAIN Scoring!Scored(s) = DOMAIN Scoring!Scorable(s)
           /\ \A k \in DOMAIN Scoring!Scored(s) :
                 /\ Scoring!Scored(s)[k].outcomeIndex = Scoring!Scorable(s)[k].outcomeIndex
                 /\ Scoring!Scored(s)[k].signals = Scoring!Scorable(s)[k].signals
                 /\ Scoring!Scored(s)[k].score = Scoring!Score(Scoring!Scorable(s), k)
  BY DEF Scoring!Scored

\* A score is computed from the signals of the rows alone.
LEMMA ScoresComeFromSignals ==
    ASSUME NEW E, NEW F, DOMAIN E = DOMAIN F, \A k \in DOMAIN E : E[k].signals = F[k].signals,
           NEW k \in DOMAIN E
    PROVE  /\ Scoring!Applicable(E, k) = Scoring!Applicable(F, k)
           /\ \A f : Scoring!FactorScore(E, k, f) = Scoring!FactorScore(F, k, f)
           /\ Scoring!Score(E, k) = Scoring!Score(F, k)
<1>1. \A f : Scoring!Known(E, f) = Scoring!Known(F, f)
  BY DEF Scoring!Known
<1>2. Scoring!Applicable(E, k) = Scoring!Applicable(F, k)
  BY DEF Scoring!Applicable
<1>3. \A f : Scoring!FactorScore(E, k, f) = Scoring!FactorScore(F, k, f)
  BY <1>1 DEF Scoring!FactorScore, Scoring!Relative
<1>4. \A f : /\ Scoring!Part(E, k, f) = Scoring!Part(F, k, f)
             /\ Scoring!Weight(E, k, f) = Scoring!Weight(F, k, f)
  BY <1>2, <1>3 DEF Scoring!Part, Scoring!Weight
<1>5. Scoring!Score(E, k) = Scoring!Score(F, k)
  BY <1>4 DEF Scoring!Score, Scoring!Weighted, Scoring!WeightSum
<1> QED
  BY <1>2, <1>3, <1>5

\* The least of finitely many numbers is in the set and below all of them.
LEMMA LeastKnown ==
    ASSUME NEW S \in SUBSET Nat, S # {}
    PROVE  Scoring!Min(S) \in S /\ \A y \in S : Scoring!Min(S) <= y
  BY LeastElement DEF Scoring!Min

\* A known factor: its values are numbers, with a least and a greatest.
LEMMA KnownIsBounded ==
    ASSUME NEW E, AreRows(E), NEW k \in DOMAIN E, NEW f \in {"price", "eta", "priority"},
           E[k].signals[f] # Scoring!Unknown
    PROVE  /\ Scoring!Min(Scoring!Known(E, f)) \in Nat
           /\ Scoring!Max(Scoring!Known(E, f)) \in Nat
           /\ E[k].signals[f] \in Nat
           /\ Scoring!Min(Scoring!Known(E, f)) <= E[k].signals[f]
           /\ E[k].signals[f] <= Scoring!Max(Scoring!Known(E, f))
<1> DEFINE S == Scoring!Known(E, f)
           J == {j \in DOMAIN E : E[j].signals[f] # Scoring!Unknown}
           v == [j \in DOMAIN E |-> IF j \in J THEN E[j].signals[f] ELSE 0]
<1>1. PICK n \in Nat : DOMAIN E = 1 .. n /\ \A j \in 1 .. n : AreSignals(E[j].signals)
  BY DEF AreRows
<1>2. \A j \in J : E[j].signals[f] \in Nat
  BY <1>1 DEF AreSignals, Scoring!Signal, Scoring!Unknown
<1>3. S = {E[j].signals[f] : j \in J} /\ k \in J
  BY DEF Scoring!Known
<1>4. S \in SUBSET Nat /\ E[k].signals[f] \in S
  BY <1>2, <1>3
<1>5. Scoring!Min(S) \in S /\ \A y \in S : Scoring!Min(S) <= y
  BY <1>4, LeastKnown
<1>6. J \in SUBSET (1 .. n) /\ J # {} /\ \A j \in 1 .. n : v[j] \in Nat
  BY <1>1, <1>2, <1>3
<1>7. PICK i \in J : \A j \in J : v[j] <= v[i]
  <2> HIDE DEF J, v
  <2> QED
    BY <1>6, FiniteHasGreatest
<1>8. E[i].signals[f] \in S /\ \A y \in S : y <= E[i].signals[f]
  BY <1>3, <1>7
<1>9. Scoring!Max(S) \in S /\ \A y \in S : Scoring!Max(S) >= y
  <2> HIDE DEF S
  <2>1. \E x \in S : \A y \in S : x >= y
    BY <1>4, <1>8
  <2> QED
    BY <2>1 DEF Scoring!Max
<1>10. /\ Scoring!Min(S) \in Nat /\ Scoring!Max(S) \in Nat /\ E[k].signals[f] \in Nat
       /\ Scoring!Min(S) <= E[k].signals[f] /\ E[k].signals[f] <= Scoring!Max(S)
  <2> HIDE DEF S
  <2>1. /\ Scoring!Min(S) \in Nat /\ Scoring!Max(S) \in Nat /\ E[k].signals[f] \in Nat
    BY <1>4, <1>5, <1>9
  <2> QED
    BY <1>4, <1>5, <1>9, <2>1
<1> QED
  BY <1>10

\* A score of a factor lies within 0..100: a fraction of a positive denominator.
IsFraction(x) == x[1] \in Nat /\ x[2] \in Nat /\ x[2] > 0
IsWithin(x, n) == IsFraction(x) /\ x[1] <= n * x[2]

\* The relative score of a known value lies within 0..100.
LEMMA RelativeIsWithin ==
    ASSUME NEW value \in Nat, NEW least \in Nat, NEW most \in Nat,
           least <= value, value <= most
    PROVE  IsWithin(Scoring!relativeInverseScore(value, least, most), 100)
<1>1. CASE most = least
  BY <1>1 DEF Scoring!relativeInverseScore, IsWithin, IsFraction
<1>2. CASE most # least
  <2>1. Scoring!relativeInverseScore(value, least, most)
          = <<(most - value) * 100, most - least>>
    BY <1>2 DEF Scoring!relativeInverseScore
  <2>2. /\ most - value \in Nat /\ most - least \in Nat /\ most - least > 0
        /\ (most - value) * 100 <= 100 * (most - least)
        /\ (most - value) * 100 \in Nat
    BY <1>2
  <2> QED
    BY <2>1, <2>2 DEF IsWithin, IsFraction
<1> QED
  BY <1>1, <1>2

\* The score of the drivers lies within 0..100.
LEMMA AvailabilityIsWithin ==
    ASSUME NEW drivers \in Nat
    PROVE  /\ IsWithin(Scoring!computeAvailabilityScore(drivers), 100)
           /\ Scoring!computeAvailabilityScore(drivers)[2] = 1
<1>1. CASE drivers = 99
  BY <1>1 DEF Scoring!computeAvailabilityScore, IsWithin, IsFraction
<1>2. CASE drivers # 99
  <2>1. Scoring!Min({drivers, 10}) \in {drivers, 10} /\ Scoring!Min({drivers, 10}) <= 10
    BY LeastKnown
  <2>2. Scoring!computeAvailabilityScore(drivers) = <<Scoring!Min({drivers, 10}) * 10, 1>>
    BY <1>2 DEF Scoring!computeAvailabilityScore
  <2>3. Scoring!Min({drivers, 10}) \in Nat
    BY <2>1
  <2>4. /\ Scoring!Min({drivers, 10}) * 10 \in Nat
        /\ Scoring!Min({drivers, 10}) * 10 <= 100 * 1
    BY <2>1, <2>3
  <2> QED
    BY <2>2, <2>4 DEF IsWithin, IsFraction
<1> QED
  BY <1>1, <1>2

\* Every known factor scores within 0..100.
LEMMA FactorIsWithin ==
    ASSUME NEW E, AreRows(E), NEW k \in DOMAIN E, NEW f \in Scoring!Applicable(E, k)
    PROVE  IsWithin(Scoring!FactorScore(E, k, f), 100)
<1>1. /\ f \in {"price", "eta", "availability", "priority"}
      /\ E[k].signals[f] # Scoring!Unknown
  BY DEF Scoring!Applicable, Scoring!Factor, Scoring!SCORE_WEIGHTS
<1>2. CASE f = "availability"
  <2>1. E[k].signals.availability \in Nat
    BY <1>1, <1>2 DEF AreRows, AreSignals, Scoring!Signal
  <2> QED
    BY <1>2, <2>1, AvailabilityIsWithin DEF Scoring!FactorScore
<1>3. CASE f # "availability"
  <2>1. f \in {"price", "eta", "priority"}
    BY <1>1, <1>3
  <2>2. /\ Scoring!Min(Scoring!Known(E, f)) \in Nat
        /\ Scoring!Max(Scoring!Known(E, f)) \in Nat
        /\ E[k].signals[f] \in Nat
        /\ Scoring!Min(Scoring!Known(E, f)) <= E[k].signals[f]
        /\ E[k].signals[f] <= Scoring!Max(Scoring!Known(E, f))
    BY <1>1, <2>1, KnownIsBounded
  <2> QED
    BY <1>3, <2>2, RelativeIsWithin DEF Scoring!FactorScore, Scoring!Relative
<1> QED
  BY <1>2, <1>3

\* Sums of fractions within bounds lie within the sum of the bounds.
LEMMA PlusIsWithin ==
    ASSUME NEW a, NEW b, NEW m \in Nat, NEW n \in Nat, IsWithin(a, m), IsWithin(b, n)
    PROVE  IsWithin(Scoring!Plus(a, b), m + n)
<1>1. /\ a[1] \in Nat /\ a[2] \in Nat /\ a[2] > 0 /\ a[1] <= m * a[2]
      /\ b[1] \in Nat /\ b[2] \in Nat /\ b[2] > 0 /\ b[1] <= n * b[2]
  BY DEF IsWithin, IsFraction
<1>2. ASSUME NEW p \in Nat, NEW q \in Nat, NEW r \in Nat, NEW s \in Nat, q > 0, s > 0,
             p <= m * q, r <= n * s
      PROVE  /\ p * s + r * q \in Nat /\ q * s \in Nat /\ q * s > 0
             /\ p * s + r * q <= (m + n) * (q * s)
  <2>1. p * s <= (m * q) * s /\ r * q <= (n * s) * q
    BY <1>2
  <2>2. (m * q) * s + (n * s) * q = (m + n) * (q * s)
    OBVIOUS
  <2>3. p * s \in Nat /\ r * q \in Nat /\ q * s \in Nat /\ (m * q) * s \in Nat
        /\ (n * s) * q \in Nat
    OBVIOUS
  <2>4. q * s > 0
    BY <1>2
  <2> QED
    BY <2>1, <2>2, <2>3, <2>4
<1>3. /\ Scoring!Plus(a, b)[1] = a[1] * b[2] + b[1] * a[2]
      /\ Scoring!Plus(a, b)[2] = a[2] * b[2]
  BY DEF Scoring!Plus
<1> QED
  BY <1>1, <1>2, <1>3 DEF IsWithin, IsFraction

\* A fraction is as much as it can be.
IsFull(a, m) == a[1] = m * a[2]

\* Sums of fractions that are full are full.
LEMMA PlusIsFull ==
    ASSUME NEW a, NEW b, NEW m \in Nat, NEW n \in Nat, IsFraction(a), IsFraction(b),
           IsFull(a, m), IsFull(b, n)
    PROVE  IsFull(Scoring!Plus(a, b), m + n)
<1>1. a[2] \in Nat /\ b[2] \in Nat
  BY DEF IsFraction
<1>2. \A q, s \in Nat : (m * q) * s + (n * s) * q = (m + n) * (q * s)
  OBVIOUS
<1>3. (m * a[2]) * b[2] + (n * b[2]) * a[2] = (m + n) * (a[2] * b[2])
  BY <1>1, <1>2
<1>4. /\ Scoring!Plus(a, b)[1] = a[1] * b[2] + b[1] * a[2]
      /\ Scoring!Plus(a, b)[2] = a[2] * b[2]
  BY DEF Scoring!Plus
<1>5. a[1] = m * a[2] /\ b[1] = n * b[2]
  BY DEF IsFull
<1>6. Scoring!Plus(a, b)[1] = (m + n) * Scoring!Plus(a, b)[2]
  BY ZenonT(30), <1>3, <1>4, <1>5
<1> QED
  BY <1>6 DEF IsFull

\* Sums grow with their fractions, of the same denominators.
LEMMA PlusGrows ==
    ASSUME NEW a, NEW b, NEW c, NEW d,
           IsFraction(a), IsFraction(b), IsFraction(c), IsFraction(d),
           a[2] = c[2], b[2] = d[2], a[1] <= c[1], b[1] <= d[1]
    PROVE  /\ Scoring!Plus(a, b)[2] = Scoring!Plus(c, d)[2]
           /\ Scoring!Plus(a, b)[1] <= Scoring!Plus(c, d)[1]
<1>1. /\ a[1] \in Nat /\ a[2] \in Nat /\ b[1] \in Nat /\ b[2] \in Nat
      /\ c[1] \in Nat /\ d[1] \in Nat
  BY DEF IsFraction
<1>2. \A p, q, r \in Nat : p <= q => p * r <= q * r
  OBVIOUS
<1>3. a[1] * b[2] <= c[1] * b[2] /\ b[1] * a[2] <= d[1] * a[2]
  BY <1>1, <1>2
<1>4. /\ a[1] * b[2] \in Nat /\ c[1] * b[2] \in Nat
      /\ b[1] * a[2] \in Nat /\ d[1] * a[2] \in Nat
  BY <1>1
<1>5. a[1] * b[2] + b[1] * a[2] <= c[1] * b[2] + d[1] * a[2]
  BY <1>3, <1>4
<1> QED
  BY <1>5 DEF Scoring!Plus

\* What a factor adds lies within its weight, and is its weight when its score is full.
LEMMA PartIsWithin ==
    ASSUME NEW E, AreRows(E), NEW k \in DOMAIN E, NEW f \in Scoring!Factor
    PROVE  /\ Scoring!Weight(E, k, f) \in Nat
           /\ IsWithin(Scoring!Part(E, k, f), 100 * Scoring!Weight(E, k, f))
           /\ (f \in Scoring!Applicable(E, k) =>
                 Scoring!FactorScore(E, k, f)[1] = 100 * Scoring!FactorScore(E, k, f)[2])
              => Scoring!Part(E, k, f)[1]
                   = (100 * Scoring!Weight(E, k, f)) * Scoring!Part(E, k, f)[2]
<1>1. CASE f \notin Scoring!Applicable(E, k)
  <2>1. Scoring!Weight(E, k, f) = 0 /\ Scoring!Part(E, k, f) = <<0, 1>>
    BY <1>1 DEF Scoring!Weight, Scoring!Part
  <2> QED
    BY <2>1 DEF IsWithin, IsFraction
<1>2. CASE f \in Scoring!Applicable(E, k)
  <2> DEFINE w == Scoring!SCORE_WEIGHTS[f]
             x == Scoring!FactorScore(E, k, f)
  <2>1. w \in Nat
    BY DEF Scoring!Factor, Scoring!SCORE_WEIGHTS
  <2>2. x[1] \in Nat /\ x[2] \in Nat /\ x[2] > 0 /\ x[1] <= 100 * x[2]
    BY <1>2, FactorIsWithin DEF IsWithin, IsFraction
  <2>3. /\ Scoring!Weight(E, k, f) = w
        /\ Scoring!Part(E, k, f)[1] = w * x[1]
        /\ Scoring!Part(E, k, f)[2] = x[2]
    BY <1>2 DEF Scoring!Weight, Scoring!Part
  <2> HIDE DEF w, x
  <2>4. \A p, q \in Nat : p <= 100 * q => w * p <= (100 * w) * q
    <3> TAKE p, q \in Nat
    <3> HAVE p <= 100 * q
    <3>1. w * p <= w * (100 * q)
      BY <2>1
    <3>2. w * (100 * q) = (100 * w) * q
      BY <2>1
    <3> QED
      BY <3>1, <3>2
  <2>5. \A q \in Nat : w * (100 * q) = (100 * w) * q
    BY <2>1
  <2>6. w * x[1] \in Nat /\ w * x[1] <= (100 * w) * x[2]
    BY <2>1, <2>2, <2>4
  <2>7. x[1] = 100 * x[2] => w * x[1] = (100 * w) * x[2]
    BY <2>2, <2>5
  <2>8. IsWithin(Scoring!Part(E, k, f), 100 * Scoring!Weight(E, k, f))
    BY <2>2, <2>3, <2>6 DEF IsWithin, IsFraction
  <2>9. x[1] = 100 * x[2] => Scoring!Part(E, k, f)[1]
                   = (100 * Scoring!Weight(E, k, f)) * Scoring!Part(E, k, f)[2]
    BY <2>3, <2>7
  <2> QED
    BY <1>2, <2>1, <2>3, <2>8, <2>9 DEF x
<1> QED
  BY <1>1, <1>2

\* The four factors.
LEMMA Factors == Scoring!Factor = {"price", "eta", "availability", "priority"}
  BY DEF Scoring!Factor, Scoring!SCORE_WEIGHTS

\* The weighted sum lies within the sum of the weights.
LEMMA WeightedIsWithin ==
    ASSUME NEW E, AreRows(E), NEW k \in DOMAIN E
    PROVE  /\ Scoring!WeightSum(E, k) \in Nat
           /\ IsWithin(Scoring!Weighted(E, k), 100 * Scoring!WeightSum(E, k))
           /\ (\A f \in Scoring!Applicable(E, k) :
                 Scoring!FactorScore(E, k, f)[1] = 100 * Scoring!FactorScore(E, k, f)[2])
              => Scoring!Weighted(E, k)[1]
                   = (100 * Scoring!WeightSum(E, k)) * Scoring!Weighted(E, k)[2]
<1> DEFINE w(f) == Scoring!Weight(E, k, f)
           v(f) == 100 * w(f)
           x(f) == Scoring!Part(E, k, f)
           A == Scoring!Plus(x("price"), x("eta"))
           B == Scoring!Plus(x("availability"), x("priority"))
           m == v("price") + v("eta")
           n == v("availability") + v("priority")
           total == w("price") + w("eta") + w("availability") + w("priority")
           best == \A f \in Scoring!Applicable(E, k) :
                     Scoring!FactorScore(E, k, f)[1] = 100 * Scoring!FactorScore(E, k, f)[2]
<1>1. \A f \in {"price", "eta", "availability", "priority"} :
        w(f) \in Nat /\ v(f) \in Nat /\ IsWithin(x(f), v(f))
  BY PartIsWithin, Factors
<1>2. best => \A f \in {"price", "eta", "availability", "priority"} : IsFull(x(f), v(f))
  BY PartIsWithin, Factors DEF IsFull
<1>3. Scoring!Weighted(E, k) = Scoring!Plus(A, B) /\ Scoring!WeightSum(E, k) = total
  BY DEF Scoring!Weighted, Scoring!WeightSum
<1>4. /\ w("price") \in Nat /\ w("eta") \in Nat
      /\ w("availability") \in Nat /\ w("priority") \in Nat
  BY <1>1
<1> HIDE DEF w, x, best
<1>5. total \in Nat /\ m + n = 100 * total
  BY <1>4
<1> HIDE DEF v, total
<1>6. /\ v("price") \in Nat /\ v("eta") \in Nat
      /\ v("availability") \in Nat /\ v("priority") \in Nat
  BY <1>1
<1>7. /\ IsWithin(x("price"), v("price")) /\ IsWithin(x("eta"), v("eta"))
      /\ IsWithin(x("availability"), v("availability"))
      /\ IsWithin(x("priority"), v("priority"))
  BY <1>1
<1>8. /\ IsFraction(x("price")) /\ IsFraction(x("eta"))
      /\ IsFraction(x("availability")) /\ IsFraction(x("priority"))
  BY <1>7 DEF IsWithin
<1>9. m \in Nat /\ n \in Nat
  BY <1>6
<1>10. IsWithin(A, m) /\ IsWithin(B, n)
  BY <1>6, <1>7, PlusIsWithin
<1>11. ASSUME best PROVE IsFull(A, m) /\ IsFull(B, n)
  <2>1. /\ IsFull(x("price"), v("price")) /\ IsFull(x("eta"), v("eta"))
        /\ IsFull(x("availability"), v("availability"))
        /\ IsFull(x("priority"), v("priority"))
    BY <1>2, <1>11
  <2> QED
    BY <1>6, <1>8, <2>1, PlusIsFull
<1> HIDE DEF A, B, m, n
<1>12. IsWithin(Scoring!Plus(A, B), 100 * total)
  BY <1>5, <1>9, <1>10, PlusIsWithin
<1>13. ASSUME best PROVE IsFull(Scoring!Plus(A, B), 100 * total)
  <2>1. IsFraction(A) /\ IsFraction(B)
    BY <1>10 DEF IsWithin
  <2>2. IsFull(Scoring!Plus(A, B), m + n)
    BY <1>9, <1>11, <1>13, <2>1, PlusIsFull
  <2> QED
    BY <1>5, <2>2
<1>14. best => Scoring!Plus(A, B)[1] = (100 * total) * Scoring!Plus(A, B)[2]
  BY <1>13 DEF IsFull
<1>15. /\ total \in Nat
       /\ IsWithin(Scoring!Weighted(E, k), 100 * Scoring!WeightSum(E, k))
       /\ best => Scoring!Weighted(E, k)[1]
                    = (100 * Scoring!WeightSum(E, k)) * Scoring!Weighted(E, k)[2]
  BY <1>3, <1>5, <1>12, <1>14
<1> QED
  BY <1>3, <1>15 DEF best

\* The priority is always known, so that some weight counts.
LEMMA SomeWeightCounts ==
    ASSUME NEW E, AreRows(E), NEW k \in DOMAIN E
    PROVE  Scoring!WeightSum(E, k) \in Nat /\ Scoring!WeightSum(E, k) > 0
<1> DEFINE w(f) == Scoring!Weight(E, k, f)
<1>1. E[k].signals.priority \in Nat
  BY DEF AreRows, AreSignals
<1>2. E[k].signals["priority"] # Scoring!Unknown
  BY <1>1 DEF Scoring!Unknown
<1>3. "priority" \in Scoring!Applicable(E, k)
  BY <1>2, Factors DEF Scoring!Applicable
<1>4. w("priority") = 10
  BY <1>3 DEF Scoring!Weight, Scoring!SCORE_WEIGHTS
<1>5. /\ w("price") \in Nat /\ w("eta") \in Nat /\ w("availability") \in Nat
  BY PartIsWithin, Factors
<1>6. Scoring!WeightSum(E, k) = w("price") + w("eta") + w("availability") + w("priority")
  BY DEF Scoring!WeightSum
<1> HIDE DEF w
<1> QED
  BY <1>4, <1>5, <1>6

\* A score lies within 0..100, and is 100 for who is the best in all that is known of it.
LEMMA ScoreIsWithin ==
    ASSUME NEW E, AreRows(E), NEW k \in DOMAIN E
    PROVE  /\ IsWithin(Scoring!Score(E, k), 100)
           /\ (\A f \in Scoring!Applicable(E, k) :
                 Scoring!FactorScore(E, k, f)[1] = 100 * Scoring!FactorScore(E, k, f)[2])
              => Scoring!Score(E, k)[1] = 100 * Scoring!Score(E, k)[2]
<1> DEFINE w == Scoring!WeightSum(E, k)
           x == Scoring!Weighted(E, k)
<1>1. w \in Nat /\ w > 0
  BY SomeWeightCounts
<1>2. x[1] \in Nat /\ x[2] \in Nat /\ x[2] > 0 /\ x[1] <= (100 * w) * x[2]
  BY WeightedIsWithin DEF IsWithin, IsFraction
<1>3. Scoring!Score(E, k)[1] = x[1] /\ Scoring!Score(E, k)[2] = x[2] * w
  BY <1>1 DEF Scoring!Score
<1>4. (\A f \in Scoring!Applicable(E, k) :
         Scoring!FactorScore(E, k, f)[1] = 100 * Scoring!FactorScore(E, k, f)[2])
      => x[1] = (100 * w) * x[2]
  BY WeightedIsWithin
<1> HIDE DEF w, x
<1>5. \A q \in Nat : (100 * w) * q = 100 * (q * w)
  BY <1>1
<1>6. (100 * w) * x[2] = 100 * (x[2] * w)
  BY <1>2, <1>5
<1>7. x[2] * w \in Nat /\ x[2] * w > 0
  BY <1>1, <1>2
<1>8. IsWithin(Scoring!Score(E, k), 100)
  BY <1>2, <1>3, <1>6, <1>7 DEF IsWithin, IsFraction
<1> QED
  BY <1>3, <1>4, <1>6, <1>8

\* Of two rows of which as much is known, the one that is better in nothing
\* does not score higher.
LEMMA ScoreGrows ==
    ASSUME NEW E, AreRows(E), NEW i \in DOMAIN E, NEW k \in DOMAIN E,
           Scoring!Beats(E[k].signals, E[i].signals)
    PROVE  ~Scoring!Less(Scoring!Score(E, k), Scoring!Score(E, i))
<1> DEFINE fs(r, f) == Scoring!FactorScore(E, r, f)
           x(r, f) == Scoring!Part(E, r, f)
<1>1. Scoring!Applicable(E, k) = Scoring!Applicable(E, i)
  BY Factors DEF Scoring!Beats, Scoring!AsMuchKnown, Scoring!Applicable
<1>2. AreSignals(E[i].signals) /\ AreSignals(E[k].signals)
  BY DEF AreRows
<1>3. ASSUME NEW f \in {"price", "eta", "priority"}, f \in Scoring!Applicable(E, k)
      PROVE  fs(i, f)[2] = fs(k, f)[2] /\ fs(i, f)[1] <= fs(k, f)[1]
  <2> DEFINE mn == Scoring!Min(Scoring!Known(E, f))
             mx == Scoring!Max(Scoring!Known(E, f))
  <2>1. E[i].signals[f] # Scoring!Unknown /\ E[k].signals[f] # Scoring!Unknown
    BY <1>1, <1>3 DEF Scoring!Applicable
  <2>2. /\ mn \in Nat /\ mx \in Nat /\ E[i].signals[f] \in Nat /\ E[k].signals[f] \in Nat
    BY <2>1, KnownIsBounded
  <2>3. E[k].signals[f] <= E[i].signals[f]
    <3>1. /\ E[k].signals.price <= E[i].signals.price
          /\ E[k].signals.eta <= E[i].signals.eta
          /\ E[k].signals.priority <= E[i].signals.priority
      BY DEF Scoring!Beats
    <3>2. CASE f = "price"
      BY <3>1, <3>2
    <3>3. CASE f = "eta"
      BY <3>1, <3>3
    <3>4. CASE f = "priority"
      BY <3>1, <3>4
    <3> QED
      BY <3>2, <3>3, <3>4
  <2>4. /\ fs(i, f) = Scoring!relativeInverseScore(E[i].signals[f], mn, mx)
        /\ fs(k, f) = Scoring!relativeInverseScore(E[k].signals[f], mn, mx)
    BY DEF Scoring!FactorScore, Scoring!Relative
  <2> HIDE DEF mn, mx, fs
  <2>5. CASE mn = mx
    BY <2>4, <2>5 DEF Scoring!relativeInverseScore
  <2>6. CASE mn # mx
    <3>1. /\ fs(i, f) = <<(mx - E[i].signals[f]) * 100, mx - mn>>
          /\ fs(k, f) = <<(mx - E[k].signals[f]) * 100, mx - mn>>
      BY <2>4, <2>6 DEF Scoring!relativeInverseScore
    <3>2. (mx - E[i].signals[f]) * 100 <= (mx - E[k].signals[f]) * 100
      BY <2>2, <2>3
    <3> QED
      BY <3>1, <3>2
  <2> QED
    BY <2>5, <2>6
<1>4. ASSUME "availability" \in Scoring!Applicable(E, k)
      PROVE  /\ fs(i, "availability")[2] = fs(k, "availability")[2]
             /\ fs(i, "availability")[1] <= fs(k, "availability")[1]
  <2>1. E[i].signals.availability # Scoring!Unknown
        /\ E[k].signals.availability # Scoring!Unknown
    BY <1>1, <1>4 DEF Scoring!Applicable
  <2>2. E[i].signals.availability \in Nat /\ E[k].signals.availability \in Nat
    BY <1>2, <2>1 DEF AreSignals, Scoring!Signal
  <2>3. Scoring!Drivers(E[k].signals) >= Scoring!Drivers(E[i].signals)
    BY <2>1 DEF Scoring!Beats
  <2>4. /\ fs(i, "availability")
             = Scoring!computeAvailabilityScore(E[i].signals.availability)
        /\ fs(k, "availability")
             = Scoring!computeAvailabilityScore(E[k].signals.availability)
    BY DEF Scoring!FactorScore
  <2>5. /\ fs(i, "availability")[2] = 1 /\ fs(k, "availability")[2] = 1
        /\ fs(i, "availability")[1] \in Nat /\ fs(k, "availability")[1] \in Nat
    BY <2>2, <2>4, AvailabilityIsWithin DEF IsWithin, IsFraction
  <2>6. fs(k, "availability")[1] >= fs(i, "availability")[1]
    BY <2>3, <2>4 DEF Scoring!Drivers
  <2> HIDE DEF fs
  <2> QED
    BY <2>5, <2>6
<1>5. \A f \in {"price", "eta", "availability", "priority"} :
        /\ IsFraction(x(i, f)) /\ IsFraction(x(k, f))
        /\ x(i, f)[2] = x(k, f)[2] /\ x(i, f)[1] <= x(k, f)[1]
  <2> TAKE f \in {"price", "eta", "availability", "priority"}
  <2>1. IsFraction(x(i, f)) /\ IsFraction(x(k, f))
    BY PartIsWithin, Factors DEF IsWithin
  <2>2. CASE f \notin Scoring!Applicable(E, k)
    <3>1. x(i, f) = <<0, 1>> /\ x(k, f) = <<0, 1>>
      BY <1>1, <2>2 DEF Scoring!Part
    <3> QED
      BY <2>1, <3>1
  <2>3. CASE f \in Scoring!Applicable(E, k)
    <3> DEFINE w == Scoring!SCORE_WEIGHTS[f]
    <3>1. w \in Nat
      BY DEF Scoring!SCORE_WEIGHTS
    <3>2. fs(i, f)[2] = fs(k, f)[2] /\ fs(i, f)[1] <= fs(k, f)[1]
      BY <1>3, <1>4, <2>3
    <3>3. fs(i, f)[1] \in Nat /\ fs(k, f)[1] \in Nat
      BY <1>1, <2>3, FactorIsWithin DEF IsWithin, IsFraction
    <3>4. /\ x(i, f) = <<w * fs(i, f)[1], fs(i, f)[2]>>
          /\ x(k, f) = <<w * fs(k, f)[1], fs(k, f)[2]>>
      BY <1>1, <2>3 DEF Scoring!Part
    <3> HIDE DEF w, fs
    <3>5. \A p, q \in Nat : p <= q => w * p <= w * q
      BY <3>1
    <3>6. w * fs(i, f)[1] <= w * fs(k, f)[1]
      BY <3>2, <3>3, <3>5
    <3> QED
      BY <2>1, <3>2, <3>4, <3>6
  <2> QED
    BY <2>2, <2>3
<1> DEFINE A(r) == Scoring!Plus(x(r, "price"), x(r, "eta"))
           B(r) == Scoring!Plus(x(r, "availability"), x(r, "priority"))
<1>6. /\ Scoring!Weighted(E, i) = Scoring!Plus(A(i), B(i))
      /\ Scoring!Weighted(E, k) = Scoring!Plus(A(k), B(k))
      /\ Scoring!WeightSum(E, i) = Scoring!WeightSum(E, k)
  BY <1>1 DEF Scoring!Weighted, Scoring!WeightSum, Scoring!Weight
<1> HIDE DEF x
<1>7. /\ A(i)[2] = A(k)[2] /\ A(i)[1] <= A(k)[1]
      /\ B(i)[2] = B(k)[2] /\ B(i)[1] <= B(k)[1]
  BY <1>5, PlusGrows
<1>8. IsFraction(A(i)) /\ IsFraction(A(k)) /\ IsFraction(B(i)) /\ IsFraction(B(k))
  <2>1. \A p, q : IsFraction(p) /\ IsFraction(q) => IsFraction(Scoring!Plus(p, q))
    <3> TAKE p, q
    <3> HAVE IsFraction(p) /\ IsFraction(q)
    <3>1. /\ p[1] \in Nat /\ p[2] \in Nat /\ p[2] > 0
          /\ q[1] \in Nat /\ q[2] \in Nat /\ q[2] > 0
      BY DEF IsFraction
    <3>2. /\ p[1] * q[2] + q[1] * p[2] \in Nat
          /\ p[2] * q[2] \in Nat /\ p[2] * q[2] > 0
      BY <3>1
    <3> QED
      BY <3>2 DEF Scoring!Plus, IsFraction
  <2> QED
    BY <1>5, <2>1
<1> HIDE DEF A, B
<1>9. /\ Scoring!Weighted(E, i)[2] = Scoring!Weighted(E, k)[2]
      /\ Scoring!Weighted(E, i)[1] <= Scoring!Weighted(E, k)[1]
  BY <1>6, <1>7, <1>8, PlusGrows
<1>10. /\ Scoring!Score(E, i)[1] = Scoring!Weighted(E, i)[1]
       /\ Scoring!Score(E, i)[2] = Scoring!Weighted(E, i)[2] * Scoring!WeightSum(E, i)
       /\ Scoring!Score(E, k)[1] = Scoring!Weighted(E, k)[1]
       /\ Scoring!Score(E, k)[2] = Scoring!Weighted(E, k)[2] * Scoring!WeightSum(E, k)
  BY SomeWeightCounts DEF Scoring!Score
<1>11. /\ Scoring!Score(E, i)[2] = Scoring!Score(E, k)[2]
       /\ Scoring!Score(E, i)[1] <= Scoring!Score(E, k)[1]
  BY <1>6, <1>9, <1>10
<1>12. IsFraction(Scoring!Score(E, i)) /\ IsFraction(Scoring!Score(E, k))
  BY ScoreIsWithin DEF IsWithin
<1>13. \A p, q, r \in Nat : p <= q => ~(q * r < p * r)
  OBVIOUS
<1> QED
  BY <1>11, <1>12, <1>13 DEF Scoring!Less, IsFraction

\* Comparing fractions crosswise is a strict order, in which those that are
\* neither less nor greater are alike.
LEMMA FractionsAreOrdered ==
    ASSUME NEW a, NEW b, NEW c, IsFraction(a), IsFraction(b), IsFraction(c)
    PROVE  /\ ~(Scoring!Less(a, b) /\ Scoring!Less(b, a))
           /\ Scoring!Less(a, b) /\ Scoring!Less(b, c) => Scoring!Less(a, c)
           /\ ~Scoring!Less(a, b) /\ ~Scoring!Less(b, c) => ~Scoring!Less(a, c)
<1>1. /\ a[1] \in Nat /\ a[2] \in Nat /\ a[2] > 0 /\ b[1] \in Nat /\ b[2] \in Nat /\ b[2] > 0
      /\ c[1] \in Nat /\ c[2] \in Nat /\ c[2] > 0
  BY DEF IsFraction
<1> QED
  BY <1>1, CrossProductsAreOrdered DEF Scoring!Less

\* Rows with signals and scores.
AreScored(E) == AreRows(E) /\ \A k \in DOMAIN E : IsFraction(E[k].score)

\* What decides between equal scores.
PrecedesOtherwise(a, b) ==
    \/ Scoring!Before(a.price, b.price)
    \/ /\ a.price = b.price
       /\ \/ Scoring!Before(a.eta, b.eta)
          \/ /\ a.eta = b.eta
             /\ \/ a.priority < b.priority
                \/ a.priority = b.priority /\ a.provider < b.provider

\* The tie-break is a strict order.
LEMMA TiesAreBroken ==
    ASSUME NEW a, NEW b, NEW c, AreSignals(a), AreSignals(b), AreSignals(c)
    PROVE  /\ ~(PrecedesOtherwise(a, b) /\ PrecedesOtherwise(b, a))
           /\ PrecedesOtherwise(a, b) /\ PrecedesOtherwise(b, c) => PrecedesOtherwise(a, c)
           /\ ~PrecedesOtherwise(a, b) /\ ~PrecedesOtherwise(b, c) => ~PrecedesOtherwise(a, c)
<1>1. /\ a.price \in Scoring!Signal /\ b.price \in Scoring!Signal /\ c.price \in Scoring!Signal
      /\ a.eta \in Scoring!Signal /\ b.eta \in Scoring!Signal /\ c.eta \in Scoring!Signal
      /\ a.priority \in Nat /\ b.priority \in Nat /\ c.priority \in Nat
      /\ a.provider \in Nat /\ b.provider \in Nat /\ c.provider \in Nat
  BY DEF AreSignals
<1>2. ~(PrecedesOtherwise(a, b) /\ PrecedesOtherwise(b, a))
  BY <1>1 DEF PrecedesOtherwise, Scoring!Before, Scoring!Signal, Scoring!Unknown
<1>3. PrecedesOtherwise(a, b) /\ PrecedesOtherwise(b, c) => PrecedesOtherwise(a, c)
  BY <1>1 DEF PrecedesOtherwise, Scoring!Before, Scoring!Signal, Scoring!Unknown
<1>4. ~PrecedesOtherwise(a, b) /\ ~PrecedesOtherwise(b, c) => ~PrecedesOtherwise(a, c)
  BY <1>1 DEF PrecedesOtherwise, Scoring!Before, Scoring!Signal, Scoring!Unknown
<1> QED
  BY <1>2, <1>3, <1>4

\* The comparison of rows is a strict order.
LEMMA RowsAreOrdered ==
    ASSUME NEW E, AreScored(E), NEW i \in DOMAIN E, NEW j \in DOMAIN E, NEW k \in DOMAIN E
    PROVE  /\ ~(Scoring!Precedes(E, i, j) /\ Scoring!Precedes(E, j, i))
           /\ Scoring!Precedes(E, i, j) /\ Scoring!Precedes(E, j, k) => Scoring!Precedes(E, i, k)
           /\ ~Scoring!Precedes(E, i, j) /\ ~Scoring!Precedes(E, j, k)
                => ~Scoring!Precedes(E, i, k)
<1> DEFINE less(x, y) == Scoring!Less(E[x].score, E[y].score)
           tie(x, y) == PrecedesOtherwise(E[x].signals, E[y].signals)
<1>1. \A x, y \in DOMAIN E :
        Scoring!Precedes(E, x, y) <=> less(y, x) \/ (~less(x, y) /\ tie(x, y))
  BY DEF Scoring!Precedes, PrecedesOtherwise
<1>2. \A x, y, z \in DOMAIN E :
        /\ ~(less(x, y) /\ less(y, x))
        /\ less(x, y) /\ less(y, z) => less(x, z)
        /\ ~less(x, y) /\ ~less(y, z) => ~less(x, z)
  BY FractionsAreOrdered DEF AreScored
<1>3. \A x, y, z \in DOMAIN E :
        /\ ~(tie(x, y) /\ tie(y, x))
        /\ tie(x, y) /\ tie(y, z) => tie(x, z)
        /\ ~tie(x, y) /\ ~tie(y, z) => ~tie(x, z)
  <2>1. \A x \in DOMAIN E : AreSignals(E[x].signals)
    BY DEF AreScored, AreRows
  <2> QED
    BY <2>1, TiesAreBroken
<1> HIDE DEF less, tie
<1>4. ~(Scoring!Precedes(E, i, j) /\ Scoring!Precedes(E, j, i))
  BY <1>1, <1>2, <1>3
<1>5. Scoring!Precedes(E, i, j) /\ Scoring!Precedes(E, j, k) => Scoring!Precedes(E, i, k)
  <2> SUFFICES ASSUME less(j, i) \/ (~less(i, j) /\ tie(i, j)),
                      less(k, j) \/ (~less(j, k) /\ tie(j, k))
               PROVE  less(k, i) \/ (~less(i, k) /\ tie(i, k))
    BY <1>1
  <2> QED
    BY <1>2, <1>3
<1>6. ~Scoring!Precedes(E, i, j) /\ ~Scoring!Precedes(E, j, k) => ~Scoring!Precedes(E, i, k)
  <2> SUFFICES ASSUME ~(less(j, i) \/ (~less(i, j) /\ tie(i, j))),
                      ~(less(k, j) \/ (~less(j, k) /\ tie(j, k)))
               PROVE  ~(less(k, i) \/ (~less(i, k) /\ tie(i, k)))
    BY <1>1
  <2> QED
    BY <1>2, <1>3
<1> QED
  BY <1>4, <1>5, <1>6

\* Of some rows one comes before all others: by the comparison, or as the earlier of
\* those that are alike.
LEMMA SomeoneWins ==
    ASSUME NEW E, AreScored(E), DOMAIN E # {}
    PROVE  \E i \in DOMAIN E : \A j \in DOMAIN E \ {i} :
             ~Scoring!Precedes(E, j, i) /\ (Scoring!Precedes(E, i, j) \/ i < j)
<1> DEFINE D == DOMAIN E
           P(i, j) == Scoring!Precedes(E, i, j)
           T(i, j) == P(i, j) \/ (~P(j, i) /\ i < j)
           ahead(i) == {j \in D : T(j, i)}
<1>1. PICK n \in Nat : D = 1 .. n
  BY DEF AreScored, AreRows
<1>2. IsFiniteSet(D) /\ \A i \in D : i \in Nat
  BY <1>1, UnitsOfOneRow
<1>3. \A i, j, k \in D :
        /\ ~(P(i, j) /\ P(j, i))
        /\ P(i, j) /\ P(j, k) => P(i, k)
        /\ ~P(i, j) /\ ~P(j, k) => ~P(i, k)
  BY RowsAreOrdered
<1> HIDE DEF D, P
<1>4. \A i, j, k \in D : T(i, j) /\ T(j, k) => T(i, k)
  BY <1>2, <1>3
<1>5. \A i, j \in D : /\ ~(T(i, j) /\ T(j, i)) /\ ~T(i, i)
                      /\ i # j => T(i, j) \/ T(j, i)
  BY <1>2, <1>3
<1> HIDE DEF T
<1>6. \A i \in D : ahead(i) \in SUBSET D /\ IsFiniteSet(ahead(i)) /\ Cardinality(ahead(i)) \in Nat
  <2> TAKE i \in D
  <2>1. ahead(i) \in SUBSET D
    OBVIOUS
  <2> HIDE DEF ahead
  <2> QED
    BY <1>2, <2>1, FS_Subset, FS_CardinalityType
<1> DEFINE ranks == {Cardinality(ahead(i)) : i \in D}
<1>7. PICK x \in ranks : \A y \in ranks : x <= y
  <2>1. ranks \in SUBSET Nat /\ ranks # {}
    BY <1>6 DEF D
  <2> HIDE DEF ranks
  <2> QED
    BY <2>1, LeastElement
<1>8. PICK w \in D : \A j \in D : Cardinality(ahead(w)) <= Cardinality(ahead(j))
  <2>1. PICK w \in D : x = Cardinality(ahead(w))
    BY <1>7
  <2>2. \A j \in D : Cardinality(ahead(j)) \in ranks
    OBVIOUS
  <2> QED
    BY <1>7, <2>1, <2>2
<1>9. ASSUME NEW j \in D, j # w PROVE T(w, j)
  <2> SUFFICES ASSUME T(j, w) PROVE FALSE
    BY <1>5, <1>9
  <2>1. ahead(j) \subseteq ahead(w)
    BY <1>4
  <2>2. j \in ahead(w) /\ j \notin ahead(j)
    BY <1>5
  <2> HIDE DEF ahead
  <2>3. Cardinality(ahead(j)) < Cardinality(ahead(w))
    <3>1. /\ Cardinality(ahead(j)) <= Cardinality(ahead(w))
          /\ Cardinality(ahead(j)) = Cardinality(ahead(w)) => ahead(j) = ahead(w)
      BY <1>6, <2>1, FS_Subset
    <3> QED
      BY <1>6, <2>2, <3>1
  <2> QED
    BY <1>6, <1>8, <2>3
<1>10. \A j \in D \ {w} : ~P(j, w) /\ (P(w, j) \/ w < j)
  <2> TAKE j \in D \ {w}
  <2>1. T(w, j)
    BY <1>9
  <2> QED
    BY <1>3, <2>1 DEF T
<1> QED
  BY <1>10 DEF D, P

\* The winner is the one.
LEMMA WinnerWins ==
    ASSUME NEW E, AreScored(E), DOMAIN E # {}
    PROVE  /\ Scoring!Winner(E) \in DOMAIN E
           /\ \A j \in DOMAIN E \ {Scoring!Winner(E)} :
                 ~Scoring!Precedes(E, j, Scoring!Winner(E))
  BY SomeoneWins DEF Scoring!Winner

\* An option that beats another precedes it.
LEMMA BeatsPrecedes ==
    ASSUME NEW E, AreRows(E), \A k \in DOMAIN E : E[k].score = Scoring!Score(E, k),
           AreScored(E), NEW i \in DOMAIN E, NEW k \in DOMAIN E,
           Scoring!Beats(E[k].signals, E[i].signals)
    PROVE  Scoring!Precedes(E, k, i) /\ k # i
<1> DEFINE a == E[k].signals
           b == E[i].signals
<1>1. AreSignals(a) /\ AreSignals(b)
  BY DEF AreRows
<1>2. /\ (a.price = Scoring!Unknown) = (b.price = Scoring!Unknown)
      /\ (a.eta = Scoring!Unknown) = (b.eta = Scoring!Unknown)
      /\ a.price <= b.price /\ a.eta <= b.eta /\ a.priority <= b.priority
      /\ a.price < b.price \/ a.eta < b.eta \/ a.priority < b.priority
  <2>1. \A f \in {"price", "eta", "availability", "priority"} :
          (a[f] = Scoring!Unknown) = (b[f] = Scoring!Unknown)
    BY Factors DEF Scoring!Beats, Scoring!AsMuchKnown
  <2>2. /\ (a["price"] = Scoring!Unknown) = (b["price"] = Scoring!Unknown)
        /\ (a["eta"] = Scoring!Unknown) = (b["eta"] = Scoring!Unknown)
    BY <2>1
  <2> QED
    BY <2>2 DEF Scoring!Beats
<1>3. ~Scoring!Less(E[k].score, E[i].score)
  BY ScoreGrows
<1>4. PrecedesOtherwise(a, b)
  <2> HIDE DEF a, b
  <2>1. /\ a.price \in Scoring!Signal /\ b.price \in Scoring!Signal
        /\ a.eta \in Scoring!Signal /\ b.eta \in Scoring!Signal
        /\ a.priority \in Nat /\ b.priority \in Nat
    BY <1>1 DEF AreSignals
  <2>2. Scoring!Before(a.price, b.price) \/ a.price = b.price
    BY <1>2, <2>1 DEF Scoring!Before, Scoring!Signal, Scoring!Unknown
  <2>3. Scoring!Before(a.eta, b.eta) \/ a.eta = b.eta
    BY <1>2, <2>1 DEF Scoring!Before, Scoring!Signal, Scoring!Unknown
  <2>4. a.price = b.price /\ a.eta = b.eta => a.priority < b.priority
    BY <1>2, <2>1 DEF Scoring!Signal, Scoring!Unknown
  <2> QED
    BY <2>2, <2>3, <2>4 DEF PrecedesOtherwise
<1>5. Scoring!Precedes(E, k, i)
  BY <1>3, <1>4 DEF Scoring!Precedes, PrecedesOtherwise
<1>6. k # i
  BY <1>5, RowsAreOrdered
<1> QED
  BY <1>5, <1>6

\* What is scored of the outcomes: rows with signals and their scores.
LEMMA ScoredIsSound ==
    ASSUME Scoring!ScoringAssumption, Scoring!IInv
    PROVE  /\ AreRows(scored) /\ AreScored(scored)
           /\ \A k \in DOMAIN scored :
                 /\ scored[k].score = Scoring!Score(scored, k)
                 /\ scored[k].outcomeIndex \in DOMAIN outcomes
                 /\ outcomes[scored[k].outcomeIndex] = scored[k].signals
<1> DEFINE E == Scoring!Scorable(outcomes)
<1>1. outcomes \in Seq(Offered) /\ scored = Scoring!Scored(outcomes)
  BY DEF Scoring!IInv
<1>2. /\ DOMAIN scored = DOMAIN E
      /\ \A k \in DOMAIN scored : /\ scored[k].outcomeIndex = E[k].outcomeIndex
                                  /\ scored[k].signals = E[k].signals
                                  /\ scored[k].score = Scoring!Score(E, k)
  BY <1>1, ScoredKeepsRows
<1>3. /\ AreRows(E)
      /\ \A k \in DOMAIN E : /\ E[k].outcomeIndex \in DOMAIN outcomes
                             /\ E[k].signals = outcomes[E[k].outcomeIndex]
  BY <1>1, ScorableAreRows, RowsAreOfOutcomes
<1> HIDE DEF E
<1>4. \A k \in DOMAIN scored : Scoring!Score(scored, k) = Scoring!Score(E, k)
  BY <1>2, ScoresComeFromSignals
<1>5. AreRows(scored)
  BY <1>2, <1>3 DEF AreRows
<1>6. AreScored(scored)
  BY <1>2, <1>4, <1>5, ScoreIsWithin DEF AreScored, IsWithin
<1> QED
  BY <1>2, <1>3, <1>4, <1>5, <1>6

\* Initially nothing has settled.
LEMMA ScoringBegins ==
    ASSUME Scoring!Init PROVE Scoring!IInv
  BY DEF Scoring!Init, Scoring!IInv

\* Every settled evaluation leads to new rows.
LEMMA ScoringInductive ==
    ASSUME Scoring!ScoringAssumption, Scoring!IInv, Scoring!Next \/ UNCHANGED Scoring!vars
    PROVE  Scoring!IInv'
<1>1. CASE Scoring!Next
  BY <1>1 DEF Scoring!Next, Scoring!Settle, Scoring!IInv
<1>2. CASE UNCHANGED Scoring!vars
  BY <1>2 DEF Scoring!vars, Scoring!IInv
<1> QED
  BY <1>1, <1>2

\* The one that wins is not beaten, the comparison is an order, the stored option is the
\* winner's, and scores are weighted means.
LEMMA BestIsOffered ==
    ASSUME Scoring!ScoringAssumption, Scoring!IInv
    PROVE  /\ Scoring!WinnerIsNotBeaten
           /\ Scoring!ComparisonIsAnOrder
           /\ Scoring!OptionIsTheWinners
           /\ Scoring!ScoreIsAMean
<1>1. /\ AreRows(scored) /\ AreScored(scored)
      /\ \A k \in DOMAIN scored :
            /\ scored[k].score = Scoring!Score(scored, k)
            /\ scored[k].outcomeIndex \in DOMAIN outcomes
            /\ outcomes[scored[k].outcomeIndex] = scored[k].signals
  BY ScoredIsSound
<1>2. scored # <<>> => DOMAIN scored # {}
  <2> SUFFICES ASSUME DOMAIN scored = {} PROVE scored = <<>>
    OBVIOUS
  <2>1. \E s : scored = Scoring!Scored(s)
    BY DEF Scoring!IInv
  <2>2. scored = [k \in DOMAIN scored |-> scored[k]]
    BY <2>1 DEF Scoring!Scored
  <2>3. scored \in [{} -> {}]
    BY <2>2
  <2>4. <<>> \in [{} -> {}]
    OBVIOUS
  <2> QED
    BY <2>3, <2>4
<1>3. scored # <<>> => /\ Scoring!Winner(scored) \in DOMAIN scored
                       /\ \A j \in DOMAIN scored \ {Scoring!Winner(scored)} :
                             ~Scoring!Precedes(scored, j, Scoring!Winner(scored))
  BY <1>1, <1>2, WinnerWins
<1>4. Scoring!WinnerIsNotBeaten
  <2> SUFFICES ASSUME scored # <<>>, NEW k \in DOMAIN scored,
                      Scoring!Beats(scored[k].signals, scored[Scoring!Winner(scored)].signals)
               PROVE  FALSE
    BY DEF Scoring!WinnerIsNotBeaten
  <2>1. Scoring!Precedes(scored, k, Scoring!Winner(scored)) /\ k # Scoring!Winner(scored)
    BY <1>1, <1>3, BeatsPrecedes
  <2> QED
    BY <1>3, <2>1
<1>5. Scoring!ComparisonIsAnOrder
  BY <1>1, RowsAreOrdered DEF Scoring!ComparisonIsAnOrder
<1>6. Scoring!OptionIsTheWinners
  BY <1>1, <1>3 DEF Scoring!OptionIsTheWinners, Scoring!StoredEvaluation
<1>7. Scoring!ScoreIsAMean
  <2> SUFFICES ASSUME NEW k \in DOMAIN scored
               PROVE  /\ 0 <= scored[k].score[1]
                      /\ scored[k].score[1] <= 100 * scored[k].score[2]
                      /\ (\A f \in Scoring!Applicable(scored, k) :
                            Scoring!FactorScore(scored, k, f)[1]
                              = 100 * Scoring!FactorScore(scored, k, f)[2])
                         => scored[k].score[1] = 100 * scored[k].score[2]
    BY DEF Scoring!ScoreIsAMean
  <2>1. scored[k].score = Scoring!Score(scored, k)
    BY <1>1
  <2>2. /\ IsWithin(Scoring!Score(scored, k), 100)
        /\ (\A f \in Scoring!Applicable(scored, k) :
              Scoring!FactorScore(scored, k, f)[1]
                = 100 * Scoring!FactorScore(scored, k, f)[2])
           => Scoring!Score(scored, k)[1] = 100 * Scoring!Score(scored, k)[2]
    BY <1>1, ScoreIsWithin
  <2>3. 0 <= scored[k].score[1] /\ scored[k].score[1] <= 100 * scored[k].score[2]
    BY <2>1, <2>2 DEF IsWithin, IsFraction
  <2> QED
    BY <2>1, <2>2, <2>3
<1> QED
  BY <1>4, <1>5, <1>6, <1>7

-----------------------------------------------------------------------------
(* All parts.                                                              *)

\* Parts that rest keep their invariants.
LEMMA PartsAtRest ==
    /\ IInv /\ UNCHANGED registryVars => IInv'
    /\ SettledAlone /\ UNCHANGED registryVars => SettledAlone'
    /\ Token!IInv /\ UNCHANGED tokenVars => Token!IInv'
    /\ Orders!IInv /\ UNCHANGED orderVars => Orders!IInv'
    /\ Pricing!IInv /\ UNCHANGED pricingVars => Pricing!IInv'
    /\ Evaluation!IInv /\ UNCHANGED evaluationVars => Evaluation!IInv'
    /\ Creation!IInv /\ UNCHANGED creationVars => Creation!IInv'
    /\ Selection!IInv /\ UNCHANGED orchestrationVars => Selection!IInv'
    /\ Scoring!IInv /\ UNCHANGED scoringVars => Scoring!IInv'
<1>1. IInv /\ UNCHANGED registryVars => IInv'
  BY DEF IInv, TypeOK, ReadyWasTested, Requests, Holds, NoRow, Statuses, Item, HasCredentials,
         Exists, registryVars
<1>2. SettledAlone /\ UNCHANGED registryVars => SettledAlone'
  BY DEF SettledAlone, Settled, Idle, StatusWithAdapter, computeIntegrationStatus,
         canMarkProviderReady, HasCredentials, registryVars
<1>3. Token!IInv /\ UNCHANGED tokenVars => Token!IInv'
  BY DEF Token!IInv, Token!Typed, Token!OneOfAnInstance, Token!HoldersHold,
         Token!AgesAreKnown, Token!RowIsKnown, Token!TypeOK, Token!Requests, Token!Token,
         Token!InFirstLogin, Token!HasLock, Token!HasLease, Token!Fresh, Token!Renewing,
         tokenVars
<1>4. Orders!IInv /\ UNCHANGED orderVars => Orders!IInv'
  BY DEF Orders!IInv, Orders!TypeOK, Orders!BookedIsAssigned, Orders!CancelledIsCancelled,
         Orders!FailureIsTrue, Orders!Unclear, Orders!Clear, Orders!Outcomes, Orders!Count,
         Orders!MayCreate, orderVars
<1>5. Pricing!IInv /\ UNCHANGED pricingVars => Pricing!IInv'
  BY DEF Pricing!IInv, Pricing!RowsAgree, Pricing!Handlers, Pricing!Knows, Pricing!TypeOK,
         Pricing!Options, Pricing!Bookings, Pricing!Payments, Pricing!OrderIsForPayment,
         Pricing!Near, pricingVars
<1>6. Evaluation!IInv /\ UNCHANGED evaluationVars => Evaluation!IInv'
  BY DEF Evaluation!IInv, Evaluation!TypeOK, Evaluation!EligibleCanDeliver,
         Evaluation!ErrorIsTheProviders, Evaluation!Checked, Evaluation!Configurations,
         Evaluation!Answers, Evaluation!NoOutcome, Evaluation!Unset, Evaluation!ProviderError,
         Evaluation!Unanswered, Evaluation!WeightFits, Evaluation!TypeFits,
         Evaluation!Resolution, Evaluation!Can, Evaluation!Supports,
         Evaluation!OPERATION_REQUIRED_CAPABILITIES, evaluationVars
<1>7. Creation!IInv /\ UNCHANGED creationVars => Creation!IInv'
  <2> SUFFICES ASSUME Creation!IInv, UNCHANGED creationVars PROVE Creation!IInv'
    OBVIOUS
  <2>1. Creation!Typed'
    BY DEF Creation!IInv, Creation!Typed, creationVars
  <2> QED
    BY <2>1
    DEF Creation!IInv, Creation!RowOk, Creation!RecordOk, Creation!HandlerOk,
        Creation!TransactionOk, Creation!InTransaction, Creation!KeyOf, Creation!Apart,
        Creation!AnswerOk, creationVars
<1>8. Selection!IInv /\ UNCHANGED orchestrationVars => Selection!IInv'
  BY DEF Selection!IInv, Selection!Typed, Selection!OneOwner, Selection!OfferIsLast,
         Selection!Attempt, Selection!AttemptOk, Selection!HandlerOk, Selection!ReaderOk,
         Selection!Statuses, Selection!Handlers, Selection!Readers, Selection!Owning,
         Selection!IsLast, Selection!Class, orchestrationVars
<1>9. Scoring!IInv /\ UNCHANGED scoringVars => Scoring!IInv'
  BY DEF Scoring!IInv, scoringVars
<1> QED
  BY <1>1, <1>2, <1>3, <1>4, <1>5, <1>6, <1>7, <1>8, <1>9

\* The invariants of all parts; those at rest are in their initial state.
AllInvariants ==
    /\ IInv
    /\ part = "alone" => SettledAlone
    /\ Token!IInv /\ Orders!IInv /\ Pricing!IInv /\ Evaluation!IInv
    /\ Creation!IInv /\ Selection!IInv /\ Scoring!IInv

\* The three ways in which requests arrive are ways in which they may.
LEMMA RequestsArrive ==
    ASSUME Contested \subseteq Key, Race \/ AtTheEdges \/ InLists
    PROVE  Creation!Next
  BY DEF Race, AtTheEdges, InLists, Creation!Next

\* A step of the suite is one of each part, or leaves the part alone.
LEMMA StepsOfParts ==
    ASSUME [MCNext]_all
    PROVE  /\ part' = part
           /\ Next \/ UNCHANGED registryVars
           /\ part = "alone" => OneByOne \/ UNCHANGED registryVars
           /\ Token!Next \/ UNCHANGED tokenVars
           /\ Orders!Next \/ UNCHANGED orderVars
           /\ Pricing!Next \/ UNCHANGED pricingVars
           /\ Evaluation!Next \/ UNCHANGED evaluationVars
           /\ Creation!Next \/ UNCHANGED creationVars
           /\ Selection!Next \/ UNCHANGED orchestrationVars
           /\ Scoring!Next \/ UNCHANGED scoringVars
<1>1. CASE UNCHANGED all
  BY <1>1 DEF all
<1>2. CASE MCNext
  <2>1. part' = part
    BY <1>2 DEF MCNext
  <2>2. OneByOne => Next
    BY DEF OneByOne, Next
  <2>3. Race \/ AtTheEdges \/ InLists => Creation!Next
    BY RequestsArrive, ProvidersAssumption
  <2>4. CASE UNCHANGED <<tokenVars, orderVars, pricingVars, evaluationVars>>
    BY <1>2, <2>1, <2>2, <2>3, <2>4 DEF MCNext
  <2>5. CASE UNCHANGED registryVars
    BY <1>2, <2>1, <2>3, <2>5 DEF MCNext
  <2> QED
    BY <1>2, <2>4, <2>5 DEF MCNext
<1> QED
  BY <1>1, <1>2

\* Every part keeps its invariant, by its own steps and those of the others.
LEMMA ProvidersInductive ==
    /\ MCInit => AllInvariants
    /\ AllInvariants /\ [MCNext]_all => AllInvariants'
<1>a. /\ RegistryAssumption /\ Token!TokenAssumption /\ Orders!OrdersAssumption
      /\ Pricing!PricingAssumption /\ Evaluation!EvaluationAssumption
      /\ Creation!CreationAssumption /\ Selection!OrchestrationAssumption
      /\ Scoring!ScoringAssumption
  BY ProvidersAssumption
<1>1. ASSUME MCInit PROVE AllInvariants
  BY <1>a, <1>1, RegistryStarts, AloneStarts, TokenStart, OrdersStart, PricingBegins,
     EvaluationBegins, CreationBegins, OrchestrationBegins, ScoringBegins
  DEF MCInit, AllInvariants
<1>2. ASSUME AllInvariants, [MCNext]_all PROVE AllInvariants'
  <2>1. IInv'
    BY <1>a, <1>2, StepsOfParts, PartsAtRest, RegistryInductive DEF AllInvariants, Next
  <2>2. part' = "alone" => SettledAlone'
    BY <1>a, <1>2, StepsOfParts, PartsAtRest, AloneInductive DEF AllInvariants, OneByOne
  <2>3. Token!IInv' /\ Orders!IInv'
    BY <1>a, <1>2, StepsOfParts, PartsAtRest, TokenInductive, OrdersInductive
    DEF AllInvariants
  <2>4. Pricing!IInv' /\ Evaluation!IInv'
    BY <1>a, <1>2, StepsOfParts, PartsAtRest, PricingInductive, EvaluationInductive
    DEF AllInvariants
  <2>5. Creation!IInv' /\ Selection!IInv'
    BY <1>a, <1>2, StepsOfParts, PartsAtRest, CreationInductive, OrchestrationInductive
    DEF AllInvariants
  <2>6. Scoring!IInv'
    BY <1>a, <1>2, StepsOfParts, ScoringInductive DEF AllInvariants, Scoring!vars, scoringVars
  <2> QED
    BY <2>1, <2>2, <2>3, <2>4, <2>5, <2>6 DEF AllInvariants
<1> QED
  BY <1>1, <1>2

\* In every behaviour, of the code of any part, its invariant holds.
THEOREM ProvidersInvariant == MCSpec => []AllInvariants
<1>1. MCInit => AllInvariants
  BY ProvidersInductive
<1>2. AllInvariants /\ [MCNext]_all => AllInvariants'
  BY ProvidersInductive
<1> QED
  BY <1>1, <1>2, PTL DEF MCSpec

\* What is reported of an order at Shiprocket is so: a booking has an assigned courier, a
\* cancellation a cancelled order, and where no POST is late a failure leaves nothing behind,
\* for any number of calls, losses and late POSTs (ShiprocketAdapter, shiprocket.recovery).
THEOREM OrdersAreAsReportedAlways == MCSpec => []OrdersAreAsReported
<1>1. AllInvariants => OrdersAreAsReported
  BY OrdersReported DEF AllInvariants, OrdersAreAsReported
<1> QED
  BY <1>1, ProvidersInvariant, PTL

\* The gateway collects what the payment says, a booking is near its option, and what is
\* booked first is what was paid for, whatever the prices, the tolerance, the age of an
\* option and the number of handlers (BookingService, PaymentService, quote-freshness).
THEOREM PriceIsKeptAlways == MCSpec => []PriceIsKept
<1>1. AllInvariants => PriceIsKept
  BY PricingKept, ProvidersAssumption DEF AllInvariants, PriceIsKept
<1> QED
  BY <1>1, ProvidersInvariant, PTL

\* What orchestration may choose has credentials and was healthy when last tested, for any
\* number of administrators; one alone finds the status his configuration gives; and who is
\* eligible can deliver the parcel (ProviderIntegrationService, ProviderEvaluationService).
THEOREM OnlyUsableProvidersAlways == MCSpec => OnlyUsableProviders
<1> DEFINE Usable ==
        /\ part = "registry" => TypeOK /\ EligibleIsUsable
        /\ part = "alone" => TypeOK /\ EligibleIsUsable /\ AnsweredIsSettled
        /\ part = "evaluation" => Evaluation!TypeOK
        /\ Evaluation!EligibleCanDeliver
        /\ Evaluation!ErrorIsTheProviders
           Kept == \A f \in Field : credentials[f] # {} => credentials'[f] # {}
<1>1. AllInvariants => Usable
  BY RegistryUsable, AloneSettled, EvaluationSound DEF AllInvariants
<1>2. AllInvariants /\ [MCNext]_all => [Kept]_vars
  BY StepsOfParts, RegistryKeepsCredentials, ProvidersAssumption
  DEF AllInvariants, Next, registryVars, vars
<1>3. MCSpec => []Usable
  BY <1>1, ProvidersInvariant, PTL
<1>4. MCSpec => [][Kept]_vars
  BY <1>2, ProvidersInvariant, PTL DEF MCSpec
<1> QED
  BY <1>3, <1>4 DEF OnlyUsableProviders, CredentialKept

\* One request renews the token at a time, unless its lease or its lock ran out, nobody who
\* could know that another has just done so, an older token never comes back, and an expired
\* one is given to nobody, for any number of instances, requests, slips and logins
\* (ShiprocketTokenService).
THEOREM TokenIsCurrentAlways == MCSpec => TokenIsCurrent
<1> DEFINE One == part = "token" => Token!TypeOK /\ Token!OneLoginAtATime
           Needed == \A p \in Proc :
                         users[p].pc = "login" /\ users'[p].pc = "save" /\ overrun = {}
                         => ~Token!Fresh(stored)
           Newest == stored' >= stored
<1>a. Token!TokenAssumption
  BY ProvidersAssumption
<1>1. AllInvariants => One
  BY <1>a, TokenOneLogin DEF AllInvariants, Token!IInv, Token!Typed
<1>2. AllInvariants => Needed
  BY DEF AllInvariants, Token!IInv, Token!RowIsKnown
<1>3. AllInvariants /\ [MCNext]_all => [Newest]_stored
  BY <1>a, StepsOfParts, TokenNewest DEF AllInvariants, tokenVars
<1>4. AllInvariants /\ [MCNext]_all => [TokenIsAlive]_(Token!vars)
  BY <1>a, StepsOfParts, TokenAlive
  DEF AllInvariants, tokenVars, Token!vars, Token!store, Token!locks
<1>5. MCSpec => []One
  BY <1>1, ProvidersInvariant, PTL
<1>6. MCSpec => [][Needed]_(Token!vars)
  BY <1>2, ProvidersInvariant, PTL
<1>7. MCSpec => [][Newest]_stored
  BY <1>3, ProvidersInvariant, PTL DEF MCSpec
<1>8. MCSpec => [][TokenIsAlive]_(Token!vars)
  BY <1>4, ProvidersInvariant, PTL DEF MCSpec
<1> QED
  BY <1>5, <1>6, <1>7, <1>8
  DEF TokenIsCurrent, Token!NoNeedlessLogin, Token!NewestIsKept, Token!NeverExpired,
         TokenIsAlive

\* Requests under one key make one delivery, their answers agree with it and with what was
\* asked, what is stored of a body is sound, and the pages of a list hold each delivery
\* once, for any number of requests, customers, keys, bodies and deliveries
\* (DeliveriesService.createDeliveryRequest, idempotency, deliveries.repository).
THEOREM RequestsCreateOnceAlways == MCSpec => []RequestsCreateOnce
<1>1. AllInvariants => RequestsCreateOnce
  BY CreationIsTyped, CreatedOnce, PagesAreComplete, ProvidersAssumption
  DEF AllInvariants, RequestsCreateOnce
<1> QED
  BY <1>1, ProvidersInvariant, PTL

\* A delivery gets one offer that can be booked: one attempt runs at a time, readers get
\* its option, preferred providers are asked first, and the option is the winner's, which
\* no other beats, for any number of handlers, readers, attempts, providers and outcomes
\* (OrchestrationService.runOrchestration, orchestration.scoring).
THEOREM OneOfferWinsAlways == MCSpec => OneOfferWins
<1> DEFINE Offer ==
        /\ part = "orchestration" =>
              /\ Selection!TypeOK
              /\ Selection!OneRunning
              /\ Selection!ReadyIsBookable
              /\ Selection!ReaderGetsOption
        /\ Scoring!WinnerIsNotBeaten
        /\ Scoring!ComparisonIsAnOrder
        /\ Scoring!OptionIsTheWinners
        /\ Scoring!ScoreIsAMean
<1>1. AllInvariants => Offer
  BY OfferIsKept, BestIsOffered, ProvidersAssumption DEF AllInvariants
<1>2. AllInvariants /\ [MCNext]_all => [PreferredAreFirst]_(Selection!vars)
  BY StepsOfParts, PreferredAreAskedFirst, ProvidersAssumption
  DEF AllInvariants, orchestrationVars, Selection!vars
<1>3. MCSpec => []Offer
  BY <1>1, ProvidersInvariant, PTL
<1>4. MCSpec => [][PreferredAreFirst]_(Selection!vars)
  BY <1>2, ProvidersInvariant, PTL DEF MCSpec
<1> QED
  BY <1>3, <1>4 DEF OneOfferWins, Selection!PreferredFirst, PreferredAreFirst
=============================================================================

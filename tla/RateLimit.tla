------------------------------- MODULE RateLimit -------------------------------
(***************************************************************************)
(* The rate limiters in front of a route: by client address, by a field of  *)
(* the body, by user and delivery. Each counts in a window of its own per   *)
(* key, in the memory of one instance. A request passes the limiters of its *)
(* route in order and stops at the first that refuses it. A request is one  *)
(* step: nothing is awaited between the limiters of a key and its counter.  *)
(***************************************************************************)
EXTENDS Money, Sequences

CONSTANTS
    Key,            \* "ip:scope:address", "email:scope:hash", ...
    Window,         \* the window of each key: [length, max]
    Request,        \* the requests: each the sequence of its keys
    Second,         \* ticks of the clock in a second
    MaxTime         \* bound of the clock

RateLimitAssumption ==
    /\ Second \in Nat \ {0} /\ MaxTime \in Nat \ {0}
    /\ \A k \in Key : Window[k].length \in Nat \ {0} /\ Window[k].max \in Nat \ {0}

VARIABLES
    now,            \* Date.now()
    entries,        \* the Map: key -> [count, resetAt]; resetAt 0 when absent
    admitted,       \* history: for each key and time, requests let through
    refused         \* history: the last refusal of each key: [until, retryAt]

vars == <<now, entries, admitted, refused>>

Init ==
    /\ now = 1
    /\ entries = [k \in Key |-> [count |-> 0, resetAt |-> 0]]
    /\ admitted = [k \in Key |-> [t \in 1 .. MaxTime |-> 0]]
    /\ refused = [k \in Key |-> [until |-> 0, retryAt |-> 0]]

\* consume: an absent or ended window begins anew; a refused request counts too.
Consume(k) ==
    LET entry == IF now >= entries[k].resetAt
                 THEN [count |-> 0, resetAt |-> now + Window[k].length] ELSE entries[k]
    IN  [entry EXCEPT !.count = @ + 1]

\* Mutated form: the limit itself is refused only after one more.
Allowed_OneMore(k) == Consume(k).count <= Window[k].max + 1

Allowed(k) == Consume(k).count <= Window[k].max

\* Mutated form: rounded down.
RetryAfter_Floor(k) == (Consume(k).resetAt - now) \div Second

\* retryAfterSeconds: rounded up, at least one.
RetryAfter(k) ==
    LET left == Consume(k).resetAt - now IN
    IF left <= Second THEN 1 ELSE (left + Second - 1) \div Second

\* The limiters a request gets to: up to the first that refuses.
Reached(r) ==
    {r[i] : i \in {j \in DOMAIN r : \A h \in 1 .. j - 1 : Allowed(r[h])}}

Receive(r) ==
    /\ \A k \in Reached(r) : Consume(k).count <= Window[k].max + 1    \* bound
    /\ entries' = [k \in Key |-> IF k \in Reached(r) THEN Consume(k) ELSE entries[k]]
    /\ admitted' = [k \in Key |-> IF k \in Reached(r) /\ Allowed(k)
                                  THEN [admitted[k] EXCEPT ![now] = @ + 1] ELSE admitted[k]]
    /\ refused' = [k \in Key |-> IF k \in Reached(r) /\ ~Allowed(k)
                                 THEN [until |-> Consume(k).resetAt,
                                       retryAt |-> now + Second * RetryAfter(k)]
                                 ELSE refused[k]]
    /\ UNCHANGED now

Tick ==
    /\ now < MaxTime
    /\ now' = now + 1
    /\ UNCHANGED <<entries, admitted, refused>>

\* The instance starts anew, and with it the counts.
Restart ==
    /\ entries' = [k \in Key |-> [count |-> 0, resetAt |-> 0]]
    /\ admitted' = [k \in Key |-> [t \in 1 .. MaxTime |-> 0]]
    /\ UNCHANGED <<now, refused>>

Next == Tick \/ Restart \/ \E r \in Request : Receive(r)

Spec == Init /\ [][Next]_vars
-----------------------------------------------------------------------------
(* Properties.                                                             *)

TypeOK ==
    /\ now \in 1 .. MaxTime
    /\ \A k \in Key : entries[k].count \in 0 .. Window[k].max + 1
                      /\ entries[k].resetAt \in 0 .. MaxTime + Window[k].length

\* Between two restarts no stretch of time as long as the window sees more than
\* twice the limit: the window is fixed, so that one can end and the next begin.
TwiceTheLimitAtMost ==
    \A k \in Key, t \in 1 .. MaxTime :
        SumOf(admitted[k], {u \in 1 .. MaxTime : u >= t /\ u < t + Window[k].length})
            <= 2 * Window[k].max

\* Who is refused and waits for the seconds of Retry-After comes to a window that
\* has ended.
RetryAfterIsEnough == \A k \in Key : refused[k].retryAt >= refused[k].until

\* A window refuses only when it let its whole limit through.
RefusesOnlyAtLimit ==
    \A k \in Key : entries[k].count > Window[k].max =>
        SumOf(admitted[k], {u \in 1 .. MaxTime : u + Window[k].length >= entries[k].resetAt})
            = Window[k].max
-----------------------------------------------------------------------------
(* The inductive invariant of the proofs.                                  *)

AtMost(n, m) == IF n <= m THEN n ELSE m

\* The times of the current window of a key, and of the stretch before it that is one tick
\* short of a window.
Began(k) == entries[k].resetAt - Window[k].length
Current(k) == {u \in 1 .. MaxTime : u >= Began(k)}
Before(k) == {u \in 1 .. MaxTime : u < Began(k) /\ u + Window[k].length > Began(k)}

\* What the counters say of the requests that were let through: the current window has as
\* many as it counted, up to its limit; the stretch before it, which one window covers,
\* not more than a limit; after the window, or now, none.
CountersAreTrue ==
    \A k \in Key :
        /\ entries[k] \in [count : Nat, resetAt : Nat]
        /\ admitted[k] \in [1 .. MaxTime -> 0 .. Window[k].max]
        /\ \A u \in 1 .. MaxTime : admitted[k][u] > 0 => u <= now /\ u < entries[k].resetAt
        /\ entries[k].resetAt = 0 => entries[k].count = 0
        /\ entries[k].resetAt # 0 => Began(k) \in 1 .. now
        /\ SumOf(admitted[k], Current(k)) = AtMost(entries[k].count, Window[k].max)
        /\ SumOf(admitted[k], Before(k)) <= Window[k].max

IInv ==
    /\ TypeOK
    /\ CountersAreTrue
    /\ TwiceTheLimitAtMost
    /\ RefusesOnlyAtLimit
    /\ RetryAfterIsEnough
=============================================================================

--------------------------- MODULE EmailVerification ---------------------------
(***************************************************************************)
(* AuthService for one e-mail address: signup, verifyOtp and resendOtp on   *)
(* concurrent requests. A step is an awaited call of the repository or of   *)
(* the mailer; the two statements of the transaction that replaces the code *)
(* are two steps, since READ COMMITTED lets two such transactions overlap.  *)
(***************************************************************************)
EXTENDS Naturals, Sequences, FiniteSets

CONSTANTS
    Proc,           \* request handlers
    MaxAttempts,    \* MAX_OTP_ATTEMPTS
    MaxCodes,       \* codes that are made (bound)
    MaxLost         \* mails that fail (bound)

VerificationAssumption ==
    /\ IsFiniteSet(Proc)
    /\ MaxAttempts \in Nat \ {0} /\ MaxCodes \in Nat \ {0} /\ MaxLost \in Nat

VARIABLES
    user,           \* the User row: none, unverified or verified
    codes,          \* EmailVerificationOtp rows by createdAt
    received,       \* codes that reached their reader
    proc,           \* the handlers: pc and the code they looked up
    lost            \* mails that failed so far

vars == <<user, codes, received, proc, lost>>

Idle == [pc |-> "idle", code |-> 0]
NewCode == [used |-> FALSE, attempts |-> 0, expired |-> FALSE, recent |-> TRUE]
Latest == Len(codes)
Goto(p, pc) == proc' = [proc EXCEPT ![p].pc = pc]
Answer(p) == proc' = [proc EXCEPT ![p] = Idle]

Init ==
    /\ user = "none"
    /\ codes = <<>>
    /\ received = {}
    /\ proc = [p \in Proc |-> Idle]
    /\ lost = 0
-----------------------------------------------------------------------------
(* A new code.                                                             *)

\* signup: of an address that is verified it is refused.
Signup(p) ==
    /\ proc[p].pc = "idle" /\ user # "verified" /\ Len(codes) < MaxCodes
    /\ Goto(p, IF user = "none" THEN "create" ELSE "update")
    /\ UNCHANGED <<user, codes, received, lost>>

\* The transaction that makes the user and its first code. The address is
\* unique: of two, the later one fails.
CreateUser(p) ==
    /\ proc[p].pc = "create"
    /\ IF user = "none"
       THEN /\ user' = "unverified"
            /\ codes' = Append(codes, NewCode)
            /\ proc' = [proc EXCEPT ![p] = [pc |-> "mail", code |-> Latest + 1]]
       ELSE Answer(p) /\ UNCHANGED <<user, codes>>
    /\ UNCHANGED <<received, lost>>

\* resendOtp: not within the cooldown of the latest code.
ResendOtp(p) ==
    /\ proc[p].pc = "idle" /\ user = "unverified" /\ Len(codes) < MaxCodes
    /\ codes # <<>> => ~codes[Latest].recent
    /\ Goto(p, "invalidate")
    /\ UNCHANGED <<user, codes, received, lost>>

\* invalidateVerificationOtps. A signup updates the user first, whose row lock
\* keeps the whole transactions of signups apart.
Invalidate(p) ==
    /\ \/ proc[p].pc = "invalidate"
       \/ proc[p].pc = "update" /\ \A q \in Proc : proc[q].pc # "insertUpdate"
    /\ codes' = [i \in DOMAIN codes |-> [codes[i] EXCEPT !.used = TRUE]]
    /\ Goto(p, IF proc[p].pc = "update" THEN "insertUpdate" ELSE "insert")
    /\ UNCHANGED <<user, received, lost>>

\* createVerificationOtp.
InsertCode(p) ==
    /\ proc[p].pc \in {"insert", "insertUpdate"}
    /\ codes' = Append(codes, NewCode)
    /\ proc' = [proc EXCEPT ![p] = [pc |-> "mail", code |-> Latest + 1]]
    /\ UNCHANGED <<user, received, lost>>

\* sendVerificationEmail; when it fails the code stays.
Mail(p) ==
    /\ proc[p].pc = "mail"
    /\ \/ received' = received \cup {proc[p].code} /\ UNCHANGED lost
       \/ lost < MaxLost /\ lost' = lost + 1 /\ UNCHANGED received
    /\ Answer(p)
    /\ UNCHANGED <<user, codes>>
-----------------------------------------------------------------------------
(* verifyOtp.                                                              *)

\* The latest code, if the user is not verified. A guess is the number of the code
\* the reader has, or 0.
FindCode(p, guess) ==
    /\ proc[p].pc = "idle" /\ user = "unverified" /\ codes # <<>>
    /\ ~codes[Latest].used /\ ~codes[Latest].expired
    /\ proc' = [proc EXCEPT ![p] =
          [pc |-> IF codes[Latest].attempts >= MaxAttempts THEN "lock"
                  ELSE IF guess = Latest THEN "verify" ELSE "count",
           code |-> Latest]]
    /\ UNCHANGED <<user, codes, received, lost>>

\* Mutated form: one guess more, and then the code is not marked.
CountAttempt_OneMore(p) ==
    LET c == proc[p].code IN
    /\ proc[p].pc = "count"
    /\ codes' = [codes EXCEPT ![c].attempts = @ + 1]
    /\ IF codes[c].attempts + 1 > MaxAttempts THEN Goto(p, "lock") ELSE Answer(p)
    /\ UNCHANGED <<user, received, lost>>

\* incrementVerificationOtpAttempts, which has no condition.
CountAttempt(p) ==
    LET c == proc[p].code IN
    /\ proc[p].pc = "count"
    /\ codes' = [codes EXCEPT ![c].attempts = @ + 1]
    /\ IF codes[c].attempts + 1 >= MaxAttempts THEN Goto(p, "lock") ELSE Answer(p)
    /\ UNCHANGED <<user, received, lost>>

\* markVerificationOtpUsed of a code whose attempts are used up.
LockCode(p) ==
    /\ proc[p].pc = "lock"
    /\ codes' = [codes EXCEPT ![proc[p].code].used = TRUE]
    /\ Answer(p)
    /\ UNCHANGED <<user, received, lost>>

\* The transaction of a right code, unconditional as well.
Verify(p) ==
    /\ proc[p].pc = "verify"
    /\ codes' = [codes EXCEPT ![proc[p].code].used = TRUE]
    /\ user' = "verified"
    /\ Answer(p)
    /\ UNCHANGED <<received, lost>>
-----------------------------------------------------------------------------
\* A code expires, and the cooldown ends.
Age(i) ==
    /\ \/ codes[i].recent /\ codes' = [codes EXCEPT ![i].recent = FALSE]
       \/ ~codes[i].recent /\ ~codes[i].expired /\ codes' = [codes EXCEPT ![i].expired = TRUE]
    /\ UNCHANGED <<user, received, proc, lost>>

Step(p) ==
    \/ CreateUser(p) \/ Invalidate(p) \/ InsertCode(p) \/ Mail(p)
    \/ CountAttempt(p) \/ LockCode(p) \/ Verify(p)

Next ==
    \/ \E p \in Proc : \/ Signup(p) \/ ResendOtp(p) \/ Step(p)
                       \/ \E guess \in received \cup {0} : FindCode(p, guess)
    \/ \E i \in DOMAIN codes : Age(i)

Spec == Init /\ [][Next]_vars
-----------------------------------------------------------------------------
(* Properties.                                                             *)

\* A user and a code come together. Concurrent guesses overshoot the limit, by less
\* than there are handlers: a code at its limit is not guessed at any more.
TypeOK ==
    /\ user \in {"none", "unverified", "verified"}
    /\ user = "none" <=> codes = <<>>
    /\ Len(codes) <= MaxCodes - 1 + Cardinality(Proc)
    /\ \A i \in DOMAIN codes :
        codes[i].attempts \in 0 .. MaxAttempts - 1 + Cardinality(Proc)
    /\ received \subseteq DOMAIN codes
    /\ \A p \in Proc : proc[p].code \in 0 .. Len(codes)
    /\ lost \in 0 .. MaxLost

\* A verified address had a code that its reader received and that is used up by
\* then, whatever was sent, guessed and replaced meanwhile.
VerifiedByCode ==
    user = "verified" => \E c \in received : codes[c].used

\* A code whose attempts are used up is marked as used, or a handler is about to:
\* of guesses that are counted at the same time, the last one sees the limit.
ExhaustedIsUsed ==
    \A i \in DOMAIN codes : codes[i].attempts >= MaxAttempts =>
        codes[i].used \/ \E p \in Proc : proc[p] = [pc |-> "lock", code |-> i]
-----------------------------------------------------------------------------
(* The inductive invariant of the proofs.                                  *)

Pcs == {"idle", "create", "update", "invalidate", "insert", "insertUpdate", "mail",
        "count", "lock", "verify"}
Codes == [used : BOOLEAN, attempts : Nat, expired : BOOLEAN, recent : BOOLEAN]

\* The handlers that will make a code, and those that will count a wrong guess at one.
Adding == {p \in Proc : proc[p].pc \in {"create", "update", "invalidate", "insert",
                                        "insertUpdate"}}
Counting(i) == {p \in Proc : proc[p].pc = "count" /\ proc[p].code = i}

Shape ==
    /\ user \in {"none", "unverified", "verified"}
    /\ codes \in Seq(Codes)
    /\ proc \in [Proc -> [pc : Pcs, code : Nat]]
    /\ received \subseteq DOMAIN codes
    /\ lost \in 0 .. MaxLost
    /\ user = "none" <=> codes = <<>>

\* What a handler relies on: the code it found is there, a right guess was received, and
\* who replaces a code has found a user.
Knows(p) ==
    /\ proc[p].code \in 0 .. Len(codes)
    /\ proc[p].pc \in {"mail", "count", "lock", "verify"} => proc[p].code \in DOMAIN codes
    /\ proc[p].pc = "verify" => proc[p].code \in received
    /\ proc[p].pc \in {"update", "invalidate", "insert", "insertUpdate"} => user # "none"

\* The bounds are passed by those only who looked before the others wrote.
Overshoot ==
    /\ Len(codes) + Cardinality(Adding) <= MaxCodes - 1 + Cardinality(Proc)
    /\ \A i \in DOMAIN codes :
          codes[i].attempts + Cardinality(Counting(i)) <= MaxAttempts - 1 + Cardinality(Proc)

IInv ==
    /\ Shape
    /\ \A p \in Proc : Knows(p)
    /\ Overshoot
    /\ VerifiedByCode
    /\ ExhaustedIsUsed
=============================================================================

------------------------------ MODULE AuthSessions ------------------------------
(***************************************************************************)
(* AuthService for one verified account with a password: login, refresh,    *)
(* logout, and the three stages of a password reset, on concurrent requests.*)
(* A step is an awaited call of the repository; the statements of a          *)
(* transaction are steps of their own where others can come between them    *)
(* under READ COMMITTED.                                                    *)
(***************************************************************************)
EXTENDS Naturals, Sequences, FiniteSets

CONSTANTS
    Proc,           \* request handlers
    Password,       \* passwords; a new one differs from the current one
    First,          \* the password at the start
    Statuses,       \* the statuses the account can get
    MaxAttempts,    \* OTP_MAX_ATTEMPTS
    MaxCodes,       \* reset codes (bound)
    MaxSessions     \* refresh tokens (bound)

SessionsAssumption ==
    /\ IsFiniteSet(Proc) /\ First \in Password /\ "ACTIVE" \in Statuses
    /\ MaxAttempts \in Nat \ {0} /\ MaxCodes \in Nat /\ MaxSessions \in Nat

VARIABLES
    account,        \* User: status and password
    sessions,       \* refresh tokens: the password their chain began with, revoked
    codes,          \* PasswordResetOtp rows by createdAt
    tokens,         \* PasswordResetVerificationToken rows
    proc,           \* the handlers
    ended           \* history: what became of each token (see Unused)

vars == <<account, sessions, codes, tokens, proc, ended>>

Idle == [pc |-> "idle", at |-> 0, password |-> First]
NewCode == [consumed |-> FALSE, attempts |-> 0, expired |-> FALSE, recent |-> TRUE]
Goto(p, pc) == proc' = [proc EXCEPT ![p].pc = pc]
Answer(p) == proc' = [proc EXCEPT ![p] = Idle]
Begin(p, pc, at, password) ==
    /\ proc[p].pc = "idle"
    /\ proc' = [proc EXCEPT ![p] = [pc |-> pc, at |-> at, password |-> password]]
Opened(password) == Append(sessions, [password |-> password, revoked |-> FALSE])
Latest == Len(codes)

\* The requests that have looked at a token inside their transaction and are about to
\* write. History per token: the passwords that were set with it, the resets with it that
\* were answered with success, and who was about to write when it was used up.
Applying(t) == {p \in Proc : proc[p].pc = "apply" /\ proc[p].at = t}
Unused == [changes |-> 0, resets |-> 0, late |-> 0]

Init ==
    /\ account = [status |-> "ACTIVE", password |-> First]
    /\ sessions = <<>> /\ codes = <<>> /\ tokens = <<>>
    /\ proc = [p \in Proc |-> Idle]
    /\ ended = <<>>
-----------------------------------------------------------------------------
(* Sessions.                                                               *)

\* authenticatePasswordLogin: the password, then assertLoginAccountStatus.
Login(p) ==
    /\ account.status = "ACTIVE" /\ Len(sessions) < MaxSessions
    /\ Begin(p, "issue", 0, account.password)
    /\ UNCHANGED <<account, sessions, codes, tokens, ended>>

\* issueSession.
IssueSession(p) ==
    /\ proc[p].pc = "issue"
    /\ sessions' = Opened(proc[p].password)
    /\ Answer(p)
    /\ UNCHANGED <<account, codes, tokens, ended>>

\* refreshSession looks at the token and at the account.
RefreshSession(p, s) ==
    /\ ~sessions[s].revoked /\ account.status = "ACTIVE" /\ Len(sessions) < MaxSessions
    /\ Begin(p, "rotate", s, sessions[s].password)
    /\ UNCHANGED <<account, sessions, codes, tokens, ended>>

\* The transaction of refreshSession: revokeRefreshToken has no condition.
RotateToken(p) ==
    /\ proc[p].pc = "rotate"
    /\ sessions' = [Opened(proc[p].password) EXCEPT ![proc[p].at].revoked = TRUE]
    /\ Answer(p)
    /\ UNCHANGED <<account, codes, tokens, ended>>

Logout(p, s) ==
    /\ proc[p].pc = "idle" /\ ~sessions[s].revoked
    /\ sessions' = [sessions EXCEPT ![s].revoked = TRUE]
    /\ UNCHANGED <<account, codes, tokens, proc, ended>>
-----------------------------------------------------------------------------
(* A reset code.                                                           *)

\* forgotPassword, and resendPasswordResetOtp, which has a cooldown.
ForgotPassword(p) ==
    /\ account.status = "ACTIVE" /\ Len(codes) < MaxCodes
    /\ Begin(p, "invalidate", 0, First)
    /\ UNCHANGED <<account, sessions, codes, tokens, ended>>

ResendCode(p) ==
    /\ codes # <<>> => ~codes[Latest].recent
    /\ ForgotPassword(p)

\* issuePasswordResetOtp: the two statements of its transaction.
InvalidateCodes(p) ==
    /\ proc[p].pc = "invalidate"
    /\ codes' = [i \in DOMAIN codes |-> [codes[i] EXCEPT !.consumed = TRUE]]
    /\ Goto(p, "insert")
    /\ UNCHANGED <<account, sessions, tokens, ended>>

InsertCode(p) ==
    /\ proc[p].pc = "insert"
    /\ codes' = Append(codes, NewCode)
    /\ Answer(p)
    /\ UNCHANGED <<account, sessions, tokens, ended>>

\* verifyPasswordResetOtp, up to the comparison.
FindCode(p, right) ==
    LET c == codes[Latest] IN
    /\ account.status = "ACTIVE" /\ codes # <<>>
    /\ ~c.consumed /\ ~c.expired /\ c.attempts < MaxAttempts
    /\ Begin(p, IF right THEN "claim" ELSE "count", Latest, First)
    /\ UNCHANGED <<account, sessions, codes, tokens, ended>>

\* incrementPasswordResetOtpAttempts: conditional.
CountAttempt(p) ==
    LET c == codes[proc[p].at] IN
    /\ proc[p].pc = "count"
    /\ codes' = IF ~c.consumed /\ c.attempts < MaxAttempts
                THEN [codes EXCEPT ![proc[p].at].attempts = @ + 1] ELSE codes
    /\ Answer(p)
    /\ UNCHANGED <<account, sessions, tokens, ended>>

\* Mutated form: what the lookup saw is taken as still so.
ClaimCode_Unconditional(p) ==
    /\ proc[p].pc = "claim"
    /\ codes' = [codes EXCEPT ![proc[p].at].consumed = TRUE]
    /\ tokens' = [t \in DOMAIN tokens |-> [tokens[t] EXCEPT !.used = TRUE]]
    /\ Goto(p, "token")
    /\ UNCHANGED <<account, sessions, ended>>

\* consumePasswordResetOtp: of two that hold the code one gets it. It also
\* invalidates the tokens there are, and inserts a new one.
ClaimCode(p) ==
    /\ proc[p].pc = "claim"
    /\ IF codes[proc[p].at].consumed
       THEN Answer(p) /\ UNCHANGED <<codes, tokens, ended>>
       ELSE /\ codes' = [codes EXCEPT ![proc[p].at].consumed = TRUE]
            /\ tokens' = [t \in DOMAIN tokens |-> [tokens[t] EXCEPT !.used = TRUE]]
            /\ ended' = [t \in DOMAIN tokens |->
                            IF tokens[t].used THEN ended[t]
                            ELSE [ended[t] EXCEPT !.late = Cardinality(Applying(t))]]
            /\ Goto(p, "token")
    /\ UNCHANGED <<account, sessions>>

InsertToken(p) ==
    /\ proc[p].pc = "token"
    /\ tokens' = Append(tokens, [used |-> FALSE, expired |-> FALSE, code |-> proc[p].at])
    /\ ended' = Append(ended, Unused)
    /\ Answer(p)
    /\ UNCHANGED <<account, sessions, codes>>
-----------------------------------------------------------------------------
(* The new password.                                                       *)

\* resetPassword, up to its transaction.
ResetPassword(p, t, password) ==
    /\ ~tokens[t].used /\ ~tokens[t].expired
    /\ account.status \notin {"DELETED", "SUSPENDED"} /\ password # account.password
    /\ Begin(p, "recheck", t, password)
    /\ UNCHANGED <<account, sessions, codes, tokens, ended>>

\* Mutated form: what the request saw before its transaction is taken as still so.
RecheckToken_Trusting(p) ==
    /\ proc[p].pc = "recheck"
    /\ Goto(p, "apply")
    /\ UNCHANGED <<account, sessions, codes, tokens, ended>>

\* The transaction looks at the token once more,
RecheckToken(p) ==
    LET t == tokens[proc[p].at] IN
    /\ proc[p].pc = "recheck"
    /\ IF t.used \/ t.expired THEN Answer(p) ELSE Goto(p, "apply")
    /\ UNCHANGED <<account, sessions, codes, tokens, ended>>

\* and then writes the password, under a lock of the user's row until it commits;
\* marks the token if that is still unused; and revokes the sessions. When the
\* token was used meanwhile it answers an error, but commits the password.
ApplyReset(p) ==
    LET t == proc[p].at IN
    /\ proc[p].pc = "apply"
    /\ account' = [account EXCEPT !.password = proc[p].password]
    /\ IF tokens[t].used
       THEN /\ ended' = [ended EXCEPT ![t].changes = @ + 1]
            /\ UNCHANGED <<tokens, sessions>>
       ELSE /\ tokens' = [tokens EXCEPT ![t].used = TRUE]
            /\ sessions' = [s \in DOMAIN sessions |-> [sessions[s] EXCEPT !.revoked = TRUE]]
            /\ ended' = [ended EXCEPT ![t] =
                           [changes |-> @.changes + 1, resets |-> @.resets + 1,
                            late |-> Cardinality(Applying(t) \ {p})]]
    /\ Answer(p)
    /\ UNCHANGED codes
-----------------------------------------------------------------------------
\* A code or a token expires, and the cooldown ends.
AgeCode(i) ==
    /\ \/ codes[i].recent /\ codes' = [codes EXCEPT ![i].recent = FALSE]
       \/ ~codes[i].recent /\ ~codes[i].expired /\ codes' = [codes EXCEPT ![i].expired = TRUE]
    /\ UNCHANGED <<account, sessions, tokens, proc, ended>>

AgeToken(t) ==
    /\ ~tokens[t].expired
    /\ tokens' = [tokens EXCEPT ![t].expired = TRUE]
    /\ UNCHANGED <<account, sessions, codes, proc, ended>>

\* The status is set outside these operations.
SetStatus(status) ==
    /\ account.status # status
    /\ account' = [account EXCEPT !.status = status]
    /\ UNCHANGED <<sessions, codes, tokens, proc, ended>>

Step(p) ==
    \/ IssueSession(p) \/ RotateToken(p) \/ InvalidateCodes(p) \/ InsertCode(p)
    \/ CountAttempt(p) \/ ClaimCode(p) \/ InsertToken(p) \/ RecheckToken(p) \/ ApplyReset(p)

Request(p) ==
    \/ Login(p) \/ ForgotPassword(p) \/ ResendCode(p)
    \/ \E s \in DOMAIN sessions : RefreshSession(p, s) \/ Logout(p, s)
    \/ \E right \in BOOLEAN : FindCode(p, right)
    \/ \E t \in DOMAIN tokens, password \in Password : ResetPassword(p, t, password)

Next ==
    \/ \E p \in Proc : Request(p) \/ Step(p)
    \/ \E i \in DOMAIN codes : AgeCode(i)
    \/ \E t \in DOMAIN tokens : AgeToken(t)
    \/ \E status \in Statuses : SetStatus(status)

Spec == Init /\ [][Next]_vars
-----------------------------------------------------------------------------
(* Properties.                                                             *)

TypeOK ==
    /\ account \in [status : Statuses, password : Password]
    /\ \A s \in DOMAIN sessions :
        sessions[s] \in [password : Password, revoked : BOOLEAN]
    /\ \A i \in DOMAIN codes : codes[i].attempts \in 0 .. MaxAttempts
    /\ \A t \in DOMAIN tokens : tokens[t].code \in DOMAIN codes
    /\ \A p \in Proc : proc[p].password \in Password
    /\ Len(ended) = Len(tokens)

\* A code is exchanged for at most one token, whoever presents it and however
\* often.
CodeYieldsOneToken ==
    \A t, u \in DOMAIN tokens : tokens[t].code = tokens[u].code => t = u

\* A token is good for one reset that is answered with success. The password changes with
\* it once more only for each other request that had made its look by the time the token
\* was used up, and never for one that looks later.
TokenChangesOnce ==
    \A t \in DOMAIN tokens :
        /\ ended[t].resets <= 1
        /\ ended[t].changes <= ended[t].resets + ended[t].late

\* A password that was set used a token up, and no token can be used while the code it
\* came from is still open.
UsedUp ==
    \A t \in DOMAIN tokens :
        /\ ended[t].changes > 0 => tokens[t].used
        /\ codes[tokens[t].code].consumed
-----------------------------------------------------------------------------
(* The inductive invariant of the proofs.                                  *)

Pcs == {"idle", "issue", "rotate", "invalidate", "insert", "count", "claim", "token",
        "recheck", "apply"}

Shape ==
    /\ account \in [status : Statuses, password : Password]
    /\ sessions \in Seq([password : Password, revoked : BOOLEAN])
    /\ codes \in Seq([consumed : BOOLEAN, attempts : 0 .. MaxAttempts,
                      expired : BOOLEAN, recent : BOOLEAN])
    /\ tokens \in Seq([used : BOOLEAN, expired : BOOLEAN, code : Nat])
    /\ ended \in Seq([changes : Nat, resets : Nat, late : Nat]) /\ Len(ended) = Len(tokens)
    /\ proc \in [Proc -> [pc : Pcs, at : Nat, password : Password]]
    /\ \A t \in DOMAIN tokens : tokens[t].code \in DOMAIN codes

\* What a handler found is still there, and the code that it claimed is its own.
Knows(p) ==
    /\ proc[p].pc = "rotate" => proc[p].at \in DOMAIN sessions
    /\ proc[p].pc \in {"count", "claim", "token"} => proc[p].at \in DOMAIN codes
    /\ proc[p].pc \in {"recheck", "apply"} => proc[p].at \in DOMAIN tokens
    /\ proc[p].pc = "token" =>
          /\ codes[proc[p].at].consumed
          /\ \A t \in DOMAIN tokens : tokens[t].code # proc[p].at

\* Whoever is about to write with a token that is used up was counted when it was.
Accounted(t) ==
    IF tokens[t].used
    THEN /\ ended[t].resets <= 1
         /\ ended[t].changes + Cardinality(Applying(t)) <= ended[t].resets + ended[t].late
    ELSE ended[t] = Unused

IInv ==
    /\ Shape
    /\ \A p \in Proc : Knows(p)
    /\ \A p, q \in Proc :
          proc[p].pc = "token" /\ proc[q].pc = "token" /\ proc[p].at = proc[q].at => p = q
    /\ CodeYieldsOneToken
    /\ \A t \in DOMAIN tokens : Accounted(t) /\ codes[tokens[t].code].consumed
=============================================================================

------------------------------- MODULE MCAccounts -------------------------------
(***************************************************************************)
(* The parts of the system that let people in and let administrators set      *)
(* policies. They share no rows, so a behaviour exercises one of them, and     *)
(* the others rest in their initial state.                                    *)
(***************************************************************************)
EXTENDS Integers, Sequences, FiniteSets, TLC

CONSTANTS
    Proc, None,                                         \* request handlers, admins; nobody
    VerificationAttempts, VerificationCodes, LostMails, \* EmailVerification
    Password, First, Statuses,                          \* AuthSessions
    ResetAttempts, ResetCodes, MaxSessions,
    Subject, Email, Payload, Issuers,                   \* GoogleLogin
    Key, Window, Requests, Second, MaxTime,             \* RateLimit
    Keys, Booking, Stored, EnvDefault,                  \* RuntimeSettings
    Values, Valid, MaxVersion

VARIABLES
    part,                                               \* the part that is exercised
    user, codes, received, proc, lost,                  \* EmailVerification
    account, sessions, resetCodes, tokens, handlers, ended,     \* AuthSessions
    users, linked, logins, opened,                      \* GoogleLogin
    now, entries, admitted, refused,                    \* RateLimit
    row, log, up, lock, pc, page, ask, cur, todo        \* RuntimeSettings

Verification == INSTANCE EmailVerification WITH
    MaxAttempts <- VerificationAttempts, MaxCodes <- VerificationCodes, MaxLost <- LostMails

Sessions == INSTANCE AuthSessions WITH
    codes <- resetCodes, proc <- handlers, MaxAttempts <- ResetAttempts, MaxCodes <- ResetCodes

Google == INSTANCE GoogleLogin WITH proc <- logins, sessions <- opened

Limiter == INSTANCE RateLimit WITH Request <- Requests

Settings == INSTANCE RuntimeSettings WITH Admin <- Proc

ASSUME AccountsAssumption ==
    /\ Verification!VerificationAssumption /\ Sessions!SessionsAssumption
    /\ Google!GoogleAssumption /\ Limiter!RateLimitAssumption /\ Settings!SettingsAssumption

emailVars == <<user, codes, received, proc, lost>>
sessionVars == <<account, sessions, resetCodes, tokens, handlers, ended>>
googleVars == <<users, linked, logins, opened>>
limiterVars == <<now, entries, admitted, refused>>
settingsVars == <<row, log, up, lock, pc, page, ask, cur, todo>>
all == <<part, emailVars, sessionVars, googleVars, limiterVars, settingsVars>>

Init ==
    /\ part \in {"email", "sessions", "google", "limiter", "settings"}
    /\ Verification!Init /\ Sessions!Init /\ Google!Init /\ Limiter!Init /\ Settings!Init

Next ==
    \/ /\ part = "email" /\ Verification!Next
       /\ UNCHANGED <<part, sessionVars, googleVars, limiterVars, settingsVars>>
    \/ /\ part = "sessions" /\ Sessions!Next
       /\ UNCHANGED <<part, emailVars, googleVars, limiterVars, settingsVars>>
    \/ /\ part = "google" /\ Google!Next
       /\ UNCHANGED <<part, emailVars, sessionVars, limiterVars, settingsVars>>
    \/ /\ part = "limiter" /\ Limiter!Next
       /\ UNCHANGED <<part, emailVars, sessionVars, googleVars, settingsVars>>
    \/ /\ part = "settings" /\ Settings!Next
       /\ UNCHANGED <<part, emailVars, sessionVars, googleVars, limiterVars>>

Spec == Init /\ [][Next]_all

-----------------------------------------------------------------------------
(* The instance that is checked.                                            *)

\* A Google account that changes its address, and payloads that are not accepted.
MCPayload ==
    {[sub |-> "s1", email |-> e, issuer |-> "google", verified |-> TRUE] : e \in {"e1", "e2"}}
    \cup {[sub |-> "s2", email |-> "e1", issuer |-> "other", verified |-> TRUE],
          [sub |-> "s2", email |-> "e1", issuer |-> "google", verified |-> FALSE]}

\* Requests by one address, with and without a field in the body.
MCWindow == "ip" :> [length |-> 3, max |-> 2] @@ "email" :> [length |-> 4, max |-> 1]
MCRequest == {<<"ip">>, <<"ip", "email">>}

\* The first setting has no row, the second one that is not valid.
MCStored == 1 :> [value |-> 0, version |-> 0] @@ 2 :> [value |-> 999, version |-> 1]
MCDefault == 1 :> 5 @@ 2 :> 5

Symmetry == Permutations(Proc)
-----------------------------------------------------------------------------
\* A code, and the token it is exchanged for, open one thing once: an address is verified
\* only with a code that its reader received and that is used up, wrong guesses use it up
\* however many run at a time, and a reset token is answered with success once; the password
\* changes with it once more only for each other request that had already looked at it when
\* it was used up, never for one that looks later (AuthService: its conditional updates,
\* and resetPassword, which writes the password before it knows whether it marks the token).
CodesAreSingleUse ==
    /\ part = "email" =>
        /\ Verification!TypeOK
        /\ Verification!VerifiedByCode
        /\ Verification!ExhaustedIsUsed
    /\ part = "sessions" =>
        /\ Sessions!TypeOK
        /\ Sessions!CodeYieldsOneToken
        /\ Sessions!TokenChangesOnce
        /\ Sessions!UsedUp

\* A Google account logs in as one user for ever, whatever its first logins race with
\* (loginWithGoogle).
OneUserPerAccount == part = "google" => Google!TypeOK /\ Google!OneUserPerAccount

\* The limiter keeps its word at the edges of its windows: no span as long as a window lets
\* more than twice the limit through, a window refuses only when its whole limit is used,
\* and who waits as long as Retry-After says comes when the window that refused has ended.
LimitIsExact ==
    part = "limiter" =>
        /\ Limiter!TypeOK
        /\ Limiter!TwiceTheLimitAtMost
        /\ Limiter!RefusesOnlyAtLimit
        /\ Limiter!RetryAfterIsEnough

\* Of the settings nothing is lost and nothing is invented: a value is overwritten only by
\* a request that names its version, the audit log is the gapless history of every row and
\* each entry starts from the value that was in effect until then, and administrators who
\* change several settings never wait for each other in a circle.
ChangesAreAccountedFor ==
    /\ [](part = "settings" =>
            /\ Settings!TypeOK
            /\ Settings!AuditIsHistory
            /\ Settings!AuditIsTrue
            /\ Settings!NoWaitCycle)
    /\ Settings!NoLostUpdate
=============================================================================

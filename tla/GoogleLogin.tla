------------------------------ MODULE GoogleLogin ------------------------------
(***************************************************************************)
(* AuthService.googleLogin on concurrent requests, beside signups that make *)
(* users with a password for the same addresses. A step is an awaited call  *)
(* of the repository. The rows are kept unique by the database: a user by    *)
(* its address, a Google account by its subject.                            *)
(***************************************************************************)
EXTENDS FiniteSets, Naturals

CONSTANTS
    Proc,           \* request handlers
    Subject,        \* Google accounts
    Email,          \* addresses; an account may change its address
    Payload,        \* token payloads: [sub, email, issuer, verified]
    Issuers,        \* GOOGLE_ISSUERS
    None            \* no user

GoogleAssumption ==
    /\ None \notin Email
    /\ \A payload \in Payload :
          payload.sub \in Subject \cup {None} /\ payload.email \in Email \cup {None}

VARIABLES
    users,          \* User rows: address -> [exists, verified, active]
    linked,         \* OAuthAccount rows: subject -> the address of its user
    proc,           \* the handlers
    sessions        \* sessions that were opened: [sub, user]

vars == <<users, linked, proc, sessions>>

Nobody == [exists |-> FALSE, verified |-> FALSE, active |-> FALSE]
Idle == [pc |-> "idle", sub |-> None, email |-> None, user |-> None]
Goto(p, pc) == proc' = [proc EXCEPT ![p].pc = pc]
Answer(p) == proc' = [proc EXCEPT ![p] = Idle]

\* The end of a login: assertLoginAccountStatus, then a session, or the next step.
Admit(p, user, pc) ==
    IF users[user].active
    THEN proc' = [proc EXCEPT ![p].pc = pc, ![p].user = user]
    ELSE Answer(p)

Init ==
    /\ users = [e \in Email |-> Nobody]
    /\ linked = [s \in Subject |-> None]
    /\ proc = [p \in Proc |-> Idle]
    /\ sessions = {}

\* GoogleIdTokenVerifier.normalizePayload.
Accepted(payload) ==
    payload.issuer \in Issuers /\ payload.sub # None /\ payload.email # None /\ payload.verified

\* verifyIdToken.
VerifyIdToken(p, payload) ==
    /\ proc[p].pc = "idle"
    /\ Accepted(payload)
    /\ proc' = [proc EXCEPT ![p] = [pc |-> "find", sub |-> payload.sub,
                                    email |-> payload.email, user |-> None]]
    /\ UNCHANGED <<users, linked, sessions>>

\* findOAuthAccount, with its user.
FindOAuthAccount(p) ==
    /\ proc[p].pc = "find"
    /\ IF linked[proc[p].sub] = None
       THEN Goto(p, "findUser") ELSE Admit(p, linked[proc[p].sub], "issue")
    /\ UNCHANGED <<users, linked, sessions>>

\* findUserByEmail.
FindUser(p) ==
    LET user == users[proc[p].email] IN
    /\ proc[p].pc = "findUser"
    /\ IF user.exists
       THEN Admit(p, proc[p].email, IF user.verified THEN "link" ELSE "verify")
       ELSE Goto(p, "create")
    /\ UNCHANGED <<users, linked, sessions>>

\* updateUser: Google vouches for the address.
MarkVerified(p) ==
    /\ proc[p].pc = "verify"
    /\ users' = [users EXCEPT ![proc[p].email].verified = TRUE]
    /\ Goto(p, "link")
    /\ UNCHANGED <<linked, sessions>>

\* Mutated form: who loses the race goes on with the user it found.
LinkAccount_OwnUser(p) ==
    LET s == proc[p].sub IN
    /\ proc[p].pc = "link"
    /\ linked' = [linked EXCEPT ![s] = IF @ = None THEN proc[p].user ELSE @]
    /\ Goto(p, "issue")
    /\ UNCHANGED <<users, sessions>>

\* createOAuthAccount of an existing user. When the account was linked meanwhile,
\* the session is for the user it is linked to.
LinkAccount(p) ==
    LET s == proc[p].sub IN
    /\ proc[p].pc = "link"
    /\ IF linked[s] = None
       THEN linked' = [linked EXCEPT ![s] = proc[p].user] /\ Goto(p, "issue")
       ELSE Goto(p, "raced") /\ UNCHANGED linked
    /\ UNCHANGED <<users, sessions>>

Raced(p) ==
    /\ proc[p].pc = "raced"
    /\ Admit(p, linked[proc[p].sub], "issue")
    /\ UNCHANGED <<users, linked, sessions>>

\* createUserWithOAuthAccount: one transaction, which fails when either row exists.
CreateUser(p) ==
    LET s == proc[p].sub e == proc[p].email IN
    /\ proc[p].pc = "create"
    /\ IF ~users[e].exists /\ linked[s] = None
       THEN /\ users' = [users EXCEPT ![e] =
                          [exists |-> TRUE, verified |-> TRUE, active |-> TRUE]]
            /\ linked' = [linked EXCEPT ![s] = e]
            /\ proc' = [proc EXCEPT ![p].pc = "issue", ![p].user = e]
       ELSE Goto(p, "racedAccount") /\ UNCHANGED <<users, linked>>
    /\ UNCHANGED sessions

RacedAccount(p) ==
    LET user == linked[proc[p].sub] IN
    /\ proc[p].pc = "racedAccount"
    /\ IF user = None THEN Goto(p, "racedUser") ELSE Admit(p, user, "issue")
    /\ UNCHANGED <<users, linked, sessions>>

\* The user that won: it is not marked as verified here.
RacedUser(p) ==
    /\ proc[p].pc = "racedUser"
    /\ IF users[proc[p].email].exists
       THEN Admit(p, proc[p].email, "racedLink") ELSE Answer(p)
    /\ UNCHANGED <<users, linked, sessions>>

\* A second loss is not caught: the request fails.
RacedLink(p) ==
    LET s == proc[p].sub IN
    /\ proc[p].pc = "racedLink"
    /\ IF linked[s] = None
       THEN linked' = [linked EXCEPT ![s] = proc[p].user] /\ Goto(p, "issue")
       ELSE Answer(p) /\ UNCHANGED linked
    /\ UNCHANGED <<users, sessions>>

IssueSession(p) ==
    /\ proc[p].pc = "issue"
    /\ sessions' = sessions \cup {[sub |-> proc[p].sub, user |-> proc[p].user]}
    /\ Answer(p)
    /\ UNCHANGED <<users, linked>>
-----------------------------------------------------------------------------
(* The other operations of AuthService, and what is set outside of it.      *)

Signup(e) ==
    /\ ~users[e].exists
    /\ users' = [users EXCEPT ![e] = [exists |-> TRUE, verified |-> FALSE, active |-> TRUE]]
    /\ UNCHANGED <<linked, proc, sessions>>

VerifyEmail(e) ==
    /\ users[e].exists /\ ~users[e].verified
    /\ users' = [users EXCEPT ![e].verified = TRUE]
    /\ UNCHANGED <<linked, proc, sessions>>

Suspend(e) ==
    /\ users[e].active
    /\ users' = [users EXCEPT ![e].active = FALSE]
    /\ UNCHANGED <<linked, proc, sessions>>

Step(p) ==
    \/ FindOAuthAccount(p) \/ FindUser(p) \/ MarkVerified(p) \/ LinkAccount(p) \/ Raced(p)
    \/ CreateUser(p) \/ RacedAccount(p) \/ RacedUser(p) \/ RacedLink(p) \/ IssueSession(p)

Next ==
    \/ \E p \in Proc : Step(p) \/ \E payload \in Payload : VerifyIdToken(p, payload)
    \/ \E e \in Email : Signup(e) \/ VerifyEmail(e) \/ Suspend(e)

Spec == Init /\ [][Next]_vars
-----------------------------------------------------------------------------
(* Properties.                                                             *)

TypeOK ==
    /\ \A e \in Email : ~users[e].exists => users[e] = Nobody
    /\ linked \in [Subject -> Email \cup {None}]
    /\ \A p \in Proc : proc[p].pc \in {"issue", "link", "verify", "racedLink"} =>
            proc[p].user \in Email /\ users[proc[p].user].exists
    /\ \A s \in sessions : s.user \in Email

\* A Google account logs in as one user for ever, the one it is linked to, also
\* when its first logins race each other, race a signup, or change the address.
OneUserPerAccount == \A s \in sessions : s.user = linked[s.sub]
-----------------------------------------------------------------------------
(* The inductive invariant of the proofs.                                  *)

Pcs == {"idle", "find", "findUser", "verify", "link", "raced", "create", "racedAccount",
        "racedUser", "racedLink", "issue"}

Shape ==
    /\ users \in [Email -> [exists : BOOLEAN, verified : BOOLEAN, active : BOOLEAN]]
    /\ \A e \in Email : ~users[e].exists => users[e] = Nobody
    /\ linked \in [Subject -> Email \cup {None}]
    /\ proc \in [Proc -> [pc : Pcs, sub : Subject \cup {None}, email : Email \cup {None},
                          user : Email \cup {None}]]
    /\ sessions \subseteq [sub : Subject, user : Email]

\* A handler under way has an account and an address, one that links a user has found it,
\* and one that opens a session found the account linked to that user.
Knows(p) ==
    /\ proc[p].pc # "idle" => proc[p].sub \in Subject /\ proc[p].email \in Email
    /\ proc[p].pc \in {"issue", "link", "verify", "racedLink"} =>
          proc[p].user \in Email /\ users[proc[p].user].exists
    /\ proc[p].pc = "verify" => users[proc[p].email].exists
    /\ proc[p].pc = "raced" => linked[proc[p].sub] # None
    /\ proc[p].pc = "issue" => linked[proc[p].sub] = proc[p].user

\* A linked user exists.
LinkedExist == \A s \in Subject : linked[s] # None => users[linked[s]].exists

IInv ==
    /\ Shape
    /\ \A p \in Proc : Knows(p)
    /\ LinkedExist
    /\ OneUserPerAccount
=============================================================================

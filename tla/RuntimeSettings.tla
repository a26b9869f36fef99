---------------------------- MODULE RuntimeSettings ----------------------------
(***************************************************************************)
(* The runtime settings: one row for each policy that an admin has changed,  *)
(* with a version; what has no valid row is what the environment says. An     *)
(* admin loads the page, and sends the fields that change with the versions   *)
(* of the page; the service reads again, compares, and writes in one          *)
(* transaction, a row after the other, with an entry in the audit log.        *)
(* Several instances of the service run at once.                             *)
(***************************************************************************)
EXTENDS Integers, Sequences

CONSTANTS
    Admin,          \* admins, with a request each
    Keys,           \* the settings, numbered in the order in which they are written
    Booking,        \* those of booking; the others are read by a query of their own
    Values,         \* what may be asked for
    Valid,          \* what the parsers of stored values accept
    EnvDefault,     \* what the environment says of a setting
    Stored,         \* the rows there are to begin with
    None,           \* no admin
    MaxVersion      \* bound on the versions

SettingsAssumption ==
    /\ Keys \subseteq Nat /\ Booking \subseteq Keys
    /\ Values \subseteq Valid /\ Valid \subseteq Int
    /\ EnvDefault \in [Keys -> Int]
    /\ None \notin Admin
    /\ MaxVersion \in Nat
    /\ Stored \in [Keys -> [value : Int, version : Nat]]

VARIABLES
    row,            \* the rows; version 0 is a row that is not there
    log,            \* the audit log, of each setting
    up,             \* the table can be read and written
    lock,           \* the transaction that has written a row and not ended
    pc,             \* where an admin is
    page,           \* the settings as an admin's page shows them
    ask,            \* the values an admin asks for
    cur,            \* the settings as the service read them for the request
    todo            \* the settings the transaction has still to write
vars == <<row, log, up, lock, pc, page, ask, cur, todo>>

Ask == Values \cup {-1}         \* -1: the field is not in the body
State == [value : Int, version : Nat]
Change == [previousVersion : Nat, newVersion : Nat, previousValue : Int, newValue : Int]
Pcs == {"idle", "half", "page", "sent", "read", "tx"}

\* Mutated form: an override that is not valid is used all the same.
resolveFieldState_AsStored(k) ==
    IF ~ up \/ row[k].version = 0 THEN [value |-> EnvDefault[k], version |-> 0] ELSE row[k]

\* resolveFieldState: a row that is there and valid, else the environment; a row that is
\* not valid keeps its version, a table that cannot be read has none.
resolveFieldState(k) ==
    IF ~ up THEN [value |-> EnvDefault[k], version |-> 0]
    ELSE [value |-> IF row[k].version # 0 /\ row[k].value \in Valid THEN row[k].value
                    ELSE EnvDefault[k],
          version |-> row[k].version]

\* What is known before anything is read, and a body without a field.
Unread == [k \in Keys |-> [value |-> EnvDefault[k], version |-> 0]]
NoFields == [k \in Keys |-> -1]

Init == /\ row = Stored
        /\ log = [k \in Keys |-> <<>>]
        /\ up = TRUE
        /\ lock = [k \in Keys |-> None]
        /\ pc = [a \in Admin |-> "idle"]
        /\ page = [a \in Admin |-> Unread]
        /\ ask = [a \in Admin |-> NoFields]
        /\ cur = [a \in Admin |-> Unread]
        /\ todo = [a \in Admin |-> {}]
-----------------------------------------------------------------------------
(* The page of the settings: two queries.                                   *)
Refresh(S, seen) == [k \in Keys |-> IF k \in S THEN resolveFieldState(k) ELSE seen[k]]

LoadBooking(a) ==
    /\ pc[a] = "idle"
    /\ pc' = [pc EXCEPT ![a] = "half"]
    /\ page' = [page EXCEPT ![a] = Refresh(Booking, page[a])]
    /\ UNCHANGED <<row, log, up, lock, ask, cur, todo>>
LoadPricing(a) ==
    /\ pc[a] = "half"
    /\ pc' = [pc EXCEPT ![a] = "page"]
    /\ page' = [page EXCEPT ![a] = Refresh(Keys \ Booking, page[a])]
    /\ UNCHANGED <<row, log, up, lock, ask, cur, todo>>

\* patchBookingPoliciesSchema: one field at least.
Send(a) ==
    /\ pc[a] = "page"
    /\ \E b \in [Keys -> Ask] :
         /\ \E k \in Keys : b[k] # -1
         /\ ask' = [ask EXCEPT ![a] = b]
    /\ pc' = [pc EXCEPT ![a] = "sent"]
    /\ UNCHANGED <<row, log, up, lock, page, cur, todo>>
-----------------------------------------------------------------------------
(* patchBookingPolicies.                                                    *)
ReadBooking(a) ==
    /\ pc[a] = "sent"
    /\ cur' = [cur EXCEPT ![a] = Refresh(Booking, cur[a])]
    /\ pc' = [pc EXCEPT ![a] = "read"]
    /\ UNCHANGED <<row, log, up, lock, page, ask, todo>>

\* The response; the admin loads the page again before the next request.
Answer(a) == /\ pc' = [pc EXCEPT ![a] = "idle"]
             /\ page' = [page EXCEPT ![a] = Unread]
             /\ ask' = [ask EXCEPT ![a] = NoFields]
             /\ cur' = [cur EXCEPT ![a] = Unread]
             /\ todo' = [todo EXCEPT ![a] = {}]

Asked(a) == {k \in Keys : ask[a][k] # -1}

\* The versions of the page are compared for every field of the body, changed or not;
\* only what changes is planned. Nothing planned, or a conflict, ends the request.
ReadPricing(a) ==
    /\ pc[a] = "read"
    /\ LET now == Refresh(Keys \ Booking, cur[a])
           planned == {k \in Asked(a) : ask[a][k] # now[k].value}
           fresh == \A k \in Asked(a) : page[a][k].version = now[k].version
       IN  \/ /\ fresh /\ planned # {}
              /\ cur' = [cur EXCEPT ![a] = now]
              /\ pc' = [pc EXCEPT ![a] = "tx"]
              /\ todo' = [todo EXCEPT ![a] = planned]
              /\ UNCHANGED <<page, ask>>
           \/ ~ (fresh /\ planned # {}) /\ Answer(a)
    /\ UNCHANGED <<row, log, up, lock>>

\* The transaction writes in a fixed order, and waits for whoever has written a row.
\* Mutated form: in any order.
Turn_Any(a, k) == k \in todo[a]
Turn(a, k) == k \in todo[a] /\ \A j \in todo[a] : k <= j
Free(a, k) == lock[k] \in {None, a}

\* Mutated form: the update does not name the version.
WriteItem_AnyVersion(a) ==
    /\ pc[a] = "tx" /\ up
    /\ \E k \in todo[a] :
         /\ Turn(a, k) /\ Free(a, k)
         /\ cur[a][k].version = 0 => row[k].version = 0
         /\ row[k].version < MaxVersion
         /\ lock' = [lock EXCEPT ![k] = a]
         /\ todo' = [todo EXCEPT ![a] = @ \ {k}]
    /\ UNCHANGED <<row, log, up, pc, page, ask, cur>>

\* findByKey and createSetting, or updateSettingWithVersion: the row must still be at the
\* version that was read. A row that came up meanwhile is a conflict, found by the query
\* or by the key.
WriteItem(a) ==
    /\ pc[a] = "tx" /\ up
    /\ \E k \in todo[a] :
         /\ Turn(a, k) /\ Free(a, k)
         /\ row[k].version = cur[a][k].version
         /\ row[k].version < MaxVersion
         /\ lock' = [lock EXCEPT ![k] = a]
         /\ todo' = [todo EXCEPT ![a] = @ \ {k}]
    /\ UNCHANGED <<row, log, up, pc, page, ask, cur>>

\* The locks a transaction leaves behind when it ends.
Released(a) == [k \in Keys |-> IF lock[k] = a THEN None ELSE lock[k]]

\* A conflict (409) or a table that is gone (503): nothing is written. The bound on the
\* versions ends a request too.
Abort(a) ==
    /\ pc[a] = "tx"
    /\ \/ ~ up
       \/ \E k \in todo[a] : Turn(a, k) /\ Free(a, k)
                             /\ (row[k].version # cur[a][k].version \/ row[k].version >= MaxVersion)
    /\ Answer(a)
    /\ lock' = Released(a)
    /\ UNCHANGED <<row, log, up>>

Mine(a) == {k \in Keys : lock[k] = a}

Changed(a, k) ==
    [previousVersion |-> cur[a][k].version, newVersion |-> row[k].version + 1,
     previousValue |-> cur[a][k].value, newValue |-> ask[a][k]]

\* The rows, and what the audit says of them, become visible together.
Commit(a) ==
    /\ pc[a] = "tx" /\ todo[a] = {} /\ up
    /\ row' = [k \in Keys |-> IF k \in Mine(a)
                              THEN [value |-> ask[a][k], version |-> row[k].version + 1]
                              ELSE row[k]]
    /\ log' = [k \in Keys |-> IF k \in Mine(a) THEN Append(log[k], Changed(a, k)) ELSE log[k]]
    /\ Answer(a)
    /\ lock' = Released(a)
    /\ UNCHANGED up

Toggle == up' = ~ up /\ UNCHANGED <<row, log, lock, pc, page, ask, cur, todo>>

Serve(a) == ReadBooking(a) \/ ReadPricing(a) \/ WriteItem(a) \/ Abort(a) \/ Commit(a)
Step(a) == LoadBooking(a) \/ LoadPricing(a) \/ Send(a) \/ Serve(a)
Next == (\E a \in Admin : Step(a)) \/ Toggle

Spec == Init /\ [][Next]_vars
-----------------------------------------------------------------------------
TypeOK ==
    /\ row \in [Keys -> State]
    /\ log \in [Keys -> Seq(Change)]
    /\ up \in BOOLEAN
    /\ lock \in [Keys -> Admin \cup {None}]
    /\ pc \in [Admin -> Pcs]
    /\ page \in [Admin -> [Keys -> State]]
    /\ ask \in [Admin -> [Keys -> Ask]]
    /\ cur \in [Admin -> [Keys -> State]]
    /\ todo \in [Admin -> SUBSET Keys]

\* The audit log is the history of every setting: the versions follow each other without
\* a gap or a fork from the row there was, and the last one is the row there is.
AuditIsHistory ==
    \A k \in Keys :
        /\ row[k].version = Stored[k].version + Len(log[k])
        /\ \A i \in DOMAIN log[k] :
             /\ log[k][i].previousVersion = Stored[k].version + i - 1
             /\ log[k][i].newVersion = Stored[k].version + i
        /\ log[k] # <<>> => row[k].value = log[k][Len(log[k])].newValue
        /\ log[k] = <<>> => row[k] = Stored[k]

\* And every change in it starts from the value that was in effect until then, that of the
\* change before or of the environment, though it is read before the transaction.
AuditIsTrue ==
    \A k \in Keys : \A i \in DOMAIN log[k] :
        log[k][i].previousValue =
            IF i > 1 THEN log[k][i - 1].newValue
            ELSE IF Stored[k].version # 0 /\ Stored[k].value \in Valid THEN Stored[k].value
            ELSE EnvDefault[k]

\* No admin overwrites what another has set and the page did not show: a setting that
\* changes had, until then, the value and the version on the page of who changes it.
NoLostUpdate ==
    [][\A k \in Keys : row'[k] # row[k] =>
         \E a \in Admin : /\ pc[a] = "tx" /\ pc'[a] = "idle"
                          /\ row'[k].value = ask[a][k]
                          /\ page[a][k].version = row[k].version
                          /\ page[a][k].value = resolveFieldState(k).value]_vars

\* Two transactions never wait for each other: one that waits for a row holds no row that
\* comes after it (the fixed order of the plan).
NoWaitCycle ==
    \A a \in Admin : \A k \in todo[a] : Turn(a, k) /\ lock[k] \notin {None, a} =>
        \A j \in todo[lock[k]] : Turn(lock[k], j) => lock[j] # a
-----------------------------------------------------------------------------
(* The inductive invariant of the proofs.                                  *)

\* What is in effect while the table can be read.
InEffect(k) ==
    IF row[k].version # 0 /\ row[k].value \in Valid THEN row[k].value ELSE EnvDefault[k]

\* Something read of a setting is not from the future, and right if it is not old.
ReadIsRight(seen, k) ==
    /\ seen.version <= row[k].version
    /\ seen.version = row[k].version => seen.value = InEffect(k)

\* A row a transaction has written is one that was asked for, was read at its present
\* version, and comes before those that it has still to write.
Writes(a) ==
    /\ pc[a] # "tx" => todo[a] = {} /\ \A k \in Keys : lock[k] # a
    /\ pc[a] = "tx" =>
          \A k \in Keys : k \in todo[a] \/ lock[k] = a =>
              ask[a][k] \in Values /\ page[a][k].version = cur[a][k].version
    /\ \A k \in Keys : lock[k] = a =>
          /\ row[k].version = cur[a][k].version
          /\ \A j \in todo[a] : k < j

\* What has been set here was accepted by the parsers.
SetIsValid == \A k \in Keys : log[k] # <<>> => row[k].value \in Valid

IInv ==
    /\ TypeOK
    /\ SetIsValid
    /\ \A a \in Admin, k \in Keys : ReadIsRight(page[a][k], k) /\ ReadIsRight(cur[a][k], k)
    /\ \A a \in Admin : Writes(a)
    /\ AuditIsHistory
    /\ AuditIsTrue
    /\ NoWaitCycle
=============================================================================

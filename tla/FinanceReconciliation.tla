------------------------- MODULE FinanceReconciliation -------------------------
(***************************************************************************)
(* The internal reconciliation of the admin's finance pages: payments,       *)
(* refunds and ledger are read by three queries, while the service goes on   *)
(* writing them, and compared. The writers are those of PaymentCollection    *)
(* and PaymentRefund, a transaction each; Damage is what the report is for.  *)
(* Time is 0 or 1, and the window of a report that has one is time 1.        *)
(***************************************************************************)
EXTENDS Money, PaymentTransitions

CONSTANTS
    Payments, Refunds,
    Amount,         \* what a payment is about
    Limits,         \* how many issues a report may be asked for
    ScanPerIssue,   \* how many payments a report reads for each of these (2),
    MinScan         \* and how many at least, if there are so many (100)

VARIABLES
    pay,            \* the rows of Payment
    refund,         \* the rows of Refund
    ledger,         \* the rows of LedgerEntry
    now,
    damaged,        \* payments whose rows were tampered with
    report          \* how far the report has come, and what it has read
vars == <<pay, refund, ledger, now, damaged, report>>

Captured == {"PAID", "PARTIALLY_REFUNDED", "REFUNDED"}
NoTime == 9
Key(kind, id) == <<kind, id>>
NoRefund == [payment |-> "NONE", amount |-> 0, status |-> "NONE", requestedAt |-> NoTime,
             processedAt |-> NoTime]
Idle == [step |-> "IDLE", limit |-> 0, payments |-> {}, pay |-> <<>>, refund |-> <<>>,
         ledger |-> {}, window |-> {}, raced |-> {}]

AuditAssumption ==
    /\ IsFiniteSet(Payments) /\ IsFiniteSet(Refunds) /\ "NONE" \notin Payments \cup Refunds
    /\ Amount \in [Payments -> Nat]
    /\ Limits \subseteq Nat \ {0} /\ ScanPerIssue \in Nat \ {0} /\ MinScan \in Nat \ {0}

Init == /\ pay = [p \in Payments |-> [status |-> "PENDING", refunded |-> 0, paidAt |-> NoTime]]
        /\ refund = [r \in Refunds |-> NoRefund]
        /\ ledger = {}
        /\ now = 0
        /\ damaged = {}
        /\ report = Idle
-----------------------------------------------------------------------------
(* What is compared. The rows of a query come in some order, which only      *)
(* decides what is left out when the report is cut.                          *)
If(c, issue) == IF c THEN {issue} ELSE {}
Issue(type, p, about) == [type |-> type, payment |-> p, about |-> about]

Successes(p, refunds) ==
    {r \in DOMAIN refunds : refunds[r].payment = p /\ refunds[r].status = "SUCCESS"}
Amounts(refunds) == [r \in DOMAIN refunds |-> refunds[r].amount]
Credits(p, entries) == {e \in entries : e.payment = p /\ e.type = "CUSTOMER_PAYMENT"}
Debits(r, entries) == {e \in entries : e.refund = r /\ e.type = "REFUND"}

\* The entries for one capture or one refund: there is one, of its amount and its key.
\* Mutated form: a second entry is not looked for.
EntryIssues_AnyNumber(entries, amount, key, p) ==
    IF entries = {} THEN {Issue("MISSING_LEDGER", p, key)}
    ELSE LET e == CHOOSE e \in entries : TRUE
         IN  If(e.amount # amount, Issue("AMOUNT_MISMATCH", p, key))
             \cup If(e.key # key, Issue("KEY_UNEXPECTED", p, key))

EntryIssues(entries, amount, key, p) ==
    IF entries = {} THEN {Issue("MISSING_LEDGER", p, key)}
    ELSE IF \E d, e \in entries : d # e THEN {Issue("DUPLICATE_LEDGER", p, key)}
    ELSE LET e == CHOOSE e \in entries : TRUE
         IN  If(e.amount # amount, Issue("AMOUNT_MISMATCH", p, key))
             \cup If(e.key # key, Issue("KEY_UNEXPECTED", p, key))

\* Mutated form: refunds that are not decided are counted.
PaymentIssues_Undecided(p, row, refunds, entries) ==
    LET success == {r \in DOMAIN refunds : refunds[r].payment = p /\ refunds[r].status # "FAILED"}
    IN  (IF row.status \in Captured
         THEN EntryIssues(Credits(p, entries), Amount[p], Key("payment", p), p) ELSE {})
        \cup If(SumOf(Amounts(refunds), success) # row.refunded,
                Issue("REFUNDED_AMOUNT_MISMATCH", p, Key("payment", p)))
        \cup UNION {EntryIssues(Debits(r, entries), refunds[r].amount, Key("refund", r), p) :
                       r \in success}

PaymentIssues(p, row, refunds, entries) ==
    LET success == Successes(p, refunds)
    IN  (IF row.status \in Captured
         THEN EntryIssues(Credits(p, entries), Amount[p], Key("payment", p), p) ELSE {})
        \cup If(SumOf(Amounts(refunds), success) # row.refunded,
                Issue("REFUNDED_AMOUNT_MISMATCH", p, Key("payment", p)))
        \cup UNION {EntryIssues(Debits(r, entries), refunds[r].amount, Key("refund", r), p) :
                       r \in success}

\* getPaymentById: the flag of a payment's page, of the same rows.
RefundedAmountMatches(p, row, refunds) ==
    row.refunded = SumOf(Amounts(refunds), Successes(p, refunds))

OrphanIssues(e, payments, refunds) ==
    If(e.payment \notin payments, Issue("ORPHAN_PAYMENT", e.payment, e.key))
    \cup If(e.refund # "NONE" /\ e.refund \notin DOMAIN refunds,
            Issue("ORPHAN_REFUND", e.payment, e.key))

AllIssues(read) ==
    (UNION {PaymentIssues(p, read.pay[p], read.refund, read.ledger) : p \in read.payments})
    \cup UNION {OrphanIssues(e, read.payments, read.refund) : e \in read.ledger}

\* The first issues, as many as were asked for.
Cut(issues, limit) ==
    IF Cardinality(issues) <= limit THEN issues
    ELSE CHOOSE some \in SUBSET issues : Cardinality(some) = limit

runInternalReconciliation(read) ==
    LET issues == Cut(AllIssues(read), read.limit)
    IN  [issues |-> issues,
         truncated |-> /\ Cardinality(issues) >= read.limit
                       /\ read.payments # {} \/ DOMAIN read.refund # {} \/ read.ledger # {}]
-----------------------------------------------------------------------------
(* loadReconciliationData: a payment is read for what happened to it, to its  *)
(* refunds or in its ledger in the window; then all its refunds, and all its  *)
(* ledger, whenever they happened.                                           *)
OfWindow(p) ==
    \/ pay[p].paidAt = 1
    \/ \E r \in Refunds : /\ refund[r].payment = p
                          /\ \/ refund[r].status = "SUCCESS" /\ refund[r].processedAt = 1
                             \/ refund[r].requestedAt = 1
    \/ \E e \in ledger : e.payment = p /\ e.at = 1

\* getReconciliation: only so many payments are read, those that were updated last. Who
\* they are is left open.
ScanLimit(limit) ==
    IF ScanPerIssue * limit > MinScan THEN ScanPerIssue * limit ELSE MinScan

ReadPayments(windowed, limit) ==
    LET window == {p \in Payments : windowed => OfWindow(p)} IN
    /\ report.step = "IDLE"
    /\ \E scanned \in SUBSET window :
        /\ IF Cardinality(window) <= ScanLimit(limit) THEN scanned = window
           ELSE Cardinality(scanned) = ScanLimit(limit)
        /\ report' = [Idle EXCEPT !.step = "PAYMENTS", !.limit = limit, !.pay = pay,
                      !.payments = scanned, !.window = window]
    /\ UNCHANGED <<pay, refund, ledger, now, damaged>>

RefundsOf(payments) == [r \in {x \in Refunds : refund[x].payment \in payments} |-> refund[r]]

\* Mutated form: the ledger of the window only.
LedgerOf_InWindow(payments) == {e \in ledger : e.payment \in payments /\ e.at = 1}

LedgerOf(payments) == {e \in ledger : e.payment \in payments}

\* The two queries run at once, and either may see what the other does not.
ReadRefunds ==
    /\ report.step \in {"PAYMENTS", "LEDGER"}
    /\ report' = [report EXCEPT !.refund = RefundsOf(report.payments),
                  !.step = IF @ = "PAYMENTS" THEN "REFUNDS" ELSE "DONE"]
    /\ UNCHANGED <<pay, refund, ledger, now, damaged>>
ReadLedger ==
    /\ report.step \in {"PAYMENTS", "REFUNDS"}
    /\ report' = [report EXCEPT !.ledger = LedgerOf(report.payments),
                  !.step = IF @ = "PAYMENTS" THEN "LEDGER" ELSE "DONE"]
    /\ UNCHANGED <<pay, refund, ledger, now, damaged>>
Read == \/ \E windowed \in BOOLEAN, limit \in Limits : ReadPayments(windowed, limit)
        \/ ReadRefunds \/ ReadLedger
-----------------------------------------------------------------------------
(* The writers.                                                             *)
Entry(type, p, r, amount, key) ==
    [type |-> type, payment |-> p, refund |-> r, amount |-> amount, key |-> key, at |-> now]
\* A payment that is written between the queries is remembered; what is written after the
\* report is not followed.
Race(p) ==
    /\ report.step # "DONE"
    /\ report' = [report EXCEPT !.raced = IF report.step = "IDLE" THEN @ ELSE @ \cup {p}]

Capture(p) ==
    /\ pay[p].status = "PENDING"
    /\ pay' = [pay EXCEPT ![p].status = "PAID", ![p].paidAt = now]
    /\ ledger' = ledger \cup {Entry("CUSTOMER_PAYMENT", p, "NONE", Amount[p], Key("payment", p))}
    /\ Race(p) /\ UNCHANGED <<refund, now, damaged>>

Reserved(p) == SumOf(Amounts(refund),
                    {r \in Refunds : refund[r].payment = p /\ refund[r].status # "FAILED"})
Request(p, r, amount) ==
    /\ pay[p].status \in {"PAID", "PARTIALLY_REFUNDED"}
    /\ refund[r] = NoRefund
    /\ IsRefundWithinPaidAmount(Amount[p], Reserved(p), amount)
    /\ refund' = [refund EXCEPT ![r] = [payment |-> p, amount |-> amount, status |-> "PENDING",
                                        requestedAt |-> now, processedAt |-> NoTime]]
    /\ Race(p) /\ UNCHANGED <<pay, ledger, now, damaged>>

\* The payment once so much of it was paid back.
Refunded(p, total) ==
    [pay[p] EXCEPT !.refunded = total,
                   !.status = IF total >= Amount[p] THEN "REFUNDED" ELSE "PARTIALLY_REFUNDED"]
Debit(r) == Entry("REFUND", refund[r].payment, r, refund[r].amount, Key("refund", r))

Succeed(r) ==
    /\ refund[r].status = "PENDING"
    /\ LET p == refund[r].payment
           row == Refunded(p, pay[p].refunded + refund[r].amount)
       IN  /\ IsRefundWithinPaidAmount(Amount[p], pay[p].refunded, refund[r].amount)
           /\ pay[p].status \in {"PAID", "PARTIALLY_REFUNDED"}
           /\ CanTransitionPayment(pay[p].status, row.status)
           /\ pay' = [pay EXCEPT ![p] = row]
    /\ ledger' = ledger \cup {Debit(r)}
    /\ refund' = [refund EXCEPT ![r].status = "SUCCESS", ![r].processedAt = now]
    /\ Race(refund[r].payment) /\ UNCHANGED <<now, damaged>>

\* reconcileSuccessfulRefundRecord: a success that is told again puts right what is missing.
Repair(r) ==
    /\ refund[r].status = "SUCCESS"
    /\ \A e \in ledger : e.key # Key("refund", r)
    /\ LET p == refund[r].payment
           row == Refunded(p, SumOf(Amounts(refund), Successes(p, refund)))
       IN  /\ pay[p] = row \/ pay[p].status \in {"PAID", "PARTIALLY_REFUNDED"}
           /\ pay' = [pay EXCEPT ![p] = row]
    /\ ledger' = ledger \cup {Debit(r)}
    /\ Race(refund[r].payment) /\ UNCHANGED <<refund, now, damaged>>

Fail(r) ==
    /\ refund[r].status = "PENDING"
    /\ refund' = [refund EXCEPT ![r].status = "FAILED", ![r].processedAt = now]
    /\ Race(refund[r].payment) /\ UNCHANGED <<pay, ledger, now, damaged>>

Tick == now = 0 /\ report.step # "DONE" /\ now' = 1 /\ UNCHANGED <<pay, refund, ledger, damaged, report>>
-----------------------------------------------------------------------------
(* Damage: an entry lost, doubled, of another amount or another key; a        *)
(* payment's refunded amount. Bounded to one; the database keeps keys unique. *)
Harm(p) == /\ damaged = {}
           /\ report.step = "IDLE"
           /\ damaged' = {p}
           /\ UNCHANGED <<refund, now, report>>
OtherKey(e) == [e EXCEPT !.key = Key("other", e.payment)]
LoseEntry(e) == Harm(e.payment) /\ ledger' = ledger \ {e} /\ UNCHANGED pay
DoubleEntry(e) == Harm(e.payment) /\ ledger' = ledger \cup {OtherKey(e)} /\ UNCHANGED pay
AlterEntry(e) ==
    /\ Harm(e.payment)
    /\ \E other \in {[e EXCEPT !.amount = @ + 1], OtherKey(e)} :
           ledger' = (ledger \ {e}) \cup {other}
    /\ UNCHANGED pay
AlterPayment(p) == Harm(p) /\ pay' = [pay EXCEPT ![p].refunded = @ + 1] /\ UNCHANGED ledger
Damage == \/ \E e \in ledger : LoseEntry(e) \/ DoubleEntry(e) \/ AlterEntry(e)
          \/ \E p \in Payments : AlterPayment(p)

Write == \/ \E p \in Payments : Capture(p)
         \/ \E p \in Payments, r \in Refunds : \E a \in 1 .. Amount[p] : Request(p, r, a)
         \/ \E r \in Refunds : Succeed(r) \/ Repair(r) \/ Fail(r)
Next == Read \/ Write \/ Damage \/ Tick
Spec == Init /\ [][Next]_vars
-----------------------------------------------------------------------------
Result == runInternalReconciliation(report)
Done == report.step = "DONE"
Quiet(p) == p \notin report.raced

TypeOK ==
    /\ \A p \in Payments : pay[p].status \in Captured \cup {"PENDING"} /\ pay[p].refunded \in Nat
    /\ \A r \in Refunds : refund[r].payment \in Payments \cup {"NONE"}
    /\ \A e \in ledger : e.payment \in Payments /\ e.amount \in Nat
    /\ damaged \subseteq Payments /\ now \in 0 .. 1

\* A report raises no alarm about a payment whose books only the service has written, of
\* whatever window it is, wherever the window cuts the life of the payment, and whatever
\* is written of other payments between its queries. Of a payment that is itself written
\* between them it may (loadReconciliationData reads in no transaction).
HonestBooksAreSilent ==
    Done => \A i \in Result.issues : i.payment \in damaged \cup report.raced

\* What was credited to a payment less what was paid back is its amount less its refunded
\* amount, in the rows that were read.
Settled(p) ==
    LET row == report.pay[p]
        amounts == [e \in report.ledger |-> e.amount]
        sum(type) == SumOf(amounts, {e \in report.ledger : e.payment = p /\ e.type = type})
    IN  row.status \in Captured =>
            sum("CUSTOMER_PAYMENT") + row.refunded = Amount[p] + sum("REFUND")

\* Silence means settled: when a report that was not truncated has no issue of a payment
\* that it scanned, and nobody wrote the payment between its queries, the payment is
\* settled in the ledger. It speaks for every payment of its window only if it scanned
\* fewer than it may: that others were left unread shows in the number of those it
\* scanned, and never in `truncated` (getReconciliation).
SilentMeansSettled ==
    Done /\ ~ Result.truncated =>
        \A p \in IF Cardinality(report.payments) < ScanLimit(report.limit)
                 THEN report.window ELSE report.payments :
            Quiet(p) /\ (\A i \in Result.issues : i.payment # p) => Settled(p)

\* The report and the page of a payment agree on whether its refunds add up, whatever
\* was read and damaged in between (two computations over the same rows).
ReportAgreesWithPage ==
    Done =>
        \A p \in report.payments :
            RefundedAmountMatches(p, report.pay[p], report.refund) <=>
                \A i \in AllIssues(report) :
                    ~ (i.type = "REFUNDED_AMOUNT_MISMATCH" /\ i.payment = p)

\* A report that leaves out an issue of what it scanned says that it was truncated.
CutIsSaid == Done /\ Result.issues # AllIssues(report) => Result.truncated
-----------------------------------------------------------------------------
(* The inductive invariant.                                                *)

Instants == {0, 1, NoTime}
PaymentRows == [status : Captured \cup {"PENDING"}, refunded : Nat, paidAt : Instants]
RefundRows ==
    {NoRefund} \cup
    {r \in [payment : Payments, amount : Nat, status : {"PENDING", "SUCCESS", "FAILED"},
            requestedAt : Instants, processedAt : Instants] : r.amount <= Amount[r.payment]}
Keys == {"payment", "refund", "other"} \X (Payments \cup Refunds)
EntryRows ==
    [type : {"CUSTOMER_PAYMENT", "REFUND"}, payment : Payments, refund : Refunds \cup {"NONE"},
     amount : Nat, key : Keys, at : Instants]

\* An entry is of a capture, or of a successful refund of its payment.
EntryBelongs(e, payments, refunds) ==
    /\ e.payment \in payments
    /\ IF e.type = "REFUND"
       THEN /\ e.refund \in DOMAIN refunds
            /\ refunds[e.refund].payment = e.payment /\ refunds[e.refund].status = "SUCCESS"
       ELSE e.refund = "NONE"

\* The only entry, of this amount and this key.
OnlyEntry(entries, amount, key) ==
    \E e \in entries : entries = {e} /\ e.amount = amount /\ e.key = key

\* What the service writes of a payment: one entry for its capture and for each of its
\* successful refunds, which add up to its refunded amount.
Honest(p, row, refunds, entries) ==
    /\ IF row.status \in Captured
       THEN OnlyEntry(Credits(p, entries), Amount[p], Key("payment", p))
       ELSE Credits(p, entries) = {}
    /\ row.refunded = SumOf(Amounts(refunds), Successes(p, refunds))
    /\ \A r \in Successes(p, refunds) :
           OnlyEntry(Debits(r, entries), refunds[r].amount, Key("refund", r))

\* Rows that tell of these payments, whether they are the database's or were read. Of
\* those that were written between the queries, only that an entry and its refund are of
\* one payment.
Tally(payments, raced, rows, refunds, entries) ==
    /\ payments \subseteq Payments /\ rows \in [Payments -> PaymentRows]
    /\ DOMAIN refunds \subseteq Refunds /\ refunds \in [DOMAIN refunds -> RefundRows]
    /\ entries \subseteq EntryRows /\ IsFiniteSet(entries)
    /\ \A e \in entries :
        /\ e.payment \in payments
        /\ e.payment \notin raced => EntryBelongs(e, payments, refunds)
        /\ e.type = "REFUND" /\ e.refund \in DOMAIN refunds =>
               refunds[e.refund].payment = e.payment
    /\ \A p \in payments \ (damaged \cup raced) : Honest(p, rows[p], refunds, entries)

\* What was read of the payments that nobody wrote since.
Known == report.payments \ report.raced
RefundsAsRead ==
    /\ DOMAIN report.refund \subseteq Refunds
    /\ report.refund \in [DOMAIN report.refund -> RefundRows]
    /\ \A r \in DOMAIN report.refund :
           /\ report.refund[r].payment \in report.payments
           /\ refund[r].payment = report.refund[r].payment
    /\ \A r \in Refunds : refund[r].payment \in Known =>
           r \in DOMAIN report.refund /\ report.refund[r] = refund[r]
LedgerAsRead ==
    /\ report.ledger \subseteq EntryRows /\ IsFiniteSet(report.ledger)
    /\ \A e \in report.ledger :
           /\ e.payment \in report.payments
           /\ e.type = "REFUND" => e.refund \in Refunds /\ refund[e.refund].payment = e.payment
    /\ \A e \in EntryRows : e.payment \in Known => (e \in report.ledger <=> e \in ledger)
Reading ==
    /\ report.pay \in [Payments -> PaymentRows]
    /\ \A p \in Known : report.pay[p] = pay[p]
    /\ report.step = "REFUNDS" => RefundsAsRead
    /\ report.step = "LEDGER" => LedgerAsRead

\* What the first query fixes.
Scanned ==
    /\ DOMAIN report = DOMAIN Idle
    /\ report.limit \in Limits
    /\ report.payments \subseteq report.window /\ report.window \subseteq Payments
    /\ Cardinality(report.payments) < ScanLimit(report.limit) => report.payments = report.window

IInv ==
    /\ DOMAIN refund = Refunds /\ Tally(Payments, {}, pay, refund, ledger)
    /\ damaged \subseteq Payments /\ now \in 0 .. 1
    /\ report.step \in {"IDLE", "PAYMENTS", "REFUNDS", "LEDGER", "DONE"}
    /\ report.step = "IDLE" => report = Idle
    /\ report.step # "IDLE" => Scanned
    /\ report.step \in {"PAYMENTS", "REFUNDS", "LEDGER"} => Reading
    /\ Done => Tally(report.payments, report.raced, report.pay, report.refund, report.ledger)
=============================================================================

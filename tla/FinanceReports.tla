----------------------------- MODULE FinanceReports -----------------------------
(***************************************************************************)
(* The summary, the time series and the list of refunds of the admin's        *)
(* finance pages: what each of them counts of the same rows in the same       *)
(* window from <= t < to. Time is counted in half hours from midnight UTC of   *)
(* 1 January, which is a Monday here; two months are enough.                 *)
(***************************************************************************)
EXTENDS Naturals, FiniteSets, FiniteSetsExt

CONSTANT
    None            \* no instant, no status

Hour == 2
Day == 24 * Hour
IstOffset == 11         \* five hours and a half
January == 31           \* days

InWindow(t, w) == t # None /\ w.from <= t /\ t < w.to
-----------------------------------------------------------------------------
(* The summary.                                                             *)
periodGrossCollectionWhere(p, w) ==
    p.status \in {"PAID", "PARTIALLY_REFUNDED", "REFUNDED"} /\ InWindow(p.paidAt, w)
periodSuccessfulRefundWhere(r, w) == r.status = "SUCCESS" /\ InWindow(r.processedAt, w)
periodPendingRefundWhere(r, w) == r.status \in {"REQUESTED", "PENDING"} /\ InWindow(r.requestedAt, w)
periodFailedRefundWhere(r, w) == r.status = "FAILED" /\ InWindow(r.processedAt, w)

SumAmounts(rows) == MapThenSumSet(LAMBDA x : x.amount, rows)

getSummary(payments, refunds, w) ==
    LET collections == SumAmounts({p \in payments : periodGrossCollectionWhere(p, w)})
        refunded == SumAmounts({r \in refunds : periodSuccessfulRefundWhere(r, w)})
    IN  [collections |-> collections, successfulRefunds |-> refunded,
         pendingRefunds |-> SumAmounts({r \in refunds : periodPendingRefundWhere(r, w)}),
         failedRefunds |-> SumAmounts({r \in refunds : periodFailedRefundWhere(r, w)})]
-----------------------------------------------------------------------------
(* The time series.                                                         *)

\* The day, the week or the month of an instant, in India.
bucketKey(t, granularity) ==
    LET day == (t + IstOffset) \div Day
    IN  CASE granularity = "month" -> IF day < January THEN 1 ELSE 2
          [] granularity = "week"  -> day \div 7
          [] OTHER -> day

\* The window is walked from its start, an hour at a time.
\* Mutated form: a day at a time.
enumerateBucketKeys_Daily(w, granularity) ==
    {bucketKey(t, granularity) : t \in {x \in w.from .. w.to - 1 : (x - w.from) % Day = 0}}

enumerateBucketKeys(w, granularity) ==
    {bucketKey(t, granularity) : t \in {x \in w.from .. w.to - 1 : (x - w.from) % Hour = 0}}

buildFinanceTimeseries(payments, refunds, w, granularity) ==
    LET paid == {p \in payments : periodGrossCollectionWhere(p, w)}
        success == {r \in refunds : periodSuccessfulRefundWhere(r, w)}
    IN  [key \in enumerateBucketKeys(w, granularity) |->
            [collections |-> SumAmounts({p \in paid : bucketKey(p.paidAt, granularity) = key}),
             successfulRefunds |->
                SumAmounts({r \in success : bucketKey(r.processedAt, granularity) = key})]]
-----------------------------------------------------------------------------
(* The list of refunds.                                                     *)

Ordered(from, to) == from # None /\ to # None => from < to

\* listRefundsQuerySchema: an activity range, or the older filters, not both.

listRefundsQuerySchema(q) ==
    /\ q.activityFrom # None \/ q.activityTo # None =>
          {q.processedFrom, q.processedTo, q.requestedFrom, q.requestedTo} = {None}
    /\ (q.activityFrom # None) <=> (q.activityTo # None)
    /\ Ordered(q.activityFrom, q.activityTo)
    /\ Ordered(q.processedFrom, q.processedTo)
    /\ Ordered(q.requestedFrom, q.requestedTo)

Between(t, from, to) ==
    from # None \/ to # None => t # None /\ (from # None => from <= t) /\ (to # None => t < to)
Active(r, q) == \/ Between(r.requestedAt, q.activityFrom, q.activityTo)
                \/ Between(r.processedAt, q.activityFrom, q.activityTo)

\* Mutated form: activity is the request of the refund only.
mergeRefundListWhere_Requested(r, q) ==
    /\ IF q.activityFrom # None /\ q.activityTo # None
       THEN Between(r.requestedAt, q.activityFrom, q.activityTo)
       ELSE /\ Between(r.processedAt, q.processedFrom, q.processedTo)
            /\ Between(r.requestedAt, q.requestedFrom, q.requestedTo)
    /\ q.status # None => r.status = q.status

mergeRefundListWhere(r, q) ==
    /\ IF q.activityFrom # None /\ q.activityTo # None
       THEN Active(r, q)
       ELSE /\ Between(r.processedAt, q.processedFrom, q.processedTo)
            /\ Between(r.requestedAt, q.requestedFrom, q.requestedTo)
    /\ q.status # None => r.status = q.status

listRefunds(refunds, q) == {r \in refunds : mergeRefundListWhere(r, q)}
=============================================================================

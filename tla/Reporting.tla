------------------------------- MODULE Reporting -------------------------------
(***************************************************************************)
(* ReportingService: reports over a half-open window of time, put together  *)
(* from queries in no transaction while the deliveries go on. The writers   *)
(* are the other components' transactions, reduced to the columns a report  *)
(* reads. Percentages are in tenths of a percent, averages in tenths.        *)
(***************************************************************************)
EXTENDS FiniteSetsExt, Integers, SequencesExt

CONSTANTS
    Null,
    Delivery,
    PackageTypes,
    Findings,       \* what an orchestration may find: sets of evaluations
    Scores,         \* of drivers
    Stages,         \* the statuses from BOOKED to DELIVERED, in order
    Windows,        \* the windows a report is asked for: [from, toExclusive]
    MaxRuns, MaxTime    \* bounds

VARIABLES
    now,
    deliveries,     \* the row of a delivery, or Null
    runs,           \* OrchestrationRequest rows
    evaluations,    \* OrchestrationEvaluation rows
    bookings,       \* ProviderBooking rows
    surveys,        \* the DeliveryRating and DeliveryFeedback rows of a delivery, or Null
    reads,          \* what the report under way has read, by query
    report          \* the last report, or Null

rows == <<deliveries, runs, evaluations, bookings, surveys>>
vars == <<now, rows, reads, report>>

-----------------------------------------------------------------------------
(* The metrics.                                                            *)

\* Math.round(n * 10^k / d)
Rounded(n, d) == (2 * n + d) \div (2 * d)
PercentTenths(n, d) == IF d = 0 THEN Null ELSE Rounded(n * 1000, d)

IN_PROGRESS ==
    {"CREATED", "ORCHESTRATING", "OPTION_READY", "BOOKING", "BOOKED", "DRIVER_ASSIGNED",
     "PICKUP_OTP_PENDING", "PICKED_UP", "IN_TRANSIT", "DELIVERY_OTP_PENDING"}

countDeliveriesByStatus(cohort) ==
    LET N(S) == Cardinality({d \in cohort : d.status \in S})
    IN  [delivered |-> N({"DELIVERED"}), inProgress |-> N(IN_PROGRESS),
         cancelled |-> N({"CANCELLED"}), failed |-> N({"FAILED"}), total |-> Cardinality(cohort)]

Ids(cohort) == {d.id : d \in cohort}

\* computeBookingSuccessRate: deliveries, not attempts, are counted; UNKNOWN is no success.
computeBookingSuccessRate(ids, books) ==
    LET tried == {b.delivery : b \in books} \intersect ids
        won == {b.delivery : b \in {c \in books : c.status = "BOOKED"}} \intersect ids
    IN  [attempted |-> Cardinality(tried), confirmed |-> Cardinality(won),
         rate |-> PercentTenths(Cardinality(won), Cardinality(tried))]

\* computeOrchestrationRunStats: the duration is that of completed runs with an end.
computeOrchestrationRunStats(rs) ==
    LET N(s) == Cardinality({r \in rs : r.status = s})
        timed == {r \in rs : r.status = "COMPLETED" /\ r.completedAt # Null}
        Duration(r) == r.completedAt - r.startedAt
    IN  [total |-> Cardinality(rs), completed |-> N("COMPLETED"), failed |-> N("FAILED"),
         failureRate |-> PercentTenths(N("FAILED"), Cardinality(rs)),
         average |-> IF timed = {} THEN Null
                     ELSE Rounded(MapThenSumSet(Duration, timed), Cardinality(timed))]

\* The order of pickLatestCompletedRunPerDelivery.
Newer(r, q) ==
    \/ r.completedAt > q.completedAt
    \/ r.completedAt = q.completedAt /\ r.attempt > q.attempt

\* pickLatestCompletedRunPerDelivery: the runs that come first among those of a delivery.
LatestCompleted(rs, d) ==
    LET completed == {r \in rs : r.delivery = d /\ r.status = "COMPLETED" /\ r.completedAt # Null}
    IN  {r \in completed : \A q \in completed \ {r} : ~Newer(q, r)}

\* Mutated form: the latest run, whether it completed or not.
computeFunnelCounts_LatestRun(cohort, rs, evals, books) ==
    LET Newest(d) == {r \in rs : r.delivery = d /\ \A q \in rs : q.delivery = d => q.attempt <= r.attempt}
        Of(d) == {e \in evals : \E r \in Newest(d) : e.run = r.id}
        With(S) == Cardinality({d \in Ids(cohort) : Of(d) \intersect S # {}})
    IN  [created |-> Cardinality(cohort),
         eligible |-> With({e \in evals : e.status = "ELIGIBLE"}),
         quoted |-> With({e \in evals : e.quote # Null}),
         confirmed |-> computeBookingSuccessRate(Ids(cohort), books).confirmed,
         delivered |-> Cardinality({d \in cohort : d.status = "DELIVERED"})]

\* computeFunnelCounts: a delivery counts once, by its latest completed run.
computeFunnelCounts(cohort, rs, evals, books) ==
    LET Of(d) == {e \in evals : \E r \in LatestCompleted(rs, d) : e.run = r.id}
        With(S) == Cardinality({d \in Ids(cohort) : Of(d) \intersect S # {}})
    IN  [created |-> Cardinality(cohort),
         eligible |-> With({e \in evals : e.status = "ELIGIBLE"}),
         quoted |-> With({e \in evals : e.quote # Null}),
         confirmed |-> computeBookingSuccessRate(Ids(cohort), books).confirmed,
         delivered |-> Cardinality({d \in cohort : d.status = "DELIVERED"})]

\* computePackageTypeDistribution: a delivery without a package is an OTHER one.
computePackageTypeDistribution(cohort) ==
    LET Type(d) == IF d.packageType = Null THEN "OTHER" ELSE d.packageType
    IN  [t \in {Type(d) : d \in cohort} |-> Cardinality({d \in cohort : Type(d) = t})]

\* computeTrend: the change from nothing is not a percentage.
computeTrend(current, previous) ==
    IF previous = 0 THEN IF current = 0 THEN 0 ELSE Null
    ELSE Rounded((current - previous) * 1000, previous)

\* computeTrendNullable: an unknown value has no trend, and is shown as zero.
computeTrendNullable(current, previous) ==
    IF current = Null \/ previous = Null THEN Null ELSE computeTrend(current, previous)

\* aggregateFailureReasons: a failure without a reason has the reason Unknown.
aggregateFailureReasons(rs) ==
    LET Reason(r) == IF r.reason = Null THEN "Unknown" ELSE r.reason
        failed == {r \in rs : r.status = "FAILED"}
    IN  [x \in {Reason(r) : r \in failed} |-> Cardinality({r \in failed : Reason(r) = x})]

Code(row) == IF row.code = Null THEN "UNKNOWN" ELSE row.code

\* buildServiceScorecard: one row for each service that was evaluated or booked.
buildServiceScorecard(evals, books) ==
    [c \in {Code(r) : r \in evals \union books} |->
        LET es == {e \in evals : Code(e) = c}
            bs == {b \in books : Code(b) = c}
            quoted == {e \in es : e.quote # Null}
            Quote(e) == e.quote
        IN  [evaluated |-> Cardinality(es),
             eligible |-> Cardinality({e \in es : e.status = "ELIGIBLE"}),
             selected |-> Cardinality({e \in es : e.selected}),
             attempts |-> Cardinality(bs),
             confirmed |-> Cardinality({b \in bs : b.status = "BOOKED"}),
             rate |-> PercentTenths(Cardinality({b \in bs : b.status = "BOOKED"}), Cardinality(bs)),
             averageQuote |-> IF quoted = {} THEN Null
                              ELSE Rounded(MapThenSumSet(Quote, quoted), Cardinality(quoted))]]

-----------------------------------------------------------------------------
(* The window and the queries.                                             *)

In(t, w) == w.from <= t /\ t < w.toExclusive

\* previousReportingWindow: as long, and up to where the window starts.
previousReportingWindow(w) ==
    [from |-> w.from - (w.toExclusive - w.from), toExclusive |-> w.from]

loadDeliveryCohort(w) ==
    {d \in {deliveries[x] : x \in Delivery} \ {Null} : In(d.createdAt, w)}
loadOrchestrationRuns(w) == {r \in runs : In(r.createdAt, w)}
loadOrchestrationRunsForDeliveries(ids) == {r \in runs : r.delivery \in ids}
loadBookingsForDeliveries(ids) == {b \in bookings : b.delivery \in ids}
loadBookingsForDeliveriesInWindow(w, ids) ==
    {b \in bookings : b.delivery \in ids /\ In(b.createdAt, w)}
loadEvaluationsForRequests(ids) == {e \in evaluations : e.run \in ids}
loadEvaluationsInRunWindow(w) == {e \in evaluations : \E r \in loadOrchestrationRuns(w) : r.id = e.run}
Rated(w) == {d \in Delivery : surveys[d] # Null /\ In(surveys[d].ratedAt, w)}
Commented(w) == {d \in Delivery : surveys[d] # Null /\ In(surveys[d].commentedAt, w)}

\* loadFeedbackAggregates: the two reads.
loadRatings(w) == {[delivery |-> d, driver |-> surveys[d].driver] : d \in Rated(w)}
loadFeedback(w) == Commented(w)

-----------------------------------------------------------------------------
(* The writers.                                                            *)

Init ==
    /\ now = 0
    /\ deliveries = [d \in Delivery |-> Null]
    /\ runs = {} /\ evaluations = {} /\ bookings = {}
    /\ surveys = [d \in Delivery |-> Null]
    /\ reads = Null /\ report = Null

readerVars == <<reads, report>>
To(d, s) == deliveries' = [deliveries EXCEPT ![d].status = s]
Is(d, S) == deliveries[d] # Null /\ deliveries[d].status \in S
RunsOf(d) == {r \in runs : r.delivery = d}

Tick ==
    /\ now < MaxTime /\ now' = now + 1
    /\ UNCHANGED <<rows, readerVars>>

Create(d, t) ==
    /\ deliveries[d] = Null
    /\ deliveries' = [deliveries EXCEPT ![d] =
           [id |-> d, status |-> "CREATED", packageType |-> t, createdAt |-> now]]
    /\ UNCHANGED <<now, runs, evaluations, bookings, surveys, readerVars>>

StartRun(d) ==
    /\ Is(d, {"CREATED", "FAILED"})
    /\ Cardinality(RunsOf(d)) < MaxRuns
    /\ To(d, "ORCHESTRATING")
    /\ LET n == Cardinality(RunsOf(d)) + 1
       IN  runs' = runs \union {[id |-> <<d, n>>, delivery |-> d, attempt |-> n, status |-> "RUNNING",
                                 reason |-> Null, createdAt |-> now, startedAt |-> now,
                                 completedAt |-> Null]}
    /\ UNCHANGED <<now, evaluations, bookings, surveys, readerVars>>

\* The orchestration ends: its evaluations, the end of the run, and the delivery, in one
\* transaction; or it failed before there were any.
EndRun(d, found) ==
    \E r \in RunsOf(d) :
        LET won == \E e \in found : e.status = "ELIGIBLE"
        IN  /\ Is(d, {"ORCHESTRATING"}) /\ r.status = "RUNNING"
            /\ To(d, IF won THEN "OPTION_READY" ELSE "FAILED")
            /\ runs' = (runs \ {r}) \union
                   {[r EXCEPT !.status = IF won THEN "COMPLETED" ELSE "FAILED", !.completedAt = now,
                              !.reason = IF won \/ found = {} THEN Null ELSE "No eligible provider"]}
            /\ evaluations' = evaluations \union
                   {[run |-> r.id, delivery |-> d, status |-> e.status, quote |-> e.quote,
                     code |-> e.code, selected |-> e.status = "ELIGIBLE"] : e \in found}
            /\ UNCHANGED <<now, bookings, surveys, readerVars>>

Book(d, code) ==
    /\ Is(d, {"OPTION_READY"}) /\ To(d, "BOOKING")
    /\ bookings' = bookings \union
           {[id |-> <<d, Cardinality(RunsOf(d))>>, delivery |-> d, code |-> code,
             status |-> "BOOKING", createdAt |-> now]}
    /\ UNCHANGED <<now, runs, evaluations, surveys, readerVars>>

\* The provider's answer, or the reconciliation of an unknown one.
Settle(d, s) ==
    \E b \in bookings :
        /\ Is(d, {"BOOKING"}) /\ b.delivery = d /\ b.status \in {"BOOKING", "UNKNOWN"} \ {s}
        /\ bookings' = (bookings \ {b}) \union {[b EXCEPT !.status = s]}
        /\ To(d, IF s = "UNKNOWN" THEN "BOOKING" ELSE s)
        /\ UNCHANGED <<now, runs, evaluations, surveys, readerVars>>

Advance(d) ==
    /\ \E i \in 1 .. Len(Stages) - 1 : Is(d, {Stages[i]}) /\ To(d, Stages[i + 1])
    /\ UNCHANGED <<now, runs, evaluations, bookings, surveys, readerVars>>

CancelDelivery(d) ==
    /\ Is(d, {"CREATED", "OPTION_READY", "BOOKED", "DRIVER_ASSIGNED"})
    /\ To(d, "CANCELLED")
    /\ UNCHANGED <<now, runs, evaluations, bookings, surveys, readerVars>>

\* The two rows of a survey carry the times of their inserts.
Survey(d, score) ==
    /\ Is(d, {"DELIVERED"}) /\ surveys[d] = Null
    /\ \E t \in {now - 1, now} \intersect Nat :
           surveys' = [surveys EXCEPT ![d] =
               [driver |-> score, ratedAt |-> t, commentedAt |-> now]]
    /\ UNCHANGED <<now, deliveries, runs, evaluations, bookings, readerVars>>

-----------------------------------------------------------------------------
(* The reports: the queries of a batch run in any order, the batches in turn. *)

SummaryBatches ==
    <<{"cohort", "runs", "previousCohort", "previousRuns"}, {"bookings", "funnelRuns"},
      {"evaluations"}, {"previousBookings"}>>
FeedbackBatches == <<{"ratings"}, {"feedback"}>>

\* Start of a report; what is known then is kept to judge it by.
Ask(kind, w) ==
    /\ reads = Null
    /\ reads' = [kind |-> kind, window |-> w, known |-> {d \in Delivery : surveys[d] # Null},
                 before |-> {d \in Delivery : deliveries[d] # Null},
                 done |-> [q \in {} |-> {}]]
    /\ report' = Null
    /\ UNCHANGED <<now, rows>>

Has(q) == q \in DOMAIN reads.done
Batches == IF reads.kind = "summary" THEN SummaryBatches ELSE FeedbackBatches
Ready(q) ==
    /\ ~Has(q)
    /\ \E i \in DOMAIN Batches :
           q \in Batches[i] /\ \A j \in 1 .. i - 1 : \A p \in Batches[j] : Has(p)

Result(q) ==
    LET w == reads.window
        before == previousReportingWindow(w)
    IN  CASE q = "cohort" -> loadDeliveryCohort(w)
          [] q = "runs" -> loadOrchestrationRuns(w)
          [] q = "previousCohort" -> loadDeliveryCohort(before)
          [] q = "previousRuns" -> loadOrchestrationRuns(before)
          [] q = "bookings" -> loadBookingsForDeliveries(Ids(reads.done.cohort))
          [] q = "funnelRuns" -> loadOrchestrationRunsForDeliveries(Ids(reads.done.cohort))
          [] q = "evaluations" -> loadEvaluationsForRequests({r.id : r \in reads.done.funnelRuns})
          [] q = "previousBookings" -> loadBookingsForDeliveries(Ids(reads.done.previousCohort))
          [] q = "ratings" -> loadRatings(w)
          [] q = "feedback" -> loadFeedback(w)

Query(q) ==
    /\ reads # Null /\ Ready(q)
    /\ reads' = [reads EXCEPT !.done = [x \in DOMAIN @ \union {q} |-> IF x = q THEN Result(q) ELSE @[x]]]
    /\ UNCHANGED <<now, rows, report>>

\* getSummary, from what was read.
Summary ==
    LET r == reads.done
        status == countDeliveriesByStatus(r.cohort)
        before == countDeliveriesByStatus(r.previousCohort)
        booking == computeBookingSuccessRate(Ids(r.cohort), r.bookings)
        bookingBefore == computeBookingSuccessRate(Ids(r.previousCohort), r.previousBookings)
        run == computeOrchestrationRunStats(r.runs)
        runBefore == computeOrchestrationRunStats(r.previousRuns)
    IN  [kind |-> "summary", window |-> reads.window, before |-> reads.before, read |-> r, status |-> status, booking |-> booking, orchestration |-> run,
         funnel |-> computeFunnelCounts(r.cohort, r.funnelRuns, r.evaluations, r.bookings),
         packages |-> computePackageTypeDistribution(r.cohort),
         trends |-> [created |-> computeTrend(status.total, before.total),
                     delivered |-> computeTrend(status.delivered, before.delivered),
                     bookingRate |-> computeTrendNullable(booking.rate, bookingBefore.rate),
                     failureRate |-> computeTrendNullable(run.failureRate, runBefore.failureRate),
                     duration |-> computeTrendNullable(run.average, runBefore.average)]]

\* getFeedbackReporting: a feedback whose rating was not read shows zero.
Feedback ==
    LET ratings == reads.done.ratings
        Driver(row) == row.driver
        Of(d) == {row.driver : row \in {x \in ratings : x.delivery = d}}
    IN  [kind |-> "feedback", window |-> reads.window, known |-> reads.known,
         count |-> Cardinality(reads.done.feedback),
         average |-> IF ratings = {} THEN Null
                     ELSE Rounded(10 * MapThenSumSet(Driver, ratings), Cardinality(ratings)),
         snippets |-> [d \in reads.done.feedback |-> IF Of(d) = {} THEN 0 ELSE Max(Of(d))]]

Compose ==
    /\ reads # Null
    /\ \A i \in DOMAIN Batches : \A q \in Batches[i] : Has(q)
    /\ report' = IF reads.kind = "summary" THEN Summary ELSE Feedback
    /\ reads' = Null
    /\ UNCHANGED <<now, rows>>

\* getOrchestrationReporting, on rows that stand still.
OrchestrationReport(w) ==
    LET rs == loadOrchestrationRuns(w)
        es == loadEvaluationsInRunWindow(w)
        bs == loadBookingsForDeliveriesInWindow(w, {e.delivery : e \in es})
    IN  [runsByStatus |-> [s \in {r.status : r \in rs} |-> Cardinality({r \in rs : r.status = s})],
         failureReasons |-> aggregateFailureReasons(rs),
         scorecard |-> buildServiceScorecard(es, bs)]

Write ==
    \/ \E d \in Delivery, t \in PackageTypes : Create(d, t)
    \/ \E d \in Delivery : StartRun(d) \/ Advance(d) \/ CancelDelivery(d)
    \/ \E d \in Delivery, found \in Findings : EndRun(d, found)
    \/ \E d \in Delivery, s \in {"BOOKED", "FAILED", "UNKNOWN"} : Settle(d, s)
    \/ \E d \in Delivery, e \in evaluations :
           e.run = <<d, Cardinality(RunsOf(d))>> /\ e.selected /\ Book(d, e.code)
    \/ \E d \in Delivery, score \in Scores : Survey(d, score)

Next ==
    \/ Tick \/ Write \/ Compose
    \/ \E kind \in {"summary", "feedback"}, w \in Windows : Ask(kind, w)
    \/ \E q \in UNION ToSet(SummaryBatches \o FeedbackBatches) : Query(q)

Spec == Init /\ [][Next]_vars
-----------------------------------------------------------------------------
(* Properties.                                                             *)

IsSummary == report # Null /\ report.kind = "summary"
IsFeedback == report # Null /\ report.kind = "feedback"
Total(f) == LET At(x) == f[x] IN MapThenSumSet(At, DOMAIN f)

\* Type invariant.
TypeOK ==
    /\ now \in 0 .. MaxTime
    /\ \A d \in Delivery : deliveries[d] # Null =>
        deliveries[d].id = d /\ deliveries[d].createdAt \in 0 .. MaxTime
    /\ IsSummary =>
        /\ report.booking.rate \in 0 .. 1000 \union {Null}
        /\ report.orchestration.failureRate \in 0 .. 1000 \union {Null}
        /\ report.orchestration.average \in Nat \union {Null}
    /\ IsFeedback => report.average \in 10 .. 50 \union {Null}

\* The summary counts every delivery of its period once by status, whichever status it has
\* got to, and once by the type of its package.
EveryDeliveryCountedOnce ==
    IsSummary =>
        LET s == report.status
        IN  /\ s.delivered + s.inProgress + s.cancelled + s.failed = s.total
            /\ Total(report.packages) = s.total

\* Although the deliveries go on between the queries, the funnel narrows: the delivered
\* ones were booked, the ones with an option in hand were found eligible, and quoted.
FunnelNarrows ==
    IsSummary =>
        LET f == report.funnel
            offered == {d \in report.read.cohort : d.status \in
                           {"OPTION_READY", "BOOKING", "BOOKED", "DELIVERY_OTP_PENDING", "DELIVERED"}}
        IN  /\ f.delivered <= f.confirmed /\ f.confirmed <= f.created
            /\ Cardinality(offered) <= f.eligible /\ f.eligible <= f.quoted /\ f.quoted <= f.created

\* The period and the one it is compared with meet and do not overlap: a delivery that was
\* there when the report was asked for is in the one or in the other, never in both.
PeriodsMeet ==
    IsSummary =>
        LET w == report.window
            both == [from |-> 2 * w.from - w.toExclusive, toExclusive |-> w.toExclusive]
            current == Ids(report.read.cohort)
            previous == Ids(report.read.previousCohort)
        IN  /\ current \intersect previous = {}
            /\ \A d \in report.before :
                   both.from <= deliveries[d].createdAt /\ deliveries[d].createdAt < both.toExclusive
                       => d \in current \union previous

\* A delivery has one latest completed run, however the rows are sorted: the funnel does
\* not depend on the order the database returns them in.
OneLatestRun == \A d \in Delivery : Cardinality(LatestCompleted(runs, d)) <= 1

\* A survey whose rows are in the window, and were there before the report was asked for, is shown with its score.
KnownSurveysAreRated ==
    IsFeedback => \A d \in report.known :
        In(surveys[d].ratedAt, report.window) /\ In(surveys[d].commentedAt, report.window) =>
        d \in DOMAIN report.snippets /\ report.snippets[d] = surveys[d].driver

\* The reasons the report lists add up to the failed runs it counts.
FailuresAreExplained ==
    \A w \in Windows :
        LET r == OrchestrationReport(w)
        IN  Total(r.failureReasons) =
                IF "FAILED" \in DOMAIN r.runsByStatus THEN r.runsByStatus["FAILED"] ELSE 0
=============================================================================

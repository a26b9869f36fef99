------------------------------- MODULE MCReadings -------------------------------
(***************************************************************************)
(* What the system reads and reports: the bodies of Shiprocket and Cashfree,  *)
(* and the reports of finance and operations. The parts share no rows, so a    *)
(* behaviour exercises one of them, and the others rest. What a pure function  *)
(* is given is in `in`, which grows by one piece at a time, through every      *)
(* small body.                                                                *)
(***************************************************************************)
EXTENDS FiniteSetsExt, Integers, Sequences, SequencesExt, TLC

CONSTANTS Null, None

VARIABLES
    part,                                               \* the part that is exercised
    in,                                                 \* what a function is given
    now, deliveries, runs, evaluations, bookings, surveys, batch, report    \* Reporting

reportVars == <<now, deliveries, runs, evaluations, bookings, surveys, batch, report>>
all == <<part, in, reportVars>>
-----------------------------------------------------------------------------
(* The bodies of Shiprocket: orders, tracking, rates, and orders to be sent. *)

MCAwb == {"SR123456", "771234"}
MCId == {"7", "8", "9", "55", "771234"}
MCKinds == "NONE" :> {} @@ "UNKNOWN" :> {} @@ "NEW" :> {"preship"}
           @@ "CANCELLED" :> {"cancelled"} @@ "CANCELLATION REQUESTED" :> {}
           @@ "IN TRANSIT" :> {"moving"} @@ "UNDELIVERED" :> {"moving"}
Shiprocket == INSTANCE ShiprocketParsing WITH
    ValidAwb <- MCAwb, NumericId <- MCId, Matches <- MCKinds

Awb == {"NONE", "SR123456", "x"}
Shows ==
    [id : {"NONE", "9"}, status : DOMAIN MCKinds \ {"UNDELIVERED"},
     subStatus : {"NONE", "UNDELIVERED"}, awb : Awb,
     awbData : {<<>>, <<"NONE">>, <<"x", "SR123456">>},
     shipments : [shape : {"array", "object", "none"}, entries : {<<>>}]]
Shipments ==
    [id : {"NONE", "771234"}, status : {"NONE", "IN TRANSIT", "CANCELLED"}, awb : Awb]
AddShipment ==
    /\ Len(in.shipments.entries) < 1 /\ in.shipments.shape # "none"
    /\ \E s \in Shipments \cup
            (IF in.shipments.shape = "array"
             THEN {[id |-> "NULL", status |-> "NONE", awb |-> "NONE"]} ELSE {}) :
         in' = [in EXCEPT !.shipments.entries = Append(@, s)]

Trackings ==
    [trackStatus : {-1, 0, 1}, error : {"NONE", "e"}, shipmentStatus : {"NONE", "IN TRANSIT"},
     current : {"NONE", "NEW"}, trackStatusText : {"NONE", "NEW"}, activities : {<<>>}]
AddActivity ==
    /\ Len(in.activities) < 2
    /\ \E a \in [date : {"NONE", "d1"}, status : {"NONE", "s1"}] :
         in' = [in EXCEPT !.activities = Append(@, a)]

Offers ==
    [request : [coords : BOOLEAN, geocode : BOOLEAN], http : {200, 401, 422, 498, 503},
     status : {"true", "false", "NONE"}, data : [given : BOOLEAN, rows : {<<>>}]]
AddRate ==
    /\ in.request.coords /\ in.request.geocode /\ in.http = 200
    /\ in.data.given /\ Len(in.data.rows) < 2
    /\ \E e \in [rates : {Shiprocket!Missing, Shiprocket!NotANumber, 0, 40},
                 rate : {Shiprocket!Missing, 50}, rateId : {"NONE", "BLANK", "55", "hl"}, id : {"NONE"},
                 courierId : {"NONE", "7"}, companyId : {"NONE", "8"}, name : {"Quick"},
                 eta : {Shiprocket!NotANumber}, etd : {30}, days : {Shiprocket!Missing}] :
         in' = [in EXCEPT !.data.rows = Append(@, e)]

Place == [pin : {"NONE", "OK"}, city : {"NONE", "NA", "Pune"}, state : {"NONE", "MH"},
          coords : BOOLEAN]
NoRate == [rates |-> Shiprocket!Missing, rate |-> Shiprocket!Missing]
Orders == [live : BOOLEAN, pickup : Place, drop : {p \in Place : p.coords},
           email : {"NONE", "OK"}, rate : {NoRate}, weight : {0, 2}]
GiveRate ==
    /\ in.rate = NoRate
    /\ \E n \in {Shiprocket!NotANumber, 0, 40} : in' = [in EXCEPT !.rate.rates = n]
-----------------------------------------------------------------------------
(* Webhooks of Shiprocket that grow by a scan, and pairs of webhooks of       *)
(* Cashfree for one order.                                                  *)

MCRawStatus == {"PICKED UP", "UNDELIVERED", "DELIVERED"}
MCPatterns == "PICKED UP" :> {"pickup"} @@ "UNDELIVERED" :> {"undelivered"}
              @@ "DELIVERED" :> {"delivered"}
Payload == INSTANCE ShiprocketPayload WITH
    RawStatus <- MCRawStatus, Matches <- MCPatterns, MaxScans <- 2

ScanStatuses == {"NONE", "PENDING", "PICKED UP", "DELIVERED"}
ScanTimes == {"NONE", "BAD", "T1", "T2"}
Webhooks ==
    [awb : {"NONE", "A1"}, srOrderId : {"NONE"}, orderId : {"NONE"}, isReturn : {FALSE},
     status : ScanStatuses, time : ScanTimes, scans : {<<>>}]
AddScan ==
    /\ Len(in.scans) <= 2
    /\ \E scan \in [status : ScanStatuses, time : ScanTimes] :
         in' = [in EXCEPT !.scans = Append(@, scan)]
Normalized == Payload!NormalizeWebhook(in)

MCWords == "PAYMENT_CHARGES_WEBHOOK" :> {"PAYMENT_CHARGES"}
           @@ "PAYMENT_USER_DROPPED_WEBHOOK" :> {"USER_DROPPED"}
           @@ "PAYMENT_SUCCESS_WEBHOOK" :> {"SUCCESS"} @@ "PAYMENT_FAILED_WEBHOOK" :> {"FAILED"}
           @@ "REFUND_STATUS_WEBHOOK" :> {"REFUND"} @@ "REFUND_FAILED_WEBHOOK" :> {"REFUND", "FAILED"}
           @@ "WEBHOOK" :> {}
Cashfree == INSTANCE CashfreeReading WITH Words <- MCWords, NumberIds <- {"7"}

Blank == [object |-> TRUE, header |-> "NONE", type |-> "NONE", rootOrderId |-> "NONE",
          order |-> [given |-> FALSE, orderId |-> "NONE", orderStatus |-> "NONE", orderAmount |-> "NONE"],
          data |-> [orderId |-> "NONE", orderStatus |-> "NONE", orderAmount |-> "NONE",
                    paymentStatus |-> "NONE", cfPaymentId |-> "NONE", refundId |-> "NONE",
                    refundAmount |-> "NONE"],
          payment |-> [status |-> "NONE", cfId |-> "NONE", id |-> "NONE", amount |-> "NONE"],
          refund |-> [status |-> "NONE", id |-> "NONE", cfId |-> "NONE", amount |-> "NONE", orderId |-> "NONE"]]
Two == {"one", "two"}

SetType == in.one.type = "NONE" /\ \E t \in DOMAIN MCWords :
               in' = [w \in Two |-> [in[w] EXCEPT !.type = t]]
GiveOrder ==
    /\ ~ in.one.order.given /\ in.one.refund.orderId = "NONE"
    /\ \/ in' = [w \in Two |-> [in[w] EXCEPT !.refund.orderId = "o"]]
       \/ \E s \in {"NONE", "PAID"} :
            in' = [w \in Two |-> [in[w] EXCEPT
                  !.order = [given |-> TRUE, orderId |-> "o", orderStatus |-> s,
                             orderAmount |-> "orderAmount"]]]
GivePayment(w) ==
    /\ in[w].payment.status = "NONE"
    /\ \E s \in {"SUCCESS", "FAILED"}, i \in {"p1", "p2"} :
         in' = [in EXCEPT ![w].payment = [status |-> s, cfId |-> i, id |-> "NONE",
                                          amount |-> "paymentAmount"]]
GiveRefund(w) ==
    /\ in[w].refund.status = "NONE"
    /\ \E s \in {"SUCCESS", "CANCELLED"}, i \in {"r1", "7"}, a \in {"NONE", "refundAmount"} :
         in' = [in EXCEPT ![w].refund = [@ EXCEPT !.status = s, !.id = i, !.cfId = "cf" \o i,
                                                !.amount = a]]
Event(w) == Cashfree!resolveCashfreePaymentWebhook(in[w])
IsRefund(e) == e.eventType \in {"REFUND_SUCCESS", "REFUND_FAILED"}
-----------------------------------------------------------------------------
(* Finance: windows that grow by half an hour over the end of January in      *)
(* India, with one payment and one refund; queries for refunds; changes in    *)
(* percent.                                                                 *)

Finance == INSTANCE FinanceReports
Start == Finance!January * Finance!Day - Finance!IstOffset - 2

Windows == [from : Start .. Start + 3, to : {0}, paidAt : {None}, processedAt : {None},
            granularity : {"day", "week", "month"}]
GrowWindow ==
    \/ in.to = 0 /\ in' = [in EXCEPT !.to = in.from + 1]
    \/ in.to \in in.from + 1 .. in.from + Finance!Day + 2 /\ in' = [in EXCEPT !.to = @ + 1]
    \/ in.paidAt = None /\ in.to # 0 /\ in' = [in EXCEPT !.paidAt = in.to - 1]
    \/ in.paidAt # None /\ in.processedAt = None /\ in' = [in EXCEPT !.processedAt = in.to - 1]

RefundQueries ==
    [activityFrom : {None, 1, 2, 3}, activityTo : {None, 1, 2, 3}, processedFrom : {None, 1, 2},
     processedTo : {None, 2, 3}, requestedFrom : {None, 1, 2}, requestedTo : {None, 2, 3},
     status : {None, "SUCCESS"}, refund : {None}]
AddRefund ==
    /\ in.refund = None
    /\ \E r \in [status : {"SUCCESS", "PENDING", "FAILED"}, requestedAt : {1, 2},
                 processedAt : {None, 1, 2}] : in' = [in EXCEPT !.refund = r]

GrowTrend == \E i \in 1 .. 2 : in[i] < 20 /\ in' = [in EXCEPT ![i] = @ + 1]
-----------------------------------------------------------------------------
(* What reads rows while they are written.                                  *)

\* One delivery and its reports; and its runs alone, with more that they may find.
Best == [status |-> "ELIGIBLE", quote |-> 30, code |-> "bike"]
Dear == [status |-> "INELIGIBLE", quote |-> 45, code |-> Null]
Out == [status |-> "INELIGIBLE", quote |-> Null, code |-> "bike"]
FewFindings == {{Best, Dear}, {Out}}
MoreFindings == FewFindings \cup {{}}
MCStages == <<"BOOKED", "DELIVERY_OTP_PENDING", "DELIVERED">>
MCWindows == {[from |-> 1, toExclusive |-> 2]}
Reports == INSTANCE Reporting WITH
    reads <- batch, Delivery <- {"d1"}, PackageTypes <- {Null}, Findings <- FewFindings,
    Scores <- {4}, Stages <- MCStages, Windows <- MCWindows, MaxRuns <- 2, MaxTime <- 2
Runs == INSTANCE Reporting WITH
    reads <- batch, Delivery <- {"d1"}, PackageTypes <- {"FOOD"}, Findings <- MoreFindings,
    Scores <- {1, 5}, Stages <- MCStages, Windows <- MCWindows, MaxRuns <- 3, MaxTime <- 2
-----------------------------------------------------------------------------
MCInit ==
    /\ \/ part = "show" /\ in \in Shows
       \/ part = "track" /\ in \in Trackings
       \/ part = "rates" /\ in \in Offers
       \/ part = "order" /\ in \in Orders
       \/ part = "payload" /\ in \in Webhooks
       \/ part = "cashfree" /\ in = [w \in Two |-> Blank]
       \/ part = "series" /\ in \in Windows
       \/ part = "list" /\ in \in RefundQueries
       \/ part = "trend" /\ in = <<0, 0>>
       \/ part \in {"reports", "runs"} /\ in = None
    /\ Reports!Init

Grow ==
    \/ part = "show" /\ AddShipment
    \/ part = "track" /\ AddActivity
    \/ part = "rates" /\ AddRate
    \/ part = "order" /\ GiveRate
    \/ part = "payload" /\ AddScan
    \/ part = "cashfree" /\ (SetType \/ GiveOrder \/ \E w \in Two : GivePayment(w) \/ GiveRefund(w))
    \/ part = "series" /\ GrowWindow
    \/ part = "list" /\ AddRefund
    \/ part = "trend" /\ GrowTrend

MCNext ==
    /\ \/ Grow /\ UNCHANGED reportVars
       \/ /\ \/ part = "reports" /\ Reports!Next
             \/ part = "runs" /\ (Runs!Tick \/ Runs!Write)
          /\ UNCHANGED in
    /\ UNCHANGED part

MCSpec == MCInit /\ [][MCNext]_all
-----------------------------------------------------------------------------
\* A booking is confirmed, by the snapshot of an order, only with a code that the body
\* names as an AWB: never with the id of a shipment (parseShiprocketOrderShowDetails).
AwbIsAwb ==
    part = "show" =>
        LET snapshot == Shiprocket!toCreatedOrderSnapshot(Shiprocket!parseShiprocketOrderShowDetails(in))
            entries == Shiprocket!normalizeShipmentEntries(in.shipments)
            named == {in.awb} \cup ToSet(in.awbData) \cup {entries[i].awb : i \in DOMAIN entries}
        IN  snapshot.awbCode # "NONE" => snapshot.awbCode \in named \cap MCAwb

\* The preflight and the check after the POST agree: what the first takes for cancelled
\* is cancelled for the second, and what it rejects is active for the second.
PreflightAgrees ==
    part = "show" =>
        LET before == Shiprocket!CancelPreflight(in)
            after == Shiprocket!reconcileShiprocketCancelFromOrderShow(
                         Shiprocket!parseShiprocketOrderShowDetails(in))
        IN  /\ before = "CANCELLED" => after = "CONFIRMED_CANCELLED"
            /\ before = "REJECTED" => after = "STILL_ACTIVE"
            /\ "cancelled" \in MCKinds[in.status] => before # "POST"

\* Tracking that Shiprocket has declared pending is never ingested, whatever else the body
\* still says, and tracking that is ingested says something about the shipment.
PendingIsPending ==
    part = "track" =>
        LET t == Shiprocket!parseShiprocketTrackingResponse(in)
        IN  /\ in.trackStatus = 0 => t.availability # "AVAILABLE"
            /\ t.availability = "AVAILABLE" => t.rawStatus # "TRACKING_PENDING"
            /\ t.availability = "AVAILABLE" /\ t.rawStatus = "UNKNOWN" => in.activities # <<>>

\* Who is booked is a courier of the rate, when the rate names one, whatever its other
\* ids; and rates that name none are kept apart (buildQuoteId, resolveShiprocketCourierId).
CourierOfRate ==
    part = "rates" =>
        LET rates == Shiprocket!FetchRates(in.request, in.http, in.status, in.data).rates
            Named(r) == {r.raw.courierId, r.raw.companyId} \cap MCId
        IN  /\ \A i \in DOMAIN rates : Named(rates[i]) # {} =>
                   Shiprocket!resolveShiprocketCourierId(rates[i]) \in Named(rates[i])
            /\ \A i, j \in DOMAIN rates : i # j /\ Len(rates[i].quoteId) = 2 =>
                   rates[i].quoteId # rates[j].quoteId

\* A live order is sent only with the data of both places and of the customer; no fallback
\* of the sandbox is in it, and nothing is sold for nothing.
LiveOrderIsReal ==
    part = "order" =>
        LET o == Shiprocket!AdhocOrder(in, in.live)
        IN  o # <<>> => /\ in.live => \A i \in 1 .. 7 : o[i] \notin {"FALLBACK", "NA"}
                        /\ o[8] >= 1

\* No scan is lost: each scan of an accepted body that has, by itself or from the body, a
\* status and a time that can be read is among the events, and an ignored body has nothing
\* of the kind, not even its own status and time.
NoScanIsLost ==
    part = "payload" =>
        LET Says(status, time) ==
                status \notin Payload!PendingStatuses /\ time \notin {"NONE", "BAD"}
            Effective(scan) ==
                <<IF scan.status = "NONE" THEN in.status ELSE scan.status,
                  IF scan.time = "NONE" THEN in.time ELSE scan.time>>
            news == {Effective(in.scans[i]) : i \in DOMAIN in.scans}
        IN  /\ Normalized.action = "events" => \A s \in news : Says(s[1], s[2]) =>
                   \E j \in DOMAIN Normalized.scans :
                       Normalized.scans[j].status = s[1] /\ Normalized.scans[j].id[4] = s[2]
            /\ Normalized.action = "ignore" =>
                   ~Says(in.status, in.time) /\ \A s \in news : ~Says(s[1], s[2])

\* Deduplication by providerEventId drops no news and lets none in twice: scans of one body
\* with the same identity say the same, and a scan that says its own status and time has
\* the same identity in whatever body of the shipment it is sent again.
IdIdentifiesScan ==
    part = "payload" =>
        LET ids == {Normalized.scans[i].id : i \in DOMAIN Normalized.scans}
            Again(i, status, time) == Payload!NormalizeWebhook(
                [in EXCEPT !.scans = <<in.scans[i]>>, !.status = status, !.time = time])
        IN  /\ \A i, j \in DOMAIN Normalized.scans :
                   Normalized.scans[i].id = Normalized.scans[j].id
                       => Normalized.scans[i] = Normalized.scans[j]
            /\ Normalized.action = "events" => \A i \in DOMAIN in.scans :
                   /\ in.scans[i].status \notin Payload!PendingStatuses
                   /\ in.scans[i].time \notin {"NONE", "BAD"}
                   => \A status \in ScanStatuses, time \in ScanTimes :
                          Again(i, status, time).scans[1].id \in ids

\* The webhook and the query never read one status of Cashfree in opposite ways: what the
\* query reads as paid or failed, the webhook reads in the same way; of a refund, what the
\* webhook reads as decided the query does too (the two maps are in two files). EXPIRED is
\* apart: the query reads it as decided, the webhook's map does not know it.
SameStatusSameMeaning ==
    part = "cashfree" =>
      \A raw \in {"SUCCESS", "PAID", "FAILED", "USER_DROPPED", "CANCELLED", "REJECTED", "PENDING",
                  "EXPIRED", "PAYMENT_SUCCESS", "PAYMENT_FAILED", "NOT_ATTEMPTED"} :
        LET asked == Cashfree!getPaymentStatus([ok |-> TRUE, json |-> TRUE,
                                       payments |-> <<[status |-> raw, id |-> "p"]>>]).status
            refunded == Cashfree!getRefundStatus("r", TRUE, [ok |-> TRUE, json |-> TRUE,
                                       status |-> raw, id |-> "NONE"]).status
            told == Cashfree!mapCashfreePaymentStatus(raw)
        IN  /\ asked = "PAID" => told = "PAYMENT_SUCCESS"
            /\ asked = "FAILED" => told = "PAYMENT_FAILED"
            /\ told = "PAYMENT_SUCCESS" => asked # "FAILED"
            /\ Cashfree!mapCashfreeRefundStatus(raw) = "REFUND_SUCCESS" <=> refunded = "SUCCESS"
            /\ Cashfree!mapCashfreeRefundStatus(raw) = "REFUND_FAILED" => refunded = "FAILED"

\* Two attempts to pay one order, or two refunds of it, that end in the same way are not
\* taken for one event delivered twice (the key that stands for Cashfree's own).
AttemptsApart ==
    part = "cashfree" =>
        LET one == Event("one")
            two == Event("two")
        IN  one.action = "process" /\ two.action = "process" =>
              /\ IsRefund(one) /\ IsRefund(two) /\ in.one.refund.id # in.two.refund.id
                 /\ "NONE" \notin {in.one.refund.id, in.two.refund.id}
                    => one.key # two.key
              /\ {one.refundId, two.refundId} = {"NONE"} /\ one.paymentId # two.paymentId
                    => one.key # two.key

\* The amount of a refund event is the amount of a refund, or unknown; never that of the
\* order or of the payment, which the service would compare with the refund.
RefundAmountIsRefunds ==
    part = "cashfree" => \A w \in Two :
        Event(w).action = "process" /\ IsRefund(Event(w))
            => Event(w).amount \in {"refundAmount", "NONE"}

\* Over a window that starts at a full hour in India, the time series adds up to the
\* summary: nothing is left out and nothing is counted in two buckets, wherever the days,
\* weeks and months are cut (buildFinanceTimeseries against getSummary).
AlignedSeriesIsSummary ==
    part = "series" /\ in.to # 0 /\ (in.from + Finance!IstOffset) % Finance!Hour = 0 =>
        LET window == [from |-> in.from, to |-> in.to]
            paid == {[status |-> "PAID", paidAt |-> in.paidAt, amount |-> 7]}
            refunded == {[status |-> "SUCCESS", requestedAt |-> in.paidAt,
                          processedAt |-> in.processedAt, amount |-> 3]}
            series == Finance!buildFinanceTimeseries(paid, refunded, window, in.granularity)
            summary == Finance!getSummary(paid, refunded, window)
        IN  /\ MapThenSumSet(LAMBDA k : series[k].collections, DOMAIN series)
                   = summary.collections
            /\ MapThenSumSet(LAMBDA k : series[k].successfulRefunds, DOMAIN series)
                   = summary.successfulRefunds

\* Whatever the summary counts of the refunds in a window, as successful, pending or
\* failed, is in the list of the refunds with activity in that window (periodRefundWhere
\* and mergeRefundListWhere are in two files).
CountedIsListed ==
    part = "list" /\ in.refund # None /\ None \notin {in.activityFrom, in.activityTo}
    /\ Finance!listRefundsQuerySchema(in) =>
        LET r == in.refund
            w == [from |-> in.activityFrom, to |-> in.activityTo]
        IN  \/ Finance!periodSuccessfulRefundWhere(r, w)
            \/ Finance!periodPendingRefundWhere(r, w)
            \/ Finance!periodFailedRefundWhere(r, w)
            => in.status \notin {None, r.status} \/ Finance!listRefunds({r}, in) = {r}

\* An accepted query of refunds means all it says: a refund that is listed satisfies
\* every filter of the query (listRefundsQuerySchema against mergeRefundListWhere).
QueryMeansAll ==
    part = "list" /\ in.refund # None /\ Finance!listRefundsQuerySchema(in)
    /\ Finance!listRefunds({in.refund}, in) # {} =>
        /\ Finance!Active(in.refund, in)
        /\ Finance!Between(in.refund.processedAt, in.processedFrom, in.processedTo)
        /\ Finance!Between(in.refund.requestedAt, in.requestedFrom, in.requestedTo)
        /\ in.status \in {None, in.refund.status}

\* A change in percent leads from the value before back to the current one, to half a
\* tenth of a percent; only growth from nothing has none.
TrendLeadsBack ==
    part = "trend" =>
        LET c == in[1]
            p == in[2]
            change == Reports!computeTrend(c, p)
        IN  IF change = Null THEN p = 0 /\ c > 0
            ELSE \E off \in -p .. p : 2 * (p * (1000 + change) - 1000 * c) = off

-----------------------------------------------------------------------------
\* The answers and webhooks of Shiprocket are read for what they say: a booking has the AWB
\* and the courier that were named, the two readings of a cancelled order agree, pending
\* tracking is not news, no scan of a webhook is lost or taken for another, and a live
\* order is made of what the customer gave.
ShiprocketIsReadRight ==
    /\ AwbIsAwb
    /\ PreflightAgrees
    /\ PendingIsPending
    /\ CourierOfRate
    /\ LiveOrderIsReal
    /\ NoScanIsLost
    /\ IdIdentifiesScan

\* The answers and webhooks of Cashfree mean the same wherever they are read: no status is
\* success here and failure there, two attempts are two events, and the amount that is
\* compared with a refund is that of a refund.
CashfreeIsReadRight == SameStatusSameMeaning /\ AttemptsApart /\ RefundAmountIsRefunds

\* The figures of the administrators fit together, although they come from several queries
\* while deliveries go on: buckets and summary, summary and list, statuses and total, the
\* stages of the funnel, the latest runs and their failures, two periods and the change
\* between them.
FiguresAddUp ==
    /\ AlignedSeriesIsSummary
    /\ CountedIsListed
    /\ QueryMeansAll
    /\ TrendLeadsBack
    /\ part = "reports" =>
        /\ Reports!TypeOK
        /\ Reports!EveryDeliveryCountedOnce
        /\ Reports!FunnelNarrows
        /\ Reports!PeriodsMeet
        /\ Reports!KnownSurveysAreRated
    /\ part = "runs" =>
        /\ Runs!TypeOK
        /\ Runs!OneLatestRun
        /\ Runs!FailuresAreExplained
=============================================================================

---------------------------- MODULE DeliveryHistory ----------------------------
(***************************************************************************)
(* DeliveryHistoryService.getHistoryDetail: a page composed from rows that  *)
(* are read one query after the other, or in parallel, in no transaction,   *)
(* while the delivery moves, is cancelled, and its payment is refunded. The *)
(* writers are the other components' writes, each one transaction. Money is *)
(* in paise.                                                                *)
(***************************************************************************)
EXTENDS Money, DeliveryTransitions, Sequences, SequencesExt

CONSTANTS
    Null,
    Reader,
    Snapshots,      \* quote snapshots a payment is made from
    Life,           \* the statuses of the delivery, in order, until CANCELLED
    Cancellable,    \* CANCELLABLE_DELIVERY_STATUSES
    MaxCancels, MaxRefunds      \* bounds on the rows

VARIABLES
    delivery,       \* status of the delivery
    events,         \* DeliveryStatusEvent rows: the statuses reached, oldest first
    cancellations,  \* DeliveryCancellation rows, oldest first: their status
    payment,        \* the Payment row, or Null
    refunds,        \* Refund rows, oldest first: [key, amount, status]
    reads,          \* what a reader has read so far, by query
    page            \* the last page of a reader, or Null

rows == <<delivery, events, cancellations, payment, refunds>>
vars == <<rows, reads, page>>

-----------------------------------------------------------------------------
\* Math.round(value * 100) / 100 on num/100 paise.
roundCurrency(num) == (num + 50) \div 100

GST_PERCENT == 18
LEGACY_DEFAULT_PLATFORM_FEE_PERCENT == 10

Priced(quote, percent) ==
    LET fee == roundCurrency(quote * percent)
        gst == roundCurrency((quote + fee) * GST_PERCENT)
    IN  [providerQuote |-> quote, fee |-> fee, subtotal |-> quote + fee, gst |-> gst,
         payable |-> quote + fee + gst]

\* enrichQuoteSnapshotWithCustomerPricing; a legacy snapshot has the quote alone.
Enriched(quote, percent) ==
    LET p == Priced(quote, percent)
    IN  [amount |-> quote, percent |-> percent, fee |-> p.fee, gst |-> p.gst, payable |-> p.payable]
Legacy(quote) ==
    [amount |-> quote, percent |-> Null, fee |-> Null, gst |-> Null, payable |-> Null]

\* resolveCustomerPayableAmount: what the payment is made for.
Charged(s) ==
    IF s.payable # Null THEN s.payable
    ELSE Priced(s.amount, LEGACY_DEFAULT_PLATFORM_FEE_PERCENT).payable

\* resolvePricingBreakdownFromSnapshot: what the page says it is made of.
PricingBreakdown(s) ==
    LET percent == IF s.percent = Null THEN LEGACY_DEFAULT_PLATFORM_FEE_PERCENT ELSE s.percent
    IN  IF Null \notin {s.payable, s.fee, s.gst}
        THEN [providerQuote |-> s.amount, fee |-> s.fee, subtotal |-> s.amount + s.fee,
              gst |-> s.gst, payable |-> s.payable]
        ELSE Priced(s.amount, percent)

\* What a snapshot, the payment made from it, and the payment's section of the page are.
\* Null stands for SQL's and is none of them; a PENDING refund counts as a REQUESTED one.
MaybeNat == Nat \union {Null}
SnapshotRows ==
    [amount : Nat, percent : MaybeNat, fee : MaybeNat, gst : MaybeNat, payable : MaybeNat]
PaymentRows == [amount : Nat, snapshot : SnapshotRows, refunded : Nat]
RefundRows == [key : Nat, amount : Nat, status : {"REQUESTED", "SUCCESS", "FAILED"}]
CancellationStatuses == {"REQUESTED", "PROCESSING", "CANCELLED", "REJECTED", "UNKNOWN"}
BreakdownRows == [providerQuote : Nat, fee : Nat, subtotal : Nat, gst : Nat, payable : Nat]
PaymentSections ==
    [amount : Nat, refundedAmount : Nat, breakdown : BreakdownRows, refunds : Seq(RefundRows)]
IsSnapshot(s) ==
    /\ s.amount \in Nat
    /\ s = Legacy(s.amount) \/ (s.percent \in Nat /\ s = Enriched(s.amount, s.percent))

HistoryAssumption ==
    /\ Null \notin Int /\ Null \notin PaymentRows /\ Null \notin PaymentSections
    /\ \A s \in Snapshots : IsSnapshot(s)
    /\ Life \in Seq(DeliveryStatuses) /\ Life # << >>
    /\ MaxCancels \in Nat /\ MaxRefunds \in Nat
-----------------------------------------------------------------------------
Queries == {"delivery", "timeline", "cancellation", "payment", "refunds"}

Init ==
    /\ delivery = Life[1] /\ events = <<Life[1]>>
    /\ cancellations = << >> /\ payment = Null /\ refunds = << >>
    /\ reads = [r \in Reader |-> << >>]
    /\ page = [r \in Reader |-> Null]

Write == UNCHANGED <<reads, page>>

\* transitionStatus: the row and its event in one transaction.
Transition(to) == delivery' = to /\ events' = Append(events, to)

Advance ==
    /\ \E i \in 1 .. Len(Life) - 1 : delivery = Life[i] /\ Transition(Life[i + 1])
    /\ UNCHANGED <<cancellations, payment, refunds>> /\ Write

Pay(s) ==
    /\ payment = Null
    /\ payment' = [amount |-> Charged(s), snapshot |-> s, refunded |-> 0]
    /\ UNCHANGED <<delivery, events, cancellations, refunds>> /\ Write

\* A cancellation that has passed its checks, a second one beside it included.
CreateCancellation ==
    /\ Len(cancellations) < MaxCancels
    /\ cancellations' = Append(cancellations, "PROCESSING")
    /\ UNCHANGED <<delivery, events, payment, refunds>> /\ Write

Finalize(n) ==
    /\ cancellations[n] = "PROCESSING"
    /\ \E status \in {"CANCELLED", "REJECTED", "UNKNOWN"} :
           cancellations' = [cancellations EXCEPT ![n] = status]
    /\ UNCHANGED <<delivery, events, payment, refunds>> /\ Write

CancelDelivery(n) ==
    /\ cancellations[n] = "CANCELLED" /\ delivery \in Cancellable
    /\ Transition("CANCELLED")
    /\ UNCHANGED <<cancellations, payment, refunds>> /\ Write

\* SELECT sum(amount) of the refunds with one of the statuses.
Sum(rs, statuses) ==
    SumOf([i \in DOMAIN rs |-> rs[i].amount], {i \in DOMAIN rs : rs[i].status \in statuses})

Remaining == payment.amount - Sum(refunds, {"REQUESTED", "SUCCESS"})

\* requestRefund under a key: 0 is an admin's, n the cancellation's cancel-refund:n.
RequestRefund(key, amount) ==
    /\ payment # Null /\ Len(refunds) < MaxRefunds
    /\ amount \in 1 .. Remaining
    /\ \A i \in DOMAIN refunds : refunds[i].key # key
    /\ refunds' = Append(refunds, [key |-> key, amount |-> amount, status |-> "REQUESTED"])
    /\ UNCHANGED <<delivery, events, cancellations, payment>> /\ Write

\* refundPrepaidAfterCancellation.
RefundPrepaid(n) ==
    /\ cancellations[n] = "CANCELLED" /\ payment # Null
    /\ RequestRefund(n, Remaining)

\* markRefundSuccessful and markRefundFailed: the refund and the payment together.
Settle(i) ==
    /\ refunds[i].status = "REQUESTED"
    /\ \/ /\ refunds' = [refunds EXCEPT ![i].status = "SUCCESS"]
          /\ payment' = [payment EXCEPT !.refunded = @ + refunds[i].amount]
       \/ /\ refunds' = [refunds EXCEPT ![i].status = "FAILED"]
          /\ UNCHANGED payment
    /\ UNCHANGED <<delivery, events, cancellations>> /\ Write
-----------------------------------------------------------------------------
\* loadAuthorizedDelivery, before any other query.
ReadDelivery(r) ==
    /\ reads[r] = << >>
    /\ reads' = [reads EXCEPT ![r] = [q \in {"delivery"} |-> delivery]]
    /\ UNCHANGED <<rows, page>>

\* findLatestByDeliveryId.
LatestCancellation ==
    IF cancellations = << >> THEN Null
    ELSE [id |-> Len(cancellations), status |-> Last(cancellations)]

Answer(q) ==
    CASE q = "timeline" -> events
      [] q = "cancellation" -> LatestCancellation
      [] q = "payment" -> payment
      [] q = "refunds" -> refunds

Has(r, q) == q \in DOMAIN reads[r]

\* Mutated form: the refunds are read with the rest.
Ready_OneBatch(r, q) == Has(r, "delivery")

\* Promise.all in any order; listRefundsByDeliveryId once the batch is complete.
Ready(r, q) ==
    IF q = "refunds"
    THEN (\A b \in Queries \ {"refunds"} : Has(r, b)) /\ reads[r]["payment"] # Null
    ELSE Has(r, "delivery")

Query(r, q) ==
    /\ q # "delivery" /\ ~Has(r, q) /\ Ready(r, q)
    /\ reads' = [reads EXCEPT ![r] = [x \in DOMAIN @ \union {q} |->
                                          IF x = q THEN Answer(q) ELSE @[x]]]
    /\ UNCHANGED <<rows, page>>

\* Mutated form: the last refund of the delivery.
LinkedRefund_Last(id, list) == IF list = << >> THEN Null ELSE Last(list)

\* findCancellationLinkedRefund.
LinkedRefund(id, list) ==
    LET linked == {i \in DOMAIN list : list[i].key = id}
    IN  IF linked = {} THEN Null ELSE list[CHOOSE i \in linked : \A j \in linked : i <= j]

mapCancellation(c, list) ==
    IF c = Null THEN Null
    ELSE [id |-> c.id, status |-> c.status,
          refund |-> IF c.status = "CANCELLED" THEN LinkedRefund(c.id, list) ELSE Null]

mapPaymentHistorySection(p, list) ==
    IF p = Null THEN Null
    ELSE [amount |-> p.amount, refundedAmount |-> p.refunded,
          breakdown |-> PricingBreakdown(p.snapshot), refunds |-> list]

\* toDeliveryHistoryDetail.
Detail(got) ==
    LET list == IF got["payment"] = Null THEN << >> ELSE got["refunds"]
    IN  [status |-> got["delivery"], timeline |-> got["timeline"],
         cancellation |-> mapCancellation(got["cancellation"], list),
         payment |-> mapPaymentHistorySection(got["payment"], list)]

Compose(r) ==
    /\ \A q \in Queries \ {"refunds"} : Has(r, q)
    /\ reads[r]["payment"] # Null => Has(r, "refunds")
    /\ page' = [page EXCEPT ![r] = Detail(reads[r])]
    /\ reads' = [reads EXCEPT ![r] = << >>]
    /\ UNCHANGED rows

Next ==
    \/ Advance \/ CreateCancellation
    \/ \E s \in Snapshots : Pay(s)
    \/ \E n \in DOMAIN cancellations : Finalize(n) \/ CancelDelivery(n) \/ RefundPrepaid(n)
    \/ RequestRefund(0, 1)
    \/ \E i \in DOMAIN refunds : Settle(i)
    \/ \E r \in Reader : ReadDelivery(r) \/ Compose(r) \/ \E q \in Queries : Query(r, q)

Spec == Init /\ [][Next]_vars
-----------------------------------------------------------------------------
\* Type invariant.
TypeOK ==
    /\ delivery \in ToSet(Life) \union {"CANCELLED"}
    /\ Len(cancellations) <= MaxCancels /\ Len(refunds) <= MaxRefunds
    /\ payment # Null => payment.refunded \in 0 .. payment.amount
    /\ \A r \in Reader : DOMAIN reads[r] \subseteq Queries

Shown == {page[r] : r \in {x \in Reader : page[x] # Null}}

\* Though the page is read in pieces, its status is one that its timeline tells.
StatusIsOnTimeline == \A p \in Shown : p.status \in ToSet(p.timeline)

\* Whatever settles while the page is read, the money it says was refunded is covered by
\* the successful refunds it lists.
RefundedIsListed ==
    \A p \in Shown : p.payment # Null =>
        p.payment.refundedAmount <= Sum(p.payment.refunds, {"SUCCESS"})

\* The refund shown with a cancellation is the one made for it, and one of those listed:
\* an admin's refund of the same payment is never taken for it.
RefundBelongs ==
    \A p \in Shown :
        (p.cancellation # Null /\ p.cancellation.refund # Null) =>
            /\ p.cancellation.status = "CANCELLED"
            /\ p.cancellation.refund.key = p.cancellation.id
            /\ p.cancellation.refund \in ToSet(p.payment.refunds)

\* The breakdown adds up to what was charged, for new and for legacy snapshots.
ChargedIsExplained ==
    \A p \in Shown : p.payment # Null =>
        LET b == p.payment.breakdown
        IN  /\ b.payable = p.payment.amount
            /\ b.subtotal + b.gst = b.payable
            /\ b.providerQuote + b.fee = b.subtotal

\* A later page of the same reader takes nothing back: the timeline only grows, and so
\* does the refunded amount.
PagesGoForward ==
    [][\A r \in Reader : (page[r] # Null) =>
        /\ IsPrefix(page[r].timeline, page'[r].timeline)
        /\ page[r].payment # Null =>
               /\ page'[r].payment # Null
               /\ page'[r].payment.refundedAmount >= page[r].payment.refundedAmount]_vars
-----------------------------------------------------------------------------
(* The inductive invariant.                                                *)

\* The delivery is where its timeline says, and a payment agrees with its snapshot and its
\* refunds, of which there are none without it.
RowsAgree ==
    /\ events \in Seq(DeliveryStatuses) /\ delivery \in ToSet(events)
    /\ delivery \in ToSet(Life) \union {"CANCELLED"}
    /\ cancellations \in Seq(CancellationStatuses) /\ Len(cancellations) <= MaxCancels
    /\ refunds \in Seq(RefundRows) /\ Len(refunds) <= MaxRefunds
    /\ payment = Null => refunds = << >>
    /\ payment # Null =>
        /\ payment \in PaymentRows
        /\ IsSnapshot(payment.snapshot) /\ payment.amount = Charged(payment.snapshot)
        /\ payment.refunded = Sum(refunds, {"SUCCESS"})
        /\ Sum(refunds, {"REQUESTED", "SUCCESS"}) <= payment.amount
        /\ \A i \in DOMAIN refunds : refunds[i].amount <= payment.amount

\* The payment as it was: the same one, and no less was refunded since.
WasPayment(p) ==
    /\ payment # Null /\ p \in PaymentRows
    /\ p.amount = payment.amount /\ p.snapshot = payment.snapshot
    /\ p.refunded <= payment.refunded

\* What was read is what was, and what was read later fits what was read before.
ReadsFit(got) ==
    /\ DOMAIN got \subseteq Queries
    /\ DOMAIN got # {} => "delivery" \in DOMAIN got /\ got["delivery"] \in ToSet(events)
    /\ "timeline" \in DOMAIN got =>
        /\ got["timeline"] \in Seq(DeliveryStatuses) /\ IsPrefix(got["timeline"], events)
        /\ got["delivery"] \in ToSet(got["timeline"])
    /\ "payment" \in DOMAIN got => got["payment"] = Null \/ WasPayment(got["payment"])
    /\ "refunds" \in DOMAIN got =>
        /\ "payment" \in DOMAIN got /\ got["payment"] # Null
        /\ got["refunds"] \in Seq(RefundRows)
        /\ got["payment"].refunded <= Sum(got["refunds"], {"SUCCESS"})

\* The parts of a price add up to what was charged.
Explains(section) ==
    LET b == section.breakdown
    IN  /\ b.payable = section.amount
        /\ b.subtotal + b.gst = b.payable
        /\ b.providerQuote + b.fee = b.subtotal

\* A page is true by itself, and of the rows.
PageTells(p) ==
    /\ p.timeline \in Seq(DeliveryStatuses) /\ IsPrefix(p.timeline, events)
    /\ p.status \in ToSet(p.timeline)
    /\ p.payment # Null =>
        /\ payment # Null /\ p.payment.refundedAmount \in Nat
        /\ p.payment.refundedAmount <= payment.refunded
        /\ p.payment.refundedAmount <= Sum(p.payment.refunds, {"SUCCESS"})
        /\ Explains(p.payment)
    /\ p.cancellation # Null /\ p.cancellation.refund # Null =>
        /\ p.cancellation.status = "CANCELLED"
        /\ p.cancellation.refund.key = p.cancellation.id
        /\ p.cancellation.refund \in ToSet(p.payment.refunds)

\* What is read after a page goes on from it.
GoesOn(p, got) ==
    /\ "timeline" \in DOMAIN got => IsPrefix(p.timeline, got["timeline"])
    /\ "payment" \in DOMAIN got /\ p.payment # Null =>
        got["payment"] # Null /\ p.payment.refundedAmount <= got["payment"].refunded

IInv ==
    /\ RowsAgree
    /\ DOMAIN reads = Reader /\ DOMAIN page = Reader
    /\ \A r \in Reader :
        /\ ReadsFit(reads[r])
        /\ page[r] # Null => PageTells(page[r]) /\ GoesOn(page[r], reads[r])
=============================================================================

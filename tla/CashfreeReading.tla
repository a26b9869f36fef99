---------------------------- MODULE CashfreeReading ----------------------------
(***************************************************************************)
(* What the service reads out of what Cashfree says: in a webhook, and in    *)
(* the answers to the queries of an order's payments and of a refund. A      *)
(* field is "NONE" when the body does not have it, or has it blank.          *)
(***************************************************************************)
EXTENDS Naturals, Sequences, SequencesExt

CONSTANTS
    Words,          \* the words that occur in a webhook type
    NumberIds       \* ids that are sent as JSON numbers

FirstSome(s) == LET some == SelectSeq(s, LAMBDA x : x # "NONE")
                IN  IF some = <<>> THEN "NONE" ELSE Head(some)
readString(x) == IF x \in NumberIds THEN "NONE" ELSE x
-----------------------------------------------------------------------------
(* A raw status, read by the webhook and by the query.                      *)

\* Mutated form: a customer who left is no failure.
mapCashfreePaymentStatus_Dropped(raw) ==
    CASE raw \in {"SUCCESS", "PAID", "PAYMENT_SUCCESS"}    -> "PAYMENT_SUCCESS"
      [] raw \in {"FAILED", "CANCELLED", "PAYMENT_FAILED"} -> "PAYMENT_FAILED"
      [] raw \in {"PENDING", "ACTIVE", "PAYMENT_PENDING"}  -> "PAYMENT_PENDING"
      [] OTHER -> "NONE"

mapCashfreePaymentStatus(raw) ==
    CASE raw \in {"SUCCESS", "PAID", "PAYMENT_SUCCESS"} -> "PAYMENT_SUCCESS"
      [] raw \in {"FAILED", "USER_DROPPED", "CANCELLED", "PAYMENT_FAILED"} -> "PAYMENT_FAILED"
      [] raw \in {"PENDING", "ACTIVE", "PAYMENT_PENDING"} -> "PAYMENT_PENDING"
      [] OTHER -> "NONE"

mapCashfreeRefundStatus(raw) ==
    CASE raw = "SUCCESS" -> "REFUND_SUCCESS"
      [] raw \in {"FAILED", "CANCELLED", "REJECTED"} -> "REFUND_FAILED"
      [] OTHER -> "NONE"

mapCashfreeStatusToGateway(raw) ==
    CASE raw \in {"SUCCESS", "PAID"} -> "PAID"
      [] raw \in {"FAILED", "USER_DROPPED", "CANCELLED"} -> "FAILED"
      [] raw = "EXPIRED" -> "EXPIRED"
      [] OTHER -> "PENDING"

GatewayRefundStatus(raw) ==
    CASE raw = "SUCCESS" -> "SUCCESS"
      [] raw \in {"FAILED", "CANCELLED", "REJECTED", "USER_DROPPED"} -> "FAILED"
      [] OTHER -> "PENDING"

\* Of the payments of an order the last one of the list decides; without any the
\* payment is pending. verifyPayment is the same query.
getPaymentStatus(answer) ==
    IF ~ answer.ok \/ ~ answer.json THEN [status |-> "ERROR", payment |-> "NONE"]
    ELSE IF answer.payments = <<>> THEN [status |-> "PENDING", payment |-> "NONE"]
    ELSE LET latest == Last(answer.payments)
         IN  [status |-> mapCashfreeStatusToGateway(latest.status), payment |-> latest.id]

getRefundStatus(asked, configured, answer) ==
    IF ~ configured THEN [status |-> "NOT_CONFIGURED", refund |-> "NONE"]
    ELSE IF ~ answer.ok \/ ~ answer.json THEN [status |-> "ERROR", refund |-> "NONE"]
    ELSE [status |-> GatewayRefundStatus(answer.status),
          refund |-> FirstSome(<<answer.id, asked>>)]
-----------------------------------------------------------------------------
(* A webhook.                                                               *)

\* A type decides alone, when it says enough; "NONE" leaves it to the statuses.
mapWebhookType(type) ==
    IF type = "NONE" THEN "NONE" ELSE
    LET has(w) == w \in Words[type]
    IN  CASE has("PAYMENT_CHARGES") -> "IGNORE"
          [] has("USER_DROPPED") /\ ~ has("PAYMENT_CHARGES") -> "PAYMENT_FAILED"
          [] has("REFUND") /\ ~ has("USER_DROPPED") /\ ~ has("PAYMENT_CHARGES") ->
                IF has("SUCCESS") THEN "REFUND_SUCCESS"
                ELSE IF has("FAILED") \/ has("REJECT") THEN "REFUND_FAILED" ELSE "NONE"
          [] OTHER -> IF has("SUCCESS") THEN "PAYMENT_SUCCESS"
                      ELSE IF has("FAILED") THEN "PAYMENT_FAILED"
                      ELSE IF has("PENDING") THEN "PAYMENT_PENDING" ELSE "NONE"

\* data.order, or the data themselves when there is no such object.
OrderOf(b) == IF b.order.given THEN b.order ELSE b.data
GatewayOrderId(b) ==
    FirstSome(<<OrderOf(b).orderId, b.data.orderId, b.rootOrderId, b.refund.orderId>>)

EventType(b) ==
    FirstSome(<<mapWebhookType(b.type), mapCashfreeRefundStatus(b.refund.status),
                mapCashfreePaymentStatus(FirstSome(<<b.payment.status, b.data.paymentStatus,
                                                     OrderOf(b).orderStatus>>))>>)

GatewayPaymentId(b) == FirstSome(<<b.payment.cfId, b.payment.id, b.data.cfPaymentId>>)
GatewayRefundId(b) == FirstSome(<<readString(b.refund.id), b.refund.cfId, readString(b.data.refundId)>>)

Amount(b) ==
    IF EventType(b) \in {"REFUND_SUCCESS", "REFUND_FAILED"}
    THEN FirstSome(<<b.refund.amount, b.data.refundAmount>>)
    ELSE FirstSome(<<b.payment.amount, OrderOf(b).orderAmount, b.data.orderAmount>>)

\* The event of Cashfree's own header, or what stands for it: the order, the refund or
\* the payment, and what happened to it.
\* Mutated form: the payment is left out.
IdempotencyKey_NoPayment(b) ==
    IF b.header # "NONE" THEN <<b.header>>
    ELSE <<GatewayOrderId(b), FirstSome(<<GatewayRefundId(b), "na">>), EventType(b)>>

IdempotencyKey(b) ==
    IF b.header # "NONE" THEN <<b.header>>
    ELSE <<GatewayOrderId(b), FirstSome(<<GatewayRefundId(b), GatewayPaymentId(b), "na">>),
           EventType(b)>>

\* resolveCashfreePaymentWebhook.
resolveCashfreePaymentWebhook(b) ==
    LET refuse(action, reason) == [action |-> action, reason |-> reason]
    IN  CASE ~ b.object -> refuse("reject", "payload_not_object")
          [] b.object /\ mapWebhookType(b.type) = "IGNORE" ->
                refuse("ignore", "payment_charges_or_non_lifecycle_event")
          [] b.object /\ EventType(b) = "NONE" ->
                IF b.type = "NONE" THEN refuse("reject", "missing_webhook_type_and_status")
                ELSE refuse("ignore", "unsupported_webhook_type")
          [] b.object /\ EventType(b) \notin {"NONE", "IGNORE"} /\ GatewayOrderId(b) = "NONE" ->
                refuse("reject", "missing_order_id")
          [] OTHER ->
                [action |-> "process", eventType |-> EventType(b), orderId |-> GatewayOrderId(b),
                 paymentId |-> GatewayPaymentId(b), refundId |-> GatewayRefundId(b),
                 amount |-> Amount(b), key |-> IdempotencyKey(b)]
=============================================================================

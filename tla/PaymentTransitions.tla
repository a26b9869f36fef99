------------------------- MODULE PaymentTransitions -------------------------
(***************************************************************************)
(* The status tables of payment.transitions.ts: which status a payment and *)
(* a refund may move to, and which statuses are final.                     *)
(***************************************************************************)

PaymentStatuses ==
    {"CREATED", "PENDING", "PAID", "FAILED", "EXPIRED",
     "PARTIALLY_REFUNDED", "REFUNDED"}

TerminalPaymentStatuses == {"FAILED", "EXPIRED", "REFUNDED"}

\* The moves PAYMENT_TRANSITIONS lists.
PaymentMoves ==
    ({"CREATED"} \X {"PENDING", "FAILED", "EXPIRED", "PAID"})
    \cup ({"PENDING"} \X {"PAID", "FAILED", "EXPIRED"})
    \cup ({"PAID"} \X {"PARTIALLY_REFUNDED", "REFUNDED"})
    \cup ({"PARTIALLY_REFUNDED"} \X {"PARTIALLY_REFUNDED", "REFUNDED"})

\* canTransitionPayment(from, to): staying put is always allowed.
CanTransitionPayment(from, to) ==
    \/ from = to
    \/ from \notin TerminalPaymentStatuses /\ <<from, to>> \in PaymentMoves

RefundStatuses == {"REQUESTED", "PENDING", "SUCCESS", "FAILED", "CANCELLED"}

TerminalRefundStatuses == {"SUCCESS", "FAILED", "CANCELLED"}

\* The moves REFUND_TRANSITIONS lists.
RefundMoves ==
    ({"REQUESTED"} \X {"PENDING", "SUCCESS", "FAILED", "CANCELLED"})
    \cup ({"PENDING"} \X {"SUCCESS", "FAILED"})

\* canTransitionRefund(from, to).
CanTransitionRefund(from, to) ==
    \/ from = to
    \/ from \notin TerminalRefundStatuses /\ <<from, to>> \in RefundMoves
=============================================================================

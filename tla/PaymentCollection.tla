-------------------------- MODULE PaymentCollection --------------------------
(***************************************************************************)
(* Collecting the payment of one delivery: createPaymentForDelivery with   *)
(* its gateway checkout, and the PAYMENT_SUCCESS and PAYMENT_FAILED        *)
(* webhooks that settle it, run by concurrent request handlers.            *)
(*                                                                         *)
(* As in PaymentRefund a handler is a process, a statement or a committed  *)
(* transaction is a step, and a handler may die between two of them. The   *)
(* payment's gateway is CASHFREE, which the customer pays on its own page  *)
(* and which reports by webhook, or STUB, which the service settles itself.*)
(*                                                                         *)
(* No caller in src reaches markPaymentExpired, and a payment that is      *)
(* CREATED has no order id yet, so that no PAYMENT_PENDING webhook finds it;*)
(* neither changes anything here.                                          *)
(***************************************************************************)
EXTENDS PaymentTransitions, Naturals

CONSTANTS
    Proc,        \* request handlers
    Key,         \* Idempotency-Key values clients send
    NoKey,       \* a request without one
    MaxCrashes   \* how many handlers may die (bound)

ASSUME CollectionAssumption == NoKey \notin Key /\ MaxCrashes \in Nat

VARIABLES
    gatewayCode, \* the service's gateway, from its configuration
    ready,       \* whether the delivery is OPTION_READY
    payment,     \* the Payment row: [status, orderId, session]
    attempt,     \* the status of PaymentAttempt number 1, or NONE
    credited,    \* whether LedgerEntry payment-paid:{id} exists
    saved,       \* keys in PaymentCreateIdempotencyKey
    proc,        \* the handlers
    order,       \* external: the gateway's order: none, active or paid
    events,      \* external: the webhooks it sends, any number of times
    crashes      \* handlers that died so far

vars == <<gatewayCode, ready, payment, attempt, credited, saved, proc, order,
          events, crashes>>
stored == <<payment, attempt, credited, saved>>
outside == <<gatewayCode, ready, order, events, crashes>>

NoPayment == [status |-> "NONE", orderId |-> FALSE, session |-> FALSE]
Idle == [pc |-> "idle", key |-> NoKey, attemptSeen |-> FALSE, respond |-> FALSE]
ActiveCreateStatuses == {"CREATED", "PENDING"}

Goto(p, pc) == proc' = [proc EXCEPT ![p].pc = pc]
Return(p) == proc' = [proc EXCEPT ![p] = Idle]

Init ==
    /\ gatewayCode \in {"CASHFREE", "STUB"}
    /\ ready = TRUE
    /\ payment = NoPayment
    /\ attempt = "NONE"
    /\ credited = FALSE
    /\ saved = {}
    /\ proc = [p \in Proc |-> Idle]
    /\ order = "none"
    /\ events = {}
    /\ crashes = 0
-----------------------------------------------------------------------------
(* createPaymentForDelivery.                                               *)

\* needsCheckoutCompletion(payment).
NeedsCheckoutCompletion ==
    IF gatewayCode = "CASHFREE"
    THEN /\ payment.status \in ActiveCreateStatuses
         /\ ~payment.orderId \/ ~payment.session
    ELSE payment.status = "CREATED"

\* The checks and unlocked reads. A key already saved replays its response; a
\* payment that is neither active nor PAID is refused; neither changes anything.
CreateRequest(p, k) ==
    /\ proc[p].pc = "idle"
    /\ k \notin saved
    /\ ready
    /\ \/ /\ payment.status = "NONE"
          /\ proc' = [proc EXCEPT ![p] = [Idle EXCEPT !.pc = "create", !.key = k]]
       \/ /\ payment.status \in ActiveCreateStatuses \cup {"PAID"}
          /\ proc' = [proc EXCEPT ![p] =
                [Idle EXCEPT !.key = k,
                     !.pc = IF NeedsCheckoutCompletion THEN "checkout" ELSE "respond"]]
    /\ UNCHANGED <<stored, outside>>

\* createPayment; Payment.deliveryId is unique, so a second insert throws.
CreatePayment(p) ==
    /\ proc[p].pc = "create"
    /\ \/ /\ payment.status = "NONE"
          /\ payment' = [NoPayment EXCEPT !.status = "CREATED"]
          /\ Goto(p, "checkout")
       \/ /\ payment.status # "NONE"
          /\ Return(p)
          /\ UNCHANGED payment
    /\ UNCHANGED <<attempt, credited, saved, outside>>

\* ensureGatewayCheckout: createPaymentOrder, whose order id is derived from
\* the payment. It may throw, whether or not the order exists by then.
CreatePaymentOrder(p) ==
    /\ proc[p].pc = "checkout"
    /\ \/ /\ order' = IF order = "none" THEN "active" ELSE order
          /\ Goto(p, "findAttempt")
       \/ /\ order' \in {order, IF order = "none" THEN "active" ELSE order}
          /\ Return(p)
    /\ UNCHANGED <<stored, gatewayCode, ready, events, crashes>>

\* ... findLatestAttempt, before the transaction that uses it.
FindAttempt(p) ==
    /\ proc[p].pc = "findAttempt"
    /\ proc' = [proc EXCEPT ![p].pc = "storeCheckout",
                            ![p].attemptSeen = attempt # "NONE"]
    /\ UNCHANGED <<stored, outside>>

\* Mutated form: the transaction does not insert the attempt.
StoreCheckout_NoAttempt(p) ==
    /\ proc[p].pc = "storeCheckout"
    /\ payment.status \in ActiveCreateStatuses
    /\ payment' = [status |-> "PENDING", orderId |-> TRUE,
                   session |-> gatewayCode = "CASHFREE"]
    /\ Goto(p, IF gatewayCode = "STUB" THEN "markPaid" ELSE "respond")
    /\ UNCHANGED <<attempt, credited, saved, outside>>

\* ... and that transaction: PENDING with the order, and attempt number 1 when
\* none was seen. If another handler inserted the attempt in between, the
\* unique (paymentId, attemptNumber) rolls everything back. A payment that is
\* no longer active is returned as it is.
StoreCheckout(p) ==
    /\ proc[p].pc = "storeCheckout"
    /\ \/ /\ payment.status \in ActiveCreateStatuses
          /\ proc[p].attemptSeen \/ attempt = "NONE"
          /\ payment' = [status |-> "PENDING", orderId |-> TRUE,
                         session |-> gatewayCode = "CASHFREE"]
          /\ attempt' = IF proc[p].attemptSeen THEN attempt ELSE "PENDING"
          /\ IF gatewayCode = "STUB"
             THEN proc' = [proc EXCEPT ![p].pc = "markPaid", ![p].respond = TRUE]
             ELSE Goto(p, "respond")
       \/ /\ payment.status \in ActiveCreateStatuses
          /\ ~proc[p].attemptSeen /\ attempt # "NONE"
          /\ Return(p)
          /\ UNCHANGED <<payment, attempt>>
       \/ /\ payment.status \notin ActiveCreateStatuses
          /\ Goto(p, "respond")
          /\ UNCHANGED <<payment, attempt>>
    /\ UNCHANGED <<credited, saved, outside>>

\* persistCreateIdempotency: the key's row is unique, a second insert throws.
Respond(p) ==
    /\ proc[p].pc = "respond"
    /\ saved' = IF proc[p].key = NoKey THEN saved ELSE saved \cup {proc[p].key}
    /\ Return(p)
    /\ UNCHANGED <<payment, attempt, credited, outside>>
-----------------------------------------------------------------------------
(* markPaymentPaid.                                                        *)

After(p) == IF proc[p].respond THEN Goto(p, "respond") ELSE Return(p)

\* Mutated form: only a CREATED payment is taken up.
MarkPaidRead_CreatedOnly(p) ==
    /\ proc[p].pc = "markPaid"
    /\ IF payment.status = "CREATED"
       THEN proc' = [proc EXCEPT ![p].pc = "commitPaid",
                                 ![p].attemptSeen = attempt # "NONE"]
       ELSE Return(p)
    /\ UNCHANGED <<stored, outside>>

\* The unlocked reads: a PAID payment is returned, one that cannot become PAID
\* is refused with 409, and the latest attempt is remembered.
MarkPaidRead(p) ==
    /\ proc[p].pc = "markPaid"
    /\ \/ /\ payment.status # "PAID" /\ CanTransitionPayment(payment.status, "PAID")
          /\ proc' = [proc EXCEPT ![p].pc = "commitPaid",
                                  ![p].attemptSeen = attempt # "NONE"]
       \/ payment.status = "PAID" /\ After(p)
       \/ ~CanTransitionPayment(payment.status, "PAID") /\ Return(p)
    /\ UNCHANGED <<stored, outside>>

\* Mutated form: the ledger entry is not created in the transaction.
MarkPaidCommit_NoLedger(p) ==
    /\ proc[p].pc = "commitPaid"
    /\ payment.status \in ActiveCreateStatuses
    /\ payment' = [payment EXCEPT !.status = "PAID"]
    /\ attempt' = "SUCCEEDED"
    /\ After(p)
    /\ UNCHANGED <<credited, saved, outside>>

\* Mutated form: the payment takes the attempt's status.
MarkPaidCommit_AttemptStatus(p) ==
    /\ proc[p].pc = "commitPaid"
    /\ payment.status \in ActiveCreateStatuses
    /\ payment' = [payment EXCEPT !.status = "SUCCEEDED"]
    /\ attempt' = "SUCCEEDED"
    /\ credited' = TRUE
    /\ After(p)
    /\ UNCHANGED <<saved, outside>>

\* The transaction: CREATED or PENDING -> PAID, the attempt SUCCEEDED, the
\* CUSTOMER_PAYMENT credit; or nothing, when another handler was first.
MarkPaidCommit(p) ==
    /\ proc[p].pc = "commitPaid"
    /\ \/ /\ payment.status \in ActiveCreateStatuses
          /\ payment' = [payment EXCEPT !.status = "PAID"]
          /\ attempt' = IF proc[p].attemptSeen THEN "SUCCEEDED" ELSE attempt
          /\ credited' = TRUE
          /\ After(p)
       \/ /\ payment.status = "PAID"
          /\ After(p)
          /\ UNCHANGED <<payment, attempt, credited>>
       \/ /\ payment.status \notin ActiveCreateStatuses \cup {"PAID"}
          /\ Return(p)
          /\ UNCHANGED <<payment, attempt, credited>>
    /\ UNCHANGED <<saved, outside>>
-----------------------------------------------------------------------------
(* markPaymentFailed: the payment first, its attempt in a second statement.*)

\* Mutated form: the update has no status condition.
MarkFailed_Unconditional(p) ==
    /\ proc[p].pc = "markFailed"
    /\ payment' = [payment EXCEPT !.status = "FAILED"]
    /\ Goto(p, "failAttempt")
    /\ UNCHANGED <<attempt, credited, saved, outside>>

MarkFailed(p) ==
    /\ proc[p].pc = "markFailed"
    /\ \/ /\ payment.status \in ActiveCreateStatuses
          /\ payment' = [payment EXCEPT !.status = "FAILED"]
          /\ Goto(p, "failAttempt")
       \/ /\ payment.status \notin ActiveCreateStatuses
          /\ Return(p)
          /\ UNCHANGED payment
    /\ UNCHANGED <<attempt, credited, saved, outside>>

FailAttempt(p) ==
    /\ proc[p].pc = "failAttempt"
    /\ attempt' = IF attempt = "NONE" THEN attempt ELSE "FAILED"
    /\ Return(p)
    /\ UNCHANGED <<payment, credited, saved, outside>>
-----------------------------------------------------------------------------
(* The payment webhooks: the payment is found by its order id.             *)

PaymentSuccessWebhook(p) ==
    /\ proc[p].pc = "idle"
    /\ "PAYMENT_SUCCESS" \in events
    /\ gatewayCode = "CASHFREE" /\ payment.orderId
    /\ proc' = [proc EXCEPT ![p] = [Idle EXCEPT !.pc = "markPaid"]]
    /\ UNCHANGED <<stored, outside>>

\* A payment already PAID ignores it.
PaymentFailedWebhook(p) ==
    /\ proc[p].pc = "idle"
    /\ "PAYMENT_FAILED" \in events
    /\ gatewayCode = "CASHFREE" /\ payment.orderId
    /\ payment.status # "PAID"
    /\ proc' = [proc EXCEPT ![p] = [Idle EXCEPT !.pc = "markFailed"]]
    /\ UNCHANGED <<stored, outside>>

Crash(p) ==
    /\ crashes < MaxCrashes
    /\ proc[p].pc # "idle"
    /\ crashes' = crashes + 1
    /\ Return(p)
    /\ UNCHANGED <<stored, gatewayCode, ready, order, events>>
-----------------------------------------------------------------------------
(* Outside the payment domain.                                             *)

\* The customer pays on the gateway's page, opened with the stored session.
CustomerPays ==
    /\ order = "active" /\ payment.session
    /\ order' = "paid"
    /\ events' = events \cup {"PAYMENT_SUCCESS"}
    /\ UNCHANGED <<stored, gatewayCode, ready, proc, crashes>>

\* A try fails or is dropped; the order stays open for another.
CustomerTryFails ==
    /\ order = "active" /\ payment.session
    /\ events' = events \cup {"PAYMENT_FAILED"}
    /\ UNCHANGED <<stored, gatewayCode, ready, proc, order, crashes>>

\* The delivery leaves OPTION_READY: confirmed or cancelled.
DeliveryMovesOn ==
    /\ ready' = FALSE
    /\ UNCHANGED <<stored, gatewayCode, proc, order, events, crashes>>
-----------------------------------------------------------------------------
Step(p) ==
    \/ CreatePayment(p)
    \/ CreatePaymentOrder(p)
    \/ FindAttempt(p)
    \/ StoreCheckout(p)
    \/ Respond(p)
    \/ MarkPaidRead(p)
    \/ MarkPaidCommit(p)
    \/ MarkFailed(p)
    \/ FailAttempt(p)

Next ==
    \/ \E p \in Proc :
          \/ Step(p)
          \/ Crash(p)
          \/ \E k \in Key \cup {NoKey} : CreateRequest(p, k)
          \/ PaymentSuccessWebhook(p)
          \/ PaymentFailedWebhook(p)
    \/ CustomerPays
    \/ CustomerTryFails
    \/ DeliveryMovesOn

Spec == Init /\ [][Next]_vars

\* Handlers keep running; the gateway redelivers a success webhook until it is
\* acknowledged. Customers owe nothing.
FairSpec ==
    /\ Spec
    /\ \A p \in Proc : SF_vars(Step(p))
    /\ SF_vars(\E p \in Proc : PaymentSuccessWebhook(p))
-----------------------------------------------------------------------------
(* Properties.                                                             *)

Pcs == {"idle", "create", "checkout", "findAttempt", "storeCheckout", "respond",
        "markPaid", "commitPaid", "markFailed", "failAttempt"}

Payments == [status : PaymentStatuses \cup {"NONE"}, orderId : BOOLEAN, session : BOOLEAN]

Handlers == [pc : Pcs, key : Key \cup {NoKey}, attemptSeen : BOOLEAN, respond : BOOLEAN]

\* Every variable has its type.
TypeOK ==
    /\ gatewayCode \in {"CASHFREE", "STUB"}
    /\ payment \in Payments
    /\ attempt \in {"NONE", "PENDING", "SUCCEEDED", "FAILED"}
    /\ ready \in BOOLEAN /\ credited \in BOOLEAN
    /\ saved \subseteq Key
    /\ proc \in [Proc -> Handlers]
    /\ order \in {"none", "active", "paid"}
    /\ events \subseteq {"PAYMENT_SUCCESS", "PAYMENT_FAILED"}
    /\ crashes \in 0 .. MaxCrashes

\* The payment row, its attempt and the ledger agree in every committed state: a
\* payment is PAID exactly when its capture is credited and its attempt succeeded,
\* and a CASHFREE payment is PAID only if the customer paid (markPaymentPaid).
CaptureIsConsistent ==
    /\ payment.status = "PAID" <=> credited
    /\ credited <=> attempt = "SUCCEEDED"
    /\ credited /\ gatewayCode = "CASHFREE" => order = "paid"

\* A checkout the customer can pay is one its webhook finds: a session is stored
\* only with the order id and attempt number 1 (ensureGatewayCheckout).
CheckoutIsWhole ==
    /\ payment.status = "PENDING" => payment.orderId
    /\ payment.orderId <=> attempt # "NONE"
    /\ payment.session => payment.orderId

\* However slow a checkout or a webhook is, a payment only moves along the table of
\* payment.transitions.ts: a late checkout never reopens a settled payment and a
\* late failure never overturns a paid one.
StatusFollowsTable ==
    [][payment.status # "NONE"
         => CanTransitionPayment(payment.status, payment'.status)]_vars

\* A captured order is answered: under redelivery its payment ends PAID, or was
\* already FAILED by an earlier try of the same order.
CaptureIsAnswered ==
    order = "paid" ~> payment.status \in {"PAID", "FAILED"}
-----------------------------------------------------------------------------
(* What makes the invariants above inductive (PaymentCollectionProofs).    *)

\* A success is reported only of an order that is paid; without a payment there is none.
EventsAreTrue ==
    /\ "PAYMENT_SUCCESS" \in events => order = "paid"
    /\ payment.status = "NONE" => payment = NoPayment

\* What a handler has seen, or is about to write, is still true however long it waits: an
\* attempt is never deleted, a paid order stays paid, a FAILED payment stays FAILED.
Knows(p) ==
    /\ proc[p].attemptSeen => attempt # "NONE"
    /\ proc[p].pc \in {"markPaid", "commitPaid"} =>
          /\ attempt # "NONE"
          /\ gatewayCode = "CASHFREE" => order = "paid"
    /\ proc[p].pc = "commitPaid" => proc[p].attemptSeen
    /\ proc[p].pc = "failAttempt" => payment.status = "FAILED"

HandlersKnow == \A p \in Proc : Knows(p)

IInv ==
    /\ TypeOK
    /\ CaptureIsConsistent
    /\ CheckoutIsWhole
    /\ EventsAreTrue
    /\ HandlersKnow
=============================================================================

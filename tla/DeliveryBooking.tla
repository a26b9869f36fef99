--------------------------- MODULE DeliveryBooking ---------------------------
(***************************************************************************)
(* One delivery from creation to pickup: OrchestrationService.orchestrate, *)
(* BookingService.confirm and CancellationService.cancel, run by concurrent*)
(* handlers that share nothing but the database and the provider.          *)
(*                                                                         *)
(* None of the three holds a lock across its awaits. What keeps them apart *)
(* is deliveryRepository.transitionStatus, an update conditional on the    *)
(* status it expects, and the unique (delivery, attempt) numbers. A step is*)
(* an awaited read, a statement or a committed transaction; consecutive    *)
(* reads are one step where a change between them changes nothing.         *)
(*                                                                         *)
(* The payment is here only as far as the three see it: PaymentCollection  *)
(* and PaymentRefund are about its insides. An Idempotency-Key that was    *)
(* saved replays its response and changes nothing; it is left out.         *)
(*                                                                         *)
(* Attempts go to a provider that keeps orders (Shiprocket). The adapter   *)
(* numbers an order by the delivery's reference and looks for it before it *)
(* creates one, so that all attempts share one order there.                *)
(***************************************************************************)
EXTENDS DeliveryTransitions, Integers, FiniteSets

CONSTANTS
    Proc,         \* request handlers
    MaxBookings,  \* booking attempts of the delivery (bound)
    MaxCancels,   \* cancellation records of the delivery (bound)
    MaxCrashes    \* how many handlers may die (bound)

ASSUME BookingAssumption ==
    MaxBookings \in Nat \ {0} /\ MaxCancels \in Nat \ {0} /\ MaxCrashes \in Nat

VARIABLES
    delivery,      \* Delivery.status
    booking,       \* the status of each ProviderBooking attempt, or NONE
    orderKnown,    \* the attempts whose providerOrderId is stored
    cancellation,  \* the status of each DeliveryCancellation, or NONE
    payment,       \* of the delivery: NONE, PENDING, PAID or REFUNDED
    proc,          \* the handlers
    provider,      \* external: the delivery's order there: none, live or cancelled
    crashes        \* handlers that died so far

vars == <<delivery, booking, orderKnown, cancellation, payment, proc, provider,
          crashes>>
bookings == <<booking, orderKnown>>

Attempt == 1 .. MaxBookings
Cancel == 1 .. MaxCancels
Idle == [pc |-> "idle", n |-> 0, from |-> "CREATED", outcome |-> "NONE"]

\* The number of the latest row, and of the next one, of a numbered table.
Latest(row, Number) == Cardinality({n \in Number : row[n] # "NONE"})
LatestBooking == Latest(booking, Attempt)
LatestCancellation == Latest(cancellation, Cancel)

Goto(p, pc) == proc' = [proc EXCEPT ![p].pc = pc]
GotoWith(p, pc, n) == proc' = [proc EXCEPT ![p].pc = pc, ![p].n = n]
Return(p) == proc' = [proc EXCEPT ![p] = Idle]

\* transitionStatus(expectedFrom -> to): whether it applies, and what it does.
TransitionStatus(expectedFrom, to) ==
    delivery' = IF delivery \in expectedFrom THEN to ELSE delivery

Init ==
    /\ delivery = "CREATED"
    /\ booking = [n \in Attempt |-> "NONE"]
    /\ orderKnown = {}
    /\ cancellation = [n \in Cancel |-> "NONE"]
    /\ payment = "NONE"
    /\ proc = [p \in Proc |-> Idle]
    /\ provider = "none"
    /\ crashes = 0
-----------------------------------------------------------------------------
(* orchestrate.                                                            *)

\* The first transaction: CREATED or FAILED -> ORCHESTRATING, or 409.
Orchestrate(p) ==
    /\ proc[p].pc = "idle"
    /\ delivery \in {"CREATED", "FAILED"}
    /\ delivery' = "ORCHESTRATING"
    /\ Goto(p, "runOrchestration")
    /\ UNCHANGED <<bookings, cancellation, payment, provider, crashes>>

\* Mutated form: the result is stored whatever became of the delivery.
RunOrchestration_Unconditional(p) ==
    /\ proc[p].pc = "runOrchestration"
    /\ delivery' \in {"OPTION_READY", "FAILED"}
    /\ Return(p)
    /\ UNCHANGED <<bookings, cancellation, payment, provider, crashes>>

\* runOrchestration, which ends in a transaction that needs ORCHESTRATING; it
\* throws when that is gone, or at any await before.
RunOrchestration(p) ==
    /\ proc[p].pc = "runOrchestration"
    /\ \/ /\ delivery = "ORCHESTRATING"
          /\ delivery' \in {"OPTION_READY", "FAILED"}
          /\ Return(p)
       \/ /\ Goto(p, "failOrchestration")
          /\ UNCHANGED delivery
    /\ UNCHANGED <<bookings, cancellation, payment, provider, crashes>>

\* failOrchestrationSafely, best effort.
FailOrchestration(p) ==
    /\ proc[p].pc = "failOrchestration"
    /\ TransitionStatus({"ORCHESTRATING"}, "FAILED") \/ UNCHANGED delivery
    /\ Return(p)
    /\ UNCHANGED <<bookings, cancellation, payment, provider, crashes>>
-----------------------------------------------------------------------------
(* confirm.                                                                *)

\* The reads up to the booking checks. A BOOKED attempt is returned, one in
\* progress is refused, one that is UNKNOWN is reconciled when its order is
\* known. The delivery read here is checked again by StartBooking.
Confirm(p) ==
    /\ proc[p].pc = "idle"
    /\ \A n \in Attempt : booking[n] # "BOOKED"
    /\ \/ /\ LatestBooking \in orderKnown
          /\ booking[LatestBooking] = "UNKNOWN"
          /\ GotoWith(p, "getBooking", LatestBooking)
       \/ /\ \A n \in Attempt : booking[n] \notin {"BOOKING", "UNKNOWN"}
          /\ delivery = "OPTION_READY"
          /\ Goto(p, "checkPayment")
    /\ UNCHANGED <<delivery, bookings, cancellation, payment, provider, crashes>>

\* The payment must be PAID; then provider, quote and policy checks, which may
\* refuse and change nothing.
CheckPayment(p) ==
    /\ proc[p].pc = "checkPayment"
    /\ \/ payment = "PAID" /\ Goto(p, "countBookings")
       \/ Return(p)
    /\ UNCHANGED <<delivery, bookings, cancellation, payment, provider, crashes>>

\* getNextAttemptNumber, outside the transaction that uses it.
CountBookings(p) ==
    /\ proc[p].pc = "countBookings"
    /\ LatestBooking < MaxBookings
    /\ GotoWith(p, "startBooking", LatestBooking + 1)
    /\ UNCHANGED <<delivery, bookings, cancellation, payment, provider, crashes>>

\* Mutated form: the transition does not expect OPTION_READY.
StartBooking_AnyStatus(p) ==
    /\ proc[p].pc = "startBooking"
    /\ booking[proc[p].n] = "NONE"
    /\ delivery' = "BOOKING"
    /\ booking' = [booking EXCEPT ![proc[p].n] = "BOOKING"]
    /\ Goto(p, "createBooking")
    /\ UNCHANGED <<orderKnown, cancellation, payment, provider, crashes>>

\* OPTION_READY -> BOOKING and the attempt's row, or neither: the transition
\* finds another status, or the number is taken.
StartBooking(p) ==
    /\ proc[p].pc = "startBooking"
    /\ \/ /\ delivery = "OPTION_READY" /\ booking[proc[p].n] = "NONE"
          /\ delivery' = "BOOKING"
          /\ booking' = [booking EXCEPT ![proc[p].n] = "BOOKING"]
          /\ Goto(p, "createBooking")
       \/ /\ delivery # "OPTION_READY" \/ booking[proc[p].n] # "NONE"
          /\ Return(p)
          /\ UNCHANGED <<delivery, booking>>
    /\ UNCHANGED <<orderKnown, cancellation, payment, provider, crashes>>

\* The provider's createBooking: look the order up, create it, assign it an AWB.
\* An error is UNKNOWN or FAILED by its category alone: a lookup that is refused
\* (401, 403) after the creation timed out is FAILED, whatever became of the order.
CreateBooking(p) ==
    LET Answer(outcome) ==
            proc' = [proc EXCEPT ![p].pc = "finalizeBooking", ![p].outcome = outcome]
    IN  /\ proc[p].pc = "createBooking"
        /\ \/ Answer("BOOKED") /\ provider' = "live"
           \/ /\ Answer("FAILED") \/ Answer("UNKNOWN")
              /\ provider' \in {provider, "live"}
        /\ UNCHANGED <<delivery, bookings, cancellation, payment, crashes>>

\* tryReconcileUnknownBooking: the provider's getBooking shows the booking, or
\* nothing that settles it.
GetBooking(p) ==
    /\ proc[p].pc = "getBooking"
    /\ \/ /\ provider = "live"
          /\ proc' = [proc EXCEPT ![p].pc = "finalizeBooking", ![p].outcome = "BOOKED"]
       \/ Return(p)
    /\ UNCHANGED <<delivery, bookings, cancellation, payment, provider, crashes>>

\* Mutated form: the delivery is not moved with the booking.
FinalizeBooking_BookingOnly(p) ==
    /\ proc[p].pc = "finalizeBooking"
    /\ booking' = [booking EXCEPT ![proc[p].n] = proc[p].outcome]
    /\ UNCHANGED <<delivery, orderKnown>>
    /\ Return(p)
    /\ UNCHANGED <<cancellation, payment, provider, crashes>>

\* Mutated form: the delivery takes the booking's status as it is.
FinalizeBooking_SameStatus(p) ==
    /\ proc[p].pc = "finalizeBooking"
    /\ booking' = [booking EXCEPT ![proc[p].n] = proc[p].outcome]
    /\ TransitionStatus({"BOOKING"}, proc[p].outcome)
    /\ UNCHANGED orderKnown
    /\ Return(p)
    /\ UNCHANGED <<cancellation, payment, provider, crashes>>

\* finalizeBookingAttempt, one transaction: the attempt takes the outcome and,
\* when that is definite, the delivery leaves BOOKING if it is still there.
\* An UNKNOWN attempt may or may not have an order id to reconcile it by.
FinalizeBooking(p) ==
    LET n == proc[p].n
        outcome == proc[p].outcome
    IN  /\ proc[p].pc = "finalizeBooking"
        /\ booking' = [booking EXCEPT ![n] = outcome]
        /\ orderKnown' \in CASE outcome = "BOOKED" -> {orderKnown \cup {n}}
                             [] outcome = "UNKNOWN" -> {orderKnown, orderKnown \cup {n}}
                             [] outcome = "FAILED" -> {orderKnown}
        /\ IF outcome = "UNKNOWN" THEN UNCHANGED delivery
           ELSE TransitionStatus({"BOOKING"}, outcome)
        /\ Return(p)
        /\ UNCHANGED <<cancellation, payment, provider, crashes>>
-----------------------------------------------------------------------------
(* cancel.                                                                 *)

\* Mutated form: any cancellable status is cancelled locally.
CanCancelLocally_Always(status) == status \in CancellableStatuses

\* canCancelWithBooking: before booking the cancellation is local, afterwards
\* the latest booking must be BOOKED.
CanCancelLocally(status) == status \in {"CREATED", "ORCHESTRATING", "OPTION_READY"}

CanCancelAtProvider(status) ==
    /\ status \in CancellableStatuses /\ ~CanCancelLocally(status)
    /\ LatestBooking > 0 /\ booking[LatestBooking] = "BOOKED"

\* The delivery and its latest booking, which the checks then use.
CancelRequest(p) ==
    /\ proc[p].pc = "idle"
    /\ CanCancelLocally(delivery) \/ CanCancelAtProvider(delivery)
    /\ proc' = [proc EXCEPT ![p] =
                    [Idle EXCEPT !.pc = "checkUnknown", !.from = delivery]]
    /\ UNCHANGED <<delivery, bookings, cancellation, payment, provider, crashes>>

\* A latest cancellation that is UNKNOWN blocks the next one.
CheckUnknown(p) ==
    /\ proc[p].pc = "checkUnknown"
    /\ IF LatestCancellation > 0 /\ cancellation[LatestCancellation] = "UNKNOWN"
       THEN Return(p)
       ELSE Goto(p, "checkProcessing")
    /\ UNCHANGED <<delivery, bookings, cancellation, payment, provider, crashes>>

\* So does one that is PROCESSING.
CheckProcessing(p) ==
    /\ proc[p].pc = "checkProcessing"
    /\ IF \E n \in Cancel : cancellation[n] = "PROCESSING"
       THEN Return(p)
       ELSE Goto(p, "countCancellations")
    /\ UNCHANGED <<delivery, bookings, cancellation, payment, provider, crashes>>

\* getNextAttemptNumber.
CountCancellations(p) ==
    /\ proc[p].pc = "countCancellations"
    /\ LatestCancellation < MaxCancels
    /\ GotoWith(p, "createCancellation", LatestCancellation + 1)
    /\ UNCHANGED <<delivery, bookings, cancellation, payment, provider, crashes>>

\* The PROCESSING record; its number is unique, a second insert throws.
CreateCancellation(p) ==
    LET n == proc[p].n
    IN  /\ proc[p].pc = "createCancellation"
        /\ \/ /\ cancellation[n] = "NONE"
              /\ cancellation' = [cancellation EXCEPT ![n] = "PROCESSING"]
              /\ IF CanCancelLocally(proc[p].from)
                 THEN proc' = [proc EXCEPT ![p].pc = "finalizeCancellation",
                                           ![p].outcome = "CANCELLED"]
                 ELSE Goto(p, "cancelBooking")
           \/ /\ cancellation[n] # "NONE"
              /\ Return(p)
              /\ UNCHANGED cancellation
        /\ UNCHANGED <<delivery, bookings, payment, provider, crashes>>

\* The provider's cancelBooking of the booking read before, which is still the
\* latest. It cancels, refuses, or leaves it unknown which.
CancelBooking(p) ==
    LET Answer(outcome) == proc' = [proc EXCEPT ![p].pc = "finalizeCancellation",
                                                ![p].outcome = outcome]
    IN  /\ proc[p].pc = "cancelBooking"
        /\ \/ Answer("CANCELLED") /\ provider' = "cancelled"
           \/ Answer("REJECTED") /\ UNCHANGED provider
           \/ Answer("UNKNOWN") /\ provider' \in {provider, "cancelled"}
        /\ UNCHANGED <<delivery, bookings, cancellation, payment, crashes>>

\* The record takes the outcome. Unless that is CANCELLED the call ends here.
FinalizeCancellation(p) ==
    /\ proc[p].pc = "finalizeCancellation"
    /\ cancellation' = [cancellation EXCEPT ![proc[p].n] = proc[p].outcome]
    /\ IF proc[p].outcome = "CANCELLED" THEN Goto(p, "cancelDelivery") ELSE Return(p)
    /\ UNCHANGED <<delivery, bookings, payment, provider, crashes>>

\* lifecycle.transition from the status read at the start. Its null result, for
\* a delivery that has moved since, is not looked at.
CancelDelivery(p) ==
    /\ proc[p].pc = "cancelDelivery"
    /\ CanTransitionDelivery(proc[p].from, "CANCELLED")
    /\ TransitionStatus({proc[p].from}, "CANCELLED")
    /\ Goto(p, "refund")
    /\ UNCHANGED <<bookings, cancellation, payment, provider, crashes>>

\* refundPrepaidAfterCancellation: what remains of a PAID payment. A refund
\* that fails is reported and leaves the cancellation as it is.
RefundPrepaid(p) ==
    /\ proc[p].pc = "refund"
    /\ payment' \in IF payment = "PAID" THEN {"PAID", "REFUNDED"} ELSE {payment}
    /\ Return(p)
    /\ UNCHANGED <<delivery, bookings, cancellation, provider, crashes>>

\* A handler dies; nothing is open across its steps.
Crash(p) ==
    /\ crashes < MaxCrashes
    /\ proc[p].pc # "idle"
    /\ crashes' = crashes + 1
    /\ Return(p)
    /\ UNCHANGED <<delivery, bookings, cancellation, payment, provider>>
-----------------------------------------------------------------------------
(* Payment and operations, as confirm and cancel see them.                 *)

\* createPaymentForDelivery of a delivery that is OPTION_READY.
CreatePayment ==
    /\ delivery = "OPTION_READY" /\ payment = "NONE"
    /\ payment' = "PENDING"
    /\ UNCHANGED <<delivery, bookings, cancellation, proc, provider, crashes>>

\* markPaymentPaid, whenever the capture is reported.
CapturePayment ==
    /\ payment = "PENDING"
    /\ payment' = "PAID"
    /\ UNCHANGED <<delivery, bookings, cancellation, proc, provider, crashes>>

\* The driver is assigned and picks up (up to there a delivery can be cancelled).
Operate ==
    /\ delivery \in {"BOOKED", "DRIVER_ASSIGNED", "PICKUP_OTP_PENDING"}
    /\ delivery' \in {"DRIVER_ASSIGNED", "PICKUP_OTP_PENDING", "PICKED_UP"}
    /\ delivery' # delivery /\ CanTransitionDelivery(delivery, delivery')
    /\ UNCHANGED <<bookings, cancellation, payment, proc, provider, crashes>>
-----------------------------------------------------------------------------
Step(p) ==
    \/ RunOrchestration(p)
    \/ FailOrchestration(p)
    \/ CheckPayment(p)
    \/ CountBookings(p)
    \/ StartBooking(p)
    \/ CreateBooking(p)
    \/ GetBooking(p)
    \/ FinalizeBooking(p)
    \/ CheckUnknown(p)
    \/ CheckProcessing(p)
    \/ CountCancellations(p)
    \/ CreateCancellation(p)
    \/ CancelBooking(p)
    \/ FinalizeCancellation(p)
    \/ CancelDelivery(p)
    \/ RefundPrepaid(p)

Next ==
    \/ \E p \in Proc :
          \/ Step(p)
          \/ Orchestrate(p)
          \/ Confirm(p)
          \/ CancelRequest(p)
          \/ Crash(p)
    \/ CreatePayment
    \/ CapturePayment
    \/ Operate

Spec == Init /\ [][Next]_vars

\* A started handler keeps running. Nobody owes a request.
FairSpec == Spec /\ \A p \in Proc : WF_vars(Step(p))
-----------------------------------------------------------------------------
(* Properties.                                                             *)

Pcs == {"idle", "runOrchestration", "failOrchestration", "checkPayment",
        "countBookings", "startBooking", "createBooking", "getBooking",
        "finalizeBooking", "checkUnknown", "checkProcessing",
        "countCancellations", "createCancellation", "cancelBooking",
        "finalizeCancellation", "cancelDelivery", "refund"}

BookingStatuses == {"BOOKING", "BOOKED", "UNKNOWN", "FAILED"}
CancellationStatuses == {"PROCESSING", "CANCELLED", "UNKNOWN", "REJECTED"}

Handlers == [pc : Pcs, n : 0 .. MaxBookings + MaxCancels, from : DeliveryStatuses,
             outcome : {"NONE", "BOOKED", "FAILED", "UNKNOWN", "CANCELLED", "REJECTED"}]

\* Every variable has its type.
TypeOK ==
    /\ delivery \in DeliveryStatuses
    /\ booking \in [Attempt -> BookingStatuses \cup {"NONE"}]
    /\ orderKnown \subseteq Attempt
    /\ cancellation \in [Cancel -> CancellationStatuses \cup {"NONE"}]
    /\ payment \in {"NONE", "PENDING", "PAID", "REFUNDED"}
    /\ proc \in [Proc -> Handlers]
    /\ provider \in {"none", "live", "cancelled"}
    /\ crashes \in 0 .. MaxCrashes

\* A delivery and its latest booking attempt agree in every committed state: it is
\* BOOKING exactly while an attempt is in progress or unresolved, and past BOOKING
\* only with a BOOKED one (finalizeBookingAttempt, StartBooking's transaction).
BookingBacksDelivery ==
    /\ delivery = "BOOKING" <=>
          \E n \in Attempt : booking[n] \in {"BOOKING", "UNKNOWN"}
    /\ delivery \in {"BOOKED", "DRIVER_ASSIGNED", "PICKUP_OTP_PENDING", "PICKED_UP"} =>
          LatestBooking > 0 /\ booking[LatestBooking] = "BOOKED"
    /\ \A n \in Attempt :
          booking[n] \in {"BOOKING", "UNKNOWN", "BOOKED"} => n = LatestBooking

\* The provider is asked for an order by one handler at a time, for a delivery that
\* is still BOOKING, and never while another attempt is in progress, UNKNOWN or
\* BOOKED (README.md:364, "UNKNOWN outcomes do not trigger automatic create-order
\* retry"), however confirms, failures, new orchestrations and crashes interleave.
OneBookingInFlight ==
    \A p \in Proc : proc[p].pc = "createBooking" =>
        /\ delivery = "BOOKING"
        /\ booking[proc[p].n] = "BOOKING"
        /\ \A n \in Attempt \ {proc[p].n} : booking[n] \in {"NONE", "FAILED"}
        /\ \A q \in Proc \ {p} : proc[q].pc # "createBooking"

\* A delivery that is CANCELLED has no live order at the provider, unless one of
\* its attempts FAILED (see FailedMeansRejected), and nobody is about to make one.
CancelledIsReleased ==
    delivery = "CANCELLED" =>
        /\ provider = "live" => \E n \in Attempt : booking[n] = "FAILED"
        /\ \A p \in Proc : proc[p].pc # "createBooking"

\* The delivery only moves along delivery.transitions.ts, although orchestrate and
\* confirm write its status without consulting the table; the one exception is a
\* FAILED delivery, which orchestrate takes up again.
FollowsTransitionTable ==
    [][\/ CanTransitionDelivery(delivery, delivery')
       \/ delivery = "FAILED" /\ delivery' = "ORCHESTRATING"]_delivery

\* A delivery does not stay BOOKING unless the provider's answer is unknown or its
\* handler died.
BookingSettles ==
    delivery = "BOOKING" ~>
        \/ delivery # "BOOKING"
        \/ \E n \in Attempt : booking[n] = "UNKNOWN"
        \/ crashes > 0

\* A prepaid amount is refunded only for a delivery that is cancelled
\* (docs/cashfree-sandbox-payment-refund-report.md: "refunds 100% remaining prepaid
\* after successful pre-pickup cancel"). FALSE of the code: see README.
RefundedMeansCancelled == payment = "REFUNDED" => delivery = "CANCELLED"

\* A delivery that FAILED has no order at the provider (README.md:354: "FAILED
\* (confirmed provider rejection)"). FALSE of the code: see README.
FailedMeansRejected == delivery = "FAILED" => provider # "live"
-----------------------------------------------------------------------------
(* The inductive invariant of the proofs.                                  *)

\* The numbers of a table are given without gaps, so that its latest row is the one with
\* the largest number.
Gapless(row, Number) ==
    \A n \in Number : row[n] # "NONE" <=> n <= Latest(row, Number)

\* Before an attempt is in progress none is but FAILED ones; a BOOKED attempt takes the
\* delivery past BOOKING for good; an order is made by an attempt.
AttemptsFitDelivery ==
    /\ delivery \in {"CREATED", "ORCHESTRATING", "OPTION_READY", "FAILED"} =>
          \A n \in Attempt : booking[n] \in {"NONE", "FAILED"}
    /\ provider # "none" => \E n \in Attempt : booking[n] # "NONE"

\* The handler that booking n waits for.
Books(p) ==
    /\ proc[p].pc \in {"createBooking", "finalizeBooking"}
    /\ booking[proc[p].n] = "BOOKING"

\* What a confirming handler knows of its attempt when it takes its next step.
ConfirmKnows(p) ==
    /\ proc[p].pc = "startBooking" =>
          proc[p].n \in Attempt /\ proc[p].n <= LatestBooking + 1
    /\ proc[p].pc \in {"createBooking", "getBooking", "finalizeBooking"} =>
          proc[p].n \in Attempt
    /\ proc[p].pc = "createBooking" => booking[proc[p].n] = "BOOKING"
    /\ proc[p].pc = "getBooking" => booking[proc[p].n] \in {"UNKNOWN", "BOOKED"}
    /\ proc[p].pc = "finalizeBooking" =>
          \/ /\ booking[proc[p].n] = "BOOKING"
             /\ proc[p].outcome \in {"BOOKED", "FAILED", "UNKNOWN"}
          \/ /\ booking[proc[p].n] \in {"UNKNOWN", "BOOKED"}
             /\ proc[p].outcome = "BOOKED"

\* What a cancelling handler knows of its record, and, when it did not find the delivery
\* before its booking, of the booking and its order.
CancelKnows(p) ==
    /\ proc[p].pc = "createCancellation" =>
          proc[p].n \in Cancel /\ proc[p].n <= LatestCancellation + 1
    /\ proc[p].pc = "cancelBooking" => ~CanCancelLocally(proc[p].from)
    /\ proc[p].pc \in {"cancelBooking", "finalizeCancellation"} =>
          proc[p].n \in Cancel /\ cancellation[proc[p].n] # "NONE"
    /\ proc[p].pc = "finalizeCancellation" =>
          proc[p].outcome \in {"CANCELLED", "REJECTED", "UNKNOWN"}
    /\ /\ ~CanCancelLocally(proc[p].from)
       /\ proc[p].pc \in {"checkUnknown", "checkProcessing", "countCancellations",
                          "createCancellation", "cancelBooking",
                          "finalizeCancellation", "cancelDelivery"}
       => \E n \in Attempt : booking[n] = "BOOKED"
    /\ /\ ~CanCancelLocally(proc[p].from)
       /\ \/ proc[p].pc = "finalizeCancellation" /\ proc[p].outcome = "CANCELLED"
          \/ proc[p].pc = "cancelDelivery"
       => provider = "cancelled"

IInv ==
    /\ TypeOK
    /\ Gapless(booking, Attempt) /\ Gapless(cancellation, Cancel)
    /\ BookingBacksDelivery
    /\ AttemptsFitDelivery
    /\ \A p, q \in Proc : Books(p) /\ Books(q) => p = q
    /\ \A p \in Proc : ConfirmKnows(p) /\ CancelKnows(p)
    /\ CancelledIsReleased
=============================================================================

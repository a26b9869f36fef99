---------------------------- MODULE ConfirmPricing ----------------------------
(***************************************************************************)
(* The price of one delivery on its way from the provider's quote to the    *)
(* option, the payment, the gateway's order and the booking: orchestrate,   *)
(* createPaymentForDelivery and confirm by concurrent handlers, while the   *)
(* provider's price moves and quotes grow old. A handler is a process, a     *)
(* statement that others can see is a step, and a handler may end between    *)
(* any two. Amounts are the provider's: what the customer pays is computed  *)
(* from them with one platform fee, which is not part of this module.       *)
(***************************************************************************)
EXTENDS Integers, Sequences

CONSTANTS
    Null,
    Proc,               \* handlers
    Prices,             \* what the provider may ask
    TolerancePercent,   \* bookingPolicies.priceTolerancePercent
    MaxAge,             \* bookingPolicies.quoteMaxAgeSeconds, in ticks
    MaxTime, MaxOptions, MaxBookings, MaxCrashes    \* bounds

Payments == [status : {"CREATED", "PENDING", "PAID"}, amount : Prices,
             attempt : Prices \cup {Null}]

PricingAssumption ==
    /\ Prices \subseteq Nat \ {0} /\ TolerancePercent \in Nat /\ MaxTime \in Nat
    /\ Null \notin Prices /\ Null \notin Payments

VARIABLES
    now,
    price,      \* external: what the provider asks now
    delivery,   \* Delivery.status
    options,    \* the selected options of the completed orchestrations, oldest first
    payment,    \* the Payment row with the amount of its attempt, or Null
    order,      \* external: the amount of the gateway's order, or Null
    bookings,   \* ProviderBooking rows, oldest first
    proc,       \* the handlers
    crashes     \* handlers that ended early so far

rows == <<delivery, options, payment, bookings>>
outside == <<now, price, order>>
vars == <<rows, outside, proc, crashes>>

-----------------------------------------------------------------------------
(* booking.quote-freshness.                                                *)

isQuoteStale(quotedAt) == now - quotedAt > MaxAge

\* Mutated form: only a rise is a change.
hasMaterialPriceChange_Rise(original, new) ==
    (original - new) * 100 > original * TolerancePercent

\* A difference either way of more than the tolerance.
hasMaterialPriceChange(original, new) ==
    LET diff == IF new > original THEN new - original ELSE original - new
    IN  diff * 100 > original * TolerancePercent

-----------------------------------------------------------------------------
Idle == [pc |-> "idle", option |-> Null, amount |-> Null, number |-> Null]
Goto(p, pc) == proc' = [proc EXCEPT ![p].pc = pc]
Return(p) == proc' = [proc EXCEPT ![p] = Idle]

Init ==
    /\ now = 0 /\ price \in Prices
    /\ delivery = "CREATED" /\ options = << >> /\ payment = Null /\ bookings = << >>
    /\ order = Null
    /\ proc = [p \in Proc |-> Idle]
    /\ crashes = 0

Tick ==
    /\ now < MaxTime /\ now' = now + 1
    /\ UNCHANGED <<rows, price, order, proc, crashes>>

MovePrice(x) ==
    /\ x # price /\ price' = x
    /\ UNCHANGED <<rows, now, order, proc, crashes>>

Crash(p) ==
    /\ proc[p].pc # "idle" /\ crashes < MaxCrashes
    /\ crashes' = crashes + 1 /\ Return(p)
    /\ UNCHANGED <<rows, outside>>

-----------------------------------------------------------------------------
(* orchestrate.                                                            *)

\* Mutated form: a delivery with an option may be orchestrated again.
Orchestrate_Again(p) ==
    /\ proc[p].pc = "idle" /\ delivery \in {"CREATED", "FAILED", "OPTION_READY"}
    /\ delivery' = "ORCHESTRATING" /\ Goto(p, "quote")
    /\ UNCHANGED <<options, payment, bookings, outside, crashes>>

\* A delivery with an option answers that option; CREATED and FAILED ones are
\* orchestrated; others are refused.
Orchestrate(p) ==
    /\ proc[p].pc = "idle"
    /\ \/ delivery = "OPTION_READY" /\ UNCHANGED <<delivery, proc>>
       \/ /\ delivery \in {"CREATED", "FAILED"}
          /\ delivery' = "ORCHESTRATING" /\ Goto(p, "quote")
    /\ UNCHANGED <<options, payment, bookings, outside, crashes>>

\* runOrchestration: the provider quotes, and the option is stored with the end of the
\* run; or no provider was eligible.
RunOrchestration(p) ==
    /\ proc[p].pc = "quote" /\ delivery = "ORCHESTRATING"
    /\ \/ /\ Len(options) < MaxOptions
          /\ delivery' = "OPTION_READY"
          /\ options' = Append(options, [amount |-> price, quotedAt |-> now])
       \/ delivery' = "FAILED" /\ UNCHANGED options
    /\ Return(p)
    /\ UNCHANGED <<payment, bookings, outside, crashes>>

-----------------------------------------------------------------------------
(* createPaymentForDelivery and the webhook that captures the payment.     *)

\* The delivery has an option: its amount is the payment's.
resolveAuthoritativePricing(p) ==
    /\ proc[p].pc = "idle" /\ delivery = "OPTION_READY"
    /\ proc' = [proc EXCEPT ![p] =
           [Idle EXCEPT !.pc = "findPayment", !.amount = options[Len(options)].amount]]
    /\ UNCHANGED <<rows, outside, crashes>>

\* findByDeliveryId, then the row, unless there is one; the delivery is unique in it.
CreatePayment(p) ==
    /\ proc[p].pc = "findPayment"
    /\ IF payment = Null
       THEN payment' = [status |-> "CREATED", amount |-> proc[p].amount, attempt |-> Null]
            /\ Goto(p, "order")
       ELSE /\ IF payment.status = "CREATED" THEN Goto(p, "order") ELSE Return(p)
            /\ UNCHANGED payment
    /\ UNCHANGED <<delivery, options, bookings, outside, crashes>>

\* ensureGatewayCheckout: an order with the amount of this request; the gateway keeps
\* the one it has.
CreatePaymentOrder(p) ==
    /\ proc[p].pc = "order"
    /\ order' = IF order = Null THEN proc[p].amount ELSE order
    /\ Goto(p, "checkout")
    /\ UNCHANGED <<rows, now, price, crashes>>

StoreCheckout(p) ==
    /\ proc[p].pc = "checkout"
    /\ payment' = IF payment.status \notin {"CREATED", "PENDING"} THEN payment
                  ELSE [payment EXCEPT !.status = "PENDING",
                            !.attempt = IF @ = Null THEN proc[p].amount ELSE @]
    /\ Return(p)
    /\ UNCHANGED <<delivery, options, bookings, outside, crashes>>

\* The webhook of a paid order: its amount has to be the payment's.
Capture ==
    /\ payment # Null /\ payment.status = "PENDING" /\ order = payment.amount
    /\ payment' = [payment EXCEPT !.status = "PAID"]
    /\ UNCHANGED <<delivery, options, bookings, outside, proc, crashes>>

-----------------------------------------------------------------------------
(* confirm.                                                                *)

\* The checks of the delivery, its bookings and its payment, and the option as it is now.
Confirm(p) ==
    /\ proc[p].pc = "idle" /\ delivery = "OPTION_READY"
    /\ \A i \in DOMAIN bookings : bookings[i].status = "FAILED"
    /\ payment # Null /\ payment.status = "PAID"
    /\ proc' = [proc EXCEPT ![p] = [Idle EXCEPT !.pc = "fresh", !.option = Len(options),
                                                !.amount = options[Len(options)].amount]]
    /\ UNCHANGED <<rows, outside, crashes>>

\* A stale quote is asked again, of a provider that supports quotes. The provider may
\* have none, which ends the request; a material change does so too, with a 409; else the
\* new amount is the one that is booked.
Freshen(p) ==
    LET quoted == options[proc[p].option]
    IN  /\ proc[p].pc = "fresh"
        /\ \E providerSupportsQuote \in BOOLEAN :
           LET asks == isQuoteStale(quoted.quotedAt) /\ providerSupportsQuote IN
           \/ ~asks /\ Goto(p, "count")
           \/ asks /\ Return(p)
           \/ /\ asks
              /\ ~hasMaterialPriceChange(quoted.amount, price)
              /\ proc' = [proc EXCEPT ![p].pc = "count", ![p].amount = price]
        /\ UNCHANGED <<rows, outside, crashes>>

\* getNextAttemptNumber, outside the transaction that uses it.
CountBookings(p) ==
    /\ proc[p].pc = "count" /\ Len(bookings) < MaxBookings
    /\ proc' = [proc EXCEPT ![p].pc = "start", ![p].number = Len(bookings) + 1]
    /\ UNCHANGED <<rows, outside, crashes>>

\* The first transaction: OPTION_READY -> BOOKING and the row with the amount, or 409;
\* the attempt number is unique.
StartBooking(p) ==
    /\ proc[p].pc = "start"
    /\ IF delivery = "OPTION_READY" /\ proc[p].number = Len(bookings) + 1
       THEN /\ delivery' = "BOOKING"
            /\ bookings' = Append(bookings, [option |-> proc[p].option, amount |-> proc[p].amount,
                                             status |-> "BOOKING"])
            /\ Goto(p, "finalize")
       ELSE Return(p) /\ UNCHANGED <<delivery, bookings>>
    /\ UNCHANGED <<options, payment, outside, crashes>>

\* The provider's answer, and finalizeBookingAttempt.
FinalizeBooking(p, outcome) ==
    /\ proc[p].pc = "finalize"
    /\ bookings' = [bookings EXCEPT ![proc[p].number].status = outcome]
    /\ delivery' = IF outcome = "UNKNOWN" THEN "BOOKING" ELSE outcome
    /\ Return(p)
    /\ UNCHANGED <<options, payment, outside, crashes>>

Next ==
    \/ Tick \/ Capture
    \/ \E x \in Prices : MovePrice(x)
    \/ \E p \in Proc :
        \/ Orchestrate(p) \/ RunOrchestration(p)
        \/ resolveAuthoritativePricing(p) \/ CreatePayment(p) \/ CreatePaymentOrder(p)
        \/ StoreCheckout(p)
        \/ Confirm(p) \/ Freshen(p) \/ CountBookings(p) \/ StartBooking(p)
        \/ \E outcome \in {"BOOKED", "FAILED", "UNKNOWN"} : FinalizeBooking(p, outcome)
        \/ Crash(p)

Spec == Init /\ [][Next]_vars
-----------------------------------------------------------------------------
(* Properties.                                                             *)

\* Type invariant.
TypeOK ==
    /\ now \in 0 .. MaxTime /\ price \in Prices
    /\ delivery \in {"CREATED", "ORCHESTRATING", "OPTION_READY", "BOOKING", "BOOKED", "FAILED"}
    /\ \A i \in DOMAIN options : options[i].amount \in Prices /\ options[i].quotedAt \in 0 .. now
    /\ payment # Null => payment.status \in {"CREATED", "PENDING", "PAID"}
    /\ \A i \in DOMAIN bookings : bookings[i].option \in DOMAIN options /\ bookings[i].amount \in Prices

\* The gateway collects the amount of the payment: the order, and the attempt, of a
\* checkout that another request completes later have the amount the row was created
\* with, so the webhook's amount matches.
OrderIsForPayment ==
    /\ order # Null => order = payment.amount
    /\ payment # Null /\ payment.attempt # Null => payment.attempt = payment.amount

\* A booking is made at the amount of its option, or at one that is within the tolerance
\* of it, either way.
BookedNearItsOption ==
    \A i \in DOMAIN bookings :
        LET quoted == options[bookings[i].option].amount
        IN  (bookings[i].amount - quoted) * 100 \in
                -(quoted * TolerancePercent) .. quoted * TolerancePercent

\* What is booked first is what was paid for, within the tolerance, although the price
\* moves and the delivery is read, quoted and paid by different requests. (A delivery whose
\* booking failed is orchestrated again, and paid no second time.)
FirstIsPaidFor ==
    bookings # << >> => ~hasMaterialPriceChange(payment.amount, bookings[1].amount)
-----------------------------------------------------------------------------
(* The inductive invariant.                                                *)

Near(amount, quoted) ==
    (amount - quoted) * 100 \in -(quoted * TolerancePercent) .. quoted * TolerancePercent
Handlers ==
    [pc : {"idle", "quote", "findPayment", "order", "checkout", "fresh", "count", "start",
           "finalize"},
     option : Nat \cup {Null}, amount : Prices \cup {Null}, number : Nat \cup {Null}]
Options == [amount : Prices, quotedAt : Nat]
Bookings == [option : Nat, amount : Prices,
             status : {"BOOKING", "BOOKED", "FAILED", "UNKNOWN"}]

\* What a handler knows, although it read it some steps ago.
Knows(p) ==
    /\ proc[p].pc \in {"findPayment", "order", "checkout"} => proc[p].amount # Null
    /\ proc[p].pc = "findPayment"
       => \E i \in DOMAIN options : options[i].amount = proc[p].amount
    /\ proc[p].pc \in {"order", "checkout"} => payment # Null /\ payment.amount = proc[p].amount
    /\ proc[p].pc \in {"fresh", "count", "start"}
       => /\ proc[p].option \in DOMAIN options /\ proc[p].amount # Null
          /\ Near(proc[p].amount, options[proc[p].option].amount)
          /\ payment # Null /\ payment.status = "PAID"
    /\ proc[p].pc = "fresh" => proc[p].amount = options[proc[p].option].amount
    /\ proc[p].pc = "finalize" => proc[p].number \in DOMAIN bookings

\* What the rows say of each other.
RowsAgree ==
    /\ TypeOK
    /\ options \in Seq(Options) /\ bookings \in Seq(Bookings)
    /\ payment \in Payments \cup {Null} /\ order \in Prices \cup {Null} /\ crashes \in Nat
    /\ OrderIsForPayment /\ (order # Null => payment # Null)
    /\ \A i \in DOMAIN bookings :
           Near(bookings[i].amount, options[bookings[i].option].amount)
    \* The payment is for the first option, of which there is only one until it is paid.
    /\ payment # Null => options # << >> /\ payment.amount = options[1].amount
    /\ payment = Null \/ payment.status # "PAID"
       => /\ bookings = << >> /\ Len(options) <= 1
          /\ \/ delivery = "OPTION_READY"
             \/ delivery \in {"CREATED", "ORCHESTRATING", "FAILED"} /\ options = << >>
    /\ delivery \in {"OPTION_READY", "BOOKING", "BOOKED"} => options # << >>
    \* Without a booking there is one option, and the first booking is of it.
    /\ bookings = << >> => Len(options) <= 1
    /\ bookings = << >> /\ options # << >> => delivery = "OPTION_READY"
    /\ bookings # << >> => payment # Null /\ bookings[1].option = 1

IInv == RowsAgree /\ proc \in [Proc -> Handlers] /\ \A p \in Proc : Knows(p)
=============================================================================

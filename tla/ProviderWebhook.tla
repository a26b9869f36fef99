---------------------------- MODULE ProviderWebhook ----------------------------
(***************************************************************************)
(* ShiprocketProviderWebhookService.handle: tracking webhooks, each of     *)
(* which may come any number of times and at the same time, become         *)
(* tracking points and move the delivery.                                  *)
(*                                                                         *)
(* An event is a row under the hash of its body. A handler claims a        *)
(* RECEIVED row with a lease in processingError; a lease not updated for   *)
(* five minutes may be taken over, though its holder may merely be slow. A *)
(* FAILED row is processed again without a lease. Points are unique under  *)
(* (provider, scan). A step is an awaited statement or transaction.        *)
(***************************************************************************)
EXTENDS ShiprocketPayload, DeliveryTransitions

CONSTANTS
    Proc,          \* webhook handlers
    Event,         \* webhook bodies, by their hash
    Body,          \* what each of them says
    Delivery,      \* deliveries
    Booking,       \* their bookings: [delivery, awb, orderId]
    MaxFailures,   \* statements that fail (bound)
    MaxCrashes     \* handlers that die (bound)

ASSUME WebhookAssumption ==
    /\ MaxFailures \in Nat /\ MaxCrashes \in Nat
    /\ IsFiniteSet(Proc) /\ "none" \notin Proc
    /\ \A e \in Event : Body[e].scans \in Seq([status : STRING, time : STRING])
    /\ \A b \in Booking : b.delivery \in Delivery

VARIABLES
    status,        \* processingStatus of each event's row, or NONE
    lease,         \* the handler whose lease is in processingError, or none
    stale,         \* events whose lease has not been updated for five minutes
    expired,       \* history: events whose lease has ever become stale
    points,        \* the scans that have a tracking point
    delivery,      \* Delivery.status
    booked,        \* the bookings that are BOOKED
    proc,          \* the handlers
    failures,      \* statements that failed so far
    crashes        \* handlers that died so far

vars == <<status, lease, stale, expired, points, delivery, booked, proc, failures, crashes>>
inbox == <<status, lease, stale, expired>>
faults == <<failures, crashes>>

Idle == [pc |-> "idle", event |-> "none", leased |-> FALSE, delivery |-> "none",
         i |-> 0, from |-> "CREATED", verdict |-> "NONE"]

Normalized == [e \in Event |-> NormalizeWebhook(Body[e])]
ScansOf(e) == Normalized[e].scans
Settled == {"PROCESSED", "IGNORED"}

Goto(p, pc) == proc' = [proc EXCEPT ![p].pc = pc]
Answer(p) == proc' = [proc EXCEPT ![p] = Idle]
Scan(p) == ScansOf(proc[p].event)[proc[p].i]

\* Mutated form: the loop ends with the first scan.
NextScan_First(p) ==
    proc' = [proc EXCEPT ![p].pc = "settle", ![p].verdict = "PROCESSED"]

\* On to the next scan of the body, or to the end of the loop.
NextScan(p) ==
    LET i == proc[p].i + 1
    IN  proc' = [proc EXCEPT
            ![p].i = i,
            ![p].from = Idle.from,
            ![p].pc = IF i > Len(ScansOf(proc[p].event)) THEN "settle" ELSE "read",
            ![p].verdict = "PROCESSED"]

Init ==
    /\ status = [e \in Event |-> "NONE"]
    /\ lease = [e \in Event |-> "none"]
    /\ stale = {}
    /\ expired = {}
    /\ points = {}
    /\ delivery = [d \in Delivery |-> "BOOKING"]
    /\ booked = {}
    /\ proc = [p \in Proc |-> Idle]
    /\ failures = 0
    /\ crashes = 0
-----------------------------------------------------------------------------
(* The inbox.                                                              *)

\* The event is inserted, or its row found under its key. A settled event is
\* answered; a FAILED one is processed without a lease. A body to ignore never
\* fails. A body to reject is answered 400 before any of this.
Receive(p, e) ==
    /\ proc[p].pc = "idle"
    /\ Normalized[e].action # "reject"
    /\ status[e] \notin Settled
    /\ status' = [status EXCEPT ![e] = IF @ = "NONE" THEN "RECEIVED" ELSE @]
    /\ proc' = [proc EXCEPT ![p].event = e,
                            ![p].pc = IF status[e] = "FAILED" THEN "link" ELSE "lease"]
    /\ UNCHANGED <<lease, stale, expired, points, delivery, booked, faults>>

\* Mutated form: any lease may be taken over.
AcquireLease_Always(p) ==
    LET e == proc[p].event IN
    /\ proc[p].pc = "lease"
    /\ IF status[e] = "RECEIVED"
       THEN /\ lease' = [lease EXCEPT ![e] = p]
            /\ stale' = stale \ {e}
            /\ proc' = [proc EXCEPT ![p].leased = TRUE,
                   ![p].pc = IF Normalized[e].action = "ignore" THEN "settle" ELSE "link",
                   ![p].verdict = "IGNORED"]
       ELSE Answer(p) /\ UNCHANGED <<lease, stale>>
    /\ UNCHANGED <<status, expired, points, delivery, booked, faults>>

\* Mutated form: a lease is never taken over.
AcquireLease_FreshOnly(p) ==
    LET e == proc[p].event IN
    /\ proc[p].pc = "lease"
    /\ IF status[e] = "RECEIVED" /\ lease[e] = "none"
       THEN /\ lease' = [lease EXCEPT ![e] = p]
            /\ proc' = [proc EXCEPT ![p].leased = TRUE,
                   ![p].pc = IF Normalized[e].action = "ignore" THEN "settle" ELSE "link",
                   ![p].verdict = "IGNORED"]
       ELSE Answer(p) /\ UNCHANGED lease
    /\ UNCHANGED <<status, stale, expired, points, delivery, booked, faults>>

\* tryAcquireProcessingLease. Who does not get it answers that the event is in
\* progress.
AcquireLease(p) ==
    LET e == proc[p].event IN
    /\ proc[p].pc = "lease"
    /\ IF status[e] = "RECEIVED" /\ (lease[e] = "none" \/ e \in stale)
       THEN /\ lease' = [lease EXCEPT ![e] = p]
            /\ stale' = stale \ {e}
            /\ proc' = [proc EXCEPT ![p].leased = TRUE,
                   ![p].pc = IF Normalized[e].action = "ignore" THEN "settle" ELSE "link",
                   ![p].verdict = "IGNORED"]
       ELSE Answer(p) /\ UNCHANGED <<lease, stale>>
    /\ UNCHANGED <<status, expired, points, delivery, booked, faults>>

\* The condition of markProcessed's update: the lease, or the FAILED row that
\* was found.
MayFinalize(p, e) ==
    IF proc[p].leased THEN status[e] = "RECEIVED" /\ lease[e] = p
                      ELSE status[e] = "FAILED"

\* markProcessed. A conflict is answered like a duplicate.
MarkProcessed(p, verdict) ==
    LET e == proc[p].event IN
    IF MayFinalize(p, e)
    THEN /\ status' = [status EXCEPT ![e] = verdict]
         /\ lease' = [lease EXCEPT ![e] = "none"]
         /\ stale' = stale \ {e}
         /\ UNCHANGED expired
    ELSE UNCHANGED inbox

\* The verdict is written: IGNORED for a body without a status, for an unknown
\* and for an ambiguous delivery, else PROCESSED.
Settle(p) ==
    /\ proc[p].pc = "settle"
    /\ MarkProcessed(p, proc[p].verdict)
    /\ Answer(p)
    /\ UNCHANGED <<points, delivery, booked, faults>>

\* The catch block, answered with the error that was caught.
MarkFailed(p) ==
    /\ proc[p].pc = "fail"
    /\ MarkProcessed(p, "FAILED")
    /\ Answer(p)
    /\ UNCHANGED <<points, delivery, booked, faults>>
-----------------------------------------------------------------------------
(* What a body does.                                                       *)

\* The deliveries whose BOOKED bookings carry one of the body's identifiers.
LinkedDeliveries(body) ==
    {b.delivery : b \in {b \in booked :
        \/ body.awb # "NONE" /\ b.awb = body.awb
        \/ b.orderId \in {body.srOrderId, body.orderId} \ {"NONE"}}}

\* resolveShiprocketTrackingWebhook, which takes an error for "not found".
ResolveLink(p) ==
    /\ proc[p].pc = "link"
    /\ LET found == LinkedDeliveries(Body[proc[p].event])
       IN  \/ /\ Cardinality(found) = 1
              /\ \E d \in found :
                   proc' = [proc EXCEPT ![p].delivery = d, ![p].i = 1, ![p].pc = "read"]
              /\ UNCHANGED failures
           \/ /\ Cardinality(found) # 1
              /\ proc' = [proc EXCEPT ![p].pc = "settle", ![p].verdict = "IGNORED"]
              /\ UNCHANGED failures
           \/ /\ failures < MaxFailures
              /\ failures' = failures + 1
              /\ proc' = [proc EXCEPT ![p].pc = "settle", ![p].verdict = "IGNORED"]
    /\ UNCHANGED <<inbox, points, delivery, booked, crashes>>

\* The delivery's status is read anew for each scan, then its point is looked
\* for; a scan that has one is passed over. The two reads are one step: points
\* only grow, and the status is not used when there is one.
ReadScan(p) ==
    /\ proc[p].pc = "read"
    /\ IF Scan(p).id \in points
       THEN NextScan(p)
       ELSE proc' = [proc EXCEPT ![p].from = delivery[proc[p].delivery],
                                 ![p].pc = "create"]
    /\ UNCHANGED <<inbox, points, delivery, booked, faults>>

\* createPoint throws when another handler has inserted it meanwhile.
CreatePoint(p) ==
    /\ proc[p].pc = "create"
    /\ IF Scan(p).id \in points
       THEN Goto(p, "fail") /\ UNCHANGED points
       ELSE Goto(p, "transition") /\ points' = points \cup {Scan(p).id}
    /\ UNCHANGED <<inbox, delivery, booked, faults>>

\* maybeTransitionFromTracking for a webhook: only IN_TRANSIT moves a delivery,
\* and not while a code is awaited.
MayTransition(p) ==
    /\ ~Scan(p).skipForward
    /\ NormalizeTrackingStatus(Scan(p).status) = "IN_TRANSIT"
    /\ proc[p].from \notin {"DELIVERY_OTP_PENDING", "PICKUP_OTP_PENDING"}
    /\ CanTransitionDelivery(proc[p].from, "IN_TRANSIT")
    /\ LifecycleVerdict(proc[p].from, "IN_TRANSIT") = "attempt"

\* Mutated form: the update is not conditional on the status.
TransitionFromTracking_Unconditional(p) ==
    /\ proc[p].pc = "transition"
    /\ delivery' = IF MayTransition(p)
                   THEN [delivery EXCEPT ![proc[p].delivery] = "IN_TRANSIT"]
                   ELSE delivery
    /\ NextScan(p)
    /\ UNCHANGED <<inbox, points, booked, faults>>

\* maybeTransitionFromTracking, with the conditional update from PICKED_UP.
TransitionFromTracking(p) ==
    /\ proc[p].pc = "transition"
    /\ delivery' = IF MayTransition(p) /\ delivery[proc[p].delivery] = "PICKED_UP"
                   THEN [delivery EXCEPT ![proc[p].delivery] = "IN_TRANSIT"]
                   ELSE delivery
    /\ NextScan(p)
    /\ UNCHANGED <<inbox, points, booked, faults>>
-----------------------------------------------------------------------------
(* Faults and the rest of the system.                                      *)

\* A statement of the processing fails; the catch block takes over.
Fail(p) ==
    /\ \/ proc[p].pc \in {"read", "create", "transition"}
       \/ proc[p].pc = "settle" /\ Normalized[proc[p].event].action = "events"
    /\ failures < MaxFailures
    /\ failures' = failures + 1
    /\ Goto(p, "fail")
    /\ UNCHANGED <<inbox, points, delivery, booked, crashes>>

\* A handler dies; its lease stays.
Crash(p) ==
    /\ proc[p].pc # "idle"
    /\ crashes < MaxCrashes
    /\ crashes' = crashes + 1
    /\ Answer(p)
    /\ UNCHANGED <<inbox, points, delivery, booked, failures>>

\* Five minutes pass without an update of a leased row. A handler that is alive
\* is that slow with an event at most once (bound).
LeaseExpires(e) ==
    LET Holder == lease[e] IN
    /\ status[e] = "RECEIVED" /\ Holder # "none" /\ e \notin stale
    /\ e \in expired => ~(proc[Holder].leased /\ proc[Holder].event = e)
    /\ stale' = stale \cup {e}
    /\ expired' = expired \cup {e}
    /\ UNCHANGED <<status, lease, points, delivery, booked, proc, faults>>

\* confirm records a booking; events may have come before.
ConfirmBooking(b) ==
    /\ b \notin booked
    /\ delivery[b.delivery] = "BOOKING"
    /\ booked' = booked \cup {b}
    /\ delivery' = [delivery EXCEPT ![b.delivery] = "BOOKED"]
    /\ UNCHANGED <<inbox, points, proc, faults>>

\* Codes, drivers, polls and cancellation move the delivery on.
Operate(d) ==
    /\ \E to \in DeliveryStatuses \ {"BOOKED", "DRIVER_ASSIGNED", "FAILED"} :
        /\ <<delivery[d], to>> \in AllowedTransitions
        /\ delivery' = [delivery EXCEPT ![d] = to]
    /\ UNCHANGED <<inbox, points, booked, proc, faults>>

Process(p) ==
    \/ AcquireLease(p) \/ Settle(p) \/ MarkFailed(p) \/ ResolveLink(p)
    \/ ReadScan(p) \/ CreatePoint(p) \/ TransitionFromTracking(p)

Next ==
    \/ \E p \in Proc : \/ \E e \in Event : Receive(p, e)
                       \/ Process(p) \/ Fail(p) \/ Crash(p)
    \/ \E e \in Event : LeaseExpires(e)
    \/ \E b \in Booking : ConfirmBooking(b)
    \/ \E d \in Delivery : Operate(d)

Spec == Init /\ [][Next]_vars
-----------------------------------------------------------------------------
(* Properties.                                                             *)

ScanIds(e) == {ScansOf(e)[i].id : i \in DOMAIN ScansOf(e)}

TypeOK ==
    /\ status \in [Event -> {"NONE", "RECEIVED", "PROCESSED", "IGNORED", "FAILED"}]
    /\ lease \in [Event -> Proc \cup {"none"}]
    /\ expired \subseteq Event
    /\ stale \subseteq {e \in expired : status[e] = "RECEIVED" /\ lease[e] # "none"}
    /\ points \subseteq UNION {ScanIds(e) : e \in Event}
    /\ delivery \in [Delivery -> DeliveryStatuses]
    /\ booked \subseteq Booking
    /\ \A p \in Proc :
        /\ proc[p].pc \in {"idle", "lease", "link", "read", "create",
                           "transition", "settle", "fail"}
        /\ proc[p].from \in DeliveryStatuses
        /\ proc[p].pc \in {"read", "create", "transition"}
           => proc[p].i \in DOMAIN ScansOf(proc[p].event)
    /\ failures \in 0 .. MaxFailures
    /\ crashes \in 0 .. MaxCrashes

\* As long as the lease of an event has not been left alone for five minutes,
\* at most one handler works on it under a lease: two workers can only come of
\* an expiry.
LeaseIsExclusive ==
    \A e \in Event \ expired :
        Cardinality({p \in Proc : proc[p].leased /\ proc[p].event = e}) <= 1

\* What a handler is.
Handlers ==
    [pc : {"idle", "lease", "link", "read", "create", "transition", "settle", "fail"},
     event : Event \cup {"none"}, leased : BOOLEAN, delivery : Delivery \cup {"none"},
     i : Nat, from : DeliveryStatuses, verdict : {"NONE", "IGNORED", "PROCESSED"}]

\* What a handler knows of its event: that it has the lease until it runs out, that what
\* it processes can be processed, and what it has recorded so far.
Knows(p) ==
    LET e == proc[p].event IN
    /\ proc[p].leased => proc[p].pc # "idle"
    /\ proc[p].pc # "idle" => e \in Event /\ Normalized[e].action # "reject"
    /\ proc[p].pc \in {"link", "read", "create", "transition", "fail"}
       => Normalized[e].action = "events"
    /\ proc[p].leased /\ e \notin expired => status[e] = "RECEIVED" /\ lease[e] = p
    /\ proc[p].pc \in {"read", "create", "transition"}
       => /\ proc[p].delivery \in Delivery
          /\ proc[p].i \in DOMAIN ScansOf(e)
          /\ \A j \in 1 .. proc[p].i - 1 : ScansOf(e)[j].id \in points
    /\ proc[p].pc = "transition" => Scan(p).id \in points
    /\ proc[p].pc = "settle"
       => /\ proc[p].verdict # "NONE"
          /\ proc[p].verdict = "PROCESSED" => ScanIds(e) \subseteq points

\* The invariant that the proofs rest on; an event that failed once has scans.
IInv ==
    /\ TypeOK
    /\ proc \in [Proc -> Handlers]
    /\ \A p \in Proc : Knows(p)
    /\ \A e \in Event : status[e] = "FAILED" => Normalized[e].action = "events"

\* A delivery moves along its table, whatever old status a webhook was
\* processed with, and a terminal one never moves.
FollowsTransitionTable ==
    [][\A d \in Delivery : CanTransitionDelivery(delivery[d], delivery'[d])]_vars

\* The inbox keeps the promise of WebhookInbox.
Reported == [e \in Event |-> ScanIds(e)]
Verdicts == [e \in Event |-> CASE status[e] = "PROCESSED" -> "processed"
                               [] status[e] = "IGNORED" -> "dismissed"
                               [] OTHER -> "open"]
Inbox == INSTANCE WebhookInbox WITH Reports <- Reported, recorded <- points, verdict <- Verdicts
ImplementsWebhookInbox == Inbox!Spec
=============================================================================

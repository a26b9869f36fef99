------------------------------ MODULE MCOperations ------------------------------
(***************************************************************************)
(* What happens to a delivery once it is booked: webhooks of the provider,     *)
(* codes, polling, the survey, the page that tells of it, and the              *)
(* reconciliation of its money. The models share no rows, so a behaviour        *)
(* exercises one of them, and the others rest in their initial state.          *)
(***************************************************************************)
EXTENDS ProviderWebhook, TLC

CONSTANTS
    MaxAttempts, MaxCodes, MaxDeaths,                   \* DeliveryOtp
    Timers, Meeting,                                    \* two instances of OperationalPolling
    Null, Submission, User, Parcel, Owner, Bodies, Roles,   \* Experience
    Reader, Snapshots, Tariffs, Life, Cancellable, MaxCancels, MaxRefunds,  \* DeliveryHistory
    Payments, Refunds, Amount, Limits, ScanPerIssue, MinScan     \* FinanceReconciliation

VARIABLES
    part,                                               \* the part that is exercised
    otpStatus, codes, handlers, deaths,                 \* DeliveryOtp
    polled, pollable, order, drivers, events, held, cycles, mishaps,
                                                        \* OperationalPolling
    due, rating, feedback, inserted, req,               \* Experience
    shown, timeline, cancellations, payment, refunds, reads, page,  \* DeliveryHistory
    pay, refund, ledger, moment, damaged, audit         \* FinanceReconciliation

\* Codes that are sent by each of the two services.
Twilio == INSTANCE DeliveryOtp WITH
    status <- otpStatus, proc <- handlers, crashes <- deaths, MaxCrashes <- MaxDeaths,
    Production <- TRUE, SmsProvider <- "twilio", SmsConfigured <- TRUE
Msg91 == INSTANCE DeliveryOtp WITH
    status <- otpStatus, proc <- handlers, crashes <- deaths, MaxCrashes <- MaxDeaths,
    Production <- TRUE, SmsProvider <- "msg91", SmsConfigured <- TRUE

\* Instances that poll the same deliveries, and instances that meet administrators.
TwoPolls == INSTANCE OperationalPolling WITH
    status <- polled, booked <- pollable, points <- events, proc <- cycles, faults <- mishaps,
    Instance <- Timers.instances, Admin <- Timers.admins, Connection <- Timers.connections,
    Delivery <- Timers.deliveries, Eligible <- Timers.eligible, Reports <- Timers.reports,
    BatchSize <- Timers.batch, InitialStatus <- Timers.status, MaxFaults <- Timers.faults
PollAndAdmin == INSTANCE OperationalPolling WITH
    status <- polled, booked <- pollable, points <- events, proc <- cycles, faults <- mishaps,
    Instance <- Meeting.instances, Admin <- Meeting.admins, Connection <- Meeting.connections,
    Delivery <- Meeting.deliveries, Eligible <- Meeting.eligible, Reports <- Meeting.reports,
    BatchSize <- Meeting.batch, InitialStatus <- Meeting.status, MaxFaults <- Meeting.faults

Survey == INSTANCE Experience WITH
    status <- due, Request <- Submission, Delivery <- Parcel, RequestRoles <- Roles

\* A page of few prices while everything moves; one of many prices while nothing is
\* cancelled or refunded.
History == INSTANCE DeliveryHistory WITH delivery <- shown, events <- timeline
Prices == INSTANCE DeliveryHistory WITH
    delivery <- shown, events <- timeline,
    Snapshots <- Tariffs, MaxCancels <- 0, MaxRefunds <- 0

Books == INSTANCE FinanceReconciliation WITH now <- moment, report <- audit

ASSUME OperationsAssumption ==
    /\ Twilio!OtpAssumption /\ Survey!ExperienceAssumption
    /\ TwoPolls!PollingAssumption /\ PollAndAdmin!PollingAssumption
    /\ History!HistoryAssumption /\ Prices!HistoryAssumption
    /\ Books!AuditAssumption

webhookVars == <<status, lease, stale, expired, points, delivery, booked, proc, failures, crashes>>
otpVars == <<otpStatus, codes, handlers, deaths>>
pollVars == <<polled, pollable, order, drivers, events, held, cycles, mishaps>>
surveyVars == <<due, rating, feedback, inserted, req>>
historyVars == <<shown, timeline, cancellations, payment, refunds, reads, page>>
bookVars == <<pay, refund, ledger, moment, damaged, audit>>
all == <<part, webhookVars, otpVars, pollVars, surveyVars, historyVars, bookVars>>

MCInit ==
    /\ part \in {"webhook", "twilio", "msg91", "twoPolls", "pollAndAdmin", "survey",
                "history", "prices", "books"}
    /\ Init /\ Twilio!Init /\ Survey!Init /\ History!Init /\ Books!Init
    /\ IF part = "pollAndAdmin" THEN PollAndAdmin!Init ELSE TwoPolls!Init

MCNext ==
    /\ \/ /\ part = "webhook" /\ Next
          /\ UNCHANGED <<otpVars, pollVars, surveyVars, historyVars, bookVars>>
       \/ /\ \/ part = "twilio" /\ Twilio!Next
             \/ part = "msg91" /\ Msg91!Next
          /\ UNCHANGED <<webhookVars, pollVars, surveyVars, historyVars, bookVars>>
       \/ /\ \/ part = "twoPolls" /\ TwoPolls!Next
             \/ part = "pollAndAdmin" /\ PollAndAdmin!Next
          /\ UNCHANGED <<webhookVars, otpVars, surveyVars, historyVars, bookVars>>
       \/ /\ part = "survey" /\ Survey!Next
          /\ UNCHANGED <<webhookVars, otpVars, pollVars, historyVars, bookVars>>
       \/ /\ \/ part = "history" /\ History!Next
             \/ part = "prices" /\ Prices!Next
          /\ UNCHANGED <<webhookVars, otpVars, pollVars, surveyVars, bookVars>>
       \/ /\ part = "books" /\ Books!Next
          /\ UNCHANGED <<webhookVars, otpVars, pollVars, surveyVars, historyVars>>
    /\ UNCHANGED part

MCSpec == MCInit /\ [][MCNext]_all

-----------------------------------------------------------------------------
\* What needs one actor at a time has one: the lease of an event one handler, until it runs
\* out, and a delivery one poll of two instances that both believe to have its lock.
OneAtATime ==
    /\ part = "webhook" => TypeOK /\ LeaseIsExclusive
    /\ part = "twoPolls" => TwoPolls!TypeOK /\ TwoPolls!NoConcurrentPolls
    /\ part = "pollAndAdmin" => PollAndAdmin!TypeOK

\* A parcel changes hands for a code only: a code wins once however many handlers verify
\* it at a time, without one nothing is picked up or handed over, a delivery awaits one
\* only after an SMS with it was accepted, and one that was withdrawn for its SMS has
\* reached nobody, with either service.
CodesOpenTheWay ==
    /\ part = "twilio" =>
        /\ Twilio!TypeOK
        /\ Twilio!CodeWinsOnce
        /\ Twilio!CompletedByCode
        /\ Twilio!AwaitedWasAccepted
        /\ Twilio!WithdrawnWasNotReceived
    /\ part = "msg91" => Msg91!TypeOK /\ Msg91!WithdrawnWasNotReceived

\* A delivery has a whole survey or none, by its customer and after it was delivered, and
\* of several submissions the one that is accepted is the one stored.
SurveyIsWhole ==
    part = "survey" =>
        /\ Survey!TypeOK
        /\ Survey!WholeSurvey
        /\ Survey!OneSubmission
        /\ Survey!SurveyIsDue

\* A delivery moves along its table, whether a webhook, a code or a poll moves it, and
\* whatever status the handler started from.
AllFollowTheTable ==
    FollowsTransitionTable /\ Twilio!FollowsTransitionTable /\ PollAndAdmin!FollowsTransitionTable

\* The page of a delivery tells what happened, although the delivery moves while it is
\* read: its status is on its timeline, what was refunded is covered by the refunds it
\* lists and each is with its cancellation, the parts of a price add up to the charge, and
\* a later page never goes back.
HistoryTellsAll ==
    /\ [](/\ part = "history" =>
                /\ History!TypeOK
                /\ History!StatusIsOnTimeline
                /\ History!RefundedIsListed
                /\ History!RefundBelongs
          /\ part \in {"history", "prices"} => History!ChargedIsExplained)
    /\ History!PagesGoForward

\* The reconciliation tells the truth about the books. It accuses no payment that only the
\* service has written, although a window cuts its life and others are written between its
\* queries; of one that is itself written between them it may. Its silence about a payment
\* that it scanned, and that was not written between its queries, means that the payment is
\* settled; it covers the window when it scanned fewer payments than it may. It agrees with
\* the page of a payment, and it says when it left issues out.
BooksAddUp ==
    part = "books" =>
        /\ Books!TypeOK
        /\ Books!HonestBooksAreSilent
        /\ Books!SilentMeansSettled
        /\ Books!ReportAgreesWithPage
        /\ Books!CutIsSaid
-----------------------------------------------------------------------------
(* The instance that TLC checks.                                           *)

\* Two bodies that share a scan, of one delivery with its booking.
MCRawStatus == {"IN TRANSIT", "DELIVERED"}
MCMatches == [s \in MCRawStatus |->
    IF s = "IN TRANSIT" THEN {"transit"} ELSE {"delivered"}]
MCBody == [e \in {"first", "second"} |->
    LET transit == [status |-> "IN TRANSIT", time |-> "T1"]
    IN  [awb |-> "A1", srOrderId |-> "NONE", orderId |-> "NONE", isReturn |-> FALSE,
         status |-> "NONE", time |-> "NONE",
         scans |-> IF e = "first" THEN <<transit>>
                   ELSE <<transit, [status |-> "DELIVERED", time |-> "T2"]>>]]
MCBooking == {[delivery |-> "d1", awb |-> "A1", orderId |-> "O1"]}

\* Two instances that poll two deliveries, and one that meets an administrator.
Report(driver, to, event) == [driver |-> driver, status |-> to, event |-> event]
MCTimers ==
    [instances |-> {"i1", "i2"}, admins |-> {}, connections |-> {"c1", "c2"},
     deliveries |-> {"d1", "d2"}, eligible |-> {"d1", "d2"},
     reports |-> {Report(FALSE, "UNKNOWN", "none")},
     batch |-> 2, status |-> "PICKED_UP", faults |-> 1]
MCMeeting ==
    [instances |-> {"i1"}, admins |-> {"a1"}, connections |-> {"c1"},
     deliveries |-> {"d1"}, eligible |-> {"d1"},
     reports |-> {Report(TRUE, "UNKNOWN", "none"), Report(FALSE, "IN_TRANSIT", "e1")},
     batch |-> 1, status |-> "BOOKED", faults |-> 0]

\* Whole surveys, one with a blank comment, and one with a score that does not exist.
All(n) == [driver |-> n, platform |-> n, delivery |-> n, timeliness |-> n,
           packageHandling |-> n, presentation |-> n]
MCBodies ==
    {[scores |-> [All(5) EXCEPT !.driver = 2], comment |-> "blank"],
     [scores |-> [All(1) EXCEPT !.timeliness = 3], comment |-> "a note"],
     [scores |-> [All(3) EXCEPT !.delivery = 6], comment |-> Null]}
MCOwner == "d1" :> "u1"

\* Few prices and many, and a delivery that is assigned or cancelled.
NoPrices == INSTANCE DeliveryHistory WITH
    delivery <- shown, events <- timeline, Snapshots <- {}
OnePrice == {NoPrices!Enriched(2, 10)}
ManyPrices ==
    {NoPrices!Enriched(q, p) : q \in 0 .. 30 \cup {14999, 15000}, p \in {0, 7, 10, 100}}
    \cup {NoPrices!Legacy(q) : q \in 0 .. 30}
MCLife == <<"BOOKED", "DRIVER_ASSIGNED">>
MCCancellable == {"BOOKED", "DRIVER_ASSIGNED"}

\* One payment of two units and one of one, and the refunds they share.
MCAmount == [p \in Payments |-> IF p = "p1" THEN 2 ELSE 1]

Symmetry == Permutations(Proc) \cup Permutations(Refunds)
=============================================================================

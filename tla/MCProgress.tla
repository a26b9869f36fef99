------------------------------- MODULE MCProgress -------------------------------
(***************************************************************************)
(* What must happen in the end, and the fairness under which it does: of each  *)
(* model that promises it the smallest instance that has contention, a failure *)
(* or a death in it. A behaviour exercises one model.                         *)
(***************************************************************************)
EXTENDS ProviderWebhook, TLC

CONSTANTS None, Null

VARIABLES
    part,                                               \* the part that is exercised
    told,                                               \* history of the webhook, see Answers
    otpStatus, codes, handlers, deaths,                 \* DeliveryOtp
    polled, pollable, order, drivers, events, held, cycles, mishaps,
                                                        \* OperationalPolling
    stored, cache, newest, age, revoked, tokenLease, lock, inFlight, users, overrun, slips,
                                                        \* ProviderToken
    drafted, request, option, asked, orchestrators, reader, ended,  \* Orchestration
    row, log, up, writing, pc, page, ask, cur, todo,      \* RuntimeSettings
    rows, keys, seq, clock, creators, answers,          \* DeliveryCreation
    due, rating, feedback, inserted, req                \* Experience

\* One webhook with a scan, to two handlers, one of which may die.
MCRawStatus == {"IN TRANSIT"}
MCMatches == [s \in MCRawStatus |-> {"transit"}]
MCBody == [e \in {"e1"} |->
    [awb |-> "A1", srOrderId |-> "NONE", orderId |-> "NONE", isReturn |-> FALSE,
     status |-> "NONE", time |-> "NONE",
     scans |-> <<[status |-> "IN TRANSIT", time |-> "T1"]>>]]
MCBooking == {[delivery |-> "d1", awb |-> "A1", orderId |-> "O1"]}

Otp == INSTANCE DeliveryOtp WITH
    status <- otpStatus, proc <- handlers, crashes <- deaths, Proc <- {"p1"},
    MaxAttempts <- 1, MaxCodes <- 2, MaxCrashes <- 1,
    Production <- TRUE, SmsProvider <- "twilio", SmsConfigured <- TRUE

\* One instance with two connections; one delivery more than fits into a batch.
Polling == INSTANCE OperationalPolling WITH
    status <- polled, booked <- pollable, points <- events, proc <- cycles, faults <- mishaps,
    Instance <- {"i1"}, Admin <- {}, Connection <- {"c1", "c2"},
    Delivery <- {"d1", "d2", "d3"}, Eligible <- {"d1", "d2", "d3"},
    Reports <- {[driver |-> FALSE, status |-> "IN_TRANSIT", event |-> "e1"]},
    BatchSize <- 2, InitialStatus <- "PICKED_UP", MaxFaults <- 1

\* Two requests on one instance.
MCHome == [p \in Proc |-> "i1"]
Token == INSTANCE ProviderToken WITH
    row <- stored, proc <- users, faults <- slips, lease <- tokenLease,
    Instance <- {"i1"}, Home <- MCHome, NoOne <- None, MaxLogins <- 1, MaxFaults <- 0

Orchestrations == INSTANCE Orchestration WITH
    delivery <- drafted, proc <- orchestrators, crashes <- ended,
    Reader <- {}, Provider <- {"mock", "shiprocket"}, Preferred <- {"shiprocket"},
    MaxAttempts <- 1, MaxCrashes <- 0

MCStored == <<[value |-> 0, version |-> 0], [value |-> 999, version |-> 1]>>
MCDefault == <<5, 5>>
Settings == INSTANCE RuntimeSettings WITH
    lock <- writing, Admin <- Proc,
    Keys <- {1, 2}, Booking <- {1}, Stored <- MCStored, EnvDefault <- MCDefault,
    Values <- {7}, Valid <- {5, 7, 10}, MaxVersion <- 1

Plain == [packageType |-> "FOOD", description |-> Null, weight |-> 5, dimensions |-> {},
          sizeTier |-> Null, coordinates |-> {}, requirements |-> << >>, photos |-> << >>,
          mode |-> "ASAP", windowStart |-> Null, windowEnd |-> Null]
Creation == INSTANCE DeliveryCreation WITH
    now <- clock, proc <- creators, OwnStorage <- "own",
    Customer <- {"c1", "c2"}, Key <- {"k1"}, Moves <- {}, MaxSeq <- 1, MaxTime <- 0,
    Bodies <- {Plain, [Plain EXCEPT !.weight = 6]}

MCScores == [s \in {"driver", "platform", "delivery", "timeliness", "packageHandling",
                    "presentation"} |-> 4]
MCOwner == "d1" :> "u1"
Survey == INSTANCE Experience WITH
    status <- due, Request <- Proc, User <- {"u1"}, Delivery <- {"d1"},
    Owner <- MCOwner, Bodies <- {[scores |-> MCScores, comment |-> Null]},
    RequestRoles <- {"CUSTOMER"}

webhookVars == <<told, status, lease, stale, expired, points, delivery, booked, proc, failures,
                crashes>>
otpVars == <<otpStatus, codes, handlers, deaths>>
pollingVars == <<polled, pollable, order, drivers, events, held, cycles, mishaps>>
tokenVars == <<stored, cache, newest, age, revoked, tokenLease, lock, inFlight, users, overrun,
               slips>>
orchestrationVars == <<drafted, request, option, asked, orchestrators, reader, ended>>
settingsVars == <<row, log, up, writing, pc, page, ask, cur, todo>>
creationVars == <<rows, keys, seq, clock, creators, answers>>
surveyVars == <<due, rating, feedback, inserted, req>>

all == <<part, webhookVars, otpVars, pollingVars, tokenVars, orchestrationVars, settingsVars,
         creationVars, surveyVars>>

\* A step of part x, in which the others rest.
Only(x) ==
    /\ part = x /\ part' = part
    /\ x # "webhook" => UNCHANGED webhookVars
    /\ x # "otp" => UNCHANGED otpVars
    /\ x # "polling" => UNCHANGED pollingVars
    /\ x # "token" => UNCHANGED tokenVars
    /\ x # "orchestration" => UNCHANGED orchestrationVars
    /\ x # "settings" => UNCHANGED settingsVars
    /\ x # "creation" => UNCHANGED creationVars
    /\ x # "survey" => UNCHANGED surveyVars

\* A delivery of the webhook is answered with 200, "processing_in_progress", though its event
\* is not settled: another has its lease, or has taken it over. The provider has then
\* been told that the webhook has come, and owes no repeat of it.
InProgress(p) ==
    /\ Process(p)
    /\ proc[p].pc # "idle" /\ proc'[p].pc = "idle" /\ status'["e1"] \notin Settled
    /\ \/ proc[p].pc = "lease" /\ "e1" \notin stale
       \/ proc[p].pc \in {"settle", "fail"} /\ ~MayFinalize(p, "e1")
Answers == told' = (told \/ \E p \in Proc : InProgress(p))

MCInit ==
    /\ told = FALSE
    /\ part \in {"webhook", "otp", "polling", "token", "orchestration", "settings",
                 "creation", "survey"}
    /\ Init /\ Otp!Init /\ Polling!Init /\ Token!Init /\ Orchestrations!Init
    /\ Settings!Init /\ Creation!Init /\ Survey!Init

MCNext ==
    \/ Only("webhook") /\ Next /\ Answers
    \/ Only("otp") /\ Otp!Next
    \/ Only("polling") /\ Polling!Next
    \/ Only("token") /\ Token!Next
    \/ Only("orchestration") /\ Orchestrations!Next
    \/ Only("settings") /\ Settings!Next
    \/ Only("creation") /\ Creation!Next
    \/ Only("survey") /\ Survey!Next
-----------------------------------------------------------------------------
(* Fairness. One part runs in a behaviour, so the models can share the          *)
(* conditions: what is asked of one says nothing of the others.               *)

\* A handler that has started goes on.
GoesOn(p) ==
    \/ Only("webhook") /\ Process(p) /\ Answers
    \/ Only("orchestration") /\ Orchestrations!Step(p)
    \/ Only("creation") /\ Creation!Handle(p)
    \/ Only("survey") /\ Survey!Step(p)
TheOnlyOneGoesOn ==
    \/ Only("otp") /\ Otp!Process("p1")
    \/ Only("polling") /\ Polling!Poll("i1")

\* Time passes: a lease that is not used runs out, a code may be sent again, the timer of
\* the polling fires, the deadline of an orchestration is reached.
TimePasses ==
    \/ Only("webhook") /\ LeaseExpires("e1") /\ Answers
    \/ Only("token") /\ ~Token!Holding /\ Token!LeaseExpires
    \/ Only("otp") /\ \E i \in DOMAIN codes : Otp!CoolDown(i)
    \/ Only("polling") /\ Polling!StartCycle("i1")
TimeIsUp(p) == Only("orchestration") /\ Orchestrations!Deadline(p)

\* The courier moves on.
LifeGoesOn == Only("otp") /\ Otp!MoveOn

\* Who waits for a lock has his turn: Node runs what was begun to its end, and the
\* database hands a row to those who wait for it in turn. The deadline of a loop comes
\* although others take turns with it.
HasItsTurn(p) ==
    \/ Only("token") /\ Token!Step(p)
    \/ Only("settings") /\ Settings!Serve(p)
GivesUp(p) == Only("token") /\ Token!GiveUp(p)

\* A courier asks for codes until he has entered the right one, and the provider repeats
\* a webhook until it is acknowledged: by the answer of the handler that settles it, or
\* by one that says that another is at it.
AsksAgain ==
    \/ Only("otp") /\ \E type \in {"PICKUP", "DELIVERY"} : Otp!GenerateOtp("p1", type)
    \/ Only("webhook") /\ ~told /\ (\E p \in Proc : Receive(p, "e1")) /\ Answers
EntersIt == Only("otp") /\ \E type \in {"PICKUP", "DELIVERY"} : Otp!VerifyRight("p1", type)

MCSpec ==
    /\ MCInit /\ [][MCNext]_all
    /\ WF_all(TheOnlyOneGoesOn) /\ WF_all(TimePasses) /\ WF_all(LifeGoesOn)
    /\ SF_all(AsksAgain) /\ SF_all(EntersIt)
    /\ \A p \in Proc : /\ WF_all(GoesOn(p)) /\ WF_all(TimeIsUp(p))
                       /\ SF_all(HasItsTurn(p)) /\ SF_all(GivesUp(p))
-----------------------------------------------------------------------------

\* What keeps a delivery from its turn for good: a batch of others that stay before it by
\* updatedAt, or a lock that no cycle is there to give back.
Behind(d) == Cardinality({e \in Polling!Wanted : order[e] < order[d]}) >= 2
LeftLocked(d) ==
    /\ \E h \in held : h.delivery = d
    /\ ~(cycles["i1"].lock = "fresh" /\ Polling!Current("i1") = d)

\* The provider is about to be asked for a delivery.
IsAsked(d) == cycles["i1"].pc = "poll" /\ Polling!Current("i1") = d

\* The provider is asked again and again for every delivery that is active and has one, until
\* it is no longer active, unless in the end a whole batch of others stays before it, or a
\* lock of it stays with a connection: one that fails or has no report does not keep the
\* others of its batch from their turn. There is one instance here: of two, the one that
\* finds a delivery locked leaves it to the one that has the lock.
ActiveIsRefreshed ==
    \A d \in {"d1", "d2", "d3"} :
        part = "polling" =>
            \/ []<>(\/ IsAsked(d)
                    \/ ~(polled[d] \in Polling!PollingStatuses /\ d \in pollable))
            \/ <>[]Behind(d)
            \/ <>[]LeftLocked(d)

\* What is accepted comes to an end, whatever the others hold, do or fail to do: a request
\* for a token, an attempt whose providers never answer, a change of settings while the
\* table comes and goes, a creation with another for its key about, a survey with another
\* for its delivery, a cycle of the polling.
Waits(p) ==
    CASE part = "token" -> users[p].pc # "idle"
      [] part = "orchestration" -> orchestrators[p].pc \notin {"idle", "number"}
      [] part = "settings" -> pc[p] = "sent"
      [] part = "creation" -> creators[p].pc # "idle"
      [] part = "survey" -> req[p].pc \notin {"none", "done"}
      [] part = "polling" -> cycles["i1"].pc # "idle"
      [] OTHER -> FALSE
EveryRequestEnds == \A p \in Proc : Waits(p) ~> ~Waits(p)
=============================================================================

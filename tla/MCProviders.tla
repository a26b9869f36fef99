------------------------------ MODULE MCProviders ------------------------------
(***************************************************************************)
(* A delivery until it is booked: its request, the providers that could carry *)
(* it, their tokens, their orders, and the price at confirmation. The models   *)
(* share no rows here, so a behaviour exercises one of them, and the others     *)
(* rest in their initial state.                                               *)
(***************************************************************************)
EXTENDS ProviderRegistry, Integers, TLC

CONSTANTS
    Proc, None, Null,                                   \* request handlers; nobody; nothing
    Reader, Candidate, Preferred, MaxAttempts,          \* Orchestration
    Instance, Home, MaxLogins, MaxSlips,                \* ProviderToken
    MaxCalls, MaxFaults,                                \* ShiprocketOrders
    Prices, TolerancePercent, MaxAge, MaxTime,          \* ConfirmPricing
    MaxOptions, MaxBookings,
    OwnStorage, Customers, Key, Contested,              \* DeliveryCreation
    Racing, Edges, Listed, Moves, MaxSeq, MaxClock,
    Offered, MaxOutcomes,                               \* OptionScoring
    Provider, Delivery                                  \* ProviderEvaluation

VARIABLES
    part,                                               \* the part that is exercised
    delivery, request, option, asked, orchestrators, reader, deaths,    \* Orchestration
    stored, cache, newest, age, revoked, lease, lock, inFlight, users, overrun, slips,
                                                        \* ProviderToken
    order, awb, copies, late, slow, call, result, calls, faults,    \* ShiprocketOrders
    now, price, confirmed, options, payment, gatewayOrder, bookings, handlers, ended,
                                                        \* ConfirmPricing
    rows, keys, seq, clock, creators, answers,          \* DeliveryCreation
    outcomes, scored,                                   \* OptionScoring
    listed, configured, parcel, stage, replies, thrown, judged  \* ProviderEvaluation

Selection == INSTANCE Orchestration WITH
    proc <- orchestrators, crashes <- deaths, Provider <- Candidate

Token == INSTANCE ProviderToken WITH
    row <- stored, proc <- users, faults <- slips, NoOne <- None, MaxFaults <- MaxSlips

Orders == INSTANCE ShiprocketOrders

Pricing == INSTANCE ConfirmPricing WITH
    delivery <- confirmed, order <- gatewayOrder, proc <- handlers, crashes <- ended

Creation == INSTANCE DeliveryCreation WITH
    now <- clock, proc <- creators, Customer <- Customers, Bodies <- Racing \cup Edges \cup Listed,
    MaxTime <- MaxClock

Scoring == INSTANCE OptionScoring WITH Outcome <- Offered

Evaluation == INSTANCE ProviderEvaluation WITH
    provider <- listed, config <- configured, delivery <- parcel, pc <- stage,
    answers <- replies, error <- thrown, outcome <- judged

ASSUME ProvidersAssumption ==
    /\ RegistryAssumption /\ Selection!OrchestrationAssumption
    /\ Token!TokenAssumption /\ Orders!OrdersAssumption /\ Pricing!PricingAssumption
    /\ Creation!CreationAssumption /\ Scoring!ScoringAssumption
    /\ Evaluation!EvaluationAssumption
    /\ Contested \subseteq Key

registryVars == <<row, capabilities, credentials, items, req, served, crashes>>
orchestrationVars == <<delivery, request, option, asked, orchestrators, reader, deaths>>
tokenVars == <<stored, cache, newest, age, revoked, lease, lock, inFlight, users, overrun, slips>>
orderVars == <<order, awb, copies, late, slow, call, result, calls, faults>>
pricingVars == <<now, price, confirmed, options, payment, gatewayOrder, bookings, handlers, ended>>
creationVars == <<rows, keys, seq, clock, creators, answers>>
scoringVars == <<outcomes, scored>>
evaluationVars == <<listed, configured, parcel, stage, replies, thrown, judged>>
all == <<part, registryVars, orchestrationVars, tokenVars, orderVars, pricingVars, creationVars,
         scoringVars, evaluationVars>>

\* What rests in a behaviour has one initial state.
MCInit ==
    /\ part \in {"registry", "alone", "orchestration", "token", "orders", "pricing",
                 "creation", "edges", "pages", "scoring", "evaluation"}
    /\ Init /\ Selection!Init /\ Token!Init /\ Orders!Init /\ Pricing!Init
    /\ Creation!Init /\ Scoring!Init /\ Evaluation!Init
    /\ part # "orders" => ~slow
    /\ part # "pricing" => price = CHOOSE x \in Prices : TRUE
    /\ part # "evaluation" => /\ listed = CHOOSE p \in Provider : TRUE
                             /\ parcel = CHOOSE d \in Delivery : TRUE

\* Administrators one after the other.
OneByOne ==
    \E a \in Admin : Step(a) /\ \A b \in Admin \ {a} : req[b] = Idle("none")

\* Requests that race for a key; single requests at the edges of the schema, for a delivery
\* each; and single requests for two deliveries that move.
Race ==
    \/ \E p \in Proc : Creation!Handle(p)
    \/ \E p \in Proc, c \in Customers, k \in Contested, b \in Racing : Creation!Receive(p, c, k, b)
    \/ Creation!Tick
Single(p) == \A q \in Proc \ {p} : creators[q].pc = "idle"
AtTheEdges ==
    /\ \/ \E p \in Proc : Single(p) /\ Creation!Handle(p)
       \/ \E p \in Proc, c \in Customers, k \in Contested, b \in Edges :
             Single(p) /\ Creation!Receive(p, c, k, b)
       \/ Creation!Tick
    /\ seq' <= 1
InLists ==
    /\ \/ \E p \in Proc : Single(p) /\ Creation!Handle(p)
       \/ \E p \in Proc, c \in Customers, k \in Key, b \in Listed :
             Single(p) /\ Creation!Receive(p, c, k, b)
       \/ \E r \in Creation!Reference, m \in Moves : Creation!TransitionStatus(r, m[2])
    /\ seq' <= 2

MCNext ==
    /\ \/ /\ \/ part = "registry" /\ Next
             \/ part = "alone" /\ OneByOne
          /\ UNCHANGED <<orchestrationVars, tokenVars, orderVars, pricingVars, creationVars,
                         scoringVars, evaluationVars>>
       \/ /\ part = "orchestration" /\ Selection!Next
          /\ UNCHANGED <<registryVars, tokenVars, orderVars, pricingVars, creationVars,
                         scoringVars, evaluationVars>>
       \/ /\ part = "token" /\ Token!Next
          /\ UNCHANGED <<registryVars, orchestrationVars, orderVars, pricingVars, creationVars,
                         scoringVars, evaluationVars>>
       \/ /\ part = "orders" /\ Orders!Next
          /\ UNCHANGED <<registryVars, orchestrationVars, tokenVars, pricingVars, creationVars,
                         scoringVars, evaluationVars>>
       \/ /\ part = "pricing" /\ Pricing!Next
          /\ UNCHANGED <<registryVars, orchestrationVars, tokenVars, orderVars, creationVars,
                         scoringVars, evaluationVars>>
       \/ /\ \/ part = "creation" /\ Race
             \/ part = "edges" /\ AtTheEdges
             \/ part = "pages" /\ InLists
          /\ UNCHANGED <<registryVars, orchestrationVars, tokenVars, orderVars, pricingVars,
                         scoringVars, evaluationVars>>
       \/ /\ part = "scoring" /\ Scoring!Next
          /\ UNCHANGED <<registryVars, orchestrationVars, tokenVars, orderVars, pricingVars,
                         creationVars, evaluationVars>>
       \/ /\ part = "evaluation" /\ Evaluation!Next
          /\ UNCHANGED <<registryVars, orchestrationVars, tokenVars, orderVars, pricingVars,
                         creationVars, scoringVars>>
    /\ UNCHANGED part

MCSpec == MCInit /\ [][MCNext]_all

-----------------------------------------------------------------------------
(* The instance that is checked.                                            *)

\* Each request on an instance of its own.
MCHome == [p \in Proc |-> p]

Plain == [packageType |-> "FOOD", description |-> Null, weight |-> 2000, dimensions |-> {},
          sizeTier |-> Null, coordinates |-> {}, requirements |-> << >>, photos |-> << >>,
          mode |-> "ASAP", windowStart |-> Null, windowEnd |-> Null]
Photo(c, provider) == [owner |-> c, storageProvider |-> provider]

\* The same payload in two spellings, a later window, and a photo of one customer.
MCRacing ==
    {Plain,
     [Plain EXCEPT !.description = "blank", !.requirements = <<"NONE">>],
     [Plain EXCEPT !.mode = "SCHEDULED", !.windowStart = 1, !.windowEnd = 2,
                   !.photos = <<Photo("c1", "own")>>]}
\* Bodies at the edges of the schema, most of them refused.
MCEdges ==
    {[Plain EXCEPT !.weight = w, !.dimensions = d, !.sizeTier = t] :
        w \in {0, 1, 2000, 2001, 2002, 10000, 10001, 10002, 12000, 12001, 12002,
               200000, 200001},
        d \in {{}, {"lengthCm"}, {"lengthCm", "widthCm", "heightCm"}},
        t \in {Null, "SMALL", "LARGE"}}
    \union {[Plain EXCEPT !.packageType = "OTHER", !.description = d] :
        d \in {Null, "blank", "a note"}}
    \union {[Plain EXCEPT !.mode = "SCHEDULED", !.windowStart = s, !.windowEnd = e] :
        s \in 0 .. 2, e \in 0 .. 2}
    \union {[Plain EXCEPT !.coordinates = s, !.requirements = q] :
        s \in SUBSET {"latitude", "longitude"},
        q \in {<<"NONE">>, <<"FRAGILE", "FRAGILE">>, <<"FRAGILE", "NONE", "KEEP_UPRIGHT">>}}
    \union {[Plain EXCEPT !.photos = <<Photo(c, v)>>] :
        c \in {"c1", "c2"}, v \in {Null, "PENDING", "own", "elsewhere"}}
MCListed == {Plain}
MCMoves ==
    {<<"CREATED", "ORCHESTRATING">>, <<"ORCHESTRATING", "OPTION_READY">>, <<"OPTION_READY", "BOOKING">>,
     <<"BOOKING", "BOOKED">>, <<"BOOKING", "FAILED">>, <<"CREATED", "CANCELLED">>}

\* Two providers, each with any number of rates.
MCOffered ==
    {[eligible |-> TRUE, provider |-> p, priority |-> p, price |-> c, eta |-> t,
      availability |-> a] :
        p \in {1, 2}, c \in {1, 2, 4}, t \in {1, 2, -1}, a \in {2, -1}}
    \union {[eligible |-> FALSE, provider |-> 1, priority |-> 1, price |-> 1, eta |-> 1,
             availability |-> 99]}

\* A complete provider, and ones that lack one thing each.
Whole ==
    [enabled |-> TRUE, orchestrated |-> TRUE, integration |-> "READY", health |-> "HEALTHY",
     kind |-> "executor", maxWeight |-> 5, minWeight |-> 1, maxSize |-> 2, vehicles |-> {3, 0},
     types |-> {}, services |-> {"SCHEDULED", "EXPRESS"},
     capabilities |-> {"SERVICEABILITY", "AVAILABILITY", "PRICING", "CANCELLATION"},
     operations |-> {"checkServiceability", "getAvailability", "getQuote",
                     "getCancellationPolicy"}]
MCProvider ==
    {[Whole EXCEPT !.kind = k, !.vehicles = v] :
        k \in {"executor", "probe", "hyperlocal"}, v \in {{}, {3}, {1, 3}, {3, 0}}}
    \union {[Whole EXCEPT !.kind = "unregistered"], [Whole EXCEPT !.health = "UNHEALTHY"],
            [Whole EXCEPT !.orchestrated = FALSE], [Whole EXCEPT !.maxWeight = 0],
            [Whole EXCEPT !.minWeight = 4], [Whole EXCEPT !.types = {"FOOD"}],
            [Whole EXCEPT !.services = {"INSTANT"}],
            [Whole EXCEPT !.operations = {"getQuote"}],
            [Whole EXCEPT !.operations = {"getQuote", "checkServiceability"}],
            [Whole EXCEPT !.capabilities = {"SERVICEABILITY", "PRICING"}]}
MCDelivery ==
    [weight : {1, 4, 6}, type : {"FOOD"}, size : {0, 2, 3}, scheduled : BOOLEAN]
    \union [weight : {4}, type : {"OTHER"}, size : {2}, scheduled : BOOLEAN]

Symmetry == Permutations(Proc)
-----------------------------------------------------------------------------
\* A delivery gets one offer, the best of those that came, and it can be booked: one attempt
\* runs at a time, whoever died, cancelled or polled on the way; the fallback providers are
\* asked only after the preferred ones had no offer; and of the outcomes, with several
\* rates and with signals that are missing, the one that is stored is not beaten by another.
OneOfferWins ==
    /\ [](/\ part = "orchestration" =>
                /\ Selection!TypeOK
                /\ Selection!OneRunning
                /\ Selection!ReadyIsBookable
                /\ Selection!ReaderGetsOption
          /\ Scoring!WinnerIsNotBeaten
          /\ Scoring!ComparisonIsAnOrder
          /\ Scoring!OptionIsTheWinners
          /\ Scoring!ScoreIsAMean)
    /\ Selection!PreferredFirst

\* Nobody is offered or booked who could not do it: what orchestration may choose has
\* credentials and was healthy when last tested, however administrators interleave; alone,
\* each finds the status his configuration gives; a change of credentials leaves no moment
\* without them; who is eligible fits the parcel, was checked, quoted and can be cancelled;
\* and an error is held against a provider only when it is its own.
OnlyUsableProviders ==
    /\ [](/\ part = "registry" => TypeOK /\ EligibleIsUsable
          /\ part = "alone" => TypeOK /\ EligibleIsUsable /\ AnsweredIsSettled
          /\ part = "evaluation" => Evaluation!TypeOK
          /\ Evaluation!EligibleCanDeliver
          /\ Evaluation!ErrorIsTheProviders)
    /\ CredentialKept

\* The token of Shiprocket is renewed by one request at a time, unless its lease or its
\* lock ran out, and by nobody who could know that another has just done it; a slow login
\* does not bring an older token back; and nobody is given one that has expired.
TokenIsCurrent ==
    /\ [](part = "token" => Token!TypeOK /\ Token!OneLoginAtATime)
    /\ Token!NoNeedlessLogin
    /\ Token!NewestIsKept
    /\ Token!NeverExpired

\* What is reported of an order at Shiprocket is so, although answers are lost and POSTs
\* executed late: a booking has an assigned courier and a cancellation a cancelled order.
\* When no POST is executed after its time-out, a failure leaves nothing behind either, and
\* retries make one order.
OrdersAreAsReported ==
    part = "orders" =>
        /\ Orders!TypeOK
        /\ Orders!BookedIsAssigned
        /\ Orders!CancelledIsCancelled
        /\ Orders!FailureIsTrue
        /\ Orders!OneOrder

\* The price holds: the gateway collects the amount of the payment, whoever completes the
\* checkout; a booking is within the tolerance of its option; and what is booked first is
\* what was paid for.
PriceIsKept ==
    part = "pricing" =>
        /\ Pricing!TypeOK
        /\ Pricing!OrderIsForPayment
        /\ Pricing!BookedNearItsOption
        /\ Pricing!FirstIsPaidFor

\* Requests under one key make one delivery, all answers to the key agree with it and with
\* what was asked, and the loser of a race finds the record of the winner; what is stored
\* of a body at the edge of the schema is sound; and the pages of the lists hold each
\* delivery of the reader once.
RequestsCreateOnce ==
    /\ part = "creation" =>
        /\ Creation!TypeOK
        /\ Creation!OneDeliveryPerKey
        /\ Creation!AnswersAgree
        /\ Creation!AnsweredIsStored
        /\ Creation!LoserFindsWinner
    /\ part = "edges" => Creation!TypeOK /\ Creation!StoredIsSound
    /\ part = "pages" => Creation!TypeOK /\ Creation!PagesAreTheList
=============================================================================

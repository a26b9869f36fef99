--------------------------- MODULE ProviderEvaluation ---------------------------
(***************************************************************************)
(* What one provider answers to an orchestration:                           *)
(* OrchestrationProviderEvaluationService.evaluateProvider, with the         *)
(* compatibility of the package, the resolver and the executor of adapters,  *)
(* the cancellation policy, and what the answer means for the fallback tier. *)
(* The evaluation is one pass; a step is one stage of it.                   *)
(***************************************************************************)
EXTENDS Naturals

CONSTANTS
    Provider,       \* the configurations of a provider that are looked at
    Delivery        \* the deliveries

Unset == 0           \* a limit that is not set

Configurations ==
    [enabled : BOOLEAN, orchestrated : BOOLEAN,
     integration : {"NOT_CONFIGURED", "CONFIGURED", "READY"},
     health : {"UNKNOWN", "HEALTHY", "UNHEALTHY"},
     kind : {"executor", "probe", "hyperlocal", "unregistered"},
     maxWeight : Nat, minWeight : Nat, maxSize : Nat, vehicles : SUBSET Nat,
     types : SUBSET STRING,
     services : SUBSET {"SCHEDULED", "EXPRESS", "INSTANT"},
     capabilities : SUBSET {"SERVICEABILITY", "AVAILABILITY", "PRICING", "CANCELLATION"},
     operations : SUBSET {"checkServiceability", "getAvailability", "getQuote",
                          "getCancellationPolicy"}]

EvaluationAssumption ==
    /\ Provider \subseteq Configurations
    /\ Delivery \subseteq [weight : Nat, type : STRING, size : Nat, scheduled : BOOLEAN]

VARIABLES
    provider,       \* the provider, as the orchestration listed it
    config,         \* its configuration as the resolver reads it later
    delivery,
    pc,             \* the stage
    answers,        \* what the adapter answered
    error,          \* the error that was thrown, or "none"
    outcome         \* [status, reasons, category]

vars == <<provider, config, delivery, pc, answers, error, outcome>>

ProviderError == {"PROVIDER_AUTHENTICATION_ERROR", "PROVIDER_TIMEOUT"}
Skippable == {"PROVIDER_ADAPTER_NOT_AVAILABLE", "PROVIDER_UNSUPPORTED_OPERATION",
              "PROVIDER_NOT_READY", "PROVIDER_DISABLED"}
Unanswered == [checkServiceability |-> "none", getAvailability |-> "unknown",
               getQuote |-> "none", policy |-> "unknown"]
NoOutcome == [status |-> "none", reasons |-> {}, category |-> "none"]
-----------------------------------------------------------------------------
(* Which providers are asked at all.                                       *)

OPERATION_REQUIRED_CAPABILITIES ==
    [checkServiceability |-> "SERVICEABILITY", getAvailability |-> "AVAILABILITY",
     getQuote |-> "PRICING", getCancellationPolicy |-> "CANCELLATION"]

\* A provider holds its configured capabilities, and what its adapter supports.
Can(p, op) == OPERATION_REQUIRED_CAPABILITIES[op] \in p.capabilities
Supports(p, op) == op \in p.operations

isOrchestrationEligible(p) ==
    /\ p.enabled /\ p.orchestrated
    /\ p.integration = "READY" /\ p.health # "UNHEALTHY"

isProviderOrchestrationCandidate(p) ==
    /\ p.enabled                        \* ACTIVE
    /\ isOrchestrationEligible(p)
    /\ p.kind # "unregistered"
    /\ Can(p, "getQuote") /\ Supports(p, "getQuote")
    /\ Supports(p, "checkServiceability") \/ p.kind \in {"probe", "hyperlocal"}

\* Mutated form: the vehicles are looked at only when no limit is set.
WeightFits_LimitsOnly(p, weight) ==
    /\ p.maxWeight # Unset => weight <= p.maxWeight
    /\ p.minWeight <= weight
    /\ p.maxWeight = Unset /\ p.vehicles # {}
       => \E v \in p.vehicles : v = Unset \/ weight <= v

\* The limits of the provider, and a vehicle of it that carries the package.
WeightFits(p, weight) ==
    /\ p.maxWeight # Unset => weight <= p.maxWeight
    /\ p.minWeight <= weight
    /\ p.vehicles # {} => \E v \in p.vehicles : v = Unset \/ weight <= v

\* No types are any type.
TypeFits(p, d) == p.types # {} => d.type \in p.types

\* The longest side; a package that is heavy should have one (0: not given), but one
\* without is let through.
DimensionsFit(p, d) == d.size # Unset /\ p.maxSize # Unset => d.size <= p.maxSize

ScheduleFits(p, d) == d.scheduled /\ p.services # {} => "SCHEDULED" \in p.services

\* evaluatePreAdapterCompatibility.
PreCheck(p, d) ==
    {r \in {"WEIGHT", "TYPE", "DIMENSIONS", "SCHEDULE"} :
       \/ r = "WEIGHT" /\ ~WeightFits(p, d.weight)
       \/ r = "TYPE" /\ ~TypeFits(p, d)
       \/ r = "DIMENSIONS" /\ ~DimensionsFit(p, d)
       \/ r = "SCHEDULE" /\ ~ScheduleFits(p, d)}
-----------------------------------------------------------------------------
(* The adapter.                                                            *)

\* finalizeResolution: the configuration as it is now, not as it was listed.
Resolution(c, op) ==
    IF ~c.enabled THEN "PROVIDER_DISABLED"
    ELSE IF c.integration # "READY" THEN "PROVIDER_NOT_READY"
    ELSE IF c.kind = "unregistered" THEN "PROVIDER_ADAPTER_NOT_AVAILABLE"
    ELSE IF ~Can(c, op) \/ ~Supports(c, op) THEN "PROVIDER_UNSUPPORTED_OPERATION"
    ELSE "none"

\* ProviderAdapterExecutor.execute turns an error of the provider into an AppError,
\* whose code says only that an adapter failed.
Wrapped(category) ==
    IF category \in ProviderError THEN "PROVIDER_ADAPTER_ERROR" ELSE category

\* The answers an operation may have; getAvailability is optional.
Answer(op) ==
    CASE op = "checkServiceability" -> {"serviceable", "unserviceable"}
      [] op = "getAvailability" -> {"unknown", "available", "unavailable"}
      [] OTHER -> {"quoted", "unavailable"}

\* The operations that are called together, by Promise.all.
Called(p, c) ==
    {"getQuote"}
        \cup {op \in {"checkServiceability"} : Supports(c, op)}
        \cup {op \in {"getAvailability"} : Can(p, op) /\ Supports(c, op)}

\* What a call may throw: what its own resolution finds, or an error of the provider.
Failure(c, op) ==
    IF Resolution(c, op) # "none" THEN {Resolution(c, op)}
    ELSE {Wrapped(e) : e \in ProviderError}
-----------------------------------------------------------------------------
(* The outcome.                                                            *)

\* buildOutcome, with applyCancellationPolicyEligibility.
Exclusions(a) ==
    {r \in {"ROUTE_NOT_SERVICEABLE", "QUOTE_UNAVAILABLE", "NO_DRIVER_AVAILABILITY",
            "CANCELLATION_POLICY_UNKNOWN"} :
       \/ r = "ROUTE_NOT_SERVICEABLE" /\ a.checkServiceability = "unserviceable"
       \/ r = "QUOTE_UNAVAILABLE" /\ a.getQuote = "unavailable"
       \/ r = "NO_DRIVER_AVAILABILITY" /\ a.getAvailability = "unavailable"
       \/ r = "CANCELLATION_POLICY_UNKNOWN" /\ a.policy = "unknown"}

\* Nothing may be missing either: a provider whose route was never checked is out.
Outcome(a) ==
    IF Exclusions(a) # {}
    THEN [status |-> "INELIGIBLE", reasons |-> Exclusions(a), category |-> "none"]
    ELSE IF a.getQuote # "quoted" \/ a.checkServiceability # "serviceable"
    THEN [status |-> "INELIGIBLE", reasons |-> {"QUOTE_UNAVAILABLE"}, category |-> "none"]
    ELSE [status |-> "ELIGIBLE", reasons |-> {}, category |-> "none"]

\* The catch of evaluateProvider.
ErrorOutcome(category) ==
    IF category \in Skippable
    THEN [status |-> "SKIPPED", reasons |-> {"ADAPTER_NOT_AVAILABLE"}, category |-> category]
    ELSE [status |-> "ERROR", reasons |-> {}, category |-> category]

-----------------------------------------------------------------------------
Init ==
    /\ provider \in Provider /\ delivery \in Delivery
    /\ config = provider
    /\ pc = "listed"
    /\ answers = Unanswered
    /\ error = "none"
    /\ outcome = NoOutcome

\* An administrator changes the provider while the orchestration runs.
Reconfigure ==
    /\ pc = "listed" /\ config = provider
    /\ config' \in {[provider EXCEPT !.enabled = FALSE],
                    [provider EXCEPT !.integration = "CONFIGURED"],
                    [provider EXCEPT !.capabilities = {"PRICING"}]}
    /\ UNCHANGED <<provider, delivery, pc, answers, error, outcome>>

\* The filter of runOrchestration, then the check that needs no adapter.
Start ==
    LET reasons == PreCheck(provider, delivery) IN
    /\ pc = "listed"
    /\ IF ~isProviderOrchestrationCandidate(provider)
       THEN pc' = "left" /\ UNCHANGED outcome
       ELSE IF reasons # {}
       THEN /\ pc' = "done"
            /\ outcome' = [status |-> "INELIGIBLE", reasons |-> reasons, category |-> "none"]
       ELSE pc' = "resolve" /\ UNCHANGED outcome
    /\ UNCHANGED <<provider, config, delivery, answers, error>>

Throw(category) ==
    /\ error' = category
    /\ outcome' = ErrorOutcome(category)
    /\ pc' = "done"

Resolve ==
    LET category == Resolution(config, "getQuote") IN
    /\ pc = "resolve"
    /\ IF category # "none" THEN Throw(category)
       ELSE pc' = config.kind /\ UNCHANGED <<error, outcome>>
    /\ UNCHANGED <<provider, config, delivery, answers>>

\* Rates or a probe: one call of the adapter itself, not of the executor. Its
\* errors keep their category.
CallDirectly ==
    /\ pc \in {"probe", "hyperlocal"}
    /\ \/ /\ \E e \in ProviderError : Throw(e)
          /\ UNCHANGED answers
       \/ /\ \E s \in Answer("checkServiceability"), q \in Answer("getQuote"),
                a \in Answer("getAvailability"), k \in {"known", "unknown"} :
                /\ answers' = [checkServiceability |-> s, getAvailability |-> a,
                               getQuote |-> q, policy |-> k]
          /\ pc' = "policy"
          /\ UNCHANGED <<error, outcome>>
    /\ UNCHANGED <<provider, config, delivery>>

\* The calls of the executor: all answer, or the first that fails is what counts.
CallTogether ==
    LET called == Called(provider, config) IN
    /\ pc = "executor"
    /\ \/ /\ \E op \in called : \E e \in Failure(config, op) : Throw(e)
          /\ UNCHANGED answers
       \/ /\ \A op \in called : Resolution(config, op) = "none"
          /\ \E s \in Answer("checkServiceability"), q \in Answer("getQuote"),
                a \in Answer("getAvailability") :
                answers' = [answers EXCEPT
                    !.getQuote = q,
                    !.checkServiceability = IF "checkServiceability" \in called THEN s ELSE @,
                    !.getAvailability = IF "getAvailability" \in called THEN a ELSE @]
          /\ pc' = "policy"
          /\ UNCHANGED <<error, outcome>>
    /\ UNCHANGED <<provider, config, delivery>>

\* resolveCancellationPolicy: the policy of the answer, or of a call of its own,
\* which is not allowed to fail; no policy is an unknown one.
ResolvePolicy ==
    LET op == "getCancellationPolicy" IN
    /\ pc = "policy"
    /\ \E k \in {"known", "unknown"} :
          /\ k = "known" /\ config.kind = "executor"
             => Supports(config, op) /\ Resolution(config, op) = "none"
          /\ answers' = [answers EXCEPT !.policy =
                           IF config.kind = "executor" THEN k ELSE @]
    /\ outcome' = Outcome(answers')
    /\ pc' = "done"
    /\ UNCHANGED <<provider, config, delivery, error>>

Next ==
    \/ Reconfigure \/ Start \/ Resolve \/ CallDirectly \/ CallTogether \/ ResolvePolicy

Spec == Init /\ [][Next]_vars
-----------------------------------------------------------------------------
(* Properties.                                                             *)

TypeOK ==
    /\ provider \in Provider /\ delivery \in Delivery
    /\ pc \in {"listed", "left", "resolve", "probe", "hyperlocal", "executor", "policy",
               "done"}
    /\ (pc = "done") = (outcome.status # "none")
    /\ error # "none" => outcome.status \in {"SKIPPED", "ERROR"}

\* What is offered to the customer can be carried out: the package fits the limits
\* and a vehicle and is of a type that is carried, the route was checked, a price was
\* quoted, no driver is known to be missing and the terms of a cancellation are known.
EligibleCanDeliver ==
    outcome.status = "ELIGIBLE" =>
      /\ provider.maxWeight # Unset => delivery.weight <= provider.maxWeight
      /\ provider.minWeight <= delivery.weight
      /\ provider.types = {} \/ delivery.type \in provider.types
      /\ provider.vehicles = {} \/ \E v \in provider.vehicles : v = Unset \/ v >= delivery.weight
      /\ answers.checkServiceability = "serviceable" /\ answers.getQuote = "quoted"
      /\ answers.getAvailability # "unavailable" /\ answers.policy = "known"
      /\ config.enabled /\ config.integration = "READY"

\* A provider is reported in ERROR only for an error of its own answer: neither the
\* configuration an administrator changes meanwhile nor a cancellation policy that
\* cannot be had is one.
ErrorIsTheProviders ==
    outcome.status = "ERROR" =>
      /\ outcome.category \in ProviderError \cup {"PROVIDER_ADAPTER_ERROR"}
      /\ answers = Unanswered
-----------------------------------------------------------------------------
(* The inductive invariant.                                                *)

Answers ==
    [checkServiceability : {"none", "serviceable", "unserviceable"},
     getAvailability : {"unknown", "available", "unavailable"},
     getQuote : {"none", "quoted", "unavailable"}, policy : {"known", "unknown"}]

\* What was checked before the adapter is asked, and before it answers, is still so: the
\* configuration changes only while the provider is listed.
Checked ==
    /\ pc \in {"listed", "left", "resolve", "probe", "hyperlocal", "executor"}
       => answers = Unanswered
    /\ pc \in {"resolve", "probe", "hyperlocal", "executor", "policy"}
       => WeightFits(provider, delivery.weight) /\ TypeFits(provider, delivery)
    /\ pc \in {"probe", "hyperlocal", "executor", "policy"}
       => Resolution(config, "getQuote") = "none"

IInv ==
    /\ TypeOK /\ EligibleCanDeliver /\ ErrorIsTheProviders /\ Checked
    /\ config \in Configurations /\ config.kind = provider.kind
    /\ answers \in Answers
    /\ pc # "done" => outcome = NoOutcome /\ error = "none"
=============================================================================

------------------------------ MODULE Orchestration ------------------------------
(***************************************************************************)
(* OrchestrationService: the attempts of one delivery, the two tiers of      *)
(* providers that are asked under one deadline, the transaction that stores  *)
(* the result, and who reads it. What a provider answers is the class of     *)
(* its outcome. A step is an awaited call; the customer's cancellation and   *)
(* booking appear as what they do to the status of the delivery.             *)
(***************************************************************************)
EXTENDS Naturals, FiniteSets, FiniteSetsExt

CONSTANTS
    Proc,           \* requests that orchestrate
    Reader,         \* requests that read the result
    Provider,       \* the candidates
    Preferred,      \* those of the preferred tier, none or some
    MaxAttempts,    \* attempts of the delivery (bound)
    MaxCrashes      \* handlers that die (bound)

OrchestrationAssumption ==
    /\ Preferred \subseteq Provider /\ "none" \notin Provider
    /\ MaxAttempts \in Nat /\ MaxCrashes \in Nat

VARIABLES
    delivery,       \* the status of the delivery
    request,        \* [attempt -> status], "NONE" for no row
    option,         \* [attempt -> the provider of its selectedOption, or "none"]
    asked,          \* [attempt -> the providers with a stored evaluation]
    proc,           \* the handlers
    reader,         \* what a reader has seen so far and answered
    crashes

vars == <<delivery, request, option, asked, proc, reader, crashes>>

Attempt == 1 .. MaxAttempts
Class == {"ELIGIBLE", "INELIGIBLE", "AUTH", "TIMEOUT"}  \* AUTH fails fast
Silent == [v \in Provider |-> "none"]
Idle == [pc |-> "idle", attempt |-> 0, outcome |-> Silent, late |-> FALSE,
         answer |-> "none"]
NotReading == [pc |-> "idle", status |-> "none", option |-> "none"]

Rows(status) == {n \in Attempt : request[n] \in status}
Latest(R) == IF R = {} THEN 0 ELSE Max(R)
Goto(p, pc) == proc' = [proc EXCEPT ![p].pc = pc]

Init ==
    /\ delivery = "CREATED"
    /\ request = [n \in Attempt |-> "NONE"]
    /\ option = [n \in Attempt |-> "none"]
    /\ asked = [n \in Attempt |-> {}]
    /\ proc = [p \in Proc |-> Idle]
    /\ reader = [r \in Reader |-> NotReading]
    /\ crashes = 0
-----------------------------------------------------------------------------
(* orchestrate.                                                            *)

\* Only CREATED and FAILED deliveries go on; OPTION_READY answers what there is.
Orchestrate(p) ==
    /\ proc[p].pc = "idle"
    /\ delivery \in {"CREATED", "FAILED"}
    /\ proc' = [proc EXCEPT ![p] = [Idle EXCEPT !.pc = "number"]]
    /\ UNCHANGED <<delivery, request, option, asked, reader, crashes>>

getNextAttemptNumber(p) ==
    LET next == Latest(Rows({"RUNNING", "COMPLETED", "FAILED"})) + 1 IN
    /\ proc[p].pc = "number" /\ next \in Attempt
    /\ proc' = [proc EXCEPT ![p].pc = "start", ![p].attempt = next]
    /\ UNCHANGED <<delivery, request, option, asked, reader, crashes>>

\* Mutated form: the transition does not ask for the status it comes from.
Start_Unconditional(p) ==
    LET n == proc[p].attempt IN
    /\ proc[p].pc = "start"
    /\ IF request[n] = "NONE"
       THEN /\ delivery' = "ORCHESTRATING"
            /\ request' = [request EXCEPT ![n] = "RUNNING"]
            /\ Goto(p, "list")
       ELSE proc' = [proc EXCEPT ![p] = Idle] /\ UNCHANGED <<delivery, request>>
    /\ UNCHANGED <<option, asked, reader, crashes>>

\* One transaction: the conditional transition and the row of a number that another
\* attempt may have taken, which rolls both back.
Start(p) ==
    LET n == proc[p].attempt IN
    /\ proc[p].pc = "start"
    /\ IF delivery \in {"CREATED", "FAILED"} /\ request[n] = "NONE"
       THEN /\ delivery' = "ORCHESTRATING"
            /\ request' = [request EXCEPT ![n] = "RUNNING"]
            /\ Goto(p, "list")
       ELSE proc' = [proc EXCEPT ![p] = Idle] /\ UNCHANGED <<delivery, request>>
    /\ UNCHANGED <<option, asked, reader, crashes>>

\* runOrchestration: the providers are listed and split; the first batch is asked.
\* A tier without a provider is no tier.
ListProviders(p) ==
    LET first == IF Preferred # {} THEN Preferred ELSE Provider IN
    /\ proc[p].pc = "list"
    /\ \/ proc' = [proc EXCEPT ![p].pc = "ask",
                      ![p].outcome = [v \in Provider |-> IF v \in first THEN "asked" ELSE "none"]]
       \/ Goto(p, "fail")               \* the database
    /\ UNCHANGED <<delivery, request, option, asked, reader, crashes>>

\* evaluateProviderWithinOrchestrationBudget: a provider answers in time,
Evaluate(p, v) ==
    /\ proc[p].pc = "ask" /\ proc[p].outcome[v] = "asked"
    /\ \E c \in Class : proc' = [proc EXCEPT ![p].outcome[v] = c]
    /\ UNCHANGED <<delivery, request, option, asked, reader, crashes>>

\* or the deadline is there for all that have not.
Deadline(p) ==
    /\ proc[p].pc = "ask" /\ ~proc[p].late
    /\ proc' = [proc EXCEPT ![p].late = TRUE,
                  ![p].outcome = [v \in Provider |-> IF @[v] = "asked" THEN "TIMEOUT" ELSE @[v]]]
    /\ UNCHANGED <<delivery, request, option, asked, reader, crashes>>

\* Mutated form: any preferred provider without an offer starts the fallback tier.
shouldRunFallbackTier_Any(outcome) ==
    \E v \in Preferred : outcome[v] # "ELIGIBLE"

\* shouldRunFallbackTier: no preferred provider can, and none failed fast.
shouldRunFallbackTier(outcome) ==
    /\ Preferred # {}
    /\ \A v \in Preferred : outcome[v] \notin {"ELIGIBLE", "AUTH"}

\* Promise.allSettled. Who is asked after the deadline is timed out at once.
Settled(p) ==
    LET outcome == proc[p].outcome
        fallback == {v \in Provider : outcome[v] = "none"} IN
    /\ proc[p].pc = "ask" /\ \A v \in Provider : outcome[v] # "asked"
    /\ IF fallback # {} /\ shouldRunFallbackTier(outcome)
       THEN proc' = [proc EXCEPT ![p].outcome =
                 [v \in Provider |-> IF v \notin fallback THEN @[v]
                                     ELSE IF proc[p].late THEN "TIMEOUT" ELSE "asked"]]
       ELSE Goto(p, "finalize")
    /\ UNCHANGED <<delivery, request, option, asked, reader, crashes>>

\* One transaction: the evaluations, the option of the winner, the end of the
\* request and the conditional transition of the delivery; or none of them. The
\* result is read for the answer before the commit, by another connection.
Finalize(p) ==
    LET n == proc[p].attempt
        eligible == {v \in Provider : proc[p].outcome[v] = "ELIGIBLE"} IN
    /\ proc[p].pc = "finalize"
    /\ \/ /\ delivery = "ORCHESTRATING"
          /\ \E w \in IF eligible = {} THEN {"none"} ELSE eligible :
                /\ option' = [option EXCEPT ![n] = w]
                /\ request' = [request EXCEPT ![n] = IF w = "none" THEN "FAILED" ELSE "COMPLETED"]
                /\ delivery' = IF w = "none" THEN "FAILED" ELSE "OPTION_READY"
                /\ proc' = [proc EXCEPT ![p] = [Idle EXCEPT !.answer =
                       IF w # "none"
                       THEN option[Latest(Rows({"RUNNING", "COMPLETED", "FAILED"}))]
                       ELSE "none", !.pc = IF w # "none" THEN "answer" ELSE "idle"]]
          /\ asked' = [asked EXCEPT ![n] = {v \in Provider : proc[p].outcome[v] # "none"}]
       \/ /\ Goto(p, "fail")            \* it has moved, or the database
          /\ UNCHANGED <<delivery, request, option, asked>>
    /\ UNCHANGED <<reader, crashes>>

Answer(p) ==
    /\ proc[p].pc = "answer"
    /\ proc' = [proc EXCEPT ![p] = Idle]
    /\ UNCHANGED <<delivery, request, option, asked, reader, crashes>>

\* failOrchestrationSafely: one transaction again; here the transition may miss.
FailSafely(p) ==
    /\ proc[p].pc = "fail"
    /\ request' = [request EXCEPT ![proc[p].attempt] = "FAILED"]
    /\ delivery' = IF delivery = "ORCHESTRATING" THEN "FAILED" ELSE delivery
    /\ proc' = [proc EXCEPT ![p] = Idle]
    /\ UNCHANGED <<option, asked, reader, crashes>>
-----------------------------------------------------------------------------
(* getLatestOrchestration.                                                 *)

ReadStatus(r) ==
    /\ reader[r].pc = "idle"
    /\ reader' = [reader EXCEPT ![r] =
                    [pc |-> IF delivery = "OPTION_READY" THEN "bookable" ELSE "running",
                     status |-> delivery, option |-> "none"]]
    /\ UNCHANGED <<delivery, request, option, asked, proc, crashes>>

\* Mutated form: the latest attempt answers for the delivery, whatever it is.
ReadBookable_Latest(r) ==
    LET n == Latest(Rows({"RUNNING", "COMPLETED", "FAILED"})) IN
    /\ reader[r].pc = "bookable"
    /\ reader' = [reader EXCEPT ![r].pc = "answer", ![r].option = option[n]]
    /\ UNCHANGED <<delivery, request, option, asked, proc, crashes>>

\* resolveBookableOrchestrationRequest: the latest COMPLETED one, or 404.
ReadBookable(r) ==
    LET n == Latest(Rows({"COMPLETED"})) IN
    /\ reader[r].pc = "bookable"
    /\ reader' = [reader EXCEPT ![r] =
                    IF n = 0 THEN NotReading
                    ELSE IF option[n] = "none" THEN NotReading
                    ELSE [@ EXCEPT !.pc = "answer", !.option = option[n]]]
    /\ UNCHANGED <<delivery, request, option, asked, proc, crashes>>

\* resolveOrchestrationRequestForRead: the running one, or else the latest.
ReadOther(r) ==
    LET running == Rows({"RUNNING"})
        n == IF running # {} THEN Latest(running)
             ELSE Latest(Rows({"COMPLETED", "FAILED"})) IN
    /\ reader[r].pc = "running"
    /\ reader' = [reader EXCEPT ![r] =
                    IF n = 0 THEN NotReading
                    ELSE [@ EXCEPT !.pc = "answer", !.option = option[n]]]
    /\ UNCHANGED <<delivery, request, option, asked, proc, crashes>>

Read(r) ==
    /\ reader[r].pc = "answer"
    /\ reader' = [reader EXCEPT ![r] = NotReading]
    /\ UNCHANGED <<delivery, request, option, asked, proc, crashes>>
-----------------------------------------------------------------------------
(* The rest of the system.                                                 *)

\* The customer cancels, also while providers are asked; or a booking is made, or
\* fails and leaves the delivery to another attempt.
Customer ==
    /\ \/ delivery \in {"CREATED", "ORCHESTRATING", "OPTION_READY"} /\ delivery' = "CANCELLED"
       \/ delivery = "OPTION_READY" /\ delivery' \in {"BOOKED", "FAILED"}
    /\ UNCHANGED <<request, option, asked, proc, reader, crashes>>

Crash(p) ==
    /\ crashes < MaxCrashes /\ proc[p].pc # "idle"
    /\ crashes' = crashes + 1
    /\ proc' = [proc EXCEPT ![p] = Idle]
    /\ UNCHANGED <<delivery, request, option, asked, reader>>

Step(p) ==
    \/ getNextAttemptNumber(p) \/ Start(p) \/ ListProviders(p) \/ Settled(p)
    \/ Finalize(p) \/ Answer(p) \/ FailSafely(p)

Next ==
    \/ \E p \in Proc :
          Orchestrate(p) \/ Step(p) \/ Deadline(p) \/ Crash(p) \/ \E v \in Provider : Evaluate(p, v)
    \/ \E r \in Reader : ReadStatus(r) \/ ReadBookable(r) \/ ReadOther(r) \/ Read(r)
    \/ Customer

Spec == Init /\ [][Next]_vars
-----------------------------------------------------------------------------
(* Properties.                                                             *)

TypeOK ==
    /\ request \in [Attempt -> {"NONE", "RUNNING", "COMPLETED", "FAILED"}]
    /\ \A n \in Attempt : (request[n] = "COMPLETED") = (option[n] # "none")
    /\ \A n \in Attempt : asked[n] \subseteq Provider /\ option[n] \in asked[n] \cup {"none"}
    /\ \A m, n \in Attempt : m < n /\ request[n] # "NONE" => request[m] # "NONE"
    /\ \A p \in Proc : proc[p].outcome \in [Provider -> Class \cup {"none", "asked"}]

\* At most one attempt of a delivery runs, and while one does the delivery has not
\* gone on by an offer: it is ORCHESTRATING, or was cancelled meanwhile.
OneRunning ==
    /\ Cardinality(Rows({"RUNNING"})) <= 1
    /\ Rows({"RUNNING"}) # {} => delivery \in {"ORCHESTRATING", "CANCELLED"}

\* A delivery that is offered can be booked: the latest attempt is COMPLETED and has
\* its option, also when handlers crash or the customer cancels at any step.
ReadyIsBookable ==
    delivery = "OPTION_READY" =>
      LET n == Latest(Rows({"RUNNING", "COMPLETED", "FAILED"})) IN
      n # 0 /\ request[n] = "COMPLETED" /\ option[n] # "none"

\* A provider of the fallback tier is chosen only when all preferred ones were asked
\* before and none of them had an offer.
PreferredFirst ==
    [][\A p \in Proc, v \in Provider \ Preferred :
         proc[p].outcome[v] = "none" /\ proc'[p].outcome[v] # "none" /\ Preferred # {}
         => \A w \in Preferred : proc[p].outcome[w] \in {"INELIGIBLE", "TIMEOUT"}]_vars

\* Who reads OPTION_READY is answered with an option, never with the empty result
\* of an attempt that has just begun.
ReaderGetsOption ==
    \A r \in Reader :
      reader[r].pc = "answer" /\ reader[r].status = "OPTION_READY" => reader[r].option # "none"
-----------------------------------------------------------------------------
(* The inductive invariant.                                                *)

Statuses == {"CREATED", "ORCHESTRATING", "OPTION_READY", "BOOKED", "FAILED", "CANCELLED"}
Owning == {"list", "ask", "finalize", "fail"}
Handlers ==
    [pc : {"idle", "number", "start", "answer"} \cup Owning, attempt : 0 .. MaxAttempts,
     outcome : [Provider -> Class \cup {"none", "asked"}], late : BOOLEAN,
     answer : Provider \cup {"none"}]
Readers ==
    [pc : {"idle", "bookable", "running", "answer"}, status : Statuses \cup {"none"},
     option : Provider \cup {"none"}]

Typed ==
    /\ delivery \in Statuses
    /\ request \in [Attempt -> {"NONE", "RUNNING", "COMPLETED", "FAILED"}]
    /\ option \in [Attempt -> Provider \cup {"none"}]
    /\ asked \in [Attempt -> SUBSET Provider]
    /\ proc \in [Proc -> Handlers] /\ reader \in [Reader -> Readers]

IsLast(n) == \A m \in Attempt : m > n => request[m] = "NONE"

\* The rows have no gaps; what runs, and what is offered, is the last of them.
AttemptOk(n) ==
    /\ (request[n] = "COMPLETED") = (option[n] # "none")
    /\ option[n] \in asked[n] \cup {"none"}
    /\ request[n] # "NONE" => \A m \in Attempt : m < n => request[m] # "NONE"
    /\ request[n] = "RUNNING" => delivery \in {"ORCHESTRATING", "CANCELLED"} /\ IsLast(n)
OfferIsLast ==
    delivery = "OPTION_READY" => \E n \in Attempt : request[n] = "COMPLETED" /\ IsLast(n)

\* Who has a number knows that all before it are taken, who started has the row that runs,
\* alone, and who asks has asked the preferred providers.
HandlerOk(p) ==
    /\ proc[p].pc = "start" => /\ proc[p].attempt \in Attempt
                              /\ \A m \in Attempt : m < proc[p].attempt => request[m] # "NONE"
    /\ proc[p].pc \in Owning => /\ proc[p].attempt \in Attempt
                                /\ request[proc[p].attempt] = "RUNNING"
    /\ proc[p].pc = "ask" => \A w \in Preferred : proc[p].outcome[w] # "none"
OneOwner == \A p, q \in Proc : proc[p].pc \in Owning /\ proc[q].pc \in Owning => p = q

\* A reader takes the way of the status he has read.
ReaderOk(r) ==
    /\ reader[r].pc = "running" => reader[r].status # "OPTION_READY"
    /\ reader[r].pc = "answer" /\ reader[r].status = "OPTION_READY"
       => reader[r].option # "none"

IInv ==
    /\ Typed /\ OneOwner /\ OfferIsLast
    /\ \A n \in Attempt : AttemptOk(n)
    /\ \A p \in Proc : HandlerOk(p)
    /\ \A r \in Reader : ReaderOk(r)
=============================================================================

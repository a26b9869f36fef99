---------------------------- MODULE ProviderRegistry ----------------------------
(***************************************************************************)
(* ProviderService and ProviderRepository: what administrators configure of  *)
(* one provider, and the integrationStatus that is computed from it and      *)
(* stored in a statement of its own. A step is one database statement or     *)
(* transaction. Names, limits and settings of the provider are left out, and *)
(* so is the audit log, which nothing reads back.                            *)
(***************************************************************************)
EXTENDS Naturals, FiniteSets

CONSTANTS
    Admin,              \* requests of administrators that run at the same time
    Capability,
    Field,              \* names of credentials
    Service,            \* codes of services
    Vehicle,            \* types of vehicles
    AdapterRegistered,  \* providerAdapterRegistry.has(code)
    MaxRequests,        \* requests in all (bound)
    MaxCrashes          \* requests that die (bound)

RegistryAssumption ==
    /\ AdapterRegistered \in BOOLEAN
    /\ MaxRequests \in Nat /\ MaxCrashes \in Nat

VARIABLES
    row,            \* the row of the provider, or NoRow
    capabilities,   \* its capabilities
    credentials,    \* [field -> the active versions]
    items,          \* [service or vehicle -> "absent", "on" or "off"]
    req,            \* the handlers
    served,         \* requests taken so far
    crashes

vars == <<row, capabilities, credentials, items, req, served, crashes>>

Item == Service \cup Vehicle
NoRow == [enabled |-> FALSE, orchestration |-> FALSE, status |-> "none",
          health |-> "none", integration |-> "none"]
Idle(answer) == [pc |-> "idle", answer |-> answer, on |-> FALSE, caps |-> {},
                 twice |-> FALSE, gone |-> [f \in Field |-> {}],
                 fields |-> {}, number |-> 0, integration |-> "none", item |-> "none"]
Exists == row # NoRow
Goto(a, pc) == req' = [req EXCEPT ![a].pc = pc]
Done(a, answer) == req' = [req EXCEPT ![a] = Idle(answer)]

\* A request that starts, with what its body asks for.
Take(a, r) ==
    /\ req[a].pc = "idle" /\ served < MaxRequests
    /\ served' = served + 1
    /\ req' = [req EXCEPT ![a] = r]
Start(pc) == [Idle("none") EXCEPT !.pc = pc]
-----------------------------------------------------------------------------
(* provider.readiness.                                                     *)

HasCredentials == \E f \in Field : credentials[f] # {}

computeIntegrationStatus ==
    IF row.enabled /\ HasCredentials /\ capabilities # {} THEN "CONFIGURED"
    ELSE "NOT_CONFIGURED"

\* Mutated form: an adapter is enough.
canMarkProviderReady_Untested(health) == AdapterRegistered
\* The adapter is there and its connection was tested.
canMarkProviderReady(health) == AdapterRegistered /\ health = "HEALTHY"

\* The configuration with an adapter that has been tested.
StatusWithAdapter(health) ==
    IF computeIntegrationStatus = "CONFIGURED" /\ canMarkProviderReady(health)
    THEN "READY" ELSE computeIntegrationStatus

\* isOrchestrationEligible.
isOrchestrationEligible ==
    /\ row.enabled /\ row.orchestration
    /\ row.integration = "READY" /\ row.health # "UNHEALTHY"
-----------------------------------------------------------------------------
Init ==
    /\ row = NoRow /\ capabilities = {}
    /\ credentials = [f \in Field |-> {}]
    /\ items = [i \in Item |-> "absent"]
    /\ req = [a \in Admin |-> Idle("none")]
    /\ served = 0 /\ crashes = 0

\* createProvider: the code is free when it is looked up.
CreateProvider(a) ==
    \E on \in BOOLEAN, caps \in SUBSET Capability :
        /\ Take(a, IF Exists THEN Idle("error")
                   ELSE [Start("create") EXCEPT !.on = on, !.caps = caps])
        /\ UNCHANGED <<row, capabilities, credentials, items, crashes>>

\* The insert writes provider and capabilities at once; the code is unique.
InsertProvider(a) ==
    /\ req[a].pc = "create"
    /\ IF Exists THEN Done(a, "error") /\ UNCHANGED <<row, capabilities>>
       ELSE /\ \E orchestration \in BOOLEAN :
                   row' = [enabled |-> req[a].on, orchestration |-> orchestration,
                           status |-> IF req[a].on THEN "ACTIVE" ELSE "INACTIVE",
                           health |-> "UNKNOWN", integration |-> "NOT_CONFIGURED"]
            /\ capabilities' = req[a].caps
            /\ Goto(a, "refresh")
    /\ UNCHANGED <<credentials, items, served, crashes>>

\* updateProvider: one transaction, then the status is refreshed.
UpdateProvider(a) ==
    \E orchestration \in BOOLEAN :
        /\ Take(a, IF Exists THEN Start("refresh") ELSE Idle("error"))
        /\ row' = IF Exists THEN [row EXCEPT !.orchestration = orchestration] ELSE row
        /\ UNCHANGED <<capabilities, credentials, items, crashes>>

\* updateProviderStatus: enabled is what the body says, or follows from the status,
\* or for SUSPENDED is the value that was read.
UpdateProviderStatus(a) ==
    \E status \in {"ACTIVE", "INACTIVE", "SUSPENDED"}, on \in BOOLEAN :
        /\ Take(a, IF Exists THEN [Start("status") EXCEPT !.on = on, !.integration = status]
                   ELSE Idle("error"))
        /\ UNCHANGED <<row, capabilities, credentials, items, crashes>>

StoreStatus(a) ==
    /\ req[a].pc = "status"
    /\ row' = [row EXCEPT !.status = req[a].integration, !.enabled = req[a].on]
    /\ req' = [req EXCEPT ![a] = Start("refresh")]
    /\ UNCHANGED <<capabilities, credentials, items, served, crashes>>

\* upsertCredentials: the rows that are active when its transaction starts ...
UpsertCredentials(a) ==
    \E fields \in (SUBSET Field) \ {{}} :
        /\ Take(a, IF Exists THEN [Start("credentials") EXCEPT !.fields = fields,
                       !.gone = [f \in Field |-> IF f \in fields THEN credentials[f] ELSE {}],
                       !.number = served + 1]
                   ELSE Idle("error"))
        /\ UNCHANGED <<row, capabilities, credentials, items, crashes>>

\* ... are deactivated and the new ones inserted when it commits.
\* Mutated form: no transaction; the old rows go first.
CommitCredentials_Apart(a) ==
    /\ req[a].pc = "credentials"
    /\ IF \E f \in Field : credentials[f] \cap req[a].gone[f] # {}
       THEN /\ credentials' = [f \in Field |-> credentials[f] \ req[a].gone[f]]
            /\ Goto(a, "credentials")
       ELSE /\ credentials' = [f \in Field |-> credentials[f]
                    \cup IF f \in req[a].fields THEN {req[a].number} ELSE {}]
            /\ req' = [req EXCEPT ![a] = Start("refresh")]
    /\ UNCHANGED <<row, capabilities, items, served, crashes>>
CommitCredentials(a) ==
    /\ req[a].pc = "credentials"
    /\ credentials' = [f \in Field |->
           (credentials[f] \ req[a].gone[f])
               \cup IF f \in req[a].fields THEN {req[a].number} ELSE {}]
    /\ req' = [req EXCEPT ![a] = Start("refresh")]
    /\ UNCHANGED <<row, capabilities, items, served, crashes>>

\* replaceCapabilities: deleteMany, and createMany in a statement of its own.
ReplaceCapabilities(a) ==
    \E caps \in SUBSET Capability, twice \in BOOLEAN :
        /\ twice => caps # {}
        /\ Take(a, IF Exists THEN [Start("capabilities") EXCEPT !.caps = caps, !.twice = twice]
                   ELSE Idle("error"))
        /\ capabilities' = IF Exists THEN {} ELSE capabilities
        /\ UNCHANGED <<row, credentials, items, crashes>>

\* A capability that is listed twice, or that is there again, fails the insert.
CreateCapabilities(a) ==
    /\ req[a].pc = "capabilities"
    /\ IF req[a].twice \/ req[a].caps \cap capabilities # {}
       THEN Done(a, "error") /\ UNCHANGED capabilities
       ELSE /\ capabilities' = capabilities \cup req[a].caps
            /\ req' = [req EXCEPT ![a] = Start("refresh")]
    /\ UNCHANGED <<row, credentials, items, served, crashes>>

\* refreshIntegrationStatus: read and compute ...
\* Mutated form: a request that changes nothing of the row answers at once.
ReadStatus_OnlyEnabled(a) ==
    /\ req[a].pc = "refresh"
    /\ IF row.integration = StatusWithAdapter(row.health) \/ ~row.enabled
       THEN Done(a, "detail")
       ELSE req' = [req EXCEPT ![a].pc = "write",
                               ![a].integration = StatusWithAdapter(row.health)]
    /\ UNCHANGED <<row, capabilities, credentials, items, served, crashes>>
ReadStatus(a) ==
    /\ req[a].pc = "refresh"
    /\ IF row.integration = StatusWithAdapter(row.health) THEN Done(a, "detail")
       ELSE req' = [req EXCEPT ![a].pc = "write",
                               ![a].integration = StatusWithAdapter(row.health)]
    /\ UNCHANGED <<row, capabilities, credentials, items, served, crashes>>

\* ... and write what was computed.
WriteStatus(a) ==
    /\ req[a].pc = "write"
    /\ row' = [row EXCEPT !.integration = req[a].integration]
    /\ Done(a, "detail")
    /\ UNCHANGED <<capabilities, credentials, items, served, crashes>>
-----------------------------------------------------------------------------
(* The connection test.                                                    *)

\* resolveByIdForExecution refuses a provider that is off or not configured.
TestConnection(a) ==
    /\ Take(a, IF /\ Exists /\ row.enabled /\ row.status # "INACTIVE"
                  /\ row.integration # "NOT_CONFIGURED" /\ AdapterRegistered
               THEN Start("test") ELSE Idle("error"))
    /\ UNCHANGED <<row, capabilities, credentials, items, crashes>>

\* The adapter has answered; recordConnectionTestResult reads the provider ...
RecordResult(a) ==
    \E connected \in BOOLEAN :
        /\ req[a].pc = "test"
        /\ req' = [req EXCEPT ![a].pc = "record", ![a].on = connected,
                              ![a].integration = IF connected THEN StatusWithAdapter("HEALTHY")
                                                 ELSE computeIntegrationStatus]
        /\ UNCHANGED <<row, capabilities, credentials, items, served, crashes>>

\* ... and stores its health with the status.
StoreResult(a) ==
    /\ req[a].pc = "record"
    /\ row' = [row EXCEPT !.health = IF req[a].on THEN "HEALTHY" ELSE "UNHEALTHY",
                          !.integration = req[a].integration]
    /\ Done(a, "detail")
    /\ UNCHANGED <<capabilities, credentials, items, served, crashes>>
-----------------------------------------------------------------------------
(* Services and vehicles.                                                  *)

CreateItem(a, i) ==
    /\ Take(a, IF Exists /\ items[i] = "absent" THEN [Start("item") EXCEPT !.item = i]
               ELSE Idle("error"))
    /\ UNCHANGED <<row, capabilities, credentials, items, crashes>>

\* Code and vehicle type are unique for a provider.
InsertItem(a) ==
    /\ req[a].pc = "item"
    /\ IF items[req[a].item] = "absent"
       THEN items' = [items EXCEPT ![req[a].item] = "on"] /\ Done(a, "done")
       ELSE Done(a, "error") /\ UNCHANGED items
    /\ UNCHANGED <<row, capabilities, credentials, served, crashes>>

\* One that is not the provider's is answered with 404.
UpdateService(a, s) ==
    /\ items[s] # "absent"
    /\ Take(a, Idle("done"))
    /\ \E to \in {"on", "off"} : items' = [items EXCEPT ![s] = to]
    /\ UNCHANGED <<row, capabilities, credentials, crashes>>

UpdateVehicle(a, v) ==
    /\ items[v] # "absent"
    /\ Take(a, Idle("done"))
    /\ \E to \in {"on", "off"} : items' = [items EXCEPT ![v] = to]
    /\ UNCHANGED <<row, capabilities, credentials, crashes>>

\* The process dies between two statements; a transaction is rolled back.
Crash(a) ==
    /\ req[a].pc # "idle" /\ crashes < MaxCrashes
    /\ crashes' = crashes + 1
    /\ Done(a, "none")
    /\ UNCHANGED <<row, capabilities, credentials, items, served>>

Step(a) ==
    \/ CreateProvider(a) \/ InsertProvider(a) \/ UpdateProvider(a)
    \/ UpdateProviderStatus(a) \/ StoreStatus(a)
    \/ UpsertCredentials(a) \/ CommitCredentials(a)
    \/ ReplaceCapabilities(a) \/ CreateCapabilities(a)
    \/ ReadStatus(a) \/ WriteStatus(a)
    \/ TestConnection(a) \/ RecordResult(a) \/ StoreResult(a)
    \/ (\E i \in Item : CreateItem(a, i)) \/ InsertItem(a)
    \/ (\E s \in Service : UpdateService(a, s))
    \/ (\E v \in Vehicle : UpdateVehicle(a, v))
    \/ Crash(a)
Next == \E a \in Admin : Step(a)
Spec == Init /\ [][Next]_vars
-----------------------------------------------------------------------------
Statuses == {"NOT_CONFIGURED", "CONFIGURED", "READY"}

TypeOK ==
    /\ row \in {NoRow} \cup [enabled : BOOLEAN, orchestration : BOOLEAN,
                             status : {"ACTIVE", "INACTIVE", "SUSPENDED"},
                             health : {"UNKNOWN", "HEALTHY", "UNHEALTHY"},
                             integration : Statuses]
    /\ capabilities \in SUBSET Capability
    /\ credentials \in [Field -> SUBSET (1 .. MaxRequests)]
    /\ items \in [Item -> {"absent", "on", "off"}]
    /\ row = NoRow => capabilities = {} /\ ~HasCredentials

\* What orchestration may choose has credentials and was healthy when it was last
\* tested, however the statements of two administrators interleave and wherever
\* one of them dies.
EligibleIsUsable == isOrchestrationEligible => HasCredentials /\ row.health = "HEALTHY"

\* A change of credentials never leaves a moment without the field it changes: a
\* booking that resolves the configuration meanwhile finds the old or the new one.
CredentialKept ==
    [][\A f \in Field : credentials[f] # {} => credentials'[f] # {}]_vars

\* When no request runs, the stored status of a provider whose last request was
\* answered with its detail is the one its configuration gives.
AnsweredIsSettled ==
    (\A a \in Admin : req[a].pc = "idle") /\ (\E a \in Admin : req[a].answer = "detail")
        => row.integration = StatusWithAdapter(row.health)
-----------------------------------------------------------------------------
(* The inductive invariant.                                                *)

Requests ==
    [pc : {"idle", "create", "refresh", "status", "credentials", "capabilities", "write", "test",
           "record", "item"},
     answer : {"none", "error", "detail", "done"}, on : BOOLEAN, caps : SUBSET Capability,
     twice : BOOLEAN, gone : [Field -> SUBSET (1 .. MaxRequests)], fields : SUBSET Field,
     number : 0 .. MaxRequests,
     integration : Statuses \cup {"none", "ACTIVE", "INACTIVE", "SUSPENDED"},
     item : Item \cup {"none"}]

\* What holds of a request that was computed some statements ago: credentials are never
\* taken away, and a provider that was tested stays so.
Holds(a) ==
    /\ req[a].pc \notin {"idle", "create"} => Exists
    /\ req[a].pc = "status" => req[a].integration \in {"ACTIVE", "INACTIVE", "SUSPENDED"}
    /\ req[a].pc = "credentials"
       => req[a].number # 0 /\ \A f \in Field \ req[a].fields : req[a].gone[f] = {}
    /\ req[a].pc \in {"write", "record"}
       => req[a].integration \in Statuses /\ (req[a].integration = "READY" => HasCredentials)
    /\ req[a].pc = "write" /\ req[a].integration = "READY" => row.health # "UNKNOWN"
    /\ req[a].pc = "item" => req[a].item \in Item
    /\ req[a].pc # "idle" => req[a].answer = "none"

ReadyWasTested == row.integration = "READY" => HasCredentials /\ row.health # "UNKNOWN"

IInv ==
    /\ TypeOK /\ ReadyWasTested
    /\ req \in [Admin -> Requests] /\ served \in 0 .. MaxRequests
    /\ \A a \in Admin : Holds(a)

\* Of requests one after the other: what one computed is still so when it writes it, and
\* when it is answered.
Settled(a) ==
    /\ req[a].pc = "write" => req[a].integration = StatusWithAdapter(row.health)
    /\ req[a].pc = "record"
       => req[a].integration = IF req[a].on THEN StatusWithAdapter("HEALTHY")
                               ELSE computeIntegrationStatus
    /\ req[a].answer = "detail" => row.integration = StatusWithAdapter(row.health)
SettledAlone ==
    /\ \A a \in Admin : Settled(a)
    /\ \A a, b \in Admin : a = b \/ req[a] = Idle("none") \/ req[b] = Idle("none")
=============================================================================

--------------------------- MODULE OperationalPolling ---------------------------
(***************************************************************************)
(* OperationalPollingService on the instances of the server, the refreshes *)
(* administrators ask for, and what both do with the provider's report:    *)
(* OperationalRefreshService, DriverService and TrackingService.           *)
(*                                                                         *)
(* An instance polls a batch of deliveries one by one, each under a lock:  *)
(* an advisory lock of PostgreSQL, which belongs to the connection that    *)
(* took it. An instance has a pool of connections and a statement runs on  *)
(* any of them. A step is an awaited statement or call.                    *)
(***************************************************************************)
EXTENDS DeliveryTransitions, Sequences, FiniteSets

CONSTANTS
    Instance,       \* instances of the server
    Admin,          \* requests of administrators
    Connection,     \* the connections of an instance's pool
    Delivery,       \* deliveries with a BOOKED booking
    Eligible,       \* those whose provider is ready for getTracking
    Reports,        \* what the provider may report: [driver, status, event]
    BatchSize,      \* OPERATIONAL_POLL_BATCH_SIZE
    InitialStatus,  \* the deliveries' status at the start
    MaxFaults       \* calls and statements that fail, instances that die (bound)

PollingAssumption ==
    /\ BatchSize \in Nat \ {0} /\ MaxFaults \in Nat /\ Eligible \subseteq Delivery
    /\ IsFiniteSet(Instance \cup Admin) /\ Instance \cap Admin = {}
    /\ IsFiniteSet(Delivery) /\ InitialStatus \in DeliveryStatuses
    /\ \A report \in Reports : report.driver \in BOOLEAN

VARIABLES
    status,         \* Delivery.status
    booked,         \* deliveries whose booking is still BOOKED
    order,          \* the place of each delivery by updatedAt, oldest first
    drivers,        \* the ASSIGNED driver rows of each delivery
    points,         \* provider events that have a tracking point
    held,           \* advisory locks: [delivery, instance, connection]
    proc,           \* the poll cycles and the requests
    faults          \* faults so far

vars == <<status, booked, order, drivers, points, held, proc, faults>>
rows == <<status, booked, order, drivers, points>>

PollingStatuses == {"BOOKED", "DRIVER_ASSIGNED", "PICKUP_OTP_PENDING", "PICKED_UP",
                    "IN_TRANSIT", "DELIVERY_OTP_PENDING"}
NoReport == [driver |-> FALSE, status |-> "NONE", event |-> "none"]
Idle == [pc |-> "idle", batch |-> <<>>, from |-> "CREATED", lock |-> "none",
         report |-> NoReport, found |-> FALSE, row |-> 0]

Goto(p, pc) == proc' = [proc EXCEPT ![p].pc = pc]
Current(p) == Head(proc[p].batch)

\* Every delivery has a place of its own.
Orders ==
    {o \in [Delivery -> 1 .. Cardinality(Delivery)] :
        \A d, e \in Delivery : o[d] = o[e] => d = e}

Init ==
    /\ status = [d \in Delivery |-> InitialStatus]
    /\ booked = Delivery
    /\ order = CHOOSE o \in Orders : TRUE
    /\ drivers = [d \in Delivery |-> {}]
    /\ points = {}
    /\ held = {}
    /\ proc = [p \in Instance \cup Admin |-> Idle]
    /\ faults = 0

\* transitionStatus: a conditional update, which also renews updatedAt.
TransitionStatus(d, expected, to) ==
    IF status[d] \in expected
    THEN /\ status' = [status EXCEPT ![d] = to]
         /\ order' = [e \in Delivery |->
                CASE e = d -> Cardinality(Delivery)
                  [] order[e] > order[d] -> order[e] - 1
                  [] OTHER -> order[e]]
    ELSE UNCHANGED <<status, order>>
-----------------------------------------------------------------------------
(* A cycle.                                                                *)

\* findEligibleDeliveries: the first deliveries, by their order, that are to be polled.
Wanted == {d \in booked : status[d] \in PollingStatuses}
Batches ==
    {b \in UNION {[1 .. n -> Wanted] : n \in 1 .. BatchSize} :
        /\ \A i, j \in DOMAIN b : i < j => order[b[i]] < order[b[j]]
        /\ Len(b) = BatchSize \/ Len(b) = Cardinality(Wanted)
        /\ \A d \in Wanted : (\E i \in DOMAIN b : b[i] = d) \/ order[d] > order[b[Len(b)]]}

\* runCycle, while no cycle of the instance runs.
StartCycle(i) ==
    /\ proc[i].pc = "idle"
    /\ \E b \in Batches : proc' = [proc EXCEPT ![i].pc = "next", ![i].batch = b]
    /\ UNCHANGED <<rows, held, faults>>

\* Mutated form: the cycle ends after its first delivery.
Proceed_FirstOnly(p) == [Idle EXCEPT !.pc = "idle"]

\* On to the next delivery of the batch; the cycle ends after the last.
Proceed(p) ==
    IF Len(proc[p].batch) > 1
    THEN [Idle EXCEPT !.pc = "next", !.batch = Tail(proc[p].batch)]
    ELSE Idle

\* Mutated form: a poll starts whether the lock was got or not.
TryAcquire_Always(i) ==
    /\ proc[i].pc = "next"
    /\ proc' = [proc EXCEPT ![i] = IF Current(i) \in Eligible
                                   THEN [@ EXCEPT !.pc = "read", !.lock = "again"] ELSE Proceed(i)]
    /\ UNCHANGED <<rows, held, faults>>

\* isProviderEligible, then tryAcquire, on any connection of the pool. One that has
\* the lock from earlier gets it again, and is then not rid of it by one unlock.
\* When the statement fails, the poll goes on without the lock. An unexpected error of
\* isProviderEligible ends the cycle. The two are one step: what the first looks at, the
\* provider's row and token, no step of this model changes.
TryAcquire(i) ==
    LET d == Current(i)
        holders == {h.owner : h \in {g \in held : g.delivery = d}}
    IN  /\ proc[i].pc = "next"
        /\ \/ /\ \E c \in Connection :
                 CASE d \notin Eligible \/ holders \ {<<i, c>>} # {} ->
                        proc' = [proc EXCEPT ![i] = Proceed(i)] /\ UNCHANGED held
                   [] OTHER ->
                        /\ held' = held \cup {[delivery |-> d, owner |-> <<i, c>>]}
                        /\ proc' = [proc EXCEPT ![i].pc = "read", ![i].lock =
                                        IF holders = {} THEN "fresh" ELSE "again"]
              /\ UNCHANGED faults
           \/ /\ d \in Eligible /\ faults < MaxFaults
              /\ faults' = faults + 1
              /\ proc' = [proc EXCEPT ![i].pc = "read"]
              /\ UNCHANGED held
           \/ /\ faults < MaxFaults
              /\ faults' = faults + 1
              /\ proc' = [proc EXCEPT ![i] = Idle]
              /\ UNCHANGED held
        /\ UNCHANGED rows

\* Where a delivery of a poll is done with, or given up with the whole cycle.
Leave(p, pc) ==
    IF p \in Admin THEN proc' = [proc EXCEPT ![p] = Idle]
    ELSE proc' = [proc EXCEPT ![p] = [Idle EXCEPT !.pc = pc, !.batch = proc[p].batch,
                                                  !.lock = proc[p].lock]]

\* The finally of pollDelivery: pg_advisory_unlock on any connection; on one that
\* does not hold the lock it has no effect.
Release(i) ==
    /\ proc[i].pc \in {"release", "abort"}
    /\ \E c \in Connection :
        held' = IF proc[i].lock = "fresh" THEN held \ {[delivery |-> Current(i), owner |-> <<i, c>>]}
                ELSE held
    /\ proc' = [proc EXCEPT ![i] = IF proc[i].pc = "release" THEN Proceed(i) ELSE Idle]
    /\ UNCHANGED <<rows, faults>>
-----------------------------------------------------------------------------
(* A refresh.                                                              *)

\* An administrator asks for it.
AdminRefresh(a, d) ==
    /\ proc[a].pc = "idle"
    /\ proc' = [proc EXCEPT ![a].pc = "read", ![a].batch = <<d>>]
    /\ UNCHANGED <<rows, held, faults>>

\* The delivery and its booking; without one the refresh throws.
ReadDelivery(p) ==
    LET d == Current(p) IN
    /\ proc[p].pc = "read"
    /\ IF d \in booked
       THEN proc' = [proc EXCEPT ![p].pc = "poll", ![p].from = status[d]]
       ELSE Leave(p, "abort")
    /\ UNCHANGED <<rows, held, faults>>

\* getTracking. An error ends a poll quietly, and an administrator's request too.
GetTracking(p) ==
    /\ proc[p].pc = "poll"
    /\ \/ /\ \E report \in Reports :
                proc' = [proc EXCEPT ![p].pc = "driver", ![p].report = report]
          /\ UNCHANGED faults
       \/ /\ faults < MaxFaults
          /\ faults' = faults + 1
          /\ Leave(p, "release")
    /\ UNCHANGED <<rows, held>>

\* upsertFromProvider looks for the ASSIGNED row; upsertAssignment looks again
\* and writes what it finds then.
FindDriver(p) ==
    /\ proc[p].pc = "driver"
    /\ proc' = [proc EXCEPT ![p].pc = "upsert", ![p].found = drivers[Current(p)] # {}]
    /\ UNCHANGED <<rows, held, faults>>

FindExisting(p) ==
    LET there == drivers[Current(p)] IN
    /\ proc[p].pc = "upsert"
    /\ \/ \E r \in there : proc' = [proc EXCEPT ![p].pc = "update", ![p].row = r]
       \/ there = {} /\ Goto(p, "insert")
    /\ UNCHANGED <<rows, held, faults>>

\* The rows of a delivery that matter: a row that is not ASSIGNED, and that nobody is
\* about to write, plays no part, and its number is used again.
InUse(d) ==
    drivers[d] \cup {proc[q].row : q \in {q \in Instance \cup Admin :
                                            proc[q].pc = "update" /\ Current(q) = d}}
NewRow(d) == CHOOSE n \in 1 .. Cardinality(InUse(d)) + 1 : n \notin InUse(d)

\* The row that was found is written by its id; it is ASSIGNED when the report has a
\* driver or a row was there at the first look. A missing row is inserted.
UpsertDriver(p) ==
    LET d == Current(p)
        assigned == proc[p].report.driver \/ proc[p].found
        row == IF proc[p].pc = "update" THEN proc[p].row ELSE NewRow(d)
    IN  /\ proc[p].pc \in {"update", "insert"}
        /\ drivers' = [drivers EXCEPT ![d] = IF assigned THEN @ \cup {row} ELSE @ \ {row}]
        /\ proc' = [proc EXCEPT ![p].row = 0, ![p].pc =
               IF proc[p].report.driver /\ proc[p].from \in {"BOOKED", "DRIVER_ASSIGNED"}
               THEN "assign" ELSE "reread"]
        /\ UNCHANGED <<status, booked, order, points, held, faults>>

\* Mutated form: whatever the delivery has become.
AssignDriver_Unconditional(p) ==
    /\ proc[p].pc = "assign"
    /\ TransitionStatus(Current(p), DeliveryStatuses, "DRIVER_ASSIGNED")
    /\ Goto(p, "reread")
    /\ UNCHANGED <<booked, drivers, points, held, faults>>

AssignDriver(p) ==
    /\ proc[p].pc = "assign"
    /\ TransitionStatus(Current(p), {"BOOKED", "DRIVER_ASSIGNED"}, "DRIVER_ASSIGNED")
    /\ Goto(p, "reread")
    /\ UNCHANGED <<booked, drivers, points, held, faults>>

\* The status is read again for the tracking; a report that is pending has none.
RereadDelivery(p) ==
    /\ proc[p].pc = "reread"
    /\ IF proc[p].report.status = "PENDING"
       THEN Leave(p, "release")
       ELSE proc' = [proc EXCEPT ![p].pc = "track", ![p].from = status[Current(p)]]
    /\ UNCHANGED <<rows, held, faults>>

\* ingestTrackingResult: an event that has a point, by (provider, event), is passed over.
FindEvent(p) ==
    /\ proc[p].pc = "track"
    /\ IF proc[p].report.event \in points THEN Leave(p, "release") ELSE Goto(p, "point")
    /\ UNCHANGED <<rows, held, faults>>

\* createPoint throws when another has inserted it meanwhile.
CreatePoint(p) ==
    LET event == proc[p].report.event IN
    /\ proc[p].pc = "point"
    /\ IF event \in points
       THEN Leave(p, "abort") /\ UNCHANGED points
       ELSE Goto(p, "transit") /\ points' = points \cup ({event} \ {"none"})
    /\ UNCHANGED <<status, booked, order, drivers, held, faults>>

\* maybeTransitionFromTracking for a poll: IN_TRANSIT moves a delivery, not while
\* a code is awaited. Unlike a webhook, a status that does not follow throws.
TransitionFromTracking(p) ==
    LET d == Current(p)
        from == proc[p].from
        verdict == LifecycleVerdict(from, "IN_TRANSIT")
        moves == /\ proc[p].report.status = "IN_TRANSIT"
                 /\ from \notin {"DELIVERY_OTP_PENDING", "PICKUP_OTP_PENDING"}
    IN  /\ proc[p].pc = "transit"
        /\ IF moves /\ verdict = "attempt"
           THEN TransitionStatus(d, {"PICKED_UP"}, "IN_TRANSIT")
           ELSE UNCHANGED <<status, order>>
        /\ Leave(p, IF moves /\ verdict = "refuse" THEN "abort" ELSE "release")
        /\ UNCHANGED <<booked, drivers, points, held, faults>>
-----------------------------------------------------------------------------
(* Faults and the rest of the system.                                      *)

\* A statement of a refresh fails: the poll cycle ends, after its finally.
Fail(p) ==
    /\ proc[p].pc \in {"read", "driver", "upsert", "update", "insert", "assign",
                       "reread", "track", "point", "transit"}
    /\ faults < MaxFaults
    /\ faults' = faults + 1
    /\ Leave(p, "abort")
    /\ UNCHANGED <<rows, held>>

\* An instance dies; its connections close, and their locks go.
Crash(i) ==
    /\ proc[i].pc # "idle"
    /\ faults < MaxFaults
    /\ faults' = faults + 1
    /\ proc' = [proc EXCEPT ![i] = Idle]
    /\ held' = {h \in held : h.owner[1] # i}
    /\ UNCHANGED rows

\* Codes move the delivery on, and a cancel ends it and its booking.
Operate(d) ==
    \/ \E to \in {"PICKUP_OTP_PENDING", "PICKED_UP", "DELIVERY_OTP_PENDING", "DELIVERED"} :
        /\ <<status[d], to>> \in AllowedTransitions
        /\ TransitionStatus(d, {status[d]}, to)
        /\ UNCHANGED <<booked, drivers, points, held, proc, faults>>
    \/ /\ status[d] \in CancellableStatuses
       /\ TransitionStatus(d, {status[d]}, "CANCELLED")
       /\ booked' = booked \ {d}
       /\ UNCHANGED <<drivers, points, held, proc, faults>>

Refresh(p) ==
    \/ ReadDelivery(p) \/ GetTracking(p) \/ FindDriver(p) \/ FindExisting(p)
    \/ UpsertDriver(p) \/ AssignDriver(p) \/ RereadDelivery(p) \/ FindEvent(p)
    \/ CreatePoint(p) \/ TransitionFromTracking(p)

Poll(i) == TryAcquire(i) \/ Release(i) \/ Refresh(i)

Next ==
    \/ \E i \in Instance : StartCycle(i) \/ Poll(i) \/ Fail(i) \/ Crash(i)
    \/ \E a \in Admin : \/ \E d \in Delivery : AdminRefresh(a, d)
                        \/ Refresh(a) \/ Fail(a)
    \/ \E d \in Delivery : Operate(d)

Spec == Init /\ [][Next]_vars
-----------------------------------------------------------------------------
(* Properties.                                                             *)

TypeOK ==
    /\ status \in [Delivery -> DeliveryStatuses]
    /\ booked \subseteq Delivery
    /\ order \in Orders
    /\ drivers \in [Delivery -> SUBSET (1 .. Cardinality(Instance \cup Admin))]
    /\ held \subseteq [delivery : Delivery, owner : Instance \X Connection]
    /\ \A p \in Instance \cup Admin :
        proc[p].pc # "idle" => proc[p].batch # <<>> /\ Len(proc[p].batch) <= BatchSize
    /\ faults \in 0 .. MaxFaults

\* What a cycle or a request is.
Handlers ==
    [pc : {"idle", "next", "read", "poll", "driver", "upsert", "update", "insert", "assign",
           "reread", "track", "point", "transit", "release", "abort"},
     batch : Seq(Delivery), from : DeliveryStatuses, lock : {"none", "fresh", "again"},
     report : Reports \cup {NoReport}, found : BOOLEAN,
     row : 0 .. Cardinality(Instance \cup Admin)]

\* An instance that polls a delivery with its lock has the lock, on some connection.
HasLock(i) ==
    proc[i].lock # "none" =>
        /\ proc[i].pc \notin {"idle", "next"}
        /\ \E c \in Connection : [delivery |-> Current(i), owner |-> <<i, c>>] \in held

\* Those that are about to insert a driver of a delivery.
Inserting(d) == {p \in Instance \cup Admin : proc[p].pc = "insert" /\ Current(p) = d}

\* The invariant that the proofs rest on: a lock is held once, and with the rows of a
\* delivery that are in use there is one more for each that is about to insert one.
IInv ==
    /\ TypeOK
    /\ proc \in [Instance \cup Admin -> Handlers]
    /\ \A p \in Instance \cup Admin : proc[p].pc = "update" => proc[p].row # 0
    /\ \A i \in Instance : HasLock(i)
    /\ \A g, h \in held : g.delivery = h.delivery => g = h
    /\ \A d \in Delivery : Cardinality(InUse(d)) + Cardinality(Inserting(d))
                              <= Cardinality(Instance \cup Admin)

\* Concurrent poll cycles, also those of other instances, do not process the
\* same delivery, not even when locks stay behind or instances die; a poll whose
\* lock statement failed goes on without one and is the exception.
NoConcurrentPolls ==
    \A i, j \in Instance : i # j =>
        ~(proc[i].pc \notin {"idle", "next"} /\ proc[j].pc \notin {"idle", "next"}
          /\ Current(i) = Current(j)
          /\ proc[i].lock # "none" /\ proc[j].lock # "none")

\* A delivery moves along its table, whatever the status a refresh started from,
\* and a report never completes a pickup or a delivery.
FollowsTransitionTable ==
    [][\A d \in DOMAIN status : CanTransitionDelivery(status[d], status'[d])]_status
=============================================================================

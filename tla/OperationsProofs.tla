----------------------------- MODULE OperationsProofs -----------------------------
(***************************************************************************)
(* Proofs about what happens to a delivery once it is booked, as             *)
(* MCOperations puts it together: the invariant of each part, kept by every  *)
(* step of it, and from these the properties the run checks, for every       *)
(* number of handlers, bodies, codes, instances and requests. The polls are  *)
(* proved about in OperationalPollingProofs.                                 *)
(***************************************************************************)
EXTENDS MCOperations, CommonLemmas


-----------------------------------------------------------------------------
(* ProviderWebhook.                                                        *)

\* The scans that remain of a list are a sequence.
LEMMA ScansAreCounted ==
    ASSUME NEW body, NEW S, NEW scans \in Seq(S)
    PROVE  \E n \in Nat :
              /\ NormalizedScans(body, scans) \in
                    [1 .. n -> {NormalizedScans(body, scans)[k] : k \in 1 .. n}]
              /\ n = 0 => NormalizedScans(body, scans) = <<>>
<1> DEFINE kept == {i \in DOMAIN scans : IsTrackable(body, scans[i])}
           own == NormalizedScans(body, scans)
<1>1. IsFiniteSet(DOMAIN scans)
  BY FS_Interval
<1>2. IsFiniteSet(kept)
  BY <1>1, FS_Subset
<1>3. Cardinality(kept) \in Nat
  BY <1>2, FS_CardinalityType
<1>4. own = [n \in 1 .. Cardinality(kept) |-> NormalizedScan(body, scans[Nth(kept, n)])]
  BY DEF NormalizedScans
<1> HIDE DEF own, kept
<1>5. own \in [1 .. Cardinality(kept) -> {own[k] : k \in 1 .. Cardinality(kept)}]
  BY <1>4
<1>6. Cardinality(kept) = 0 => own = <<>>
  <2> SUFFICES ASSUME Cardinality(kept) = 0 PROVE own = <<>>
    OBVIOUS
  <2> QED
    BY <1>4
<1> QED
  BY <1>3, <1>5, <1>6 DEF own

\* The scans of an event to process are a sequence that is not empty.
LEMMA ScansOfEvent ==
    ASSUME NEW e \in Event, Normalized[e].action = "events"
    PROVE  /\ Len(ScansOf(e)) \in Nat \ {0}
           /\ DOMAIN ScansOf(e) = 1 .. Len(ScansOf(e))
<1> DEFINE body == Body[e]
           item == [status |-> body.status, time |-> body.time]
           own == NormalizedScans(body, body.scans)
           self == NormalizedScans(body, <<item>>)
           scans == IF own = <<>> THEN self ELSE own
<1>1. PICK n \in Nat : /\ own \in [1 .. n -> {own[k] : k \in 1 .. n}]
                       /\ n = 0 => own = <<>>
  BY ScansAreCounted, WebhookAssumption
<1>2. <<item>> \in Seq({item})
  OBVIOUS
<1>3. PICK m \in Nat : /\ self \in [1 .. m -> {self[k] : k \in 1 .. m}]
                       /\ m = 0 => self = <<>>
  BY ScansAreCounted, <1>2
<1>4. scans # <<>> /\ ScansOf(e) = scans
  <2>1. Normalized[e] = NormalizeWebhook(body)
    BY DEF Normalized
  <2> HIDE DEF own, self, body, item
  <2>2. NormalizeWebhook(body) =
            (IF \/ body.awb = "NONE" /\ body.srOrderId = "NONE" /\ body.orderId = "NONE"
                \/ Len(body.scans) > MaxScans
             THEN [action |-> "reject", scans |-> <<>>]
             ELSE IF scans = <<>> THEN [action |-> "ignore", scans |-> <<>>]
             ELSE [action |-> "events", scans |-> scans])
    BY DEF NormalizeWebhook, own, self, item
  <2> QED
    BY <2>1, <2>2 DEF ScansOf
<1> HIDE DEF own, self
<1> DEFINE items(k) == {scans[j] : j \in 1 .. k}
<1>5. PICK k \in Nat : scans \in [1 .. k -> items(k)] /\ k # 0
  BY <1>1, <1>3, <1>4
<1> HIDE DEF items
<1>6. scans \in Seq(items(k))
  BY <1>5
<1>7. Len(scans) = k
  BY <1>5, <1>6
<1> QED
  BY <1>4, <1>5, <1>7

\* A step of one handler leaves what the others know true, as long as it takes no lease away
\* that has not run out.
LEMMA HandlerKeeps ==
    ASSUME IInv, NEW p \in Proc, proc' \in [Proc -> Handlers],
           \A q \in Proc \ {p} : proc'[q] = proc[q],
           Knows(p)', TypeOK', points \subseteq points', expired \subseteq expired',
           \A q \in Proc \ {p} : LET e == proc[q].event IN
               proc[q].leased /\ e \notin expired' => status'[e] = "RECEIVED" /\ lease'[e] = q,
           \A e \in Event : status'[e] = "FAILED" => Normalized[e].action = "events"
    PROVE  IInv'
<1>1. ASSUME NEW q \in Proc PROVE Knows(q)'
  <2>1. CASE q = p
    BY <2>1
  <2>2. CASE q # p
    <3>1. proc'[q] = proc[q] /\ Knows(q)
      BY <2>2 DEF IInv
    <3>2. /\ proc[q].leased /\ proc[q].event \notin expired'
             => status'[proc[q].event] = "RECEIVED" /\ lease'[proc[q].event] = q
      BY <2>2
    <3> QED
      BY <3>1, <3>2 DEF Knows, Scan
  <2> QED
    BY <2>1, <2>2
<1> QED
  BY <1>1 DEF IInv

\* Types of a step of one handler.
LEMMA HandlerTypes ==
    ASSUME IInv, NEW p \in Proc, NEW new \in Handlers, proc' = [proc EXCEPT ![p] = new],
           new.pc \in {"read", "create", "transition"} => new.i \in DOMAIN ScansOf(new.event)
    PROVE  /\ proc' \in [Proc -> Handlers]
           /\ proc'[p] = new
           /\ \A q \in Proc \ {p} : proc'[q] = proc[q]
           /\ \A q \in Proc :
                /\ proc'[q].pc \in {"idle", "lease", "link", "read", "create",
                                   "transition", "settle", "fail"}
                /\ proc'[q].from \in DeliveryStatuses
                /\ proc'[q].pc \in {"read", "create", "transition"}
                   => proc'[q].i \in DOMAIN ScansOf(proc'[q].event)
<1>1. /\ proc' \in [Proc -> Handlers]
      /\ proc'[p] = new
      /\ \A q \in Proc \ {p} : proc'[q] = proc[q]
  BY DEF IInv
<1>2. \A q \in Proc \ {p} : proc[q].pc \in {"read", "create", "transition"}
                   => proc[q].i \in DOMAIN ScansOf(proc[q].event)
  BY DEF IInv, TypeOK
<1>3. ASSUME NEW q \in Proc
      PROVE  proc'[q].pc \in {"read", "create", "transition"}
                   => proc'[q].i \in DOMAIN ScansOf(proc'[q].event)
  BY <1>1, <1>2
<1> QED
  BY <1>1, <1>3 DEF Handlers

\* A step of one handler that leaves the inbox alone.
LEMMA HandlerMoves ==
    ASSUME IInv, NEW p \in Proc, NEW new \in Handlers, proc' = [proc EXCEPT ![p] = new],
           new.pc \in {"read", "create", "transition"} => new.i \in DOMAIN ScansOf(new.event),
           Knows(p)', UNCHANGED <<inbox, booked>>,
           points \subseteq points', points' \subseteq UNION {ScanIds(e) : e \in Event},
           delivery' \in [Delivery -> DeliveryStatuses],
           failures' \in 0 .. MaxFailures, crashes' \in 0 .. MaxCrashes
    PROVE  IInv'
<1>1. TypeOK'
  BY HandlerTypes DEF IInv, TypeOK, inbox
<1>2. \A q \in Proc \ {p} : LET e == proc[q].event IN
          proc[q].leased /\ e \notin expired' => status'[e] = "RECEIVED" /\ lease'[e] = q
  BY DEF IInv, Knows, inbox
<1>3. \A e \in Event : status'[e] = "FAILED" => Normalized[e].action = "events"
  BY DEF IInv, inbox
<1> QED
  BY <1>1, <1>2, <1>3, HandlerTypes, HandlerKeeps DEF inbox

\* A handler that answers knows nothing.
LEMMA HandlerAnswers ==
    ASSUME IInv, NEW p \in Proc, Answer(p)
    PROVE  Idle \in Handlers /\ Knows(p)'
<1>1. Idle \in Handlers
  BY DEF Idle, Handlers, DeliveryStatuses
<1>2. proc'[p] = Idle
  BY DEF IInv, Answer
<1> QED
  BY <1>1, <1>2 DEF Knows, Idle

\* A body comes in and is normalized.
LEMMA WebhookReceive ==
    ASSUME IInv, NEW p \in Proc, NEW e \in Event, Receive(p, e)
    PROVE  IInv'
<1> DEFINE first == [proc[p] EXCEPT !.event = e]
           new == [first EXCEPT !.pc = IF status[e] = "FAILED" THEN "link" ELSE "lease"]
<1>1. proc[p] \in Handlers /\ proc[p].pc = "idle" /\ ~proc[p].leased
  BY DEF IInv, Receive, Knows, Handlers
<1>2. first \in Handlers /\ first.event = e /\ ~first.leased
  BY <1>1 DEF Handlers
<1> HIDE DEF first
<1>3. /\ new \in Handlers /\ new.event = e /\ ~new.leased
      /\ new.pc = IF status[e] = "FAILED" THEN "link" ELSE "lease"
  BY <1>2 DEF Handlers
<1>4. proc' = [proc EXCEPT ![p] = new]
  BY DEF Receive, first
<1> HIDE DEF new
<1>5. Knows(p)'
  BY <1>3, <1>4 DEF IInv, Knows, Receive
<1>6. /\ status' = [status EXCEPT ![e] = IF @ = "NONE" THEN "RECEIVED" ELSE @]
      /\ UNCHANGED <<lease, stale, expired, points, delivery, booked, faults>>
  BY DEF Receive
<1>7. status' \in [Event -> {"NONE", "RECEIVED", "PROCESSED", "IGNORED", "FAILED"}]
  BY <1>6 DEF IInv, TypeOK
<1>8. \A f \in Event : /\ status[f] = "RECEIVED" => status'[f] = "RECEIVED"
                       /\ status'[f] = "FAILED" => status[f] = "FAILED"
  BY <1>6 DEF IInv, TypeOK
<1>9. TypeOK'
  BY <1>3, <1>4, <1>6, <1>7, <1>8, HandlerTypes DEF IInv, TypeOK, faults
<1>10. \A q \in Proc \ {p} : LET f == proc[q].event IN
          proc[q].leased /\ f \notin expired' => status'[f] = "RECEIVED" /\ lease'[f] = q
  BY <1>6, <1>8 DEF IInv, Knows
<1> QED
  BY <1>3, <1>4, <1>5, <1>6, <1>8, <1>9, <1>10, HandlerTypes, HandlerKeeps DEF IInv

\* A handler takes the lease of its event, or finds that it need not or may not.
LEMMA WebhookAcquireLease ==
    ASSUME IInv, NEW p \in Proc, AcquireLease(p)
    PROVE  IInv'
<1> DEFINE e == proc[p].event
<1>1. proc[p] \in Handlers /\ proc[p].pc = "lease" /\ e \in Event /\ Normalized[e].action # "reject"
  BY DEF IInv, AcquireLease, Knows
<1>2. UNCHANGED <<status, expired, points, delivery, booked, faults>>
  BY DEF AcquireLease
<1>3. CASE ~(status[e] = "RECEIVED" /\ (lease[e] = "none" \/ e \in stale))
  <2>1. Answer(p) /\ UNCHANGED <<lease, stale>>
    BY <1>3 DEF AcquireLease
  <2> QED
    BY <1>2, <2>1, HandlerAnswers, HandlerMoves DEF IInv, TypeOK, Answer, inbox, faults, Idle
<1>4. CASE status[e] = "RECEIVED" /\ (lease[e] = "none" \/ e \in stale)
  <2> DEFINE ignored == Normalized[e].action = "ignore"
             first == [proc[p] EXCEPT !.leased = TRUE]
             second == [first EXCEPT !.pc = IF ignored THEN "settle" ELSE "link"]
             new == [second EXCEPT !.verdict = "IGNORED"]
  <2>1. first \in Handlers /\ first.event = e /\ first.leased
    BY <1>1 DEF Handlers
  <2> HIDE DEF first
  <2>2. /\ second \in Handlers /\ second.event = e /\ second.leased
        /\ second.pc = IF ignored THEN "settle" ELSE "link"
    BY <2>1 DEF Handlers
  <2> HIDE DEF second
  <2>3. /\ new \in Handlers /\ new.event = e /\ new.leased /\ new.verdict = "IGNORED"
        /\ new.pc = IF ignored THEN "settle" ELSE "link"
    BY <2>2 DEF Handlers
  <2>4. /\ proc' = [proc EXCEPT ![p] = new]
        /\ lease' = [lease EXCEPT ![e] = p]
        /\ stale' = stale \ {e}
    BY <1>4 DEF AcquireLease, first, second
  <2> HIDE DEF new
  <2>5. ignored \/ Normalized[e].action = "events"
    BY <1>1 DEF Normalized, NormalizeWebhook
  <2>6. Knows(p)'
    BY <1>1, <1>2, <1>4, <2>3, <2>4, <2>5 DEF IInv, TypeOK, Knows
  <2>7. lease' \in [Event -> Proc \cup {"none"}] /\ lease'[e] = p /\ p # "none"
    BY <1>1, <2>4, WebhookAssumption DEF IInv, TypeOK
  <2>8. stale' \subseteq {f \in expired' : status'[f] = "RECEIVED" /\ lease'[f] # "none"}
    BY <1>1, <1>2, <2>4, <2>7 DEF IInv, TypeOK
  <2>9. TypeOK'
    BY <1>2, <2>3, <2>4, <2>7, <2>8, HandlerTypes DEF IInv, TypeOK, faults
  <2>10. ASSUME NEW q \in Proc \ {p}, proc[q].leased, proc[q].event \notin expired'
         PROVE  status'[proc[q].event] = "RECEIVED" /\ lease'[proc[q].event] = q
    <3>1. /\ proc[q].event \in Event /\ status[proc[q].event] = "RECEIVED"
          /\ lease[proc[q].event] = q /\ q # "none"
      BY <1>2, <2>10, WebhookAssumption DEF IInv, Knows
    <3>2. proc[q].event # e
      BY <1>2, <1>4, <2>10, <3>1 DEF IInv, TypeOK
    <3> QED
      BY <1>1, <1>2, <2>4, <3>1, <3>2 DEF IInv, TypeOK
  <2> QED
    BY <1>2, <2>3, <2>4, <2>6, <2>9, <2>10, HandlerTypes, HandlerKeeps DEF IInv
<1> QED
  BY <1>3, <1>4

\* What markProcessed does to the row of a handler's event.
LEMMA WebhookMarks ==
    ASSUME IInv, NEW p \in Proc, NEW verdict \in {"PROCESSED", "IGNORED", "FAILED"},
           proc[p].pc # "idle", verdict = "FAILED" => Normalized[proc[p].event].action = "events",
           MarkProcessed(p, verdict), Answer(p),
           UNCHANGED <<points, delivery, booked, faults>>
    PROVE  IInv'
<1> DEFINE e == proc[p].event
<1>1. e \in Event
  BY DEF IInv, Knows
<1>2. CASE ~MayFinalize(p, e)
  <2>1. UNCHANGED inbox
    BY <1>2 DEF MarkProcessed
  <2> QED
    BY <2>1, HandlerAnswers, HandlerMoves DEF IInv, TypeOK, Answer, faults, Idle
<1>3. CASE MayFinalize(p, e)
  <2>1. /\ status' = [status EXCEPT ![e] = verdict]
        /\ lease' = [lease EXCEPT ![e] = "none"]
        /\ stale' = stale \ {e}
        /\ expired' = expired
    BY <1>3 DEF MarkProcessed
  <2>2. /\ status' \in [Event -> {"NONE", "RECEIVED", "PROCESSED", "IGNORED", "FAILED"}]
        /\ lease' \in [Event -> Proc \cup {"none"}]
    BY <1>1, <2>1 DEF IInv, TypeOK
  <2>3. \A f \in Event \ {e} : status'[f] = status[f] /\ lease'[f] = lease[f]
    BY <1>1, <2>1 DEF IInv, TypeOK
  <2>4. stale' \subseteq {f \in expired' : status'[f] = "RECEIVED" /\ lease'[f] # "none"}
    BY <2>1, <2>3 DEF IInv, TypeOK
  <2>5. TypeOK'
    BY <2>1, <2>2, <2>4, HandlerTypes, HandlerAnswers DEF IInv, TypeOK, faults, Answer, Idle
  <2>6. ASSUME NEW q \in Proc \ {p}, proc[q].leased, proc[q].event \notin expired'
        PROVE  status'[proc[q].event] = "RECEIVED" /\ lease'[proc[q].event] = q
    <3>1. /\ proc[q].event \in Event /\ status[proc[q].event] = "RECEIVED"
          /\ lease[proc[q].event] = q
      BY <2>1, <2>6 DEF IInv, Knows
    <3>2. proc[q].event # e
      BY <1>3, <2>1, <2>6, <3>1 DEF MayFinalize, IInv, TypeOK
    <3> QED
      BY <2>3, <3>1, <3>2
  <2>7. \A f \in Event : status'[f] = "FAILED" => Normalized[f].action = "events"
    BY <1>1, <2>1, <2>3 DEF IInv, TypeOK
  <2>8. /\ Knows(p)' /\ proc' \in [Proc -> Handlers]
        /\ \A q \in Proc \ {p} : proc'[q] = proc[q]
    BY HandlerTypes, HandlerAnswers DEF Answer, Idle
  <2> QED
    BY <2>1, <2>5, <2>6, <2>7, <2>8, HandlerKeeps
<1> QED
  BY <1>2, <1>3

\* A handler writes its verdict, if the event is still its own.
LEMMA WebhookSettle ==
    ASSUME IInv, NEW p \in Proc, Settle(p) \/ MarkFailed(p)
    PROVE  IInv'
<1>1. CASE Settle(p)
  <2>1. proc[p].pc = "settle" /\ proc[p].verdict \in {"PROCESSED", "IGNORED"}
    BY <1>1 DEF Settle, IInv, Knows, Handlers
  <2> QED
    BY <1>1, <2>1, WebhookMarks DEF Settle
<1>2. CASE MarkFailed(p)
  <2>1. proc[p].pc = "fail" /\ Normalized[proc[p].event].action = "events"
    BY <1>2 DEF MarkFailed, IInv, Knows
  <2> QED
    BY <1>2, <2>1, WebhookMarks DEF MarkFailed
<1> QED
  BY <1>1, <1>2

\* A handler that only goes to another step keeps the rest of what it is.
LEMMA HandlerGoes ==
    ASSUME IInv, NEW p \in Proc,
           NEW pc \in {"link", "create", "transition", "settle", "fail"}, Goto(p, pc)
    PROVE  LET new == [proc[p] EXCEPT !.pc = pc] IN
           /\ proc' = [proc EXCEPT ![p] = new]
           /\ new \in Handlers
           /\ new.pc = pc /\ new.event = proc[p].event /\ new.leased = proc[p].leased
           /\ new.delivery = proc[p].delivery /\ new.i = proc[p].i
           /\ new.from = proc[p].from /\ new.verdict = proc[p].verdict
  BY DEF Goto, IInv, Handlers

\* The scans of an event are those of a booking, or of none.
LEMMA WebhookResolveLink ==
    ASSUME IInv, NEW p \in Proc, ResolveLink(p)
    PROVE  IInv'
<1> DEFINE e == proc[p].event
           found == LinkedDeliveries(Body[e])
<1>1. /\ proc[p] \in Handlers /\ proc[p].pc = "link" /\ e \in Event
      /\ Normalized[e].action = "events"
  BY DEF IInv, ResolveLink, Knows
<1>2. UNCHANGED <<inbox, points, delivery, booked, crashes>> /\ failures' \in 0 .. MaxFailures
  <2>1. failures \in 0 .. MaxFailures /\ MaxFailures \in Nat
    BY WebhookAssumption DEF IInv, TypeOK
  <2>2. \/ failures' = failures
        \/ failures < MaxFailures /\ failures' = failures + 1
    BY DEF ResolveLink
  <2>3. failures' \in 0 .. MaxFailures
    BY <2>1, <2>2
  <2>4. UNCHANGED <<inbox, points, delivery, booked, crashes>>
    BY DEF ResolveLink
  <2> QED
    BY <2>3, <2>4
<1>3. ASSUME NEW d \in found,
             proc' = [proc EXCEPT ![p].delivery = d, ![p].i = 1, ![p].pc = "read"]
      PROVE  IInv'
  <2> DEFINE first == [proc[p] EXCEPT !.delivery = d]
             second == [first EXCEPT !.i = 1]
             new == [second EXCEPT !.pc = "read"]
  <2>1. d \in Delivery
    BY WebhookAssumption DEF LinkedDeliveries, IInv, TypeOK
  <2>2. /\ first \in Handlers /\ first.event = e /\ first.leased = proc[p].leased
        /\ first.delivery = d
    BY <1>1, <2>1 DEF Handlers
  <2> HIDE DEF first
  <2>3. /\ second \in Handlers /\ second.event = e /\ second.leased = proc[p].leased
        /\ second.delivery = d /\ second.i = 1
    BY <2>2 DEF Handlers
  <2> HIDE DEF second
  <2>4. /\ new \in Handlers /\ new.event = e /\ new.leased = proc[p].leased
        /\ new.delivery = d /\ new.i = 1 /\ new.pc = "read"
    BY <2>3 DEF Handlers
  <2>5. proc' = [proc EXCEPT ![p] = new]
    BY <1>3 DEF first, second
  <2> HIDE DEF new
  <2>6. 1 \in DOMAIN ScansOf(e)
    BY <1>1, ScansOfEvent
  <2>7. proc'[p] = new
    BY <2>5 DEF IInv
  <2>8. Knows(p)'
    BY <1>1, <1>2, <2>1, <2>4, <2>6, <2>7 DEF Knows, IInv, inbox
  <2> QED
    BY <1>2, <2>4, <2>5, <2>6, <2>8, HandlerMoves DEF IInv, TypeOK, inbox
<1>4. ASSUME proc' = [proc EXCEPT ![p].pc = "settle", ![p].verdict = "IGNORED"]
      PROVE  IInv'
  <2> DEFINE first == [proc[p] EXCEPT !.pc = "settle"]
             new == [first EXCEPT !.verdict = "IGNORED"]
  <2>1. first \in Handlers /\ first.event = e /\ first.leased = proc[p].leased /\ first.pc = "settle"
    BY <1>1 DEF Handlers
  <2> HIDE DEF first
  <2>2. /\ new \in Handlers /\ new.event = e /\ new.leased = proc[p].leased /\ new.pc = "settle"
        /\ new.verdict = "IGNORED"
    BY <2>1 DEF Handlers
  <2>3. proc' = [proc EXCEPT ![p] = new]
    BY <1>4 DEF first
  <2> HIDE DEF new
  <2>4. proc'[p] = new
    BY <2>3 DEF IInv
  <2>5. Knows(p)'
    BY <1>1, <1>2, <2>2, <2>4 DEF Knows, IInv, inbox
  <2> QED
    BY <1>2, <2>2, <2>3, <2>5, HandlerMoves DEF IInv, TypeOK, inbox
<1> QED
  BY <1>3, <1>4 DEF ResolveLink

\* On to the next scan, when the current one has its point.
LEMMA WebhookNextScan ==
    ASSUME IInv, NEW p \in Proc, proc[p].pc \in {"read", "transition"}, Scan(p).id \in points,
           NextScan(p), UNCHANGED <<inbox, points, booked, faults>>,
           delivery' \in [Delivery -> DeliveryStatuses]
    PROVE  IInv'
<1> DEFINE e == proc[p].event
           i == proc[p].i
           first == [proc[p] EXCEPT !.i = i + 1]
           second == [first EXCEPT !.from = Idle.from]
           third == [second EXCEPT !.pc = IF i + 1 > Len(ScansOf(e)) THEN "settle" ELSE "read"]
           new == [third EXCEPT !.verdict = "PROCESSED"]
<1>1. /\ proc[p] \in Handlers /\ e \in Event /\ Normalized[e].action = "events"
      /\ i \in DOMAIN ScansOf(e) /\ i \in Nat /\ proc[p].delivery \in Delivery
      /\ \A j \in 1 .. i - 1 : ScansOf(e)[j].id \in points
  BY DEF IInv, Knows, Handlers
<1>2. Idle.from = "CREATED"
  BY DEF Idle
<1>3. /\ first \in Handlers /\ first.event = e /\ first.leased = proc[p].leased
      /\ first.delivery = proc[p].delivery /\ first.i = i + 1
  BY <1>1 DEF Handlers
<1> HIDE DEF first
<1>4. /\ second \in Handlers /\ second.event = e /\ second.leased = proc[p].leased
      /\ second.delivery = proc[p].delivery /\ second.i = i + 1
  BY <1>2, <1>3 DEF Handlers, DeliveryStatuses
<1> HIDE DEF second
<1>5. /\ third \in Handlers /\ third.event = e /\ third.leased = proc[p].leased
      /\ third.delivery = proc[p].delivery /\ third.i = i + 1
      /\ third.pc = IF i + 1 > Len(ScansOf(e)) THEN "settle" ELSE "read"
  BY <1>4 DEF Handlers
<1> HIDE DEF third
<1>6. /\ new \in Handlers /\ new.event = e /\ new.leased = proc[p].leased
      /\ new.delivery = proc[p].delivery /\ new.i = i + 1 /\ new.verdict = "PROCESSED"
      /\ new.pc = IF i + 1 > Len(ScansOf(e)) THEN "settle" ELSE "read"
  BY <1>5 DEF Handlers
<1>7. proc' = [proc EXCEPT ![p] = new]
  BY DEF NextScan, first, second, third
<1> HIDE DEF new
<1>8. proc'[p] = new
  BY <1>7 DEF IInv
<1>9. \A j \in 1 .. i : ScansOf(e)[j].id \in points
  BY <1>1 DEF Scan
<1>10. Len(ScansOf(e)) \in Nat /\ DOMAIN ScansOf(e) = 1 .. Len(ScansOf(e))
  BY <1>1, ScansOfEvent
<1>11. CASE i + 1 > Len(ScansOf(e))
  <2>1. ScanIds(e) \subseteq points
    BY <1>1, <1>9, <1>10, <1>11 DEF ScanIds
  <2>2. new.pc = "settle"
    BY <1>6, <1>11
  <2>3. Knows(p)'
    BY <1>1, <1>6, <1>8, <2>1, <2>2 DEF Knows, IInv, inbox
  <2> QED
    BY <1>6, <1>7, <2>2, <2>3, HandlerMoves DEF IInv, TypeOK, inbox, faults
<1>12. CASE ~(i + 1 > Len(ScansOf(e)))
  <2>1. i + 1 \in DOMAIN ScansOf(e) /\ new.pc = "read" /\ i + 1 - 1 = i
    BY <1>1, <1>6, <1>10, <1>12
  <2>2. Knows(p)'
    BY <1>1, <1>6, <1>8, <1>9, <2>1 DEF Knows, IInv, inbox
  <2> QED
    BY <1>6, <1>7, <2>1, <2>2, HandlerMoves DEF IInv, TypeOK, inbox, faults
<1> QED
  BY <1>11, <1>12

\* The status is read for a scan.
LEMMA WebhookReadScan ==
    ASSUME IInv, NEW p \in Proc, ReadScan(p)
    PROVE  IInv'
<1>1. proc[p].pc = "read" /\ UNCHANGED <<inbox, points, delivery, booked, faults>>
  BY DEF ReadScan
<1>2. CASE Scan(p).id \in points
  BY <1>1, <1>2, WebhookNextScan DEF ReadScan, IInv, TypeOK
<1>3. CASE Scan(p).id \notin points
  <2> DEFINE first == [proc[p] EXCEPT !.from = delivery[proc[p].delivery]]
             new == [first EXCEPT !.pc = "create"]
  <2>1. proc[p] \in Handlers /\ delivery[proc[p].delivery] \in DeliveryStatuses
    BY <1>1 DEF IInv, TypeOK, Knows
  <2>2. /\ first \in Handlers /\ first.event = proc[p].event /\ first.leased = proc[p].leased
        /\ first.delivery = proc[p].delivery /\ first.i = proc[p].i
    BY <2>1 DEF Handlers
  <2> HIDE DEF first
  <2>3. /\ new \in Handlers /\ new.event = proc[p].event /\ new.leased = proc[p].leased
        /\ new.delivery = proc[p].delivery /\ new.i = proc[p].i /\ new.pc = "create"
    BY <2>2 DEF Handlers
  <2>4. proc' = [proc EXCEPT ![p] = new]
    BY <1>3 DEF ReadScan, first
  <2> HIDE DEF new
  <2>5. proc'[p] = new
    BY <2>4 DEF IInv
  <2>6. Knows(p)'
    BY <1>1, <2>3, <2>5 DEF Knows, IInv, inbox
  <2> QED
    BY <1>1, <2>3, <2>4, <2>6, HandlerMoves DEF IInv, TypeOK, Knows, inbox, faults
<1> QED
  BY <1>2, <1>3

\* The point of a scan is created, or was there already.
LEMMA WebhookCreatePoint ==
    ASSUME IInv, NEW p \in Proc, CreatePoint(p)
    PROVE  IInv'
<1> DEFINE e == proc[p].event
           pc == IF Scan(p).id \in points THEN "fail" ELSE "transition"
           new == [proc[p] EXCEPT !.pc = pc]
<1>1. /\ proc[p].pc = "create" /\ UNCHANGED <<inbox, delivery, booked, faults>>
      /\ Goto(p, pc)
      /\ points' = IF Scan(p).id \in points THEN points ELSE points \cup {Scan(p).id}
  BY DEF CreatePoint
<1>2. /\ e \in Event /\ Normalized[e].action = "events" /\ proc[p].i \in DOMAIN ScansOf(e)
      /\ Scan(p) = ScansOf(e)[proc[p].i]
  BY <1>1 DEF IInv, Knows, Scan
<1>3. points' \subseteq UNION {ScanIds(f) : f \in Event}
  BY <1>1, <1>2 DEF IInv, TypeOK, ScanIds
<1>4. /\ proc' = [proc EXCEPT ![p] = new]
      /\ new \in Handlers
      /\ new.pc = pc /\ new.event = e /\ new.leased = proc[p].leased
      /\ new.delivery = proc[p].delivery /\ new.i = proc[p].i
      /\ new.from = proc[p].from /\ new.verdict = proc[p].verdict
  <2>1. pc \in {"link", "create", "transition", "settle", "fail"}
    OBVIOUS
  <2> HIDE DEF pc
  <2> QED
    BY <1>1, <2>1, HandlerGoes
<1> HIDE DEF new
<1>5. proc'[p] = new
  BY <1>4 DEF IInv
<1>6. Scan(p)' = Scan(p) /\ (pc = "transition" => Scan(p).id \in points')
  BY <1>1, <1>4, <1>5 DEF Scan
<1>7. Knows(p)'
  BY <1>1, <1>2, <1>4, <1>5, <1>6 DEF Knows, IInv, inbox
<1> QED
  BY <1>1, <1>2, <1>3, <1>4, <1>7, HandlerMoves DEF IInv, TypeOK, inbox, faults

\* A scan moves the delivery.
LEMMA WebhookTransition ==
    ASSUME IInv, NEW p \in Proc, TransitionFromTracking(p)
    PROVE  IInv'
<1>1. delivery' \in [Delivery -> DeliveryStatuses]
  BY DEF IInv, TypeOK, TransitionFromTracking, DeliveryStatuses
<1>2. Scan(p).id \in points
  BY DEF IInv, Knows, TransitionFromTracking
<1> QED
  BY <1>1, <1>2, WebhookNextScan DEF TransitionFromTracking

\* A handler fails, or its process dies.
LEMMA WebhookFail ==
    ASSUME IInv, NEW p \in Proc, Fail(p) \/ Crash(p)
    PROVE  IInv'
<1>1. CASE Fail(p)
  <2> DEFINE new == [proc[p] EXCEPT !.pc = "fail"]
  <2>1. proc[p].pc # "idle" /\ Normalized[proc[p].event].action = "events"
    BY <1>1 DEF Fail, IInv, Knows
  <2>2. /\ proc' = [proc EXCEPT ![p] = new]
        /\ new \in Handlers
        /\ new.pc = "fail" /\ new.event = proc[p].event /\ new.leased = proc[p].leased
    BY <1>1, HandlerGoes DEF Fail
  <2> HIDE DEF new
  <2>3. proc'[p] = new
    BY <2>2 DEF IInv
  <2>4. Knows(p)'
    BY <1>1, <2>1, <2>2, <2>3 DEF Knows, IInv, inbox, Fail
  <2> QED
    <3>1. failures' \in 0 .. MaxFailures /\ UNCHANGED <<inbox, points, delivery, booked, crashes>>
      BY <1>1, WebhookAssumption DEF Fail, IInv, TypeOK
    <3> QED
      BY <2>2, <2>4, <3>1, HandlerMoves DEF IInv, TypeOK, inbox
<1>2. CASE Crash(p)
  <2>1. Answer(p) /\ UNCHANGED <<inbox, points, delivery, booked, failures>>
        /\ crashes' \in 0 .. MaxCrashes
    BY <1>2, WebhookAssumption DEF Crash, IInv, TypeOK
  <2> QED
    BY <2>1, HandlerAnswers, HandlerMoves DEF IInv, TypeOK, Answer, inbox, Idle
<1> QED
  BY <1>1, <1>2

\* A lease runs out, a booking is confirmed, the delivery moves on.
LEMMA WebhookRest ==
    ASSUME IInv,
           \/ \E e \in Event : LeaseExpires(e)
           \/ \E b \in Booking : ConfirmBooking(b)
           \/ \E d \in Delivery : Operate(d)
    PROVE  IInv'
<1>1. ASSUME NEW e \in Event, LeaseExpires(e) PROVE IInv'
  <2>1. /\ stale' = stale \cup {e} /\ expired' = expired \cup {e}
        /\ status[e] = "RECEIVED" /\ lease[e] # "none"
        /\ UNCHANGED <<status, lease, points, delivery, booked, proc, faults>>
    BY <1>1 DEF LeaseExpires
  <2>2. TypeOK'
    BY <2>1 DEF IInv, TypeOK, faults
  <2>3. \A p \in Proc : Knows(p)'
    BY <2>1 DEF IInv, Knows, Scan
  <2> QED
    BY <2>1, <2>2, <2>3 DEF IInv
<1>2. ASSUME UNCHANGED <<inbox, points, proc, faults>>,
             delivery' \in [Delivery -> DeliveryStatuses], booked' \subseteq Booking
      PROVE  IInv'
  <2>1. TypeOK'
    BY <1>2 DEF IInv, TypeOK, faults, inbox
  <2>2. \A p \in Proc : Knows(p)'
    BY <1>2 DEF IInv, Knows, Scan, inbox
  <2> QED
    BY <1>2, <2>1, <2>2 DEF IInv, inbox
<1>3. ASSUME NEW b \in Booking, ConfirmBooking(b) PROVE IInv'
  <2>1. /\ delivery' \in [Delivery -> DeliveryStatuses] /\ booked' \subseteq Booking
    BY <1>3 DEF ConfirmBooking, IInv, TypeOK, DeliveryStatuses
  <2> QED
    BY <1>2, <1>3, <2>1 DEF ConfirmBooking
<1>4. ASSUME NEW d \in Delivery, Operate(d) PROVE IInv'
  <2>1. /\ delivery' \in [Delivery -> DeliveryStatuses] /\ booked' \subseteq Booking
    BY <1>4 DEF Operate, IInv, TypeOK
  <2> QED
    BY <1>2, <1>4, <2>1 DEF Operate
<1> QED
  BY <1>1, <1>3, <1>4

\* What the handlers know of their events stays true with every step.
LEMMA WebhookInductive ==
    /\ Init => IInv
    /\ IInv /\ [Next]_vars => IInv'
<1>1. ASSUME Init PROVE IInv
  <2>1. Idle \in Handlers
    BY DEF Idle, Handlers, DeliveryStatuses
  <2>2. proc \in [Proc -> Handlers] /\ \A p \in Proc : proc[p] = Idle
    BY <1>1, <2>1 DEF Init
  <2>3. \A p \in Proc : Knows(p)
    BY <2>2 DEF Knows, Idle
  <2>4. /\ status \in [Event -> {"NONE", "RECEIVED", "PROCESSED", "IGNORED", "FAILED"}]
        /\ lease \in [Event -> Proc \cup {"none"}]
        /\ expired = {} /\ stale = {} /\ points = {} /\ booked = {}
        /\ delivery \in [Delivery -> DeliveryStatuses]
        /\ \A e \in Event : status[e] # "FAILED"
    BY <1>1 DEF Init, DeliveryStatuses
  <2>5. failures \in 0 .. MaxFailures /\ crashes \in 0 .. MaxCrashes
    BY <1>1, WebhookAssumption DEF Init
  <2>6. TypeOK
    BY <2>2, <2>4, <2>5 DEF TypeOK, Idle, DeliveryStatuses
  <2> QED
    BY <2>2, <2>3, <2>4, <2>6 DEF IInv
<1>2. ASSUME IInv, [Next]_vars PROVE IInv'
  <2>1. CASE UNCHANGED vars
    <3>1. TypeOK'
      BY <1>2, <2>1 DEF IInv, TypeOK, vars
    <3>2. \A p \in Proc : Knows(p)'
      BY <1>2, <2>1 DEF IInv, Knows, Scan, vars
    <3> QED
      BY <1>2, <2>1, <3>1, <3>2 DEF IInv, vars
  <2>2. ASSUME NEW p \in Proc, Process(p) PROVE IInv'
    BY <1>2, <2>2, WebhookAcquireLease, WebhookSettle, WebhookResolveLink, WebhookReadScan,
       WebhookCreatePoint, WebhookTransition DEF Process
  <2>3. ASSUME NEW p \in Proc, Fail(p) \/ Crash(p) PROVE IInv'
    BY <1>2, <2>3, WebhookFail
  <2> QED
    BY <1>2, <2>1, <2>2, <2>3, WebhookReceive, WebhookRest DEF Next
<1> QED
  BY <1>1, <1>2

\* The one who works under the lease is the one the row names.
LEMMA LeaseHasOneHolder == IInv => LeaseIsExclusive
<1> SUFFICES ASSUME IInv, NEW e \in Event \ expired
             PROVE  Cardinality({p \in Proc : proc[p].leased /\ proc[p].event = e}) <= 1
  BY DEF LeaseIsExclusive
<1> DEFINE workers == {p \in Proc : proc[p].leased /\ proc[p].event = e}
<1>1. \A p \in workers : p = lease[e]
  BY DEF IInv, Knows
<1>2. IsFiniteSet({lease[e]}) /\ Cardinality({lease[e]}) = 1
  BY FS_Singleton
<1>3. workers \subseteq {lease[e]}
  BY <1>1
<1> QED
  BY <1>2, <1>3, FS_Subset

\* A webhook moves a delivery along its table.
LEMMA WebhookFollowsTable ==
    ASSUME IInv, Next, NEW d \in Delivery
    PROVE  CanTransitionDelivery(delivery[d], delivery'[d])
<1>1. delivery \in [Delivery -> DeliveryStatuses]
  BY DEF IInv, TypeOK
<1>2. ASSUME UNCHANGED delivery PROVE CanTransitionDelivery(delivery[d], delivery'[d])
  BY <1>2 DEF CanTransitionDelivery
<1>3. ASSUME NEW p \in Proc, Process(p) \/ Fail(p) \/ Crash(p)
      PROVE  CanTransitionDelivery(delivery[d], delivery'[d])
  <2>1. CASE TransitionFromTracking(p)
    <3>1. \/ UNCHANGED delivery
          \/ /\ delivery[proc[p].delivery] = "PICKED_UP"
             /\ delivery' = [delivery EXCEPT ![proc[p].delivery] = "IN_TRANSIT"]
      BY <2>1 DEF TransitionFromTracking
    <3> QED
      BY <1>1, <1>2, <3>1 DEF CanTransitionDelivery, TerminalStatuses, AllowedTransitions
  <2>2. CASE ~TransitionFromTracking(p)
    BY <1>2, <1>3, <2>2 DEF Process, AcquireLease, Settle, MarkFailed, ResolveLink, ReadScan,
       CreatePoint, Fail, Crash
  <2> QED
    BY <2>1, <2>2
<1>4. ASSUME NEW b \in Booking, ConfirmBooking(b)
      PROVE  CanTransitionDelivery(delivery[d], delivery'[d])
  BY <1>1, <1>4 DEF ConfirmBooking, CanTransitionDelivery, TerminalStatuses, AllowedTransitions
<1>5. ASSUME NEW c \in Delivery, Operate(c)
      PROVE  CanTransitionDelivery(delivery[d], delivery'[d])
  <2>1. CASE c # d
    BY <1>1, <1>5, <2>1 DEF Operate, CanTransitionDelivery
  <2>2. CASE c = d
    <3>1. PICK to \in DeliveryStatuses : /\ <<delivery[d], to>> \in AllowedTransitions
                                         /\ delivery' = [delivery EXCEPT ![d] = to]
      BY <1>5, <2>2 DEF Operate
    <3>2. delivery[d] \notin TerminalStatuses
      BY <3>1 DEF AllowedTransitions, TerminalStatuses
    <3> QED
      BY <1>1, <3>1, <3>2 DEF CanTransitionDelivery
  <2> QED
    BY <2>1, <2>2
<1> QED
  BY <1>2, <1>3, <1>4, <1>5 DEF Next, Receive, LeaseExpires

\* The row of an event that is settled, and of no other, says so.
LEMMA VerdictChanges ==
    ASSUME IInv, NEW e \in Event, NEW to \in {"PROCESSED", "IGNORED"},
           status[e] \in {"RECEIVED", "FAILED"}, status' = [status EXCEPT ![e] = to]
    PROVE  /\ Verdicts[e] = "open"
           /\ Verdicts' = [Verdicts EXCEPT ![e] =
                              IF to = "PROCESSED" THEN "processed" ELSE "dismissed"]
<1>1. \A f \in Event : status'[f] = IF f = e THEN to ELSE status[f]
  BY DEF IInv, TypeOK
<1>2. Verdicts[e] = "open"
  BY DEF Verdicts
<1> DEFINE new == IF to = "PROCESSED" THEN "processed" ELSE "dismissed"
<1>3. \A f \in Event : Verdicts'[f] = IF f = e THEN new ELSE Verdicts[f]
  BY <1>1 DEF Verdicts
<1>4. /\ Verdicts = [f \in Event |-> Verdicts[f]]
      /\ Verdicts' = [f \in Event |-> Verdicts'[f]]
  BY DEF Verdicts
<1> QED
  BY <1>2, <1>3, <1>4

\* The rows that change stay open.
LEMMA VerdictsStay ==
    ASSUME \A e \in Event : status'[e] = status[e]
              \/ (status[e] \in {"NONE", "RECEIVED", "FAILED"}
                  /\ status'[e] \in {"NONE", "RECEIVED", "FAILED"})
    PROVE  Verdicts' = Verdicts
  BY DEF Verdicts

\* Every step of the inbox is a step of what it promises: a point is recorded, and an event
\* is settled as processed when all it reports has been recorded.
LEMMA WebhookRefines ==
    /\ Init => Inbox!Init
    /\ IInv /\ [Next]_vars => [Inbox!Next]_<<Verdicts, points>>
<1>1. Init => Inbox!Init
  BY DEF Init, Inbox!Init, Verdicts
<1>2. ASSUME IInv, [Next]_vars PROVE [Inbox!Next]_<<Verdicts, points>>
  <2>1. CASE UNCHANGED <<status, points>>
    BY <2>1 DEF Verdicts
  <2>2. ASSUME NEW p \in Proc, NEW e \in Event, Receive(p, e)
        PROVE  UNCHANGED <<Verdicts, points>>
    BY <1>2, <2>2, VerdictsStay DEF Receive, IInv, TypeOK
  <2>3. ASSUME NEW p \in Proc, MarkFailed(p)
        PROVE  UNCHANGED <<Verdicts, points>>
    <3> DEFINE e == proc[p].event
    <3>1. CASE MayFinalize(p, e)
      <4>1. e \in Event /\ status[e] \in {"RECEIVED", "FAILED"}
        BY <1>2, <2>3, <3>1 DEF MayFinalize, IInv, Knows, MarkFailed
      <4>2. status' = [status EXCEPT ![e] = "FAILED"] /\ UNCHANGED points
        BY <2>3, <3>1 DEF MarkFailed, MarkProcessed
      <4> QED
        BY <1>2, <4>1, <4>2, VerdictsStay DEF IInv, TypeOK
    <3>2. CASE ~MayFinalize(p, e)
      BY <2>3, <3>2, VerdictsStay DEF MarkFailed, MarkProcessed, inbox
    <3> QED
      BY <3>1, <3>2
  <2>4. ASSUME NEW p \in Proc, Settle(p)
        PROVE  [Inbox!Next]_<<Verdicts, points>>
    <3> DEFINE e == proc[p].event
               verdict == proc[p].verdict
    <3>1. CASE MayFinalize(p, e)
      <4>1. /\ e \in Event /\ status[e] \in {"RECEIVED", "FAILED"}
            /\ verdict \in {"PROCESSED", "IGNORED"}
            /\ verdict = "PROCESSED" => ScanIds(e) \subseteq points
        BY <1>2, <2>4, <3>1 DEF MayFinalize, IInv, Knows, Settle, Handlers
      <4>2. status' = [status EXCEPT ![e] = verdict] /\ UNCHANGED points
        BY <2>4, <3>1 DEF Settle, MarkProcessed
      <4>3. /\ Verdicts[e] = "open"
            /\ Verdicts' = [Verdicts EXCEPT ![e] =
                               IF verdict = "PROCESSED" THEN "processed" ELSE "dismissed"]
        BY <1>2, <4>1, <4>2, VerdictChanges
      <4>4. Reported[e] = ScanIds(e)
        BY <4>1 DEF Reported
      <4>5. Inbox!Process(e) \/ Inbox!Dismiss(e)
        BY <4>1, <4>2, <4>3, <4>4 DEF Inbox!Process, Inbox!Dismiss
      <4> QED
        BY <4>1, <4>5 DEF Inbox!Next
    <3>2. CASE ~MayFinalize(p, e)
      BY <2>4, <3>2, VerdictsStay DEF Settle, MarkProcessed, inbox
    <3> QED
      BY <3>1, <3>2
  <2>5. ASSUME NEW p \in Proc, CreatePoint(p)
        PROVE  [Inbox!Next]_<<Verdicts, points>>
    <3> DEFINE e == proc[p].event
               id == Scan(p).id
    <3>1. UNCHANGED Verdicts
      BY <2>5 DEF CreatePoint, inbox, Verdicts
    <3>2. e \in Event /\ id \in Reported[e]
      BY <1>2, <2>5 DEF IInv, Knows, CreatePoint, Scan, Reported, ScanIds
    <3>3. UNCHANGED points \/ points' = points \cup {id}
      BY <2>5 DEF CreatePoint
    <3>4. points' = points \cup {id} => Inbox!Record(e, id)
      BY <3>1, <3>2 DEF Inbox!Record
    <3> QED
      BY <3>1, <3>2, <3>3, <3>4 DEF Inbox!Next
  <2> QED
    BY <1>2, <2>1, <2>2, <2>3, <2>4, <2>5 DEF Next, Process, vars, inbox, AcquireLease,
       ResolveLink, ReadScan, TransitionFromTracking, Fail, Crash, LeaseExpires,
       ConfirmBooking, Operate
<1> QED
  BY <1>1, <1>2

-----------------------------------------------------------------------------
(* DeliveryOtp.                                                            *)

\* The counts of the model are those the theorems about finite sets speak of.
LEMMA OtpCounts ==
    /\ \A S : Twilio!Cardinality(S) = Cardinality(S)
    /\ \A S : Twilio!IsFiniteSet(S) = IsFiniteSet(S)
<1>1. \A S : Twilio!Cardinality(S) = Cardinality(S)
  BY DEF Twilio!Cardinality, Cardinality
<1>2. \A S : Twilio!IsFiniteSet(S) = IsFiniteSet(S)
  BY DEF Twilio!IsFiniteSet, IsFiniteSet
<1> QED
  BY <1>1, <1>2

\* The rows, the handlers, and what both take for a sequence.
LEMMA CodesAreRows ==
    ASSUME Twilio!IInv
    PROVE  /\ codes \in Seq(Twilio!Codes) /\ Len(codes) \in Nat
           /\ DOMAIN codes = 1 .. Len(codes)
           /\ \A i \in 1 .. Len(codes) : codes[i] \in Twilio!Codes
           /\ handlers \in [Proc -> Twilio!Handlers]
           /\ otpStatus \in DeliveryStatuses
  BY LenProperties DEF Twilio!IInv, Twilio!DeliveryStatuses, DeliveryStatuses

\* findActive finds an open row of the type that was asked for, or none.
LEMMA ActiveIsOpen ==
    ASSUME Twilio!IInv, NEW type \in Twilio!OtpType, Twilio!Active(type) # 0
    PROVE  /\ Twilio!Active(type) \in DOMAIN codes
           /\ codes[Twilio!Active(type)].type = type
           /\ ~codes[Twilio!Active(type)].consumed
<1> DEFINE open == {i \in DOMAIN codes : codes[i].type = type /\ ~codes[i].consumed}
<1>1. Twilio!Active(type) = IF open = {} THEN 0
                            ELSE CHOOSE i \in open : \A j \in open : j <= i
  BY DEF Twilio!Active
<1>2. open \in SUBSET (0 .. Len(codes)) /\ Len(codes) \in Nat
  BY CodesAreRows
<1> HIDE DEF open
<1>3. open # {}
  BY <1>1
<1>4. \E i \in open : \A j \in open : j <= i
  BY <1>2, <1>3, GreatestElement
<1>5. Twilio!Active(type) \in open
  BY <1>1, <1>3, <1>4
<1> QED
  BY <1>5 DEF open

\* How many handlers are about to count.
LEMMA CountingCounted ==
    ASSUME Twilio!OtpAssumption
    PROVE  /\ MaxAttempts \in Nat \ {0}
           /\ \A S \in SUBSET Proc : /\ Cardinality(S) \in Nat
                                     /\ Cardinality(Proc) \in Nat
                                     /\ Cardinality(S) <= Cardinality(Proc)
                                     /\ \A T \in SUBSET S : Cardinality(T) <= Cardinality(S)
                                     /\ \A p \in S : Cardinality(S \ {p}) = Cardinality(S) - 1
<1>1. IsFiniteSet(Proc)
  BY OtpCounts DEF Twilio!OtpAssumption
<1> QED
  BY <1>1, PartsCounted DEF Twilio!OtpAssumption

\* What a step may do to the rows: they are added, and what opened a way once or was
\* accepted stays so.
OtpGrows ==
    /\ codes' \in Seq(Twilio!Codes) /\ Len(codes) <= Len(codes') /\ Len(codes') <= MaxCodes
    /\ \A i \in 1 .. Len(codes) : /\ codes'[i].type = codes[i].type
                                  /\ codes[i].wins > 0 => codes'[i].wins > 0
                                  /\ codes[i].accepted => codes'[i].accepted

\* The rows that other handlers are sending are as they were.
OtpSpares(p) ==
    \A q \in Proc \ {p} : handlers[q].pc \in Twilio!Sending =>
        LET i == handlers[q].row IN
        /\ codes'[i].accepted = codes[i].accepted
        /\ codes'[i].received = codes[i].received
        /\ codes'[i].withdrawn = codes[i].withdrawn

\* The row a handler makes is sent by no other one.
OtpOwns(p) ==
    handlers'[p].pc \in Twilio!Sending =>
        \A q \in Proc \ {p} : handlers[q].pc \in Twilio!Sending =>
            handlers[q].row # handlers'[p].row

\* A step of one handler leaves what the others know true.
LEMMA OtpKeeps ==
    ASSUME Twilio!IInv, OtpGrows, NEW p \in Proc, OtpSpares(p), OtpOwns(p),
           handlers' \in [Proc -> Twilio!Handlers],
           \A q \in Proc \ {p} : handlers'[q] = handlers[q],
           Twilio!Knows(p)', otpStatus' \in DeliveryStatuses, deaths' \in 0 .. MaxDeaths,
           \A i \in DOMAIN codes' : Twilio!Sound(i)',
           Twilio!CompletedByCode', Twilio!AwaitedWasAccepted'
    PROVE  Twilio!IInv'
<1>1. /\ DOMAIN codes = 1 .. Len(codes) /\ DOMAIN codes' = 1 .. Len(codes')
      /\ Len(codes) \in Nat /\ Len(codes') \in Nat /\ Len(codes) <= Len(codes')
  BY CodesAreRows, LenProperties DEF OtpGrows
<1>2. ASSUME NEW q \in Proc \ {p} PROVE Twilio!Knows(q)'
  <2>1. handlers'[q] = handlers[q] /\ Twilio!Knows(q)
    BY DEF Twilio!IInv
  <2>2. /\ handlers[q].pc \in Twilio!Sending \cup {"count", "consume", "complete"}
           => LET i == handlers[q].row IN
              /\ i \in 1 .. Len(codes) /\ i \in DOMAIN codes'
              /\ codes'[i].type = codes[i].type
              /\ codes[i].wins > 0 => codes'[i].wins > 0
    BY <1>1, <2>1 DEF Twilio!Knows, OtpGrows
  <2>3. handlers[q].pc \in Twilio!Sending =>
        LET i == handlers[q].row IN
        /\ codes'[i].accepted = codes[i].accepted
        /\ codes'[i].received = codes[i].received
        /\ codes'[i].withdrawn = codes[i].withdrawn
    BY DEF OtpSpares
  <2> QED
    BY <2>1, <2>2, <2>3 DEF Twilio!Knows, Twilio!Sending
<1>3. ASSUME NEW q \in Proc, NEW r \in Proc, q # r, handlers'[q].pc \in Twilio!Sending,
             handlers'[r].pc \in Twilio!Sending
      PROVE  handlers'[q].row # handlers'[r].row
  <2>1. CASE q # p /\ r # p
    BY <1>3, <2>1 DEF Twilio!IInv
  <2>2. CASE q = p
    BY <1>3, <2>2 DEF OtpOwns
  <2>3. CASE r = p
    BY <1>3, <2>3 DEF OtpOwns
  <2> QED
    BY <2>1, <2>2, <2>3
<1> QED
  BY <1>2, <1>3 DEF Twilio!IInv, OtpGrows, Twilio!DeliveryStatuses, DeliveryStatuses

\* A row of which neither the attempts nor those that count them grow is as sound as it was.
LEMMA SoundStays ==
    ASSUME Twilio!OtpAssumption, Twilio!IInv, NEW p \in Proc,
           handlers' \in [Proc -> Twilio!Handlers],
           \A q \in Proc \ {p} : handlers'[q] = handlers[q],
           NEW i \in DOMAIN codes, codes'[i] \in Twilio!Codes,
           \/ codes'[i].attempts = codes[i].attempts
              /\ (p \in Twilio!Counting(i)' => p \in Twilio!Counting(i))
           \/ codes'[i].attempts = codes[i].attempts + 1
              /\ p \in Twilio!Counting(i) /\ p \notin Twilio!Counting(i)'
           \/ codes'[i].attempts < MaxAttempts,
           codes'[i].wins <= 1, codes'[i].wins > 0 => codes'[i].consumed,
           codes'[i].withdrawn => ~codes'[i].received
    PROVE  Twilio!Sound(i)'
<1> DEFINE A == Twilio!Counting(i)  B == Twilio!Counting(i)'
<1>1. B \subseteq A \cup {p} /\ A \in SUBSET Proc /\ B \in SUBSET Proc
  BY DEF Twilio!Counting
<1>2. /\ codes[i].attempts + Cardinality(A) <= MaxAttempts - 1 + Cardinality(Proc)
      /\ codes[i].attempts \in Nat /\ codes'[i].attempts \in Nat
  BY OtpCounts, CodesAreRows DEF Twilio!IInv, Twilio!Sound, Twilio!Codes
<1>3. /\ Cardinality(A) \in Nat /\ Cardinality(B) \in Nat /\ Cardinality(Proc) \in Nat
      /\ Cardinality(B) <= Cardinality(Proc) /\ MaxAttempts \in Nat \ {0}
  BY <1>1, CountingCounted
<1>4. CASE codes'[i].attempts = codes[i].attempts /\ (p \in B => p \in A)
  <2>1. B \in SUBSET A
    BY <1>1, <1>4
  <2>2. Cardinality(B) <= Cardinality(A)
    BY <2>1, <1>1, CountingCounted
  <2>3. codes'[i].attempts + Cardinality(B) <= MaxAttempts - 1 + Cardinality(Proc)
    BY <1>2, <1>3, <1>4, <2>2
  <2> QED
    BY <2>3, OtpCounts DEF Twilio!Sound
<1>5. CASE codes'[i].attempts = codes[i].attempts + 1 /\ p \in A /\ p \notin B
  <2>1. B \in SUBSET (A \ {p}) /\ A \ {p} \in SUBSET Proc
    BY <1>1, <1>5
  <2>2. Cardinality(B) <= Cardinality(A \ {p}) /\ Cardinality(A \ {p}) = Cardinality(A) - 1
    BY <2>1, <1>1, <1>5, CountingCounted
  <2>3. codes'[i].attempts + Cardinality(B) <= MaxAttempts - 1 + Cardinality(Proc)
    BY <1>2, <1>3, <1>5, <2>2
  <2> QED
    BY <2>3, OtpCounts DEF Twilio!Sound
<1>6. CASE codes'[i].attempts < MaxAttempts
  <2>3. codes'[i].attempts + Cardinality(B) <= MaxAttempts - 1 + Cardinality(Proc)
    BY <1>2, <1>3, <1>6
  <2> QED
    BY <2>3, OtpCounts DEF Twilio!Sound
<1> QED
  BY <1>4, <1>5, <1>6

\* A delivery that moves keeps what opened its way.
LEMMA WayStays ==
    ASSUME Twilio!IInv, OtpGrows,
           otpStatus' \in {"PICKED_UP", "IN_TRANSIT", "DELIVERY_OTP_PENDING", "DELIVERED"}
              => \/ otpStatus \in {"PICKED_UP", "IN_TRANSIT", "DELIVERY_OTP_PENDING", "DELIVERED"}
                 \/ \E i \in DOMAIN codes : codes[i].type = "PICKUP" /\ codes[i].wins > 0,
           otpStatus' = "DELIVERED"
              => \/ otpStatus = "DELIVERED"
                 \/ \E i \in DOMAIN codes : codes[i].type = "DELIVERY" /\ codes[i].wins > 0,
           \A type \in Twilio!OtpType : otpStatus' = Twilio!Pending[type]
              => \/ otpStatus = Twilio!Pending[type]
                 \/ \E i \in DOMAIN codes : codes[i].type = type /\ codes[i].accepted
    PROVE  Twilio!CompletedByCode' /\ Twilio!AwaitedWasAccepted'
<1>1. /\ DOMAIN codes = 1 .. Len(codes) /\ DOMAIN codes' = 1 .. Len(codes')
      /\ Len(codes) \in Nat /\ Len(codes') \in Nat /\ Len(codes) <= Len(codes')
  BY CodesAreRows, LenProperties DEF OtpGrows
<1>2. \A i \in DOMAIN codes : /\ i \in DOMAIN codes' /\ codes'[i].type = codes[i].type
                              /\ codes[i].wins > 0 => codes'[i].wins > 0
                              /\ codes[i].accepted => codes'[i].accepted
  BY <1>1 DEF OtpGrows
<1>3. Twilio!CompletedByCode'
  BY <1>2 DEF Twilio!CompletedByCode, Twilio!IInv
<1>4. Twilio!AwaitedWasAccepted'
  BY <1>2 DEF Twilio!AwaitedWasAccepted, Twilio!IInv
<1> QED
  BY <1>3, <1>4

\* A handler that goes on, to count a row below its limit only, with the rows as they are.
LEMMA OtpMoves ==
    ASSUME Twilio!OtpAssumption, Twilio!IInv, NEW p \in Proc, NEW new \in Twilio!Handlers,
           handlers' = [handlers EXCEPT ![p] = new], UNCHANGED codes,
           new.pc \in Twilio!Sending => handlers[p].pc \in Twilio!Sending /\ new.row = handlers[p].row,
           new.pc = "count" => new.row \in DOMAIN codes /\ codes[new.row].attempts < MaxAttempts,
           Twilio!Knows(p)', otpStatus' \in DeliveryStatuses, deaths' \in 0 .. MaxDeaths,
           otpStatus' \in {"PICKED_UP", "IN_TRANSIT", "DELIVERY_OTP_PENDING", "DELIVERED"}
              => \/ otpStatus \in {"PICKED_UP", "IN_TRANSIT", "DELIVERY_OTP_PENDING", "DELIVERED"}
                 \/ \E i \in DOMAIN codes : codes[i].type = "PICKUP" /\ codes[i].wins > 0,
           otpStatus' = "DELIVERED"
              => \/ otpStatus = "DELIVERED"
                 \/ \E i \in DOMAIN codes : codes[i].type = "DELIVERY" /\ codes[i].wins > 0,
           \A type \in Twilio!OtpType : otpStatus' = Twilio!Pending[type]
              => \/ otpStatus = Twilio!Pending[type]
                 \/ \E i \in DOMAIN codes : codes[i].type = type /\ codes[i].accepted
    PROVE  Twilio!IInv'
<1>1. OtpGrows
  BY CodesAreRows DEF OtpGrows, Twilio!IInv
<1>2. /\ handlers' \in [Proc -> Twilio!Handlers] /\ handlers'[p] = new
      /\ \A q \in Proc \ {p} : handlers'[q] = handlers[q]
  BY CodesAreRows
<1>3. OtpSpares(p)
  BY DEF OtpSpares
<1>4. OtpOwns(p)
  BY <1>2 DEF OtpOwns, Twilio!IInv
<1>5. ASSUME NEW i \in DOMAIN codes PROVE Twilio!Sound(i)'
  <2>1. /\ codes[i] \in Twilio!Codes /\ codes'[i] = codes[i]
        /\ codes[i].wins <= 1 /\ (codes[i].wins > 0 => codes[i].consumed)
        /\ codes[i].withdrawn => ~codes[i].received
    BY CodesAreRows DEF Twilio!IInv, Twilio!Sound
  <2>2. \/ p \in Twilio!Counting(i)' => p \in Twilio!Counting(i)
        \/ codes'[i].attempts < MaxAttempts
    BY <1>2, <2>1 DEF Twilio!Counting
  <2> QED
    BY <1>2, <2>1, <2>2, SoundStays
<1>6. Twilio!CompletedByCode' /\ Twilio!AwaitedWasAccepted'
  BY <1>1, WayStays
<1> QED
  BY <1>1, <1>2, <1>3, <1>4, <1>5, <1>6, OtpKeeps

\* A handler whose request ends.
LEMMA OtpAnswers ==
    ASSUME Twilio!IInv, NEW p \in Proc, Twilio!Answer(p)
    PROVE  /\ Twilio!Idle \in Twilio!Handlers
           /\ handlers' = [handlers EXCEPT ![p] = Twilio!Idle]
           /\ handlers'[p] = Twilio!Idle /\ handlers'[p].pc = "idle"
           /\ Twilio!Knows(p)'
           /\ handlers' \in [Proc -> Twilio!Handlers]
           /\ \A q \in Proc \ {p} : handlers'[q] = handlers[q]
<1>1. Twilio!Idle \in Twilio!Handlers
  BY DEF Twilio!Idle, Twilio!Handlers, Twilio!OtpType, Twilio!DeliveryStatuses
<1>2. handlers' = [handlers EXCEPT ![p] = Twilio!Idle] /\ handlers'[p] = Twilio!Idle
  BY CodesAreRows DEF Twilio!Answer
<1>3. Twilio!Knows(p)'
  BY <1>2 DEF Twilio!Knows, Twilio!Idle, Twilio!Sending
<1> QED
  BY <1>1, <1>2, <1>3, CodesAreRows DEF Twilio!Idle

\* A handler that only goes to another step.
LEMMA OtpGoes ==
    ASSUME Twilio!IInv, NEW p \in Proc,
           NEW pc \in {"invalidate", "create", "withdraw", "await", "complete"},
           Twilio!Goto(p, pc)
    PROVE  LET new == [handlers[p] EXCEPT !.pc = pc] IN
           /\ new \in Twilio!Handlers
           /\ handlers' = [handlers EXCEPT ![p] = new]
           /\ handlers'[p] = new /\ new.pc = pc
           /\ new.type = handlers[p].type /\ new.row = handlers[p].row
           /\ handlers' \in [Proc -> Twilio!Handlers]
           /\ \A q \in Proc \ {p} : handlers'[q] = handlers[q]
  BY CodesAreRows DEF Twilio!Goto, Twilio!Handlers

\* A code is asked for.
LEMMA OtpGenerate ==
    ASSUME Twilio!OtpAssumption, Twilio!IInv, NEW p \in Proc, NEW type \in Twilio!OtpType,
           Twilio!GenerateOtp(p, type)
    PROVE  Twilio!IInv'
<1> DEFINE first == [handlers[p] EXCEPT !.pc = "cooldown"]
           second == [first EXCEPT !.type = type]
           new == [second EXCEPT !.from = otpStatus]
<1>1. handlers[p] \in Twilio!Handlers /\ otpStatus \in Twilio!DeliveryStatuses
  BY CodesAreRows DEF Twilio!DeliveryStatuses, DeliveryStatuses
<1>2. first \in Twilio!Handlers /\ first.pc = "cooldown"
  BY <1>1 DEF Twilio!Handlers
<1> HIDE DEF first
<1>3. second \in Twilio!Handlers /\ second.pc = "cooldown"
  BY <1>2 DEF Twilio!Handlers
<1> HIDE DEF second
<1>4. new \in Twilio!Handlers /\ new.pc = "cooldown"
  BY <1>1, <1>3 DEF Twilio!Handlers
<1>5. /\ handlers' = [handlers EXCEPT ![p] = new]
      /\ UNCHANGED <<otpStatus, codes, deaths>>
  BY DEF Twilio!GenerateOtp, first, second
<1> HIDE DEF new
<1>6. handlers'[p] = new
  BY <1>5, CodesAreRows
<1>7. Twilio!Knows(p)'
  BY <1>4, <1>6 DEF Twilio!Knows, Twilio!Sending
<1> QED
  BY <1>4, <1>5, <1>7, OtpMoves, CodesAreRows DEF Twilio!Sending, Twilio!IInv

\* A guess comes in.
LEMMA OtpVerify ==
    ASSUME Twilio!OtpAssumption, Twilio!IInv, NEW p \in Proc, NEW type \in Twilio!OtpType,
           NEW guess \in Nat, Twilio!VerifyOtp(p, type, guess)
    PROVE  Twilio!IInv'
<1> DEFINE first == [handlers[p] EXCEPT !.pc = "find"]
           second == [first EXCEPT !.type = type]
           new == [second EXCEPT !.guess = guess]
<1>1. handlers[p] \in Twilio!Handlers
  BY CodesAreRows
<1>2. first \in Twilio!Handlers /\ first.pc = "find"
  BY <1>1 DEF Twilio!Handlers
<1> HIDE DEF first
<1>3. second \in Twilio!Handlers /\ second.pc = "find"
  BY <1>2 DEF Twilio!Handlers
<1> HIDE DEF second
<1>4. new \in Twilio!Handlers /\ new.pc = "find"
  BY <1>3 DEF Twilio!Handlers
<1>5. /\ handlers' = [handlers EXCEPT ![p] = new]
      /\ UNCHANGED <<otpStatus, codes, deaths>>
  BY DEF Twilio!VerifyOtp, first, second
<1> HIDE DEF new
<1>6. handlers'[p] = new
  BY <1>5, CodesAreRows
<1>7. Twilio!Knows(p)'
  BY <1>4, <1>6 DEF Twilio!Knows, Twilio!Sending
<1> QED
  BY <1>4, <1>5, <1>7, OtpMoves, CodesAreRows DEF Twilio!Sending, Twilio!IInv

\* A code is refused while another one is young.
LEMMA OtpCooldown ==
    ASSUME Twilio!OtpAssumption, Twilio!IInv, NEW p \in Proc, Twilio!EnsureGenerationAllowed(p)
    PROVE  Twilio!IInv'
<1>1. UNCHANGED <<otpStatus, codes, deaths>> /\ otpStatus' \in DeliveryStatuses
      /\ deaths' \in 0 .. MaxDeaths
  BY CodesAreRows DEF Twilio!EnsureGenerationAllowed, Twilio!IInv
<1>2. CASE Twilio!Answer(p)
  BY <1>1, <1>2, OtpAnswers, OtpMoves DEF Twilio!Sending
<1>3. CASE Twilio!Goto(p, "invalidate")
  <2> DEFINE new == [handlers[p] EXCEPT !.pc = "invalidate"]
  <2>1. /\ new \in Twilio!Handlers /\ handlers' = [handlers EXCEPT ![p] = new]
        /\ handlers'[p] = new /\ new.pc = "invalidate"
    BY <1>3, OtpGoes
  <2> HIDE DEF new
  <2>2. Twilio!Knows(p)'
    BY <2>1 DEF Twilio!Knows, Twilio!Sending
  <2> QED
    BY <1>1, <2>1, <2>2, OtpMoves DEF Twilio!Sending
<1> QED
  BY <1>2, <1>3 DEF Twilio!EnsureGenerationAllowed

\* A handler reads the active code, below its limit.
LEMMA OtpFind ==
    ASSUME Twilio!OtpAssumption, Twilio!IInv, NEW p \in Proc, Twilio!FindActive(p)
    PROVE  Twilio!IInv'
<1> DEFINE active == Twilio!Active(handlers[p].type)
           pc == IF handlers[p].guess = active THEN "consume" ELSE "count"
           first == [handlers[p] EXCEPT !.pc = pc]
           second == [first EXCEPT !.row = active]
           new == [second EXCEPT !.guess = 0]
<1>1. handlers[p] \in Twilio!Handlers /\ handlers[p].type \in Twilio!OtpType
  BY CodesAreRows DEF Twilio!Handlers
<1>2. UNCHANGED <<otpStatus, codes, deaths>> /\ otpStatus' \in DeliveryStatuses
      /\ deaths' \in 0 .. MaxDeaths
  BY CodesAreRows DEF Twilio!FindActive, Twilio!IInv
<1>3. CASE Twilio!Answer(p)
  BY <1>2, <1>3, OtpAnswers, OtpMoves DEF Twilio!Sending
<1>4. CASE /\ ~(active = 0 \/ codes[active].expired \/ codes[active].attempts >= MaxAttempts)
           /\ handlers' = [handlers EXCEPT ![p] = new]
  <2>1. /\ active \in DOMAIN codes /\ active \in Nat
        /\ codes[active].type = handlers[p].type /\ codes[active].attempts \in Nat
    BY <1>1, <1>4, ActiveIsOpen, CodesAreRows DEF Twilio!Codes
  <2> HIDE DEF active
  <2>2. pc \in {"consume", "count"}
    OBVIOUS
  <2> HIDE DEF pc
  <2>3. first \in Twilio!Handlers /\ first.pc = pc /\ first.type = handlers[p].type
    BY <1>1, <2>2 DEF Twilio!Handlers
  <2> HIDE DEF first
  <2>4. second \in Twilio!Handlers /\ second.pc = pc /\ second.type = handlers[p].type
        /\ second.row = active
    BY <2>1, <2>3 DEF Twilio!Handlers
  <2> HIDE DEF second
  <2>5. new \in Twilio!Handlers /\ new.pc = pc /\ new.type = handlers[p].type /\ new.row = active
    BY <2>4 DEF Twilio!Handlers
  <2> HIDE DEF new
  <2>6. handlers'[p] = new
    BY <1>4, CodesAreRows
  <2>7. Twilio!Knows(p)'
    BY <1>2, <2>1, <2>2, <2>5, <2>6 DEF Twilio!Knows, Twilio!Sending
  <2>8. codes[active].attempts < MaxAttempts
    BY <1>4, <2>1, CountingCounted
  <2> QED
    BY <1>2, <1>4, <2>1, <2>2, <2>5, <2>7, <2>8, OtpMoves DEF Twilio!Sending
<1> QED
  BY <1>3, <1>4 DEF Twilio!FindActive

\* A handler that changes the row it works on.
LEMMA OtpWrites ==
    ASSUME Twilio!OtpAssumption, Twilio!IInv, NEW p \in Proc,
           handlers[p].row \in DOMAIN codes,
           NEW row \in Twilio!Codes, codes' = [codes EXCEPT ![handlers[p].row] = row],
           LET old == codes[handlers[p].row] IN
           /\ row.type = old.type
           /\ old.wins > 0 => row.wins > 0
           /\ old.accepted => row.accepted
           /\ \/ handlers[p].pc \in Twilio!Sending
              \/ /\ row.accepted = old.accepted /\ row.received = old.received
                 /\ row.withdrawn = old.withdrawn
           /\ \/ row.attempts = old.attempts
              \/ handlers[p].pc = "count" /\ row.attempts = old.attempts + 1,
           handlers' \in [Proc -> Twilio!Handlers],
           \A q \in Proc \ {p} : handlers'[q] = handlers[q],
           handlers'[p].pc \in Twilio!Sending
              => handlers[p].pc \in Twilio!Sending /\ handlers'[p].row = handlers[p].row,
           handlers'[p].pc # "count", Twilio!Knows(p)',
           row.wins <= 1, row.wins > 0 => row.consumed, row.withdrawn => ~row.received,
           UNCHANGED <<otpStatus, deaths>>
    PROVE  Twilio!IInv'
<1> DEFINE i == handlers[p].row
<1>1. /\ codes' \in Seq(Twilio!Codes) /\ Len(codes') = Len(codes) /\ Len(codes) \in Nat
      /\ DOMAIN codes = 1 .. Len(codes) /\ DOMAIN codes' = 1 .. Len(codes)
      /\ \A j \in 1 .. Len(codes) : codes'[j] = IF j = i THEN row ELSE codes[j]
  BY CodesAreRows, Replaced
<1>2. OtpGrows
  BY <1>1 DEF OtpGrows, Twilio!IInv
<1>3. OtpSpares(p)
  <2> SUFFICES ASSUME NEW q \in Proc \ {p}, handlers[q].pc \in Twilio!Sending
               PROVE  LET j == handlers[q].row IN
                      /\ codes'[j].accepted = codes[j].accepted
                      /\ codes'[j].received = codes[j].received
                      /\ codes'[j].withdrawn = codes[j].withdrawn
    BY DEF OtpSpares
  <2>1. handlers[q].row \in 1 .. Len(codes)
    BY <1>1 DEF Twilio!IInv, Twilio!Knows
  <2>2. CASE handlers[p].pc \in Twilio!Sending
    <3>1. handlers[q].row # i
      BY <2>2 DEF Twilio!IInv
    <3> QED
      BY <1>1, <2>1, <3>1
  <2>3. CASE row.accepted = codes[i].accepted /\ row.received = codes[i].received
             /\ row.withdrawn = codes[i].withdrawn
    BY <1>1, <2>1, <2>3
  <2> QED
    BY <2>2, <2>3
<1>4. OtpOwns(p)
  BY DEF OtpOwns, Twilio!IInv
<1>5. ASSUME NEW j \in DOMAIN codes' PROVE Twilio!Sound(j)'
  <2>1. /\ codes'[j] \in Twilio!Codes /\ codes'[j].wins <= 1
        /\ codes'[j].wins > 0 => codes'[j].consumed
        /\ codes'[j].withdrawn => ~codes'[j].received
    BY <1>1, CodesAreRows DEF Twilio!IInv, Twilio!Sound
  <2>2. p \notin Twilio!Counting(j)'
    BY DEF Twilio!Counting
  <2>3. \/ codes'[j].attempts = codes[j].attempts
        \/ codes'[j].attempts = codes[j].attempts + 1 /\ p \in Twilio!Counting(j)
    BY <1>1 DEF Twilio!Counting
  <2> QED
    BY <1>1, <2>1, <2>2, <2>3, SoundStays
<1>6. Twilio!CompletedByCode' /\ Twilio!AwaitedWasAccepted'
  BY <1>2, WayStays
<1> QED
  BY <1>2, <1>3, <1>4, <1>5, <1>6, OtpKeeps, CodesAreRows DEF Twilio!IInv

\* Of an SMS that the provider refused nothing arrives.
Honest(sends) ==
    \A sms \in sends : /\ sms.received \in BOOLEAN
                       /\ Twilio!ShouldInvalidateOtp(sms.outcome) => ~sms.received

\* Of a message that Twilio refused nobody has a code.
LEMMA TwilioIsHonest == Honest(Twilio!Sends)
<1>1. Twilio!Sends = Twilio!TwilioSends
  BY DEF Twilio!Sends, Twilio!OperationalProvider
<1>2. ASSUME NEW e \in Twilio!TwilioErrors, Twilio!MapTwilioErrorToOutcome(e) = "FAILED"
      PROVE  e.status = "4xx" \/ (e.status = "none" /\ e.code = "api")
  BY <1>2 DEF Twilio!TwilioErrors, Twilio!MapTwilioErrorToOutcome
<1>3. ASSUME NEW sms \in Twilio!TwilioSends
      PROVE  /\ sms.received \in BOOLEAN
             /\ Twilio!ShouldInvalidateOtp(sms.outcome) => ~sms.received
  <2>1. \A outcome : /\ \A m \in Twilio!Either(outcome) :
                           m.outcome = outcome /\ m.received \in BOOLEAN
                     /\ \A m \in Twilio!Never(outcome) :
                           m.outcome = outcome /\ m.received = FALSE
    BY DEF Twilio!Either, Twilio!Never
  <2>2. Twilio!ShouldInvalidateOtp(sms.outcome) => sms.outcome = "FAILED"
    BY DEF Twilio!ShouldInvalidateOtp, Twilio!ReadSmsOutcome
  <2>3. \/ sms \in Twilio!Either("ACCEPTED") \/ sms \in Twilio!Never("FAILED")
        \/ \E e \in Twilio!TwilioErrors :
              \/ sms \in Twilio!Never(Twilio!MapTwilioErrorToOutcome(e))
              \/ /\ ~(e.status = "4xx" \/ (e.status = "none" /\ e.code = "api"))
                 /\ sms \in Twilio!Either(Twilio!MapTwilioErrorToOutcome(e))
    BY DEF Twilio!TwilioSends
  <2> QED
    BY <1>2, <2>1, <2>2, <2>3
<1> QED
  BY <1>1, <1>3 DEF Honest

\* Nor of one that MSG91 refused.
LEMMA Msg91IsHonest == Honest(Msg91!Sends)
<1>1. Msg91!Sends = Msg91!Msg91Sends
  BY DEF Msg91!Sends, Msg91!OperationalProvider
<1>2. ASSUME NEW e \in Msg91!Msg91Replies, Msg91!Msg91Outcome(e) = "FAILED"
      PROVE  e.status = "4xx" \/ (e.status = "200" /\ e.type = "error")
  BY <1>2 DEF Msg91!Msg91Replies, Msg91!Msg91Outcome, Msg91!Msg91Status
<1>3. ASSUME NEW sms \in Msg91!Msg91Sends
      PROVE  /\ sms.received \in BOOLEAN
             /\ Twilio!ShouldInvalidateOtp(sms.outcome) => ~sms.received
  <2>1. \A outcome : /\ \A m \in Msg91!Either(outcome) :
                           m.outcome = outcome /\ m.received \in BOOLEAN
                     /\ \A m \in Msg91!Never(outcome) :
                           m.outcome = outcome /\ m.received = FALSE
    BY DEF Msg91!Either, Msg91!Never
  <2>2. Twilio!ShouldInvalidateOtp(sms.outcome) => sms.outcome = "FAILED"
    BY DEF Twilio!ShouldInvalidateOtp, Twilio!ReadSmsOutcome
  <2>3. \E e \in Msg91!Msg91Replies :
              \/ sms \in Msg91!Never(Msg91!Msg91Outcome(e))
              \/ /\ ~(e.status = "4xx" \/ (e.status = "200" /\ e.type = "error"))
                 /\ sms \in Msg91!Either(Msg91!Msg91Outcome(e))
    BY DEF Msg91!Msg91Sends
  <2> QED
    BY <1>2, <2>1, <2>2, <2>3
<1> QED
  BY <1>1, <1>3 DEF Honest

\* The SMS is sent, by either service.
LEMMA OtpSends ==
    ASSUME Twilio!OtpAssumption, Twilio!IInv, NEW p \in Proc, NEW sends, Honest(sends),
           handlers[p].pc = "send", NEW sms \in sends,
           codes' = [codes EXCEPT ![handlers[p].row].received = sms.received,
                                  ![handlers[p].row].accepted = sms.outcome = "ACCEPTED"],
           \/ Twilio!ShouldInvalidateOtp(sms.outcome) /\ Twilio!Goto(p, "withdraw")
           \/ sms.outcome = "ACCEPTED" /\ Twilio!Goto(p, "await")
           \/ Twilio!Answer(p),
           UNCHANGED <<otpStatus, deaths>>
    PROVE  Twilio!IInv'
<1> DEFINE i == handlers[p].row
           first == [codes[i] EXCEPT !.received = sms.received]
           row == [first EXCEPT !.accepted = sms.outcome = "ACCEPTED"]
<1>1. /\ i \in DOMAIN codes /\ codes[i] \in Twilio!Codes /\ codes[i].type = handlers[p].type
      /\ ~codes[i].accepted /\ ~codes[i].received /\ ~codes[i].withdrawn
      /\ codes[i].wins <= 1 /\ (codes[i].wins > 0 => codes[i].consumed)
      /\ "send" \in Twilio!Sending
  BY CodesAreRows DEF Twilio!IInv, Twilio!Knows, Twilio!Sending, Twilio!Sound
<1>2. sms.received \in BOOLEAN /\ (Twilio!ShouldInvalidateOtp(sms.outcome) => ~sms.received)
  BY DEF Honest
<1>3. /\ first \in Twilio!Codes /\ first.type = codes[i].type /\ first.received = sms.received
      /\ ~first.accepted /\ ~first.withdrawn /\ first.attempts = codes[i].attempts
      /\ first.wins = codes[i].wins /\ first.consumed = codes[i].consumed
  BY <1>1, <1>2 DEF Twilio!Codes
<1> HIDE DEF first
<1>4. /\ row \in Twilio!Codes /\ row.type = codes[i].type /\ row.received = sms.received
      /\ ~row.withdrawn /\ row.attempts = codes[i].attempts
      /\ row.wins = codes[i].wins /\ row.consumed = codes[i].consumed
      /\ row.accepted = (sms.outcome = "ACCEPTED")
  BY <1>3 DEF Twilio!Codes
<1>5. codes' = [codes EXCEPT ![i] = row]
  BY <1>1, CodesAreRows DEF first
<1> HIDE DEF row
<1>6. codes'[i] = row /\ i \in DOMAIN codes'
  BY <1>1, <1>4, <1>5, CodesAreRows, Replaced
<1>7. ASSUME handlers' \in [Proc -> Twilio!Handlers],
             \A q \in Proc \ {p} : handlers'[q] = handlers[q],
             handlers'[p].pc \in Twilio!Sending => handlers'[p].row = i,
             handlers'[p].pc # "count", Twilio!Knows(p)'
      PROVE  Twilio!IInv'
  <2>1. handlers[p].pc \in Twilio!Sending
    BY <1>1
  <2>2. row.wins <= 1 /\ (row.wins > 0 => row.consumed) /\ (row.withdrawn => ~row.received)
    BY <1>1, <1>4
  <2>3. (codes[i].wins > 0 => row.wins > 0) /\ (codes[i].accepted => row.accepted)
    BY <1>1, <1>4
  <2>4. i \in DOMAIN codes /\ i = handlers[p].row
    BY <1>1
  <2> QED
    BY <1>4, <1>5, <1>7, <2>1, <2>2, <2>3, <2>4, OtpWrites
<1>8. CASE Twilio!ShouldInvalidateOtp(sms.outcome) /\ Twilio!Goto(p, "withdraw")
  <2>1. /\ handlers'[p].pc = "withdraw" /\ handlers'[p].row = i
        /\ handlers'[p].type = handlers[p].type
        /\ handlers' \in [Proc -> Twilio!Handlers]
        /\ \A q \in Proc \ {p} : handlers'[q] = handlers[q]
    <3>1. Twilio!Goto(p, "withdraw")
      BY <1>8
    <3> QED
      BY ZenonT(30), <3>1, OtpGoes
  <2>2. Twilio!Knows(p)'
    BY <1>1, <1>2, <1>4, <1>6, <1>8, <2>1 DEF Twilio!Knows, Twilio!Sending
  <2> QED
    BY <1>7, <2>1, <2>2
<1>9. CASE sms.outcome = "ACCEPTED" /\ Twilio!Goto(p, "await")
  <2>1. /\ handlers'[p].pc = "await" /\ handlers'[p].row = i
        /\ handlers'[p].type = handlers[p].type
        /\ handlers' \in [Proc -> Twilio!Handlers]
        /\ \A q \in Proc \ {p} : handlers'[q] = handlers[q]
    <3>1. Twilio!Goto(p, "await")
      BY <1>9
    <3> QED
      BY ZenonT(30), <3>1, OtpGoes
  <2>2. Twilio!Knows(p)'
    <3>1. /\ i \in DOMAIN codes' /\ codes'[i].type = handlers'[p].type
          /\ codes'[i].accepted
      BY <1>1, <1>4, <1>6, <1>9, <2>1
    <3> QED
      BY <2>1, <3>1 DEF Twilio!Knows, Twilio!Sending
  <2> QED
    BY <1>7, <2>1, <2>2
<1>10. CASE Twilio!Answer(p)
  BY <1>7, <1>10, OtpAnswers DEF Twilio!Sending
<1> QED
  BY <1>8, <1>9, <1>10

\* The SMS is sent by either service.
LEMMA OtpSendSms ==
    ASSUME Twilio!OtpAssumption, Twilio!IInv, NEW p \in Proc,
           Twilio!SendSms(p) \/ Msg91!SendSms(p)
    PROVE  Twilio!IInv'
<1>1. CASE Twilio!SendSms(p)
  BY <1>1, TwilioIsHonest, OtpSends DEF Twilio!SendSms
<1>2. CASE Msg91!SendSms(p)
  <2>1. /\ handlers[p].pc = "send" /\ UNCHANGED <<otpStatus, deaths>>
        /\ \E sms \in Msg91!Sends :
            /\ codes' = [codes EXCEPT ![handlers[p].row].received = sms.received,
                                      ![handlers[p].row].accepted = sms.outcome = "ACCEPTED"]
            /\ \/ Msg91!ShouldInvalidateOtp(sms.outcome) /\ Msg91!Goto(p, "withdraw")
               \/ sms.outcome = "ACCEPTED" /\ Msg91!Goto(p, "await")
               \/ Msg91!Answer(p)
    BY <1>2 DEF Msg91!SendSms
  <2>2. \A outcome : Msg91!ShouldInvalidateOtp(outcome) = Twilio!ShouldInvalidateOtp(outcome)
    BY DEF Msg91!ShouldInvalidateOtp, Twilio!ShouldInvalidateOtp, Msg91!ReadSmsOutcome,
       Twilio!ReadSmsOutcome
  <2>3. /\ Msg91!Goto(p, "withdraw") <=> Twilio!Goto(p, "withdraw")
        /\ Msg91!Goto(p, "await") <=> Twilio!Goto(p, "await")
    BY DEF Msg91!Goto, Twilio!Goto
  <2>4. Msg91!Answer(p) <=> Twilio!Answer(p)
    BY DEF Msg91!Answer, Twilio!Answer, Msg91!Idle, Twilio!Idle
  <2> QED
    BY <2>1, <2>2, <2>3, <2>4, Msg91IsHonest, OtpSends
<1> QED
  BY <1>1, <1>2

\* A code is withdrawn, by the handler that made it.
LEMMA OtpWithdraw ==
    ASSUME Twilio!OtpAssumption, Twilio!IInv, NEW p \in Proc, Twilio!Withdraw(p)
    PROVE  Twilio!IInv'
<1> DEFINE i == handlers[p].row
           first == [codes[i] EXCEPT !.withdrawn = TRUE]
           second == [first EXCEPT !.consumed = TRUE]
           third == [second EXCEPT !.young = FALSE]
           row == [third EXCEPT !.expired = FALSE]
           Same(r) == /\ r.type = codes[i].type /\ r.wins = codes[i].wins
                      /\ r.accepted = codes[i].accepted /\ r.received = codes[i].received
                      /\ r.attempts = codes[i].attempts /\ r.withdrawn
<1>1. /\ i \in DOMAIN codes /\ codes[i] \in Twilio!Codes /\ ~codes[i].received
      /\ codes[i].wins <= 1 /\ handlers[p].pc \in Twilio!Sending
  BY CodesAreRows DEF Twilio!IInv, Twilio!Knows, Twilio!Sending, Twilio!Sound, Twilio!Withdraw
<1>2. first \in Twilio!Codes /\ Same(first)
  BY <1>1 DEF Twilio!Codes
<1> HIDE DEF first
<1>3. second \in Twilio!Codes /\ Same(second) /\ second.consumed
  BY <1>2 DEF Twilio!Codes
<1> HIDE DEF second
<1>4. third \in Twilio!Codes /\ Same(third) /\ third.consumed
  BY <1>3 DEF Twilio!Codes
<1> HIDE DEF third
<1>5. row \in Twilio!Codes /\ Same(row) /\ row.consumed
  BY <1>4 DEF Twilio!Codes
<1>6. codes' = [codes EXCEPT ![i] = row]
  BY <1>1, CodesAreRows DEF Twilio!Withdraw, first, second, third
<1> HIDE DEF row
<1>7. Twilio!Answer(p) /\ UNCHANGED <<otpStatus, deaths>> /\ "idle" \notin Twilio!Sending
  BY DEF Twilio!Withdraw, Twilio!Sending
<1> QED
  BY ZenonT(30), <1>1, <1>5, <1>6, <1>7, OtpAnswers, OtpWrites

\* A wrong guess is counted, by a handler that had read the row below its limit.
LEMMA OtpCount ==
    ASSUME Twilio!OtpAssumption, Twilio!IInv, NEW p \in Proc, Twilio!IncrementAttempts(p)
    PROVE  Twilio!IInv'
<1> DEFINE i == handlers[p].row
           row == [codes[i] EXCEPT !.attempts = @ + 1]
<1>1. /\ i \in DOMAIN codes /\ codes[i] \in Twilio!Codes /\ handlers[p].pc = "count"
      /\ codes[i].wins <= 1 /\ (codes[i].wins > 0 => codes[i].consumed)
      /\ codes[i].withdrawn => ~codes[i].received
  BY CodesAreRows DEF Twilio!IInv, Twilio!Knows, Twilio!Sound, Twilio!IncrementAttempts
<1>2. /\ row \in Twilio!Codes
      /\ row.type = codes[i].type /\ row.wins = codes[i].wins /\ row.consumed = codes[i].consumed
      /\ row.accepted = codes[i].accepted /\ row.received = codes[i].received
      /\ row.attempts = codes[i].attempts + 1 /\ row.withdrawn = codes[i].withdrawn
  BY <1>1 DEF Twilio!Codes
<1>3. codes' = [codes EXCEPT ![i] = row]
  BY <1>1, CodesAreRows DEF Twilio!IncrementAttempts
<1> HIDE DEF row
<1>4. Twilio!Answer(p) /\ UNCHANGED <<otpStatus, deaths>> /\ "idle" \notin Twilio!Sending
  BY DEF Twilio!IncrementAttempts, Twilio!Sending
<1> QED
  BY ZenonT(30), <1>1, <1>2, <1>3, <1>4, OtpAnswers, OtpWrites

\* A right guess consumes the code, if nobody did before.
LEMMA OtpConsume ==
    ASSUME Twilio!OtpAssumption, Twilio!IInv, NEW p \in Proc, Twilio!Consume(p)
    PROVE  Twilio!IInv'
<1> DEFINE i == handlers[p].row
           first == [codes[i] EXCEPT !.consumed = TRUE]
           second == [first EXCEPT !.young = FALSE]
           third == [second EXCEPT !.expired = FALSE]
           row == [third EXCEPT !.wins = @ + 1]
           Same(r) == /\ r.type = codes[i].type /\ r.withdrawn = codes[i].withdrawn
                      /\ r.accepted = codes[i].accepted /\ r.received = codes[i].received
                      /\ r.attempts = codes[i].attempts /\ r.consumed
<1>1. /\ i \in DOMAIN codes /\ codes[i] \in Twilio!Codes /\ handlers[p].pc = "consume"
      /\ codes[i].wins <= 1 /\ (codes[i].wins > 0 => codes[i].consumed) /\ codes[i].wins \in Nat
      /\ codes[i].withdrawn => ~codes[i].received
      /\ codes[i].type = handlers[p].type
      /\ UNCHANGED <<otpStatus, deaths>>
  BY CodesAreRows DEF Twilio!IInv, Twilio!Knows, Twilio!Sound, Twilio!Consume, Twilio!Codes
<1>2. CASE codes[i].consumed
  <2>1. Twilio!Answer(p) /\ UNCHANGED codes
    BY <1>2 DEF Twilio!Consume
  <2> QED
    BY <1>1, <2>1, OtpAnswers, OtpMoves, CodesAreRows DEF Twilio!Sending, Twilio!IInv
<1>3. CASE ~codes[i].consumed
  <2>0. codes[i].wins = 0
    BY <1>1, <1>3
  <2>1. first \in Twilio!Codes /\ Same(first) /\ first.wins = 0
    BY <1>1, <2>0 DEF Twilio!Codes
  <2> HIDE DEF first
  <2>2. second \in Twilio!Codes /\ Same(second) /\ second.wins = 0
    BY <2>1 DEF Twilio!Codes
  <2> HIDE DEF second
  <2>3. third \in Twilio!Codes /\ Same(third) /\ third.wins = 0
    BY <2>2 DEF Twilio!Codes
  <2> HIDE DEF third
  <2>4. row \in Twilio!Codes /\ Same(row) /\ row.wins = 1
    BY <2>3 DEF Twilio!Codes
  <2>5. codes' = [codes EXCEPT ![i] = row] /\ Twilio!Goto(p, "complete")
    BY <1>1, <1>3, CodesAreRows DEF Twilio!Consume, first, second, third
  <2> HIDE DEF row
  <2>6. codes'[i] = row /\ i \in DOMAIN codes'
    BY <1>1, <2>4, <2>5, CodesAreRows, Replaced
  <2>7. /\ handlers'[p].pc = "complete" /\ handlers'[p].row = i
        /\ handlers'[p].type = handlers[p].type
        /\ handlers' \in [Proc -> Twilio!Handlers]
        /\ \A q \in Proc \ {p} : handlers'[q] = handlers[q]
    BY ZenonT(30), <2>5, OtpGoes
  <2>8. Twilio!Knows(p)' /\ "complete" \notin Twilio!Sending
    BY <1>1, <2>4, <2>6, <2>7 DEF Twilio!Knows, Twilio!Sending
  <2>9. /\ row.wins <= 1 /\ (row.wins > 0 => row.consumed) /\ (row.withdrawn => ~row.received)
        /\ (codes[i].wins > 0 => row.wins > 0) /\ (codes[i].accepted => row.accepted)
    BY <1>1, <2>0, <2>4
  <2>10. handlers'[p].pc \notin Twilio!Sending /\ handlers'[p].pc # "count"
    BY <2>7, <2>8
  <2> QED
    BY <1>1, <2>4, <2>5, <2>7, <2>8, <2>9, <2>10, OtpWrites
<1> QED
  BY <1>2, <1>3

\* The delivery moves: it awaits the code it was sent, or moves on by the one that won.
LEMMA OtpMovesDelivery ==
    ASSUME Twilio!OtpAssumption, Twilio!IInv, NEW p \in Proc,
           Twilio!AwaitCode(p) \/ Twilio!Complete(p)
    PROVE  Twilio!IInv'
<1>1. /\ handlers[p] \in Twilio!Handlers /\ handlers[p].row \in DOMAIN codes
      /\ codes[handlers[p].row].type = handlers[p].type /\ handlers[p].type \in Twilio!OtpType
      /\ handlers[p].pc = "await" => codes[handlers[p].row].accepted
      /\ handlers[p].pc = "complete" => codes[handlers[p].row].wins > 0
  BY CodesAreRows DEF Twilio!IInv, Twilio!Knows, Twilio!Sending, Twilio!AwaitCode,
     Twilio!Complete, Twilio!Handlers
<1>2. Twilio!Answer(p) /\ UNCHANGED <<codes, deaths>> /\ "idle" \notin Twilio!Sending
      /\ deaths' \in 0 .. MaxDeaths /\ Twilio!Idle.pc = "idle"
  BY DEF Twilio!AwaitCode, Twilio!Complete, Twilio!Sending, Twilio!IInv, Twilio!Idle
<1>3. ASSUME otpStatus' \in DeliveryStatuses,
             otpStatus' \in {"PICKED_UP", "IN_TRANSIT", "DELIVERY_OTP_PENDING", "DELIVERED"}
              => \/ otpStatus \in {"PICKED_UP", "IN_TRANSIT", "DELIVERY_OTP_PENDING", "DELIVERED"}
                 \/ \E i \in DOMAIN codes : codes[i].type = "PICKUP" /\ codes[i].wins > 0,
             otpStatus' = "DELIVERED"
              => \/ otpStatus = "DELIVERED"
                 \/ \E i \in DOMAIN codes : codes[i].type = "DELIVERY" /\ codes[i].wins > 0,
             \A type \in Twilio!OtpType : otpStatus' = Twilio!Pending[type]
              => \/ otpStatus = Twilio!Pending[type]
                 \/ \E i \in DOMAIN codes : codes[i].type = type /\ codes[i].accepted
      PROVE  Twilio!IInv'
  BY <1>2, <1>3, OtpAnswers, OtpMoves
<1>4. CASE Twilio!AwaitCode(p)
  <2>1. codes[handlers[p].row].accepted
    BY <1>1, <1>4 DEF Twilio!AwaitCode
  <2>2. CASE UNCHANGED otpStatus
    BY <1>3, <2>2, CodesAreRows
  <2>3. CASE /\ otpStatus \in Twilio!Generation[handlers[p].type] \ {Twilio!Pending[handlers[p].type]}
             /\ otpStatus' = Twilio!Pending[handlers[p].type]
    <3>1. CASE handlers[p].type = "PICKUP"
      BY <1>1, <1>3, <2>1, <2>3, <3>1 DEF Twilio!Pending, Twilio!Generation, Twilio!OtpType,
         DeliveryStatuses
    <3>2. CASE handlers[p].type = "DELIVERY"
      BY <1>1, <1>3, <2>1, <2>3, <3>2 DEF Twilio!Pending, Twilio!Generation, Twilio!OtpType,
         DeliveryStatuses
    <3> QED
      BY <1>1, <3>1, <3>2 DEF Twilio!OtpType
  <2> QED
    BY <1>4, <2>2, <2>3 DEF Twilio!AwaitCode
<1>5. CASE Twilio!Complete(p)
  <2>1. codes[handlers[p].row].wins > 0
    BY <1>1, <1>5 DEF Twilio!Complete
  <2>2. CASE UNCHANGED otpStatus
    BY <1>3, <2>2, CodesAreRows
  <2>3. CASE /\ otpStatus = Twilio!Pending[handlers[p].type]
             /\ otpStatus' = Twilio!Target[handlers[p].type]
    <3>1. CASE handlers[p].type = "PICKUP"
      BY <1>1, <1>3, <2>1, <2>3, <3>1 DEF Twilio!Pending, Twilio!Target, Twilio!OtpType,
         DeliveryStatuses
    <3>2. CASE handlers[p].type = "DELIVERY"
      BY <1>1, <1>3, <2>1, <2>3, <3>2 DEF Twilio!Pending, Twilio!Target, Twilio!OtpType,
         DeliveryStatuses
    <3> QED
      BY <1>1, <3>1, <3>2 DEF Twilio!OtpType
  <2> QED
    BY <1>5, <2>2, <2>3 DEF Twilio!Complete
<1> QED
  BY <1>4, <1>5

\* A handler dies.
LEMMA OtpCrash ==
    ASSUME Twilio!OtpAssumption, Twilio!IInv, NEW p \in Proc, Twilio!Crash(p)
    PROVE  Twilio!IInv'
<1>1. /\ Twilio!Answer(p) /\ UNCHANGED <<codes, otpStatus>> /\ "idle" \notin Twilio!Sending
      /\ Twilio!Idle.pc = "idle"
  BY DEF Twilio!Crash, Twilio!Sending, Twilio!Idle
<1>2. deaths' \in 0 .. MaxDeaths
  BY DEF Twilio!Crash, Twilio!IInv, Twilio!OtpAssumption
<1> QED
  BY <1>1, <1>2, OtpAnswers, OtpMoves, CodesAreRows

\* A step of no handler: the rows grow older, and the delivery moves by itself.
LEMMA OtpRests ==
    ASSUME Twilio!OtpAssumption, Twilio!IInv, UNCHANGED <<handlers, deaths>>,
           codes' \in Seq(Twilio!Codes), Len(codes') = Len(codes),
           \A i \in DOMAIN codes :
              /\ codes'[i].type = codes[i].type /\ codes'[i].attempts = codes[i].attempts
              /\ codes'[i].wins = codes[i].wins /\ codes'[i].accepted = codes[i].accepted
              /\ codes'[i].received = codes[i].received
              /\ codes'[i].withdrawn = codes[i].withdrawn
              /\ codes[i].consumed => codes'[i].consumed,
           otpStatus' \in DeliveryStatuses,
           otpStatus' \in {"PICKED_UP", "IN_TRANSIT", "DELIVERY_OTP_PENDING", "DELIVERED"}
              => otpStatus \in {"PICKED_UP", "IN_TRANSIT", "DELIVERY_OTP_PENDING", "DELIVERED"},
           otpStatus' = "DELIVERED" => otpStatus = "DELIVERED",
           \A type \in Twilio!OtpType : otpStatus' = Twilio!Pending[type]
              => otpStatus = Twilio!Pending[type]
    PROVE  Twilio!IInv'
<1>1. /\ DOMAIN codes = 1 .. Len(codes) /\ DOMAIN codes' = 1 .. Len(codes)
      /\ Len(codes) \in Nat
  BY CodesAreRows, LenProperties
<1>2. OtpGrows
  BY <1>1 DEF OtpGrows, Twilio!IInv
<1>3. \A q \in Proc : Twilio!Knows(q)'
  BY <1>1 DEF Twilio!IInv, Twilio!Knows, Twilio!Sending
<1>4. ASSUME NEW i \in DOMAIN codes' PROVE Twilio!Sound(i)'
  <2>1. Twilio!Counting(i)' = Twilio!Counting(i)
    BY DEF Twilio!Counting
  <2>2. Twilio!Sound(i)
    BY <1>1 DEF Twilio!IInv
  <2> QED
    BY <1>1, <2>1, <2>2 DEF Twilio!Sound
<1>5. Twilio!CompletedByCode' /\ Twilio!AwaitedWasAccepted'
  BY <1>2, WayStays
<1> QED
  BY <1>2, <1>3, <1>4, <1>5 DEF Twilio!IInv, OtpGrows, Twilio!DeliveryStatuses, DeliveryStatuses

\* A code grows older.
LEMMA OtpAges ==
    ASSUME Twilio!OtpAssumption, Twilio!IInv, NEW i \in DOMAIN codes,
           Twilio!CoolDown(i) \/ Twilio!Expire(i)
    PROVE  Twilio!IInv'
<1>1. UNCHANGED <<otpStatus, handlers, deaths>>
  BY DEF Twilio!CoolDown, Twilio!Expire
<1>2. ASSUME NEW row \in Twilio!Codes, codes' = [codes EXCEPT ![i] = row],
             row.type = codes[i].type, row.attempts = codes[i].attempts,
             row.wins = codes[i].wins, row.accepted = codes[i].accepted,
             row.received = codes[i].received, row.withdrawn = codes[i].withdrawn,
             row.consumed = codes[i].consumed
      PROVE  Twilio!IInv'
  <2>1. /\ codes' \in Seq(Twilio!Codes) /\ Len(codes') = Len(codes)
        /\ DOMAIN codes = 1 .. Len(codes)
        /\ \A j \in 1 .. Len(codes) : codes'[j] = IF j = i THEN row ELSE codes[j]
    BY <1>2, CodesAreRows, Replaced
  <2>2. \A j \in DOMAIN codes :
              /\ codes'[j].type = codes[j].type /\ codes'[j].attempts = codes[j].attempts
              /\ codes'[j].wins = codes[j].wins /\ codes'[j].accepted = codes[j].accepted
              /\ codes'[j].received = codes[j].received
              /\ codes'[j].withdrawn = codes[j].withdrawn
              /\ codes[j].consumed => codes'[j].consumed
    BY <1>2, <2>1
  <2> QED
    BY <1>1, <2>1, <2>2, OtpRests, CodesAreRows
<1>3. CASE Twilio!CoolDown(i)
  <2> DEFINE row == [codes[i] EXCEPT !.young = FALSE]
  <2>1. /\ row \in Twilio!Codes
        /\ row.type = codes[i].type /\ row.attempts = codes[i].attempts
        /\ row.wins = codes[i].wins /\ row.accepted = codes[i].accepted
        /\ row.received = codes[i].received /\ row.withdrawn = codes[i].withdrawn
        /\ row.consumed = codes[i].consumed
    BY CodesAreRows DEF Twilio!Codes
  <2>2. codes' = [codes EXCEPT ![i] = row]
    BY <1>3 DEF Twilio!CoolDown
  <2> QED
    BY <1>2, <2>1, <2>2
<1>4. CASE Twilio!Expire(i)
  <2> DEFINE row == [codes[i] EXCEPT !.expired = TRUE]
  <2>1. /\ row \in Twilio!Codes
        /\ row.type = codes[i].type /\ row.attempts = codes[i].attempts
        /\ row.wins = codes[i].wins /\ row.accepted = codes[i].accepted
        /\ row.received = codes[i].received /\ row.withdrawn = codes[i].withdrawn
        /\ row.consumed = codes[i].consumed
    BY CodesAreRows DEF Twilio!Codes
  <2>2. codes' = [codes EXCEPT ![i] = row]
    BY <1>4 DEF Twilio!Expire
  <2> QED
    BY <1>2, <2>1, <2>2
<1> QED
  BY <1>3, <1>4

\* The delivery moves on or is cancelled.
LEMMA OtpOthers ==
    ASSUME Twilio!OtpAssumption, Twilio!IInv, Twilio!MoveOn \/ Twilio!Cancel
    PROVE  Twilio!IInv'
<1>1. UNCHANGED <<codes, handlers, deaths>>
  BY DEF Twilio!MoveOn, Twilio!Cancel
<1>2. /\ otpStatus' \in DeliveryStatuses
      /\ otpStatus' \in {"PICKED_UP", "IN_TRANSIT", "DELIVERY_OTP_PENDING", "DELIVERED"}
              => otpStatus \in {"PICKED_UP", "IN_TRANSIT", "DELIVERY_OTP_PENDING", "DELIVERED"}
      /\ otpStatus' # "DELIVERED"
      /\ \A type \in Twilio!OtpType : otpStatus' # Twilio!Pending[type]
  BY DEF Twilio!MoveOn, Twilio!Cancel, DeliveryStatuses, Twilio!Pending, Twilio!OtpType
<1> QED
  BY <1>1, <1>2, OtpRests, CodesAreRows

\* The rows of a type are invalidated together.
LEMMA OtpInvalidate ==
    ASSUME Twilio!OtpAssumption, Twilio!IInv, NEW p \in Proc, Twilio!InvalidateActive(p)
    PROVE  Twilio!IInv'
<1> DEFINE spent(row) == [row EXCEPT !.consumed = TRUE, !.young = FALSE, !.expired = FALSE]
<1>1. /\ codes' = [i \in DOMAIN codes |->
                      IF codes[i].type = handlers[p].type THEN spent(codes[i]) ELSE codes[i]]
      /\ handlers[p].pc = "invalidate"
      /\ Twilio!Goto(p, "create") /\ UNCHANGED <<otpStatus, deaths>>
  BY DEF Twilio!InvalidateActive
<1>2. ASSUME NEW row \in Twilio!Codes
      PROVE  /\ spent(row) \in Twilio!Codes
             /\ spent(row).type = row.type /\ spent(row).attempts = row.attempts
             /\ spent(row).wins = row.wins /\ spent(row).accepted = row.accepted
             /\ spent(row).received = row.received /\ spent(row).withdrawn = row.withdrawn
             /\ spent(row).consumed
  BY DEF Twilio!Codes
<1> HIDE DEF spent
<1>3. /\ codes \in Seq(Twilio!Codes) /\ Len(codes) \in Nat /\ DOMAIN codes = 1 .. Len(codes)
      /\ \A i \in 1 .. Len(codes) : codes[i] \in Twilio!Codes
  BY CodesAreRows
<1>4. codes' \in [1 .. Len(codes) -> Twilio!Codes]
  BY <1>1, <1>2, <1>3
<1>5. codes' \in Seq(Twilio!Codes) /\ Len(codes') = Len(codes) /\ DOMAIN codes' = 1 .. Len(codes)
  BY <1>3, <1>4, SequenceOf
<1>6. \A i \in DOMAIN codes :
              /\ codes'[i].type = codes[i].type /\ codes'[i].attempts = codes[i].attempts
              /\ codes'[i].wins = codes[i].wins /\ codes'[i].accepted = codes[i].accepted
              /\ codes'[i].received = codes[i].received
              /\ codes'[i].withdrawn = codes[i].withdrawn
              /\ codes[i].consumed => codes'[i].consumed
              /\ codes'[i] \in Twilio!Codes
  BY <1>1, <1>2, <1>3
<1>7. /\ handlers'[p].pc = "create" /\ handlers' \in [Proc -> Twilio!Handlers]
      /\ \A q \in Proc \ {p} : handlers'[q] = handlers[q]
      /\ "create" \notin Twilio!Sending
  BY ZenonT(30), <1>1, OtpGoes DEF Twilio!Sending
<1>8. OtpGrows
  BY <1>3, <1>5, <1>6 DEF OtpGrows, Twilio!IInv
<1>9. OtpSpares(p)
  BY <1>3, <1>6 DEF OtpSpares, Twilio!IInv, Twilio!Knows
<1>10. OtpOwns(p) /\ Twilio!Knows(p)'
  BY <1>7 DEF OtpOwns, Twilio!Knows, Twilio!Sending
<1>11. ASSUME NEW i \in DOMAIN codes' PROVE Twilio!Sound(i)'
  <2>1. i \in DOMAIN codes /\ Twilio!Sound(i)
    BY <1>3, <1>5, <1>11 DEF Twilio!IInv
  <2>2. p \notin Twilio!Counting(i)'
    BY <1>7 DEF Twilio!Counting
  <2> QED
    BY <1>6, <1>7, <2>1, <2>2, SoundStays DEF Twilio!Sound
<1>12. Twilio!CompletedByCode' /\ Twilio!AwaitedWasAccepted'
  BY <1>1, <1>8, WayStays
<1> QED
  BY <1>1, <1>7, <1>8, <1>9, <1>10, <1>11, <1>12, OtpKeeps, CodesAreRows DEF Twilio!IInv

\* A code is added, which its handler alone is to send.
LEMMA OtpCreate ==
    ASSUME Twilio!OtpAssumption, Twilio!IInv, NEW p \in Proc, Twilio!CreateCode(p)
    PROVE  Twilio!IInv'
<1> DEFINE n == Len(codes) + 1
           row == [type |-> handlers[p].type, attempts |-> 0, consumed |-> FALSE,
                   young |-> TRUE, expired |-> FALSE, accepted |-> FALSE,
                   received |-> FALSE, withdrawn |-> FALSE, wins |-> 0]
           first == [handlers[p] EXCEPT !.pc = "send"]
           new == [first EXCEPT !.row = n]
<1>1. /\ codes' = Append(codes, row) /\ Len(codes) < MaxCodes
      /\ handlers' = [handlers EXCEPT ![p] = new]
      /\ UNCHANGED <<otpStatus, deaths>>
  BY DEF Twilio!CreateCode
<1>2. /\ codes \in Seq(Twilio!Codes) /\ Len(codes) \in Nat /\ DOMAIN codes = 1 .. Len(codes)
      /\ handlers[p] \in Twilio!Handlers /\ handlers[p].type \in Twilio!OtpType /\ n \in Nat
  BY CodesAreRows DEF Twilio!Handlers
<1>3. first \in Twilio!Handlers /\ first.pc = "send" /\ first.type = handlers[p].type
  BY <1>2 DEF Twilio!Handlers
<1> HIDE DEF first
<1>4. new \in Twilio!Handlers /\ new.pc = "send" /\ new.type = handlers[p].type /\ new.row = n
  BY <1>2, <1>3 DEF Twilio!Handlers
<1> HIDE DEF new
<1>5. /\ handlers' \in [Proc -> Twilio!Handlers] /\ handlers'[p] = new
      /\ \A q \in Proc \ {p} : handlers'[q] = handlers[q]
  BY <1>1, <1>4, CodesAreRows
<1>6. /\ row \in Twilio!Codes /\ row.type = handlers[p].type /\ row.attempts = 0
      /\ ~row.accepted /\ ~row.received /\ ~row.withdrawn /\ row.wins = 0
  BY <1>2 DEF Twilio!Codes
<1> HIDE DEF row
<1>7. /\ codes' \in Seq(Twilio!Codes) /\ Len(codes') = n
      /\ DOMAIN codes' = 1 .. n /\ codes'[n] = row
      /\ \A i \in 1 .. Len(codes) : codes'[i] = codes[i]
  BY <1>1, <1>2, <1>6, Appended
<1>8. OtpGrows
  BY <1>1, <1>2, <1>7, CountingCounted DEF OtpGrows, Twilio!IInv, Twilio!OtpAssumption
<1>9. \A q \in Proc : handlers[q].pc \in Twilio!Sending \cup {"count"} => handlers[q].row \in 1 .. Len(codes)
  BY <1>2 DEF Twilio!IInv, Twilio!Knows
<1>10. OtpSpares(p)
  BY <1>7, <1>9 DEF OtpSpares
<1>11. OtpOwns(p)
  BY <1>2, <1>4, <1>5, <1>9 DEF OtpOwns
<1>12. Twilio!Knows(p)'
  BY <1>2, <1>4, <1>5, <1>6, <1>7 DEF Twilio!Knows, Twilio!Sending
<1>13. ASSUME NEW i \in DOMAIN codes' PROVE Twilio!Sound(i)'
  <2>1. p \notin Twilio!Counting(i)'
    BY <1>4, <1>5 DEF Twilio!Counting
  <2>2. CASE i \in 1 .. Len(codes)
    <3>1. i \in DOMAIN codes /\ Twilio!Sound(i) /\ codes'[i] = codes[i] /\ codes'[i] \in Twilio!Codes
      BY <1>2, <1>7, <2>2, CodesAreRows DEF Twilio!IInv
    <3> QED
      BY <1>5, <2>1, <3>1, SoundStays DEF Twilio!Sound
  <2>3. CASE i = n
    <3>1. Twilio!Counting(i)' \subseteq Proc
      BY DEF Twilio!Counting
    <3>2. /\ Cardinality(Twilio!Counting(i)') \in Nat /\ Cardinality(Proc) \in Nat
          /\ Cardinality(Twilio!Counting(i)') <= Cardinality(Proc) /\ MaxAttempts \in Nat \ {0}
      BY <3>1, CountingCounted
    <3> QED
      BY <1>6, <1>7, <2>3, <3>2, OtpCounts DEF Twilio!Sound
  <2> QED
    BY <1>2, <1>7, <2>2, <2>3
<1>14. Twilio!CompletedByCode' /\ Twilio!AwaitedWasAccepted'
  BY <1>1, <1>8, WayStays
<1> QED
  BY <1>1, <1>5, <1>8, <1>10, <1>11, <1>12, <1>13, <1>14, OtpKeeps, CodesAreRows DEF Twilio!IInv

\* The two services differ in what becomes of an SMS only.
LEMMA SameSteps == Msg91!Next => Twilio!Next \/ \E p \in Proc : Msg91!SendSms(p)
<1> USE DEF Msg91!OtpType, Twilio!OtpType, Msg91!Generation, Twilio!Generation, Msg91!Pending,
        Twilio!Pending
<1>1. \A p \in Proc : Msg91!Answer(p) <=> Twilio!Answer(p)
  BY DEF Msg91!Answer, Twilio!Answer, Msg91!Idle, Twilio!Idle
<1>2. \A p \in Proc : \A pc : Msg91!Goto(p, pc) <=> Twilio!Goto(p, pc)
  BY DEF Msg91!Goto, Twilio!Goto
<1>3. \A type : Msg91!Active(type) = Twilio!Active(type)
  BY DEF Msg91!Active, Twilio!Active
<1>4. ASSUME NEW p \in Proc, NEW type \in Twilio!OtpType
      PROVE  /\ Msg91!GenerateOtp(p, type) => Twilio!GenerateOtp(p, type)
             /\ \A guess : Msg91!VerifyOtp(p, type, guess) => Twilio!VerifyOtp(p, type, guess)
             /\ Msg91!Guesses(type) = Twilio!Guesses(type)
  BY DEF Msg91!GenerateOtp, Twilio!GenerateOtp, Msg91!VerifyOtp, Twilio!VerifyOtp,
     Msg91!Guesses, Twilio!Guesses
<1>5. ASSUME NEW p \in Proc
      PROVE  /\ Msg91!EnsureGenerationAllowed(p) => Twilio!EnsureGenerationAllowed(p)
             /\ Msg91!FindActive(p) => Twilio!FindActive(p)
             /\ Msg91!InvalidateActive(p) => Twilio!InvalidateActive(p)
             /\ Msg91!CreateCode(p) => Twilio!CreateCode(p)
  BY <1>1, <1>2, <1>3 DEF Msg91!EnsureGenerationAllowed, Twilio!EnsureGenerationAllowed,
     Msg91!FindActive, Twilio!FindActive, Msg91!InvalidateActive, Twilio!InvalidateActive,
     Msg91!CreateCode, Twilio!CreateCode
<1>6. ASSUME NEW p \in Proc
      PROVE  /\ Msg91!Withdraw(p) => Twilio!Withdraw(p)
             /\ Msg91!AwaitCode(p) => Twilio!AwaitCode(p)
             /\ Msg91!IncrementAttempts(p) => Twilio!IncrementAttempts(p)
             /\ Msg91!Consume(p) => Twilio!Consume(p)
             /\ Msg91!Complete(p) => Twilio!Complete(p)
             /\ Msg91!Crash(p) => Twilio!Crash(p)
  BY <1>1, <1>2 DEF Msg91!Withdraw, Twilio!Withdraw, Msg91!AwaitCode, Twilio!AwaitCode,
     Msg91!IncrementAttempts, Twilio!IncrementAttempts, Msg91!Consume, Twilio!Consume,
     Msg91!Complete, Twilio!Complete, Msg91!Target, Twilio!Target, Msg91!Crash, Twilio!Crash
<1>7. /\ Msg91!MoveOn => Twilio!MoveOn
      /\ Msg91!Cancel => Twilio!Cancel
      /\ \A i \in DOMAIN codes : /\ Msg91!CoolDown(i) => Twilio!CoolDown(i)
                                 /\ Msg91!Expire(i) => Twilio!Expire(i)
  BY DEF Msg91!MoveOn, Twilio!MoveOn, Msg91!Cancel, Twilio!Cancel, Msg91!CancellableStatuses,
     Twilio!CancellableStatuses, Msg91!CoolDown, Twilio!CoolDown, Msg91!Expire, Twilio!Expire
<1> QED
  BY <1>4, <1>5, <1>6, <1>7 DEF Msg91!Next, Twilio!Next, Msg91!Process, Twilio!Process

\* What is true of the codes stays true with every step of either service.
LEMMA OtpInductive ==
    ASSUME Twilio!OtpAssumption
    PROVE  /\ Twilio!Init => Twilio!IInv
           /\ Twilio!IInv /\ (Twilio!Next \/ Msg91!Next \/ UNCHANGED otpVars) => Twilio!IInv'
<1>1. ASSUME Twilio!Init PROVE Twilio!IInv
  <2>1. Twilio!Idle \in Twilio!Handlers
    BY DEF Twilio!Idle, Twilio!Handlers, Twilio!OtpType, Twilio!DeliveryStatuses
  <2>2. /\ handlers \in [Proc -> Twilio!Handlers]
        /\ \A p \in Proc : handlers[p].pc = "idle"
    BY <1>1, <2>1 DEF Twilio!Init, Twilio!Idle
  <2>3. \A p \in Proc : Twilio!Knows(p) /\ handlers[p].pc \notin Twilio!Sending
    BY <2>2 DEF Twilio!Knows, Twilio!Sending
  <2>4. codes = <<>> /\ codes \in Seq(Twilio!Codes) /\ Len(codes) = 0 /\ DOMAIN codes = {}
    BY <1>1 DEF Twilio!Init
  <2>5. /\ otpStatus = "BOOKED" /\ otpStatus \in Twilio!DeliveryStatuses
        /\ deaths \in 0 .. MaxDeaths /\ Len(codes) <= MaxCodes
    BY <1>1, <2>4 DEF Twilio!Init, Twilio!DeliveryStatuses, Twilio!OtpAssumption
  <2>6. Twilio!CompletedByCode /\ Twilio!AwaitedWasAccepted
    BY <2>5 DEF Twilio!CompletedByCode, Twilio!AwaitedWasAccepted, Twilio!OtpType, Twilio!Pending
  <2> QED
    BY <2>2, <2>3, <2>4, <2>5, <2>6 DEF Twilio!IInv
<1>2. ASSUME Twilio!IInv, UNCHANGED otpVars PROVE Twilio!IInv'
  BY <1>2, CodesAreRows, OtpRests DEF otpVars, Twilio!IInv
<1>3. ASSUME Twilio!IInv, Twilio!Next PROVE Twilio!IInv'
  <2>1. ASSUME NEW p \in Proc, Twilio!Process(p) PROVE Twilio!IInv'
    BY <1>3, <2>1, OtpCooldown, OtpInvalidate, OtpCreate, OtpSendSms, OtpWithdraw,
       OtpMovesDelivery, OtpFind, OtpCount, OtpConsume DEF Twilio!Process
  <2>2. \A type : Twilio!Guesses(type) \subseteq Nat
    BY <1>3, CodesAreRows DEF Twilio!Guesses
  <2> QED
    BY <1>3, <2>1, <2>2, OtpCrash, OtpGenerate, OtpVerify, OtpAges, OtpOthers DEF Twilio!Next
<1>4. ASSUME Twilio!IInv, Msg91!Next PROVE Twilio!IInv'
  BY <1>3, <1>4, SameSteps, OtpSendSms
<1> QED
  BY <1>1, <1>2, <1>3, <1>4

\* The types follow, with the bound on attempts.
LEMMA OtpTypeOK ==
    ASSUME Twilio!OtpAssumption, Twilio!IInv
    PROVE  Twilio!TypeOK /\ Msg91!TypeOK
<1> DEFINE Bounded == [type : Twilio!OtpType, attempts : 0 .. MaxAttempts + Cardinality(Proc) - 1,
                       consumed : BOOLEAN, young : BOOLEAN, expired : BOOLEAN,
                       accepted : BOOLEAN, received : BOOLEAN, withdrawn : BOOLEAN, wins : Nat]
<1>1. ASSUME NEW i \in 1 .. Len(codes) PROVE codes[i] \in Bounded
  <2>1. /\ codes[i] \in Twilio!Codes
        /\ codes[i].attempts + Cardinality(Twilio!Counting(i)) <= MaxAttempts - 1 + Cardinality(Proc)
    BY CodesAreRows, OtpCounts DEF Twilio!IInv, Twilio!Sound
  <2>2. Twilio!Counting(i) \subseteq Proc
    BY DEF Twilio!Counting
  <2>3. /\ Cardinality(Twilio!Counting(i)) \in Nat /\ Cardinality(Proc) \in Nat
        /\ MaxAttempts \in Nat
    BY <2>2, CountingCounted
  <2>4. codes[i].attempts \in 0 .. MaxAttempts + Cardinality(Proc) - 1
    BY <2>1, <2>3 DEF Twilio!Codes
  <2> QED
    BY <2>1, <2>4 DEF Twilio!Codes
<1> HIDE DEF Bounded
<1>2. codes \in [1 .. Len(codes) -> Bounded]
  BY <1>1, CodesAreRows
<1>3. codes \in Seq(Bounded)
  BY <1>2, CodesAreRows, SequenceOf
<1>4. Twilio!TypeOK
  BY <1>3, OtpCounts DEF Bounded, Twilio!TypeOK, Twilio!IInv
<1>5. Msg91!Cardinality(Proc) = Cardinality(Proc)
  BY DEF Msg91!Cardinality, Cardinality
<1>6. Msg91!DeliveryStatuses = Twilio!DeliveryStatuses /\ Msg91!OtpType = Twilio!OtpType
  BY DEF Msg91!DeliveryStatuses, Twilio!DeliveryStatuses, Msg91!OtpType, Twilio!OtpType
<1>7. Msg91!TypeOK
  BY <1>3, <1>5, <1>6 DEF Bounded, Msg91!TypeOK, Twilio!IInv
<1> QED
  BY <1>4, <1>7

\* Codes move a delivery along its table, with either service.
LEMMA OtpFollowsTable ==
    ASSUME Twilio!IInv, Twilio!Next \/ Msg91!Next
    PROVE  Twilio!CanTransitionDelivery(otpStatus, otpStatus')
<1> USE DEF Twilio!CanTransitionDelivery, Twilio!TerminalStatuses, Twilio!AllowedTransitions
<1>1. CASE UNCHANGED otpStatus
  BY <1>1
<1>2. ASSUME NEW p \in Proc, Twilio!AwaitCode(p)
      PROVE  Twilio!CanTransitionDelivery(otpStatus, otpStatus')
  <2>1. handlers[p].type \in Twilio!OtpType
    BY CodesAreRows DEF Twilio!Handlers
  <2> QED
    BY <1>2, <2>1 DEF Twilio!AwaitCode, Twilio!OtpType, Twilio!Generation, Twilio!Pending
<1>3. ASSUME NEW p \in Proc, Twilio!Complete(p)
      PROVE  Twilio!CanTransitionDelivery(otpStatus, otpStatus')
  <2>1. handlers[p].type \in Twilio!OtpType
    BY CodesAreRows DEF Twilio!Handlers
  <2> QED
    BY <1>3, <2>1 DEF Twilio!Complete, Twilio!OtpType, Twilio!Target, Twilio!Pending
<1>4. ASSUME Twilio!MoveOn \/ Twilio!Cancel
      PROVE  Twilio!CanTransitionDelivery(otpStatus, otpStatus')
  BY <1>4 DEF Twilio!MoveOn, Twilio!Cancel, Twilio!CancellableStatuses
<1>5. \A p \in Proc : Msg91!SendSms(p) => UNCHANGED otpStatus
  BY DEF Msg91!SendSms
<1>6. CASE Twilio!Next
  <2>1. ASSUME NEW p \in Proc, Twilio!Process(p), ~Twilio!AwaitCode(p), ~Twilio!Complete(p)
        PROVE  UNCHANGED otpStatus
    BY <2>1 DEF Twilio!Process, Twilio!EnsureGenerationAllowed, Twilio!InvalidateActive,
       Twilio!CreateCode, Twilio!SendSms, Twilio!Withdraw, Twilio!FindActive,
       Twilio!IncrementAttempts, Twilio!Consume
  <2>2. ASSUME NEW p \in Proc, Twilio!Crash(p) \/ \E type \in Twilio!OtpType :
                  Twilio!GenerateOtp(p, type) \/ \E guess \in Twilio!Guesses(type) :
                     Twilio!VerifyOtp(p, type, guess)
        PROVE  UNCHANGED otpStatus
    BY <2>2 DEF Twilio!Crash, Twilio!GenerateOtp, Twilio!VerifyOtp
  <2>3. ASSUME NEW i \in DOMAIN codes, Twilio!CoolDown(i) \/ Twilio!Expire(i)
        PROVE  UNCHANGED otpStatus
    BY <2>3 DEF Twilio!CoolDown, Twilio!Expire
  <2> QED
    BY <1>1, <1>2, <1>3, <1>4, <1>6, <2>1, <2>2, <2>3 DEF Twilio!Next
<1> QED
  BY <1>1, <1>5, <1>6, SameSteps

-----------------------------------------------------------------------------
(* Experience.                                                             *)

\* What a request may be.
SurveyRequests ==
    [pc : Survey!Pcs, user : User \cup {Null}, role : Roles \cup {Null},
     delivery : Parcel \cup {Null}, body : Bodies \cup {Null},
     answer : Survey!Answers]

\* Who holds the keys of a delivery.
SurveyKeys == [rating : Submission \cup {Null}, feedback : Submission \cup {Null}]

\* The rows of a request that asks for a survey are rows.
LEMMA SurveyRowsOf ==
    ASSUME Survey!ExperienceAssumption, NEW r \in Submission, Survey!Asks(r)
    PROVE  Survey!RatingRow(r) \in Survey!RatingRows /\ Survey!FeedbackRow(r) \in Survey!FeedbackRows
<1>1. \A s : Survey!PositiveTags(s) \subseteq Survey!Tags /\ Survey!IssueTags(s) \subseteq Survey!Tags
  BY DEF Survey!PositiveTags, Survey!IssueTags, Survey!Tags
<1>2. req[r].body.scores \in [Survey!ScoreNames -> Survey!MIN_RATING .. Survey!MAX_RATING]
  BY DEF Survey!Asks, Survey!ValidBody, Survey!ExperienceAssumption
<1> QED
  BY <1>1, <1>2 DEF Survey!Asks, Survey!RatingRow, Survey!FeedbackRow, Survey!RatingRows,
     Survey!FeedbackRows

\* A request that moves, and is not accepted, leaves what the others know and hold true.
LEMMA SurveyMoves ==
    ASSUME Survey!ExperienceAssumption, Survey!IInv, NEW r \in Submission,
           UNCHANGED <<due, rating, feedback>>,
           req' \in [Submission -> SurveyRequests],
           \A q \in Submission \ {r} : req'[q] = req[q],
           req'[r].answer # 201, Survey!Knows(r)',
           inserted' \in [Parcel -> SurveyKeys],
           \A d \in Parcel : \A t \in {"rating", "feedback"} :
               inserted'[d][t] # inserted[d][t] => inserted[d][t] \in {Null, r},
           \A d \in Parcel : Survey!Holds(d)'
    PROVE  Survey!IInv'
<1> USE DEF Survey!IInv, Survey!Shape, SurveyRequests, SurveyKeys
<1>1. Survey!Shape'
  OBVIOUS
<1>2. ASSUME NEW q \in Submission PROVE Survey!Knows(q)'
  <2>1. CASE q = r
    BY <2>1
  <2>2. CASE q # r
    <3>1. req'[q] = req[q] /\ Survey!Knows(q)
      BY <2>2
    <3>2. Survey!Asks(q) => \A t \in {"rating", "feedback"} :
              inserted[req[q].delivery][t] = q => inserted'[req[q].delivery][t] = q
      BY <2>2 DEF Survey!Asks, Survey!ExperienceAssumption
    <3> QED
      BY <3>1, <3>2 DEF Survey!Knows, Survey!Asks, Survey!MayRate
  <2> QED
    BY <2>1, <2>2
<1>3. Survey!OneSubmission'
  <2> SUFFICES ASSUME NEW q \in Submission, req'[q].answer = 201
               PROVE  /\ rating'[req'[q].delivery] = Survey!RatingRow(q)'
                      /\ feedback'[req'[q].delivery] = Survey!FeedbackRow(q)'
                      /\ \A s \in Submission \ {q} :
                             req'[s].answer = 201 => req'[s].delivery # req'[q].delivery
    BY DEF Survey!OneSubmission
  <2>1. q # r /\ req'[q] = req[q]
    OBVIOUS
  <2>2. /\ rating[req[q].delivery] = Survey!RatingRow(q)
        /\ feedback[req[q].delivery] = Survey!FeedbackRow(q)
    BY <2>1 DEF Survey!OneSubmission
  <2>3. ASSUME NEW s \in Submission \ {q}, req'[s].answer = 201
        PROVE  req'[s].delivery # req'[q].delivery
    BY SMTT(30), <2>1, <2>3 DEF Survey!OneSubmission
  <2> QED
    BY <2>1, <2>2, <2>3 DEF Survey!RatingRow, Survey!FeedbackRow
<1>4. Survey!WholeSurvey' /\ Survey!SurveyIsDue'
  BY DEF Survey!WholeSurvey, Survey!SurveyIsDue
<1> QED
  BY <1>1, <1>2, <1>3, <1>4

\* A request that goes on as it was.
LEMMA SurveyGoes ==
    ASSUME Survey!IInv, NEW r \in Submission, NEW to \in Survey!Pcs, Survey!Goto(r, to)
    PROVE  /\ req' \in [Submission -> SurveyRequests]
           /\ \A q \in Submission \ {r} : req'[q] = req[q]
           /\ req'[r] = [req[r] EXCEPT !.pc = to]
           /\ req'[r].pc = to /\ req'[r].user = req[r].user /\ req'[r].role = req[r].role
           /\ req'[r].delivery = req[r].delivery /\ req'[r].body = req[r].body
           /\ req'[r].answer = req[r].answer
  BY DEF Survey!IInv, Survey!Shape, SurveyRequests, Survey!Goto

\* A request that is answered.
LEMMA SurveyAnswer ==
    ASSUME Survey!IInv, NEW r \in Submission, NEW a \in Survey!Answers, Survey!Answer(r, a)
    PROVE  /\ req' \in [Submission -> SurveyRequests]
           /\ \A q \in Submission \ {r} : req'[q] = req[q]
           /\ req'[r].pc = "done" /\ req'[r].answer = a /\ req'[r].user = req[r].user
           /\ req'[r].delivery = req[r].delivery /\ req'[r].body = req[r].body
<1> DEFINE new == [req[r] EXCEPT !.pc = "done", !.answer = a]
<1>1. req \in [Submission -> SurveyRequests]
  BY DEF Survey!IInv, Survey!Shape, SurveyRequests
<1>2. new \in SurveyRequests /\ new.pc = "done" /\ new.answer = a /\ new.user = req[r].user
        /\ new.delivery = req[r].delivery /\ new.body = req[r].body
  <2> DEFINE first == [req[r] EXCEPT !.pc = "done"]
  <2>1. first \in SurveyRequests /\ first.pc = "done" /\ first.user = req[r].user
          /\ first.delivery = req[r].delivery /\ first.body = req[r].body
    BY <1>1 DEF SurveyRequests, Survey!Pcs
  <2>2. new = [first EXCEPT !.answer = a]
    OBVIOUS
  <2> HIDE DEF first, new
  <2> QED
    BY <2>1, <2>2 DEF SurveyRequests
<1>3. req' = [req EXCEPT ![r] = new]
  BY <1>1 DEF Survey!Answer
<1> HIDE DEF new
<1> QED
  BY <1>1, <1>2, <1>3

\* A request without an open transaction holds no key.
LEMMA SurveyHoldsNothing ==
    ASSUME Survey!ExperienceAssumption, Survey!IInv, NEW r \in Submission,
           req[r].pc \notin {"allow", "insertFeedback", "commit"}
    PROVE  \A d \in Parcel : inserted[d].rating # r /\ inserted[d].feedback # r
  BY DEF Survey!IInv, Survey!Holds, Survey!ExperienceAssumption

\* What the deliveries hold stays true, when the requests that hold it keep it.
LEMMA SurveyHolds ==
    ASSUME Survey!ExperienceAssumption, Survey!IInv, NEW r \in Submission,
           UNCHANGED <<rating, feedback, inserted>>,
           \A q \in Submission \ {r} : req'[q] = req[q],
           \/ \A d \in Parcel : inserted[d].rating # r /\ inserted[d].feedback # r
           \/ /\ req'[r].delivery = req[r].delivery /\ req[r].pc = "allow"
              /\ req'[r].pc = "insertFeedback"
    PROVE  \A d \in Parcel : Survey!Holds(d)'
<1> SUFFICES ASSUME NEW d \in Parcel PROVE Survey!Holds(d)'
  OBVIOUS
<1>1. Survey!Holds(d) /\ inserted[d].rating \in Submission \cup {Null}
        /\ inserted[d].feedback \in Submission \cup {Null}
  BY DEF Survey!IInv, Survey!Shape
<1> QED
  BY <1>1 DEF Survey!Holds

\* An answer of a request that holds nothing.
LEMMA SurveyRefuses ==
    ASSUME Survey!ExperienceAssumption, Survey!IInv, NEW r \in Submission,
           NEW a \in Survey!Answers, a # 201, Survey!Answer(r, a),
           req[r].pc \notin {"allow", "insertFeedback", "commit"},
           UNCHANGED <<due, rating, feedback, inserted>>
    PROVE  Survey!IInv'
<1>1. /\ req' \in [Submission -> SurveyRequests]
      /\ \A q \in Submission \ {r} : req'[q] = req[q]
      /\ req'[r].pc = "done" /\ req'[r].answer = a
  BY SurveyAnswer
<1>3. Survey!Knows(r)'
  BY <1>1 DEF Survey!Knows
<1>4. \A d \in Parcel : Survey!Holds(d)'
  BY <1>1, SurveyHoldsNothing, SurveyHolds
<1>5. inserted' \in [Parcel -> SurveyKeys]
  BY DEF Survey!IInv, Survey!Shape, SurveyKeys
<1> QED
  BY <1>1, <1>3, <1>4, <1>5, SurveyMoves

\* What a request gives back is nobody's, and the keys of the others are still theirs.
LEMMA SurveyFree ==
    ASSUME Survey!ExperienceAssumption, Survey!IInv, NEW r \in Submission, Survey!Free(r)
    PROVE  /\ inserted' \in [Parcel -> SurveyKeys]
           /\ \A d \in Parcel : \A t \in {"rating", "feedback"} :
                inserted'[d][t] = IF inserted[d][t] = r THEN Null ELSE inserted[d][t]
<1>1. ASSUME NEW d \in Parcel
      PROVE  [t \in {"rating", "feedback"} |-> IF inserted[d][t] = r THEN Null ELSE inserted[d][t]]
                 = [rating |-> IF inserted[d].rating = r THEN Null ELSE inserted[d].rating,
                    feedback |-> IF inserted[d].feedback = r THEN Null ELSE inserted[d].feedback]
  OBVIOUS
<1>2. ASSUME NEW d \in Parcel
      PROVE  [rating |-> IF inserted[d].rating = r THEN Null ELSE inserted[d].rating,
              feedback |-> IF inserted[d].feedback = r THEN Null ELSE inserted[d].feedback]
                 \in SurveyKeys
  BY DEF Survey!IInv, Survey!Shape, SurveyKeys
<1> QED
  BY <1>1, <1>2 DEF Survey!Free

\* A request whose statement fails, or that is cut off, gives back its keys.
LEMMA SurveyRollsBack ==
    ASSUME Survey!ExperienceAssumption, Survey!IInv, NEW r \in Submission,
           NEW a \in Survey!Answers, a # 201, Survey!Answer(r, a), Survey!Free(r),
           UNCHANGED <<due, rating, feedback>>
    PROVE  Survey!IInv'
<1>1. /\ req' \in [Submission -> SurveyRequests]
      /\ \A q \in Submission \ {r} : req'[q] = req[q]
      /\ req'[r].pc = "done" /\ req'[r].answer = a
  BY SurveyAnswer
<1>2. Null # r
  BY DEF Survey!ExperienceAssumption
<1>3. Survey!Knows(r)'
  BY <1>1, <1>2 DEF Survey!Knows
<1>4. /\ inserted' \in [Parcel -> SurveyKeys]
      /\ \A d \in Parcel : \A t \in {"rating", "feedback"} :
            inserted'[d][t] = IF inserted[d][t] = r THEN Null ELSE inserted[d][t]
  BY SurveyFree
<1>5. ASSUME NEW d \in Parcel PROVE Survey!Holds(d)'
  <2>1. Survey!Holds(d) /\ inserted[d].rating \in Submission \cup {Null}
          /\ inserted[d].feedback \in Submission \cup {Null}
    BY DEF Survey!IInv, Survey!Shape
  <2>2. /\ inserted'[d].rating = IF inserted[d].rating = r THEN Null ELSE inserted[d].rating
        /\ inserted'[d].feedback = IF inserted[d].feedback = r THEN Null ELSE inserted[d].feedback
    BY <1>4
  <2> QED
    BY <1>1, <1>2, <2>1, <2>2 DEF Survey!Holds
<1> QED
  BY <1>1, <1>2, <1>3, <1>4, <1>5, SurveyMoves

\* A request that goes on, holding what it held.
LEMMA SurveyGoesOn ==
    ASSUME Survey!ExperienceAssumption, Survey!IInv, NEW r \in Submission,
           NEW to \in Survey!Pcs, Survey!Goto(r, to),
           UNCHANGED <<due, rating, feedback, inserted>>,
           req[r].pc \notin {"none", "done"}, to \notin {"none", "done", "commit"},
           to \in {"insertRating", "insertFeedback"} => Survey!MayRate(r),
           to = "insertFeedback" => inserted[req[r].delivery].rating = r,
           \/ req[r].pc \notin {"allow", "insertFeedback", "commit"}
           \/ req[r].pc = "allow" /\ to = "insertFeedback"
           \/ req[r].pc = "allow" /\ inserted[req[r].delivery].rating # r
    PROVE  Survey!IInv'
<1>1. /\ req' \in [Submission -> SurveyRequests]
      /\ \A q \in Submission \ {r} : req'[q] = req[q]
      /\ req'[r].pc = to /\ req'[r].user = req[r].user
      /\ req'[r].delivery = req[r].delivery /\ req'[r].body = req[r].body
      /\ req'[r].answer = req[r].answer
  BY SurveyGoes
<1>2. Survey!Knows(r) /\ Survey!Asks(r) /\ req[r].answer = Null
  BY DEF Survey!IInv, Survey!Knows
<1>3. Survey!Knows(r)' /\ req'[r].answer # 201
  BY <1>1, <1>2 DEF Survey!Knows, Survey!Asks, Survey!MayRate, Survey!ExperienceAssumption
<1>4. \/ \A d \in Parcel : inserted[d].rating # r /\ inserted[d].feedback # r
      \/ req[r].pc = "allow" /\ to = "insertFeedback"
  <2>1. CASE req[r].pc = "allow" /\ inserted[req[r].delivery].rating # r
    BY <2>1 DEF Survey!IInv, Survey!Holds, Survey!ExperienceAssumption
  <2> QED
    BY <2>1, SurveyHoldsNothing
<1>5. \A d \in Parcel : Survey!Holds(d)'
  BY <1>1, <1>4, SurveyHolds
<1>6. inserted' \in [Parcel -> SurveyKeys]
  BY DEF Survey!IInv, Survey!Shape, SurveyKeys
<1> QED
  BY <1>1, <1>3, <1>5, <1>6, SurveyMoves

\* The controller.
LEMMA SurveySubmit ==
    ASSUME Survey!ExperienceAssumption, Survey!IInv, NEW r \in Submission, NEW u \in User,
           NEW role \in Roles, NEW d \in Parcel, NEW b \in Bodies, Survey!Submit(r, u, role, d, b)
    PROVE  Survey!IInv'
<1> DEFINE refused == [Survey!NotMade EXCEPT !.pc = "done", !.answer = 400]
           taken == [pc |-> IF role = "CUSTOMER" THEN "load" ELSE "done", user |-> u,
                     role |-> role, delivery |-> d, body |-> b,
                     answer |-> IF role = "CUSTOMER" THEN Null ELSE 403]
           new == IF ~Survey!ValidBody(b) THEN refused ELSE taken
<1>t. "load" \in Survey!Pcs /\ "done" \in Survey!Pcs
  BY DEF Survey!Pcs
<1>n. Survey!NotMade \in SurveyRequests
  BY DEF Survey!NotMade, SurveyRequests, Survey!Pcs, Survey!Answers
<1>a. Null \in Survey!Answers /\ 400 \in Survey!Answers /\ 403 \in Survey!Answers
  BY DEF Survey!Answers
<1>1. /\ refused \in SurveyRequests /\ refused.pc = "done" /\ refused.answer = 400
      /\ taken \in SurveyRequests
  <2>1. refused \in SurveyRequests /\ refused.pc = "done" /\ refused.answer = 400
    <3> DEFINE first == [Survey!NotMade EXCEPT !.pc = "done"]
    <3>1. first \in SurveyRequests /\ first.pc = "done"
      BY <1>n, <1>t DEF SurveyRequests
    <3>2. refused = [first EXCEPT !.answer = 400]
      OBVIOUS
    <3> HIDE DEF first, refused
    <3> QED
      BY <1>a, <3>1, <3>2 DEF SurveyRequests
  <2>2. taken \in SurveyRequests
    BY <1>t, <1>a DEF SurveyRequests
  <2> QED
    BY <2>1, <2>2
<1>2. req' = [req EXCEPT ![r] = new] /\ req[r].pc = "none"
        /\ UNCHANGED <<due, rating, feedback, inserted>>
  BY DEF Survey!Submit, Survey!rows
<1>3. /\ new.answer # 201
      /\ new.pc \in {"load", "done"}
      /\ new.pc = "load" => /\ new.user \in User /\ new.delivery \in Parcel /\ new.body \in Bodies
                            /\ Survey!ValidBody(new.body) /\ new.answer = Null
  BY <1>1 DEF Survey!ExperienceAssumption
<1> HIDE DEF new
<1>4. /\ req' \in [Submission -> SurveyRequests]
      /\ \A q \in Submission \ {r} : req'[q] = req[q]
      /\ req'[r] = new
  BY <1>1, <1>2 DEF Survey!IInv, Survey!Shape, SurveyRequests, new
<1>5. Survey!Knows(r)'
  BY <1>3, <1>4 DEF Survey!Knows, Survey!Asks
<1>6. \A e \in Parcel : Survey!Holds(e)'
  BY <1>2, <1>4, SurveyHoldsNothing, SurveyHolds
<1>7. inserted' \in [Parcel -> SurveyKeys]
  BY <1>2 DEF Survey!IInv, Survey!Shape, SurveyKeys
<1> QED
  BY <1>2, <1>3, <1>4, <1>5, <1>6, <1>7, SurveyMoves

\* The looks at what is there.
LEMMA SurveyReads ==
    ASSUME Survey!ExperienceAssumption, Survey!IInv, NEW r \in Submission,
           Survey!Load(r) \/ Survey!FindRating(r) \/ Survey!FindFeedback(r) \/ Survey!Allow(r)
    PROVE  Survey!IInv'
<1> USE DEF Survey!rows
<1>p. /\ {"rated", "feedback", "allow", "insertRating", "insertFeedback"} \subseteq Survey!Pcs
      /\ 404 \in Survey!Answers /\ 409 \in Survey!Answers
  BY DEF Survey!Pcs, Survey!Answers
<1>1. CASE Survey!Load(r)
  BY <1>1, <1>p, SurveyGoesOn, SurveyRefuses DEF Survey!Load
<1>2. CASE Survey!FindRating(r)
  BY <1>2, <1>p, SurveyGoesOn, SurveyRefuses DEF Survey!FindRating
<1>3. CASE Survey!FindFeedback(r)
  BY <1>3, <1>p, SurveyGoesOn, SurveyRefuses DEF Survey!FindFeedback
<1>4. CASE Survey!Allow(r)
  <2>1. CASE ~Survey!MayRate(r)
    BY <1>4, <1>p, <2>1, SurveyRollsBack DEF Survey!Allow, Survey!Fail
  <2>2. CASE Survey!MayRate(r) /\ inserted[req[r].delivery].rating = r
    BY <1>4, <1>p, <2>2, SurveyGoesOn DEF Survey!Allow
  <2>3. CASE Survey!MayRate(r) /\ inserted[req[r].delivery].rating # r
    BY <1>4, <1>p, <2>3, SurveyGoesOn DEF Survey!Allow
  <2> QED
    BY <2>1, <2>2, <2>3
<1> QED
  BY <1>1, <1>2, <1>3, <1>4
\* The inserts, which take a key that is free of a delivery without a row.
LEMMA SurveyInserts ==
    ASSUME Survey!ExperienceAssumption, Survey!IInv, NEW r \in Submission,
           Survey!InsertRating(r) \/ Survey!InsertFeedback(r)
    PROVE  Survey!IInv'
<1> DEFINE d == req[r].delivery
<1>k. /\ Survey!Knows(r) /\ Survey!Asks(r) /\ req[r].answer = Null /\ d \in Parcel
      /\ Null # r /\ Null # 201
  BY DEF Survey!InsertRating, Survey!InsertFeedback, Survey!IInv, Survey!Knows, Survey!Asks,
     Survey!ExperienceAssumption
<1>a. 409 \in Survey!Answers
  BY DEF Survey!Answers
<1>1. ASSUME NEW t \in {"rating", "feedback"}, NEW to \in {"allow", "commit"},
             inserted[d][t] = Null, Survey!Goto(r, to),
             inserted' = [inserted EXCEPT ![d][t] = r], UNCHANGED <<due, rating, feedback>>,
             t = "rating" => req[r].pc = "insertRating" /\ to = "allow" /\ rating[d] = Null,
             t = "feedback" => req[r].pc = "insertFeedback" /\ to = "commit" /\ feedback[d] = Null
      PROVE  Survey!IInv'
  <2>1. /\ req' \in [Submission -> SurveyRequests]
        /\ \A q \in Submission \ {r} : req'[q] = req[q]
        /\ req'[r].pc = to /\ req'[r].user = req[r].user
        /\ req'[r].delivery = d /\ req'[r].body = req[r].body
        /\ req'[r].answer = Null
    <3>1. to \in Survey!Pcs /\ Survey!Goto(r, to)
      BY <1>1 DEF Survey!Pcs
    <3>2. /\ req' \in [Submission -> SurveyRequests]
          /\ \A q \in Submission \ {r} : req'[q] = req[q]
          /\ req'[r].pc = to /\ req'[r].user = req[r].user
          /\ req'[r].delivery = req[r].delivery /\ req'[r].body = req[r].body
          /\ req'[r].answer = req[r].answer
      BY <3>1, SurveyGoes, Zenon
    <3> QED
      BY <1>k, <3>2
  <2>2. /\ inserted' \in [Parcel -> SurveyKeys]
        /\ \A e \in Parcel \ {d} : inserted'[e] = inserted[e]
        /\ inserted'[d][t] = r
        /\ \A u \in {"rating", "feedback"} \ {t} : inserted'[d][u] = inserted[d][u]
    BY <1>1, <1>k DEF Survey!IInv, Survey!Shape, SurveyKeys
  <2>3. Survey!Knows(r)'
    BY <1>1, <1>k, <2>1, <2>2 DEF Survey!Knows, Survey!Asks, Survey!MayRate
  <2>4. ASSUME NEW e \in Parcel PROVE Survey!Holds(e)'
    <3>1. Survey!Holds(e) /\ inserted[e].rating \in Submission \cup {Null}
            /\ inserted[e].feedback \in Submission \cup {Null}
      BY DEF Survey!IInv, Survey!Shape
    <3>2. CASE e # d
      <4>1. inserted[e].rating # r /\ inserted[e].feedback # r
        BY <1>k, <3>1, <3>2 DEF Survey!Holds
      <4> QED
        BY <1>1, <2>1, <2>2, <3>1, <3>2, <4>1 DEF Survey!Holds
    <3>3. CASE e = d /\ t = "rating"
      <4>1. inserted[d].feedback # r
        BY <1>1, <1>k, <3>1, <3>3 DEF Survey!Holds
      <4>2. to = "allow" /\ rating'[d] = Null /\ feedback'[d] = feedback[d]
        BY <1>1, <3>3
      <4>3. inserted'[d].rating = r /\ inserted'[d].feedback = inserted[d].feedback
        BY <2>2, <3>3
      <4>4. inserted'[d].feedback # Null => req'[inserted'[d].feedback] = req[inserted[d].feedback]
        BY <2>1, <3>1, <3>3, <4>1, <4>3
      <4> QED
        BY <2>1, <3>1, <3>3, <4>2, <4>3, <4>4 DEF Survey!Holds
    <3>4. CASE e = d /\ t = "feedback"
      <4>1. inserted[d].rating = r
        BY <1>1, <1>k, <3>4 DEF Survey!Knows
      <4> QED
        BY <1>1, <1>k, <2>1, <2>2, <3>1, <3>4, <4>1 DEF Survey!Holds
    <3> QED
      BY <3>2, <3>3, <3>4
  <2>5. \A e \in Parcel : \A u \in {"rating", "feedback"} :
               inserted'[e][u] # inserted[e][u] => inserted[e][u] \in {Null, r}
    BY <1>1, <2>2
  <2> QED
    BY <1>1, <1>k, <2>1, <2>2, <2>3, <2>4, <2>5, SurveyMoves
<1>2. CASE Survey!InsertRating(r) /\ rating[d] = Null
  BY <1>2, <1>1 DEF Survey!InsertRating, Survey!Insert, Survey!rows
<1>3. CASE Survey!InsertFeedback(r) /\ feedback[d] = Null
  BY <1>3, <1>1 DEF Survey!InsertFeedback, Survey!Insert, Survey!rows
<1>4. CASE \/ Survey!InsertRating(r) /\ rating[d] # Null
           \/ Survey!InsertFeedback(r) /\ feedback[d] # Null
  BY <1>4, <1>a, SurveyRollsBack DEF Survey!InsertRating, Survey!InsertFeedback, Survey!Insert,
     Survey!Fail, Survey!rows
<1> QED
  BY <1>2, <1>3, <1>4

\* The commit: the request held both keys, so there was no row and no accepted request.
LEMMA SurveyCommits ==
    ASSUME Survey!ExperienceAssumption, Survey!IInv, NEW r \in Submission, Survey!Commit(r)
    PROVE  Survey!IInv'
<1> DEFINE d == req[r].delivery
<1>1. /\ req[r].pc = "commit" /\ Survey!Asks(r) /\ Survey!MayRate(r) /\ d \in Parcel
      /\ inserted[d].rating = r /\ inserted[d].feedback = r /\ Null # r /\ Null # 201
  BY DEF Survey!Commit, Survey!IInv, Survey!Knows, Survey!Asks, Survey!ExperienceAssumption
<1>2. rating[d] = Null /\ feedback[d] = Null
  BY <1>1 DEF Survey!IInv, Survey!Holds
<1>3. /\ req' \in [Submission -> SurveyRequests]
      /\ \A q \in Submission \ {r} : req'[q] = req[q]
      /\ req'[r].pc = "done" /\ req'[r].answer = 201 /\ req'[r].user = req[r].user
      /\ req'[r].delivery = d /\ req'[r].body = req[r].body
  BY SurveyAnswer DEF Survey!Commit, Survey!Answers
<1>4. /\ inserted' \in [Parcel -> SurveyKeys]
      /\ \A e \in Parcel : \A t \in {"rating", "feedback"} :
            inserted'[e][t] = IF inserted[e][t] = r THEN Null ELSE inserted[e][t]
  BY SurveyFree DEF Survey!Commit
<1>5. Survey!RatingRow(r) \in Survey!RatingRows /\ Survey!FeedbackRow(r) \in Survey!FeedbackRows
  BY <1>1, SurveyRowsOf
<1>6. /\ rating' \in [Parcel -> Survey!RatingRows \cup {Null}]
      /\ feedback' \in [Parcel -> Survey!FeedbackRows \cup {Null}]
      /\ \A e \in Parcel \ {d} : rating'[e] = rating[e] /\ feedback'[e] = feedback[e]
      /\ rating'[d] = Survey!RatingRow(r) /\ feedback'[d] = Survey!FeedbackRow(r)
      /\ rating'[d] # Null /\ feedback'[d] # Null /\ due' = due
  <2>1. rating' = [rating EXCEPT ![d] = Survey!RatingRow(r)]
          /\ feedback' = [feedback EXCEPT ![d] = Survey!FeedbackRow(r)] /\ due' = due
    BY DEF Survey!Commit
  <2>2. Survey!RatingRow(r) # Null /\ Survey!FeedbackRow(r) # Null
    BY <1>5 DEF Survey!ExperienceAssumption
  <2>3. rating \in [Parcel -> Survey!RatingRows \cup {Null}]
          /\ feedback \in [Parcel -> Survey!FeedbackRows \cup {Null}]
    BY DEF Survey!IInv, Survey!Shape
  <2> QED
    BY <1>1, <1>5, <2>1, <2>2, <2>3
<1>7. Survey!Shape'
  BY <1>3, <1>4, <1>6 DEF Survey!IInv, Survey!Shape, SurveyRequests, SurveyKeys
<1>8. Survey!RatingRow(r)' = Survey!RatingRow(r) /\ Survey!FeedbackRow(r)' = Survey!FeedbackRow(r)
  BY <1>3 DEF Survey!RatingRow, Survey!FeedbackRow
<1>9. ASSUME NEW q \in Submission, q # r
      PROVE  /\ Survey!RatingRow(q)' = Survey!RatingRow(q)
             /\ Survey!FeedbackRow(q)' = Survey!FeedbackRow(q)
             /\ req'[q] = req[q]
  BY <1>3, <1>9 DEF Survey!RatingRow, Survey!FeedbackRow
<1>10. ASSUME NEW q \in Submission PROVE Survey!Knows(q)'
  <2>1. CASE q = r
    BY <1>1, <1>3, <2>1 DEF Survey!Knows, Survey!Asks
  <2>2. CASE q # r
    <3>1. req'[q] = req[q] /\ Survey!Knows(q)
      BY <1>9, <2>2 DEF Survey!IInv
    <3>2. Survey!Asks(q) => \A t \in {"rating", "feedback"} :
              inserted[req[q].delivery][t] = q => inserted'[req[q].delivery][t] = q
      BY <1>4, <2>2 DEF Survey!Asks
    <3> QED
      BY <1>6, <3>1, <3>2 DEF Survey!Knows, Survey!Asks, Survey!MayRate
  <2> QED
    BY <2>1, <2>2
<1>11. ASSUME NEW e \in Parcel PROVE Survey!Holds(e)'
  <2>1. Survey!Holds(e) /\ inserted[e].rating \in Submission \cup {Null}
          /\ inserted[e].feedback \in Submission \cup {Null}
    BY DEF Survey!IInv, Survey!Shape
  <2>2. /\ inserted'[e].rating = IF inserted[e].rating = r THEN Null ELSE inserted[e].rating
        /\ inserted'[e].feedback = IF inserted[e].feedback = r THEN Null ELSE inserted[e].feedback
    BY <1>4
  <2>3. CASE e = d
    BY <1>1, <2>2, <2>3 DEF Survey!Holds
  <2>4. CASE e # d
    BY <1>3, <1>6, <2>1, <2>2, <2>4 DEF Survey!Holds
  <2> QED
    BY <2>3, <2>4
<1>12. Survey!WholeSurvey'
  <2>1. /\ rating'[d] # Null /\ feedback'[d] # Null
        /\ feedback'[d].customer = rating'[d].customer
        /\ feedback'[d].positive = Survey!PositiveTags(rating'[d].scores)
        /\ feedback'[d].issue = Survey!IssueTags(rating'[d].scores)
    BY <1>6 DEF Survey!RatingRow, Survey!FeedbackRow
  <2> QED
    BY <1>6, <2>1 DEF Survey!IInv, Survey!WholeSurvey
<1>13. Survey!OneSubmission'
  <2>1. \A q \in Submission : req[q].answer = 201 =>
            /\ q # r /\ req[q].delivery # d /\ req[q].delivery \in Parcel
            /\ rating[req[q].delivery] = Survey!RatingRow(q)
            /\ feedback[req[q].delivery] = Survey!FeedbackRow(q)
    <3> SUFFICES ASSUME NEW q \in Submission, req[q].answer = 201
                 PROVE  /\ q # r /\ req[q].delivery # d /\ req[q].delivery \in Parcel
                        /\ rating[req[q].delivery] = Survey!RatingRow(q)
                        /\ feedback[req[q].delivery] = Survey!FeedbackRow(q)
      OBVIOUS
    <3>1. Survey!Knows(q) /\ Survey!Asks(q) /\ req[q].pc = "done"
      BY DEF Survey!IInv, Survey!Knows
    <3>2. Survey!RatingRow(q) # Null
      BY <3>1, SurveyRowsOf DEF Survey!ExperienceAssumption
    <3>3. /\ rating[req[q].delivery] = Survey!RatingRow(q)
          /\ feedback[req[q].delivery] = Survey!FeedbackRow(q)
      BY DEF Survey!IInv, Survey!OneSubmission
    <3> QED
      BY <1>1, <1>2, <3>1, <3>2, <3>3 DEF Survey!Asks
  <2> SUFFICES ASSUME NEW q \in Submission, req'[q].answer = 201
               PROVE  /\ rating'[req'[q].delivery] = Survey!RatingRow(q)'
                      /\ feedback'[req'[q].delivery] = Survey!FeedbackRow(q)'
                      /\ \A s \in Submission \ {q} :
                             req'[s].answer = 201 => req'[s].delivery # req'[q].delivery
    BY DEF Survey!OneSubmission
  <2>2. CASE q = r
    BY <1>3, <1>6, <1>8, <1>9, <2>1, <2>2
  <2>3. CASE q # r
    <3>1. req[q].answer = 201 /\ req'[q] = req[q]
      BY <1>9, <2>3
    <3>2. \A s \in Submission \ {q} : req[s].answer = 201 => req[s].delivery # req[q].delivery
      BY <3>1 DEF Survey!IInv, Survey!OneSubmission
    <3> QED
      BY <1>3, <1>6, <1>9, <2>1, <2>3, <3>1, <3>2
  <2> QED
    BY <2>2, <2>3
<1>14. Survey!SurveyIsDue'
  BY <1>1, <1>6 DEF Survey!IInv, Survey!SurveyIsDue, Survey!MayRate, Survey!RatingRow
<1> QED
  BY <1>7, <1>10, <1>11, <1>12, <1>13, <1>14 DEF Survey!IInv

\* The survey is kept whole by every step.
LEMMA SurveyInductive ==
    ASSUME Survey!ExperienceAssumption
    PROVE  /\ Survey!Init => Survey!IInv
           /\ Survey!IInv /\ [Survey!Next]_surveyVars => Survey!IInv'
<1>1. ASSUME Survey!Init PROVE Survey!IInv
  <2>1. Survey!NotMade \in SurveyRequests
    BY DEF Survey!NotMade, SurveyRequests, Survey!Pcs, Survey!Answers
  <2>2. Survey!Shape
    BY <1>1, <2>1 DEF Survey!Init, Survey!Shape, SurveyRequests
  <2>3. \A r \in Submission : req[r] = Survey!NotMade
    BY <1>1 DEF Survey!Init
  <2>4. \A r \in Submission : Survey!Knows(r)
    BY <2>3 DEF Survey!Knows, Survey!NotMade, Survey!ExperienceAssumption
  <2>5. \A d \in Parcel : Survey!Holds(d)
    BY <1>1 DEF Survey!Init, Survey!Holds
  <2>6. Survey!WholeSurvey /\ Survey!SurveyIsDue
    BY <1>1 DEF Survey!Init, Survey!WholeSurvey, Survey!SurveyIsDue
  <2>7. Survey!OneSubmission
    BY <2>3 DEF Survey!OneSubmission, Survey!NotMade, Survey!ExperienceAssumption
  <2> QED
    BY <2>2, <2>4, <2>5, <2>6, <2>7 DEF Survey!IInv
<1>2. ASSUME Survey!IInv, [Survey!Next]_surveyVars PROVE Survey!IInv'
  <2>1. CASE UNCHANGED surveyVars
    BY <1>2, <2>1 DEF surveyVars, Survey!IInv, Survey!Shape, Survey!Knows, Survey!Holds,
       Survey!WholeSurvey, Survey!OneSubmission, Survey!SurveyIsDue, Survey!Asks,
       Survey!MayRate, Survey!RatingRow, Survey!FeedbackRow
  <2>2. ASSUME NEW d \in Parcel, NEW s \in {"DELIVERED", "CANCELLED"}, Survey!Move(d, s)
        PROVE  Survey!IInv'
    <3>1. /\ due' \in [Parcel -> {"UNDERWAY", "DELIVERED", "CANCELLED"}]
          /\ \A e \in Parcel : due[e] = "DELIVERED" => due'[e] = "DELIVERED"
          /\ UNCHANGED <<rating, feedback, inserted, req>>
      BY <1>2, <2>2 DEF Survey!Move, Survey!IInv, Survey!Shape, Survey!rows
    <3>2. \A r \in Submission : Survey!Knows(r)'
      BY <1>2, <3>1 DEF Survey!IInv, Survey!Knows, Survey!Asks, Survey!MayRate
    <3>3. Survey!Shape' /\ \A e \in Parcel : Survey!Holds(e)'
      BY <1>2, <3>1 DEF Survey!IInv, Survey!Shape, Survey!Holds
    <3>4. Survey!WholeSurvey' /\ Survey!SurveyIsDue'
      BY <1>2, <3>1 DEF Survey!IInv, Survey!WholeSurvey, Survey!SurveyIsDue
    <3>5. Survey!OneSubmission'
      BY <1>2, <3>1 DEF Survey!IInv, Survey!OneSubmission, Survey!RatingRow, Survey!FeedbackRow
    <3> QED
      BY <3>2, <3>3, <3>4, <3>5 DEF Survey!IInv
  <2>3. ASSUME NEW r \in Submission, Survey!Cut(r)
        PROVE  Survey!IInv'
    BY <1>2, <2>3, SurveyRollsBack DEF Survey!Cut, Survey!rows, Survey!Answers, Survey!NoAnswer
  <2>4. ASSUME NEW r \in Submission, Survey!Step(r)
        PROVE  Survey!IInv'
    BY <1>2, <2>4, SurveyReads, SurveyInserts, SurveyCommits DEF Survey!Step
  <2> QED
    BY <1>2, <2>1, <2>2, <2>3, <2>4, SurveySubmit DEF Survey!Next
<1> QED
  BY <1>1, <1>2

\* The types follow.
LEMMA SurveyTypeOK == Survey!IInv => Survey!TypeOK
  BY DEF Survey!IInv, Survey!Shape, Survey!TypeOK, Survey!RatingRows

-----------------------------------------------------------------------------
(* DeliveryHistory.                                                        *)

\* The sums of the page are those of Money.
LEMMA HistorySums == \A a, S : History!SumOf(a, S) = SumOf(a, S)
<1>1. \A S : History!Cardinality(S) = Cardinality(S)
  BY DEF History!Cardinality, Cardinality
<1>2. \A a, S : History!Units(a, S) = Units(a, S)
  BY DEF History!Units, Units
<1> QED
  BY <1>1, <1>2 DEF History!SumOf, SumOf

\* A prefix has the same elements, as far as it goes.
LEMMA PrefixMeans ==
    ASSUME NEW S, NEW s \in Seq(S), NEW t \in Seq(S)
    PROVE  History!IsPrefix(s, t) <=>
               Len(s) <= Len(t) /\ \A i \in 1 .. Len(s) : s[i] = t[i]
<1>1. Len(s) \in Nat /\ Len(t) \in Nat
  BY LenProperties
<1>2. SubSeq(s, 1, Len(s)) = [i \in 1 .. Len(s) |-> s[i]]
  BY <1>1
<1>3. SubSeq(t, 1, Len(s)) = [i \in 1 .. Len(s) |-> t[i]]
  BY <1>1
<1>4. [i \in 1 .. Len(s) |-> s[i]] = [i \in 1 .. Len(s) |-> t[i]]
      <=> \A i \in 1 .. Len(s) : s[i] = t[i]
  <2> DEFINE f == [i \in 1 .. Len(s) |-> s[i]]
             g == [i \in 1 .. Len(s) |-> t[i]]
  <2>1. \A i \in 1 .. Len(s) : f[i] = s[i] /\ g[i] = t[i]
    OBVIOUS
  <2>2. ASSUME f = g PROVE \A i \in 1 .. Len(s) : s[i] = t[i]
    <3> HIDE DEF f, g
    <3> QED
      BY <2>1, <2>2
  <2> QED
    BY <2>2
<1> QED
  BY <1>1, <1>2, <1>3, <1>4 DEF History!IsPrefix

\* What a prefix has, the whole has.
LEMMA PrefixIsPart ==
    ASSUME NEW S, NEW s \in Seq(S), NEW t \in Seq(S), History!IsPrefix(s, t)
    PROVE  History!ToSet(s) \subseteq History!ToSet(t)
<1>1. /\ Len(s) \in Nat /\ Len(t) \in Nat
      /\ DOMAIN s = 1 .. Len(s) /\ DOMAIN t = 1 .. Len(t)
  BY LenProperties
<1>2. Len(s) <= Len(t) /\ \A i \in 1 .. Len(s) : s[i] = t[i]
  BY PrefixMeans
<1>3. \A i \in 1 .. Len(s) : i \in 1 .. Len(t)
  BY <1>1, <1>2
<1> QED
  BY <1>1, <1>2, <1>3 DEF History!ToSet

\* A sequence is a prefix of itself, of what is appended to it, and of what its own
\* continuations continue to.
LEMMA PrefixesChain ==
    ASSUME NEW S, NEW s \in Seq(S), NEW t \in Seq(S)
    PROVE  /\ History!IsPrefix(s, s)
           /\ \A e \in S : History!IsPrefix(s, Append(s, e))
           /\ \A u \in Seq(S) : History!IsPrefix(s, t) /\ History!IsPrefix(t, u)
                                => History!IsPrefix(s, u)
<1>1. Len(s) \in Nat /\ Len(t) \in Nat
  BY LenProperties
<1>2. History!IsPrefix(s, s)
  BY <1>1, PrefixMeans
<1>3. \A e \in S : History!IsPrefix(s, Append(s, e))
  <2> TAKE e \in S
  <2>1. /\ Append(s, e) \in Seq(S) /\ Len(Append(s, e)) = Len(s) + 1
        /\ \A i \in 1 .. Len(s) : Append(s, e)[i] = s[i]
    BY Appended
  <2>2. Len(s) <= Len(s) + 1
    BY <1>1
  <2> QED
    BY <2>1, <2>2, PrefixMeans
<1>4. ASSUME NEW u \in Seq(S), History!IsPrefix(s, t), History!IsPrefix(t, u)
      PROVE  History!IsPrefix(s, u)
  <2>1. Len(s) <= Len(t) /\ \A i \in 1 .. Len(s) : s[i] = t[i]
    BY <1>4, PrefixMeans
  <2>2. Len(t) <= Len(u) /\ \A i \in 1 .. Len(t) : t[i] = u[i]
    BY <1>4, PrefixMeans
  <2>3. Len(u) \in Nat
    BY LenProperties
  <2>4. Len(s) <= Len(u) /\ \A i \in 1 .. Len(s) : s[i] = u[i]
    <3>1. \A i \in 1 .. Len(s) : i \in 1 .. Len(t)
      BY <1>1, <2>1
    <3> QED
      BY <1>1, <2>1, <2>2, <2>3, <3>1
  <2> QED
    BY <2>4, PrefixMeans
<1> QED
  BY <1>2, <1>3, <1>4

\* The refunds with one of some statuses add up to a number, and to no less with more
\* statuses.
LEMMA RefundsAddUp ==
    ASSUME NEW list \in Seq(History!RefundRows), NEW M \in Nat,
           \A i \in DOMAIN list : list[i].amount <= M, NEW some, NEW more, some \subseteq more
    PROVE  /\ History!Sum(list, some) \in Nat /\ History!Sum(list, more) \in Nat
           /\ History!Sum(list, some) <= History!Sum(list, more)
<1> DEFINE amount == [i \in DOMAIN list |-> list[i].amount]
           those(X) == {i \in DOMAIN list : list[i].status \in X}
<1>1. DOMAIN list = 1 .. Len(list) /\ Len(list) \in Nat
  BY LenProperties
<1>2. IsFiniteSet(DOMAIN list)
  BY <1>1, UnitsOfOneRow
<1>3. \A i \in DOMAIN list : amount[i] \in 0 .. M
  <2>1. \A i \in DOMAIN list : list[i] \in History!RefundRows
    BY <1>1, ElementOfSeq
  <2> QED
    BY <2>1 DEF History!RefundRows
<1>4. /\ those(some) \in SUBSET those(more)
      /\ those(some) \in SUBSET DOMAIN list /\ those(more) \in SUBSET DOMAIN list
  OBVIOUS
<1>5. \A X : History!Sum(list, X) = SumOf(amount, those(X))
  BY HistorySums DEF History!Sum
<1> HIDE DEF amount, those
<1>6. IsFiniteSet(those(some)) /\ IsFiniteSet(those(more))
  BY <1>2, <1>4, FS_Subset
<1>7. \A i \in those(more) : amount[i] \in 0 .. M
  BY <1>3, <1>4
<1>8. SumOf(amount, those(some)) \in Nat /\ SumOf(amount, those(more)) \in Nat
  BY <1>4, <1>6, <1>7, SumOfType
<1>9. SumOf(amount, those(some)) <= SumOf(amount, those(more))
  BY <1>4, <1>6, <1>7, SumOfMonotone
<1> QED
  BY <1>5, <1>8, <1>9

\* A new refund adds its amount, when its status counts.
LEMMA RefundAppended ==
    ASSUME NEW list \in Seq(History!RefundRows), NEW M \in Nat,
           \A i \in DOMAIN list : list[i].amount <= M,
           NEW row \in History!RefundRows, row.amount <= M, NEW some
    PROVE  History!Sum(Append(list, row), some)
               = History!Sum(list, some) + (IF row.status \in some THEN row.amount ELSE 0)
<1> DEFINE n == Len(list) + 1
           long == Append(list, row)
           old == [i \in DOMAIN list |-> list[i].amount]
           new == [i \in DOMAIN long |-> long[i].amount]
           S == {i \in DOMAIN list : list[i].status \in some}
           T == {i \in DOMAIN long : long[i].status \in some}
<1>1. /\ Len(list) \in Nat /\ DOMAIN list = 1 .. Len(list)
      /\ DOMAIN long = 1 .. n /\ long[n] = row
      /\ \A i \in 1 .. Len(list) : long[i] = list[i]
  BY Appended
<1>2. IsFiniteSet(S) /\ S \in SUBSET (1 .. Len(list)) /\ n \notin S
  <2>1. S \in SUBSET (1 .. Len(list))
    BY <1>1
  <2>2. n \notin 1 .. Len(list)
    BY <1>1
  <2> QED
    BY <1>1, <2>1, <2>2, UnitsOfOneRow, FS_Subset
<1>3. \A i \in 1 .. Len(list) : new[i] = old[i] /\ old[i] \in 0 .. M
  <2>1. \A i \in 1 .. Len(list) : list[i] \in History!RefundRows
    BY ElementOfSeq
  <2>2. \A i \in 1 .. Len(list) : i \in 1 .. n
    BY <1>1
  <2> QED
    BY SMTT(30), <1>1, <2>1, <2>2 DEF History!RefundRows
<1>4. new[n] = row.amount /\ row.amount \in 0 .. M
  <2>1. n \in 1 .. n
    BY <1>1
  <2> QED
    BY <1>1, <2>1 DEF History!RefundRows
<1>5. T = IF row.status \in some THEN S \cup {n} ELSE S
  <2>1. \A i \in 1 .. n : i \in 1 .. Len(list) \/ i = n
    BY <1>1
  <2>2. n \in 1 .. n /\ \A i \in 1 .. Len(list) : i \in 1 .. n /\ i # n
    BY <1>1
  <2> QED
    BY <1>1, <2>1, <2>2
<1>6. History!Sum(list, some) = SumOf(old, S) /\ History!Sum(long, some) = SumOf(new, T)
  BY HistorySums DEF History!Sum
<1> HIDE DEF n, long, old, new, S, T
<1>7. SumOf(new, S) = SumOf(old, S)
  BY <1>2, <1>3, SumOfExtensional
<1>8. \A i \in S \cup {n} : new[i] \in 0 .. M
  BY <1>2, <1>3, <1>4
<1>9. SumOf(new, S \cup {n}) = SumOf(new, S) + new[n]
  BY <1>2, <1>8, SumOfAdd
<1>10. SumOf(old, S) \in Nat
  BY <1>2, <1>3, SumOfType
<1> QED
  BY <1>4, <1>5, <1>6, <1>7, <1>9, <1>10 DEF long

\* A list of refunds in which one settles.
RefundSettles(list, M, n, ended, settled) ==
    /\ list \in Seq(History!RefundRows) /\ M \in Nat
    /\ \A i \in DOMAIN list : list[i].amount <= M
    /\ n \in DOMAIN list /\ ended \in {"SUCCESS", "FAILED"}
    /\ list[n].status = "REQUESTED" /\ settled = [list EXCEPT ![n].status = ended]

\* No row is gone and none has another amount.
RowsStay(list, settled) ==
    /\ settled \in Seq(History!RefundRows) /\ Len(settled) = Len(list)
    /\ DOMAIN settled = DOMAIN list
    /\ \A j \in DOMAIN list : settled[j].amount = list[j].amount

\* What the refund still counts for: its amount stays in a sum or goes between two.
AmountMoves(list, n, ended, settled) ==
    /\ ended = "SUCCESS" =>
        /\ History!Sum(settled, {"SUCCESS"}) = History!Sum(list, {"SUCCESS"}) + list[n].amount
        /\ History!Sum(settled, {"REQUESTED", "SUCCESS"})
               = History!Sum(list, {"REQUESTED", "SUCCESS"})
    /\ ended = "FAILED" =>
        /\ History!Sum(settled, {"SUCCESS"}) = History!Sum(list, {"SUCCESS"})
        /\ History!Sum(settled, {"REQUESTED", "SUCCESS"})
               = History!Sum(list, {"REQUESTED", "SUCCESS"}) - list[n].amount

\* A refund that settles moves its amount between the sums that count its statuses.
LEMMA RefundSettled ==
    ASSUME NEW list, NEW M, NEW n, NEW ended, NEW settled,
           RefundSettles(list, M, n, ended, settled)
    PROVE  RowsStay(list, settled) /\ AmountMoves(list, n, ended, settled)
<1>0. /\ list \in Seq(History!RefundRows) /\ M \in Nat
      /\ \A i \in DOMAIN list : list[i].amount <= M
      /\ n \in DOMAIN list /\ ended \in {"REQUESTED", "SUCCESS", "FAILED"}
      /\ list[n].status = "REQUESTED" /\ settled = [list EXCEPT ![n].status = ended]
  BY DEF RefundSettles
<1>1. ASSUME NEW some
      PROVE  /\ RowsStay(list, settled)
             /\ ("REQUESTED" \in some <=> ended \in some)
                => History!Sum(settled, some) = History!Sum(list, some)
             /\ "REQUESTED" \in some /\ ended \notin some
                => History!Sum(settled, some) = History!Sum(list, some) - list[n].amount
             /\ "REQUESTED" \notin some /\ ended \in some
                => History!Sum(settled, some) = History!Sum(list, some) + list[n].amount
  <2> DEFINE row == [list[n] EXCEPT !.status = ended]
             new == [list EXCEPT ![n] = row]
             amount == [j \in DOMAIN list |-> list[j].amount]
             later == [j \in DOMAIN new |-> new[j].amount]
             S == {j \in DOMAIN list : list[j].status \in some}
             T == {j \in DOMAIN new : new[j].status \in some}
             rest == S \ {n}
  <2>1. \A j \in DOMAIN list : list[j] \in History!RefundRows
    BY <1>0, ElementOfSeq, LenProperties
  <2>2. /\ row \in History!RefundRows /\ row.status = ended /\ row.amount = list[n].amount
    BY <1>0, <2>1 DEF History!RefundRows
  <2>3. /\ new \in Seq(History!RefundRows) /\ Len(new) = Len(list)
        /\ DOMAIN list = 1 .. Len(list) /\ Len(list) \in Nat /\ DOMAIN new = DOMAIN list
        /\ \A j \in DOMAIN list : new[j] = IF j = n THEN row ELSE list[j]
    <3> HIDE DEF row
    <3> QED
      BY <1>0, <2>2, Replaced
  <2>4. new = settled /\ new = [list EXCEPT ![n].status = ended]
    BY <1>0
  <2>5. \A j \in DOMAIN list : new[j].amount = list[j].amount
    <3> HIDE DEF new, row
    <3> QED
      BY <2>2, <2>3
  <2>6. later = amount
    <3> HIDE DEF new
    <3> QED
      BY <2>3, <2>5
  <2>7. History!Sum(list, some) = SumOf(amount, S) /\ History!Sum(new, some) = SumOf(later, T)
    BY HistorySums DEF History!Sum
  <2>8. \A j \in DOMAIN list : amount[j] \in 0 .. M
    BY <1>0, <2>1 DEF History!RefundRows
  <2>9. S = IF list[n].status \in some THEN rest \cup {n} ELSE rest
    BY <1>0
  <2>10. T = IF ended \in some THEN rest \cup {n} ELSE rest
    <3>1. \A j \in DOMAIN list : j \in T <=> (IF j = n THEN ended ELSE list[j].status) \in some
      <4> HIDE DEF new, row
      <4> QED
        BY <2>2, <2>3
    <3>2. T \subseteq DOMAIN list /\ rest \subseteq DOMAIN list
      BY <2>3
    <3> HIDE DEF T, new, row
    <3> QED
      BY <1>0, <3>1, <3>2
  <2>11. IsFiniteSet(rest) /\ rest \in SUBSET DOMAIN list
    <3>1. rest \in SUBSET DOMAIN list
      OBVIOUS
    <3>2. IsFiniteSet(DOMAIN list)
      BY <2>3, UnitsOfOneRow
    <3> QED
      BY <3>1, <3>2, FS_Subset
  <2>12. amount[n] = list[n].amount /\ n \notin rest
    BY <1>0
  <2> HIDE DEF row, new, amount, later, S, T, rest
  <2>13. SumOf(amount, rest) \in Nat
    BY <1>0, <2>8, <2>11, SumOfType
  <2>14. SumOf(amount, rest \cup {n}) = SumOf(amount, rest) + list[n].amount
    <3>1. \A j \in rest \cup {n} : amount[j] \in 0 .. M
      BY <1>0, <2>8, <2>11
    <3>2. M \in Nat
      BY <1>0
    <3> QED
      BY <2>11, <2>12, <3>1, <3>2, SumOfAdd
  <2>15. list[n].amount \in Nat
    BY <1>0, <2>8, <2>12
  <2>16. /\ (list[n].status \in some <=> ended \in some)
            => History!Sum(new, some) = History!Sum(list, some)
         /\ list[n].status \in some /\ ended \notin some
            => History!Sum(new, some) = History!Sum(list, some) - list[n].amount
         /\ list[n].status \notin some /\ ended \in some
            => History!Sum(new, some) = History!Sum(list, some) + list[n].amount
    BY <1>0, <2>6, <2>7, <2>9, <2>10, <2>13, <2>14, <2>15
  <2> QED
    BY <2>3, <2>4, <2>5, <2>16, <1>0 DEF RowsStay
<1> QED
  <2>1. CASE ended = "SUCCESS"
    BY <1>1, <2>1 DEF AmountMoves
  <2>2. CASE ended = "FAILED"
    BY <1>1, <2>2 DEF AmountMoves
  <2> QED
    BY <1>1, <2>1, <2>2 DEF RefundSettles

\* What a snapshot is charged is a number, and its breakdown, of numbers, adds up to it.
LEMMA PricesAddUp ==
    ASSUME Null \notin Int, NEW s, History!IsSnapshot(s)
    PROVE  /\ s \in History!SnapshotRows
           /\ History!Charged(s) \in Nat
           /\ History!PricingBreakdown(s) \in History!BreakdownRows
           /\ LET b == History!PricingBreakdown(s)
              IN  /\ b.payable = History!Charged(s)
                  /\ b.subtotal + b.gst = b.payable
                  /\ b.providerQuote + b.fee = b.subtotal
<1>1. ASSUME NEW q \in Nat, NEW p \in Nat
      PROVE  /\ History!Priced(q, p) \in History!BreakdownRows
             /\ History!Priced(q, p).providerQuote = q
             /\ History!Priced(q, p).subtotal = q + History!Priced(q, p).fee
             /\ History!Priced(q, p).payable
                    = History!Priced(q, p).subtotal + History!Priced(q, p).gst
  <2>1. \A n \in Nat : History!roundCurrency(n) \in Nat
    BY DEF History!roundCurrency
  <2> DEFINE fee == History!roundCurrency(q * p)
             gst == History!roundCurrency((q + fee) * History!GST_PERCENT)
  <2>2. fee \in Nat
    <3>1. q * p \in Nat
      OBVIOUS
    <3> QED
      BY <2>1, <3>1
  <2>3. gst \in Nat
    <3> HIDE DEF fee
    <3>1. (q + fee) * History!GST_PERCENT \in Nat
      BY <2>2 DEF History!GST_PERCENT
    <3> QED
      BY <2>1, <3>1
  <2>4. History!Priced(q, p) = [providerQuote |-> q, fee |-> fee, subtotal |-> q + fee,
                                gst |-> gst, payable |-> q + fee + gst]
    BY DEF History!Priced
  <2> HIDE DEF fee, gst
  <2> QED
    BY <2>2, <2>3, <2>4 DEF History!BreakdownRows
<1>2. s.amount \in Nat /\ History!LEGACY_DEFAULT_PLATFORM_FEE_PERCENT \in Nat
  BY DEF History!IsSnapshot, History!LEGACY_DEFAULT_PLATFORM_FEE_PERCENT
<1>3. CASE s = History!Legacy(s.amount)
  <2>1. s = [amount |-> s.amount, percent |-> Null, fee |-> Null, gst |-> Null,
             payable |-> Null]
    BY <1>3 DEF History!Legacy
  <2>2. s.percent = Null /\ s.payable = Null /\ s \in History!SnapshotRows
    BY <1>2, <2>1 DEF History!SnapshotRows, History!MaybeNat
  <2>3. LET p == History!Priced(s.amount, History!LEGACY_DEFAULT_PLATFORM_FEE_PERCENT)
        IN  History!Charged(s) = p.payable /\ History!PricingBreakdown(s) = p
    BY <2>2 DEF History!Charged, History!PricingBreakdown
  <2> DEFINE p == History!Priced(s.amount, History!LEGACY_DEFAULT_PLATFORM_FEE_PERCENT)
  <2>4. /\ p \in History!BreakdownRows /\ p.providerQuote = s.amount
        /\ p.subtotal = s.amount + p.fee /\ p.payable = p.subtotal + p.gst
    BY <1>1, <1>2
  <2>5. History!Charged(s) = p.payable /\ History!PricingBreakdown(s) = p
    BY <2>3
  <2> HIDE DEF p
  <2> QED
    BY <2>2, <2>4, <2>5 DEF History!BreakdownRows
<1>4. CASE s.percent \in Nat /\ s = History!Enriched(s.amount, s.percent)
  <2> DEFINE p == History!Priced(s.amount, s.percent)
  <2>1. s = [amount |-> s.amount, percent |-> s.percent, fee |-> p.fee, gst |-> p.gst,
             payable |-> p.payable]
    BY <1>4 DEF History!Enriched
  <2>2. /\ p \in History!BreakdownRows /\ p.subtotal = s.amount + p.fee
        /\ p.payable = p.subtotal + p.gst
    BY <1>1, <1>2, <1>4
  <2> HIDE DEF p
  <2>3. s.fee = p.fee /\ s.gst = p.gst /\ s.payable = p.payable
    BY <2>1
  <2>4. {p.fee, p.gst, p.payable, p.subtotal} \subseteq Nat
    BY <2>2 DEF History!BreakdownRows
  <2>5. s.fee # Null /\ s.gst # Null /\ s.payable # Null
    BY <2>3, <2>4
  <2>6. s \in History!SnapshotRows
    BY <1>2, <1>4, <2>1, <2>4 DEF History!SnapshotRows, History!MaybeNat
  <2>7. /\ History!Charged(s) = p.payable
        /\ History!PricingBreakdown(s) =
               [providerQuote |-> s.amount, fee |-> p.fee, subtotal |-> s.amount + p.fee,
                gst |-> p.gst, payable |-> p.payable]
    BY <2>3, <2>5 DEF History!Charged, History!PricingBreakdown
  <2> QED
    BY <1>2, <2>2, <2>4, <2>6, <2>7 DEF History!BreakdownRows
<1> QED
  BY <1>3, <1>4 DEF History!IsSnapshot

\* What a step of another component does to the rows that a page tells of: the timeline
\* goes on, and a payment stays the same one, of which no less is refunded.
RowsGoOn ==
    /\ timeline' \in Seq(History!DeliveryStatuses) /\ History!IsPrefix(timeline, timeline')
    /\ payment # Null =>
        /\ payment' # Null /\ payment'.amount = payment.amount
        /\ payment'.snapshot = payment.snapshot /\ payment'.refunded \in Nat
        /\ payment.refunded <= payment'.refunded

\* What a reader holds.
ReaderIsRight(r) ==
    /\ History!ReadsFit(reads[r])
    /\ page[r] # Null => History!PageTells(page[r]) /\ History!GoesOn(page[r], reads[r])

\* When the rows go on, what was read before still is what was.
LEMMA ReadsStayFit ==
    ASSUME History!IInv, RowsGoOn, NEW got, History!ReadsFit(got)
    PROVE  /\ DOMAIN got \subseteq History!Queries
           /\ DOMAIN got # {} => "delivery" \in DOMAIN got
                                 /\ got["delivery"] \in History!ToSet(timeline')
           /\ "timeline" \in DOMAIN got => History!IsPrefix(got["timeline"], timeline')
           /\ \A p : History!WasPayment(p) =>
                /\ payment' # Null /\ p \in History!PaymentRows
                /\ p.amount = payment'.amount /\ p.snapshot = payment'.snapshot
                /\ p.refunded <= payment'.refunded
<1>1. timeline \in Seq(History!DeliveryStatuses) /\ timeline' \in Seq(History!DeliveryStatuses)
      /\ History!IsPrefix(timeline, timeline')
  BY DEF History!IInv, History!RowsAgree, RowsGoOn
<1>2. History!ToSet(timeline) \subseteq History!ToSet(timeline')
  BY <1>1, PrefixIsPart
<1>3. "timeline" \in DOMAIN got => History!IsPrefix(got["timeline"], timeline')
  <2> SUFFICES ASSUME "timeline" \in DOMAIN got
               PROVE  History!IsPrefix(got["timeline"], timeline')
    OBVIOUS
  <2>1. got["timeline"] \in Seq(History!DeliveryStatuses) /\ History!IsPrefix(got["timeline"], timeline)
    BY DEF History!ReadsFit
  <2> QED
    BY <1>1, <2>1, PrefixesChain
<1>4. ASSUME NEW p, History!WasPayment(p)
      PROVE  /\ payment' # Null /\ p \in History!PaymentRows
             /\ p.amount = payment'.amount /\ p.snapshot = payment'.snapshot
             /\ p.refunded <= payment'.refunded
  <2>1. /\ payment # Null /\ p \in History!PaymentRows
        /\ p.amount = payment.amount /\ p.snapshot = payment.snapshot
        /\ p.refunded <= payment.refunded
    BY <1>4 DEF History!WasPayment
  <2>2. payment \in History!PaymentRows
    BY <2>1 DEF History!IInv, History!RowsAgree
  <2>3. payment.refunded \in Nat /\ p.refunded \in Nat
    BY <2>1, <2>2 DEF History!PaymentRows
  <2> QED
    BY <2>1, <2>3 DEF RowsGoOn
<1> QED
  BY <1>2, <1>3, <1>4 DEF History!ReadsFit

\* A page that was right stays right.
LEMMA PagesStayRight ==
    ASSUME History!IInv, RowsGoOn, NEW p, History!PageTells(p)
    PROVE  /\ History!IsPrefix(p.timeline, timeline')
           /\ p.payment # Null => payment' # Null
                                  /\ p.payment.refundedAmount <= payment'.refunded
<1>1. timeline \in Seq(History!DeliveryStatuses) /\ timeline' \in Seq(History!DeliveryStatuses)
      /\ History!IsPrefix(timeline, timeline')
  BY DEF History!IInv, History!RowsAgree, RowsGoOn
<1>2. p.timeline \in Seq(History!DeliveryStatuses) /\ History!IsPrefix(p.timeline, timeline)
  BY DEF History!PageTells
<1>3. History!IsPrefix(p.timeline, timeline')
  BY <1>1, <1>2, PrefixesChain
<1>4. ASSUME p.payment # Null
      PROVE  payment' # Null /\ p.payment.refundedAmount <= payment'.refunded
  <2>1. /\ payment # Null /\ p.payment.refundedAmount \in Nat
        /\ p.payment.refundedAmount <= payment.refunded
    BY <1>4 DEF History!PageTells
  <2>2. payment.refunded \in Nat
    BY <2>1 DEF History!IInv, History!RowsAgree, History!PaymentRows
  <2> QED
    BY <2>1, <2>2 DEF RowsGoOn
<1> QED
  BY <1>3, <1>4

\* A writer that keeps the rows in agreement keeps the invariant.
LEMMA WritersKeep ==
    ASSUME History!IInv, RowsGoOn, UNCHANGED <<reads, page>>, History!RowsAgree'
    PROVE  History!IInv'
<1>1. ASSUME NEW r \in Reader PROVE ReaderIsRight(r)'
  <2>1. ReaderIsRight(r) /\ reads'[r] = reads[r] /\ page'[r] = page[r]
    BY DEF History!IInv, ReaderIsRight
  <2>2. History!ReadsFit(reads[r])'
    <3>1. History!ReadsFit(reads[r])
      BY <2>1 DEF ReaderIsRight
    <3> QED
      BY <2>1, <3>1, ReadsStayFit DEF History!ReadsFit, History!WasPayment
  <2>3. ASSUME page[r] # Null PROVE (History!PageTells(page[r]) /\ History!GoesOn(page[r], reads[r]))'
    <3>1. History!PageTells(page[r]) /\ History!GoesOn(page[r], reads[r])
      BY <2>1, <2>3 DEF ReaderIsRight
    <3>2. History!PageTells(page[r])'
      BY <2>1, <3>1, PagesStayRight DEF History!PageTells
    <3>3. History!GoesOn(page[r], reads[r])'
      BY <2>1, <3>1 DEF History!GoesOn
    <3> QED
      BY <3>2, <3>3
  <2> QED
    BY <2>1, <2>2, <2>3 DEF ReaderIsRight
<1> QED
  BY <1>1 DEF History!IInv, ReaderIsRight

\* While the payment rests, the rows go on when the timeline does.
LEMMA TimelineGoesOn ==
    ASSUME History!IInv, UNCHANGED payment, timeline' \in Seq(History!DeliveryStatuses),
           History!IsPrefix(timeline, timeline')
    PROVE  RowsGoOn
<1>1. payment # Null => payment.refunded \in Nat
  BY DEF History!IInv, History!RowsAgree, History!PaymentRows
<1> QED
  BY <1>1 DEF RowsGoOn

\* A delivery moves, and its timeline with it.
LEMMA TransitionKeeps ==
    ASSUME History!IInv, NEW to \in History!DeliveryStatuses, to \in History!ToSet(Life) \union {"CANCELLED"},
           History!Transition(to), UNCHANGED <<cancellations, payment, refunds>>, History!Write
    PROVE  History!IInv'
<1>1. timeline \in Seq(History!DeliveryStatuses) /\ timeline' = Append(timeline, to) /\ shown' = to
  BY DEF History!IInv, History!RowsAgree, History!Transition
<1>2. /\ timeline' \in Seq(History!DeliveryStatuses) /\ History!IsPrefix(timeline, timeline')
      /\ to \in History!ToSet(timeline')
  <2>1. /\ timeline' \in Seq(History!DeliveryStatuses) /\ Len(timeline) \in Nat
        /\ DOMAIN timeline' = 1 .. Len(timeline) + 1 /\ timeline'[Len(timeline) + 1] = to
    BY <1>1, Appended
  <2>2. Len(timeline) + 1 \in DOMAIN timeline'
    BY <2>1
  <2> QED
    BY <1>1, <2>1, <2>2, PrefixesChain DEF History!ToSet
<1>3. RowsGoOn
  BY <1>2, TimelineGoesOn
<1>4. History!RowsAgree'
  BY <1>1, <1>2 DEF History!IInv, History!RowsAgree
<1> QED
  BY <1>3, <1>4, WritersKeep DEF History!Write

\* The delivery goes on, or is cancelled.
LEMMA HistoryMoves ==
    ASSUME History!HistoryAssumption, History!IInv,
           History!Advance \/ \E n \in DOMAIN cancellations : History!CancelDelivery(n)
    PROVE  History!IInv'
<1>1. CASE History!Advance
  <2>1. PICK i \in 1 .. Len(Life) - 1 : History!Transition(Life[i + 1])
    BY <1>1 DEF History!Advance
  <2>2. Life[i + 1] \in History!DeliveryStatuses /\ Life[i + 1] \in History!ToSet(Life)
    <3>1. Len(Life) \in Nat /\ DOMAIN Life = 1 .. Len(Life) /\ Life \in Seq(History!DeliveryStatuses)
      BY LenProperties DEF History!HistoryAssumption
    <3>2. i + 1 \in 1 .. Len(Life)
      BY <3>1
    <3> QED
      BY <3>1, <3>2, ElementOfSeq DEF History!ToSet
  <2> QED
    BY <1>1, <2>1, <2>2, TransitionKeeps DEF History!Advance
<1>2. CASE \E n \in DOMAIN cancellations : History!CancelDelivery(n)
  <2>1. PICK n \in DOMAIN cancellations : History!CancelDelivery(n)
    BY <1>2
  <2>2. /\ History!Transition("CANCELLED") /\ "CANCELLED" \in History!DeliveryStatuses
        /\ UNCHANGED <<cancellations, payment, refunds>> /\ History!Write
    BY <2>1 DEF History!CancelDelivery, History!DeliveryStatuses
  <2> QED
    BY <2>2, TransitionKeeps
<1> QED
  BY <1>1, <1>2

\* A cancellation is recorded, and what came of it.
LEMMA HistoryCancels ==
    ASSUME History!HistoryAssumption, History!IInv,
           History!CreateCancellation \/ \E n \in DOMAIN cancellations : History!Finalize(n)
    PROVE  History!IInv'
<1>1. /\ cancellations \in Seq(History!CancellationStatuses) /\ Len(cancellations) <= MaxCancels
      /\ MaxCancels \in Nat /\ timeline \in Seq(History!DeliveryStatuses)
  BY DEF History!IInv, History!RowsAgree, History!HistoryAssumption
<1>2. /\ UNCHANGED <<shown, timeline, payment, refunds>> /\ History!Write
      /\ cancellations' \in Seq(History!CancellationStatuses) /\ Len(cancellations') <= MaxCancels
  <2>1. CASE History!CreateCancellation
    <3>1. Len(cancellations) < MaxCancels /\ cancellations' = Append(cancellations, "PROCESSING")
      BY <2>1 DEF History!CreateCancellation
    <3>2. cancellations' \in Seq(History!CancellationStatuses) /\ Len(cancellations') = Len(cancellations) + 1
          /\ Len(cancellations) \in Nat
      BY <1>1, <3>1, Appended DEF History!CancellationStatuses
    <3> QED
      BY <1>1, <2>1, <3>1, <3>2 DEF History!CreateCancellation
  <2>2. CASE \E n \in DOMAIN cancellations : History!Finalize(n)
    <3>1. PICK n \in DOMAIN cancellations : History!Finalize(n)
      BY <2>2
    <3>2. PICK ended \in {"CANCELLED", "REJECTED", "UNKNOWN"} :
              cancellations' = [cancellations EXCEPT ![n] = ended]
      BY <3>1 DEF History!Finalize
    <3>3. cancellations' \in Seq(History!CancellationStatuses) /\ Len(cancellations') = Len(cancellations)
      BY <1>1, <3>2, Replaced DEF History!CancellationStatuses
    <3> QED
      BY <1>1, <3>1, <3>3 DEF History!Finalize
  <2> QED
    BY <2>1, <2>2
<1>3. RowsGoOn
  BY <1>1, <1>2, PrefixesChain, TimelineGoesOn
<1>4. History!RowsAgree'
  BY <1>2 DEF History!IInv, History!RowsAgree
<1> QED
  BY <1>2, <1>3, <1>4, WritersKeep DEF History!Write

\* A delivery is paid for, at any price.
LEMMA HistoryPays ==
    ASSUME History!HistoryAssumption, History!IInv, NEW s, History!IsSnapshot(s), History!Pay(s)
    PROVE  History!IInv'
<1>1. /\ payment = Null /\ refunds = << >> /\ timeline \in Seq(History!DeliveryStatuses)
      /\ payment' = [amount |-> History!Charged(s), snapshot |-> s, refunded |-> 0]
      /\ UNCHANGED <<shown, timeline, cancellations, refunds>> /\ History!Write
  BY DEF History!IInv, History!RowsAgree, History!Pay
<1>2. s \in History!SnapshotRows /\ History!Charged(s) \in Nat
  BY PricesAddUp DEF History!HistoryAssumption
<1>3. RowsGoOn
  BY <1>1, PrefixesChain DEF RowsGoOn
<1>4. payment' \in History!PaymentRows /\ payment' # Null
  BY <1>1, <1>2 DEF History!PaymentRows, History!HistoryAssumption
<1>5. \A X : History!Sum(<< >>, X) = 0
  <2>1. \A X : {i \in DOMAIN << >> : << >>[i].status \in X} = {}
    OBVIOUS
  <2> QED
    BY <2>1, HistorySums, SumOfEmpty DEF History!Sum
<1>6. History!RowsAgree'
  BY <1>1, <1>2, <1>4, <1>5 DEF History!IInv, History!RowsAgree
<1> QED
  BY <1>1, <1>3, <1>6, WritersKeep DEF History!Write

\* A refund is requested of what remains.
LEMMA RequestKeepsHistory ==
    ASSUME History!HistoryAssumption, History!IInv, NEW key \in Nat, NEW amount \in Int,
           History!RequestRefund(key, amount)
    PROVE  History!IInv'
<1> DEFINE row == [key |-> key, amount |-> amount, status |-> "REQUESTED"]
           M == payment.amount
<1>1. /\ payment # Null /\ payment \in History!PaymentRows
      /\ refunds \in Seq(History!RefundRows) /\ \A i \in DOMAIN refunds : refunds[i].amount <= M
      /\ payment.refunded = History!Sum(refunds, {"SUCCESS"}) /\ timeline \in Seq(History!DeliveryStatuses)
      /\ Len(refunds) < MaxRefunds /\ MaxRefunds \in Nat
      /\ amount \in 1 .. M - History!Sum(refunds, {"REQUESTED", "SUCCESS"})
      /\ refunds' = Append(refunds, row)
      /\ UNCHANGED <<shown, timeline, cancellations, payment>> /\ History!Write
  BY DEF History!IInv, History!RowsAgree, History!RequestRefund, History!Remaining,
     History!HistoryAssumption
<1>2. M \in Nat
  BY <1>1 DEF History!PaymentRows
<1>3. History!Sum(refunds, {"REQUESTED", "SUCCESS"}) \in Nat
  BY <1>1, <1>2, RefundsAddUp
<1>4. row \in History!RefundRows /\ row.amount = amount /\ amount <= M
      /\ row.status = "REQUESTED"
  BY <1>1, <1>2, <1>3 DEF History!RefundRows
<1> HIDE DEF M, row
<1>5. /\ History!Sum(refunds', {"SUCCESS"}) = History!Sum(refunds, {"SUCCESS"})
      /\ History!Sum(refunds', {"REQUESTED", "SUCCESS"})
             = History!Sum(refunds, {"REQUESTED", "SUCCESS"}) + amount
  <2>1. /\ row \in History!RefundRows /\ row.amount <= M /\ row.status = "REQUESTED"
        /\ refunds \in Seq(History!RefundRows) /\ \A i \in DOMAIN refunds : refunds[i].amount <= M
    BY <1>1, <1>4
  <2>2. \A X : History!Sum(Append(refunds, row), X)
                   = History!Sum(refunds, X) + (IF row.status \in X THEN row.amount ELSE 0)
    BY ZenonT(30), <1>2, <2>1, RefundAppended
  <2>3. refunds' = Append(refunds, row)
    BY <1>1
  <2>4. \A X : History!Sum(refunds', X)
                   = History!Sum(refunds, X) + (IF row.status \in X THEN row.amount ELSE 0)
    BY <2>2, <2>3
  <2>5. History!Sum(refunds, {"SUCCESS"}) \in Nat
    BY <1>1, <1>2, RefundsAddUp
  <2> QED
    BY <1>4, <2>4, <2>5
<1>6. /\ refunds' \in Seq(History!RefundRows) /\ Len(refunds') <= MaxRefunds
      /\ \A i \in DOMAIN refunds' : refunds'[i].amount <= M
  <2>1. /\ refunds' \in Seq(History!RefundRows) /\ Len(refunds') = Len(refunds) + 1
        /\ Len(refunds) \in Nat /\ DOMAIN refunds = 1 .. Len(refunds)
        /\ DOMAIN refunds' = 1 .. Len(refunds) + 1 /\ refunds'[Len(refunds) + 1] = row
        /\ \A i \in 1 .. Len(refunds) : refunds'[i] = refunds[i]
    BY <1>1, <1>4, Appended
  <2>2. \A i \in 1 .. Len(refunds) + 1 : i \in 1 .. Len(refunds) \/ i = Len(refunds) + 1
    BY <2>1
  <2> QED
    BY <1>1, <1>4, <2>1, <2>2
<1>7. RowsGoOn
  BY <1>1, PrefixesChain, TimelineGoesOn
<1>8. History!RowsAgree'
  BY <1>1, <1>2, <1>3, <1>5, <1>6 DEF History!IInv, History!RowsAgree, M
<1> QED
  BY <1>1, <1>7, <1>8, WritersKeep DEF History!Write

\* A refund is requested by an administrator or after a cancellation.
LEMMA HistoryRefunds ==
    ASSUME History!HistoryAssumption, History!IInv,
           \/ History!RequestRefund(0, 1)
           \/ \E n \in DOMAIN cancellations : History!RefundPrepaid(n)
    PROVE  History!IInv'
<1>1. CASE History!RequestRefund(0, 1)
  BY <1>1, RequestKeepsHistory
<1>2. CASE \E n \in DOMAIN cancellations : History!RefundPrepaid(n)
  <2>1. PICK n \in DOMAIN cancellations : History!RefundPrepaid(n)
    BY <1>2
  <2>2. n \in Nat
    BY LenProperties DEF History!IInv, History!RowsAgree
  <2>3. History!RequestRefund(n, History!Remaining) /\ payment # Null
    BY <2>1 DEF History!RefundPrepaid
  <2>4. History!Remaining \in Int
    <3>1. /\ payment \in History!PaymentRows /\ refunds \in Seq(History!RefundRows)
          /\ \A i \in DOMAIN refunds : refunds[i].amount <= payment.amount
      BY <2>3 DEF History!IInv, History!RowsAgree
    <3>2. payment.amount \in Nat
      BY <3>1 DEF History!PaymentRows
    <3>3. History!Sum(refunds, {"REQUESTED", "SUCCESS"}) \in Nat
      BY <3>1, <3>2, RefundsAddUp
    <3> QED
      BY <3>2, <3>3 DEF History!Remaining
  <2> QED
    BY <2>2, <2>3, <2>4, RequestKeepsHistory
<1> QED
  BY <1>1, <1>2

\* A refund settles, and the payment with it.
LEMMA HistorySettles ==
    ASSUME History!HistoryAssumption, History!IInv, NEW i \in DOMAIN refunds, History!Settle(i)
    PROVE  History!IInv'
<1> DEFINE M == payment.amount
<1>1. refunds # << >>
  OBVIOUS
<1>2. /\ payment # Null /\ payment \in History!PaymentRows
      /\ refunds \in Seq(History!RefundRows) /\ \A k \in DOMAIN refunds : refunds[k].amount <= M
      /\ payment.refunded = History!Sum(refunds, {"SUCCESS"}) /\ timeline \in Seq(History!DeliveryStatuses)
      /\ History!Sum(refunds, {"REQUESTED", "SUCCESS"}) <= M
      /\ Len(refunds) <= MaxRefunds /\ refunds[i].status = "REQUESTED"
      /\ UNCHANGED <<shown, timeline, cancellations>> /\ History!Write
  BY <1>1 DEF History!IInv, History!RowsAgree, History!Settle
<1>3. M \in Nat /\ payment.refunded \in Nat /\ refunds[i].amount \in Nat
  <2>1. refunds[i] \in History!RefundRows
    BY <1>2, ElementOfSeq, LenProperties
  <2> QED
    BY <1>2, <2>1 DEF History!PaymentRows, History!RefundRows
<1>4. PICK ended \in {"SUCCESS", "FAILED"} :
          /\ refunds' = [refunds EXCEPT ![i].status = ended]
          /\ payment' = IF ended = "SUCCESS"
                        THEN [payment EXCEPT !.refunded = @ + refunds[i].amount] ELSE payment
  BY DEF History!Settle
<1> HIDE DEF M
<1>5. RowsStay(refunds, refunds') /\ AmountMoves(refunds, i, ended, refunds')
  <2>1. RefundSettles(refunds, M, i, ended, refunds')
    BY <1>2, <1>3, <1>4 DEF RefundSettles
  <2> QED
    BY <2>1, RefundSettled
<1>6. /\ payment' \in History!PaymentRows /\ payment' # Null
      /\ payment'.amount = M /\ payment'.snapshot = payment.snapshot
      /\ payment'.refunded = payment.refunded
                             + (IF ended = "SUCCESS" THEN refunds[i].amount ELSE 0)
  <2>1. payment.amount = M /\ payment.snapshot \in History!SnapshotRows
    BY <1>2 DEF History!PaymentRows, M
  <2>2. CASE ended = "SUCCESS"
    <3>1. payment' = [payment EXCEPT !.refunded = @ + refunds[i].amount]
      BY <1>4, <2>2
    <3>2. payment.refunded + refunds[i].amount \in Nat
      BY <1>3
    <3>3. /\ payment' \in History!PaymentRows /\ payment'.amount = M
          /\ payment'.snapshot = payment.snapshot
          /\ payment'.refunded = payment.refunded + refunds[i].amount
      BY <1>2, <2>1, <3>1, <3>2 DEF History!PaymentRows
    <3> QED
      BY <2>2, <3>3 DEF History!HistoryAssumption
  <2>3. CASE ended = "FAILED"
    BY <1>2, <1>3, <1>4, <2>1, <2>3
  <2> QED
    BY <2>2, <2>3
<1>7. History!Sum(refunds, {"REQUESTED", "SUCCESS"}) \in Nat
  BY <1>2, <1>3, RefundsAddUp
<1>8. /\ payment'.refunded = History!Sum(refunds', {"SUCCESS"})
      /\ History!Sum(refunds', {"REQUESTED", "SUCCESS"}) <= M
      /\ payment.refunded <= payment'.refunded /\ payment'.refunded \in Nat
  <2>1. CASE ended = "SUCCESS"
    <3>1. /\ History!Sum(refunds', {"SUCCESS"})
                 = History!Sum(refunds, {"SUCCESS"}) + refunds[i].amount
          /\ History!Sum(refunds', {"REQUESTED", "SUCCESS"})
                 = History!Sum(refunds, {"REQUESTED", "SUCCESS"})
      BY <1>5, <2>1 DEF AmountMoves
    <3> QED
      BY <1>2, <1>3, <1>6, <1>7, <2>1, <3>1
  <2>2. CASE ended = "FAILED"
    <3>1. /\ History!Sum(refunds', {"SUCCESS"}) = History!Sum(refunds, {"SUCCESS"})
          /\ History!Sum(refunds', {"REQUESTED", "SUCCESS"})
                 = History!Sum(refunds, {"REQUESTED", "SUCCESS"}) - refunds[i].amount
      BY <1>5, <2>2 DEF AmountMoves
    <3> QED
      BY <1>2, <1>3, <1>6, <1>7, <2>2, <3>1
  <2> QED
    BY <2>1, <2>2
<1>9. RowsGoOn
  BY <1>2, <1>6, <1>8, PrefixesChain DEF RowsGoOn, M
<1>10. History!RowsAgree'
  BY <1>2, <1>5, <1>6, <1>8 DEF History!IInv, History!RowsAgree, RowsStay, M
<1> QED
  BY <1>2, <1>9, <1>10, WritersKeep DEF History!Write

\* A reader that reads what is, and no older than its last page, keeps the invariant.
LEMMA ReadersKeep ==
    ASSUME History!IInv, NEW r \in Reader, NEW got, History!ReadsFit(got),
           page[r] # Null => History!GoesOn(page[r], got),
           reads' = [reads EXCEPT ![r] = got],
           UNCHANGED <<shown, timeline, cancellations, payment, refunds, page>>
    PROVE  History!IInv'
<1>1. History!RowsAgree'
  BY DEF History!IInv, History!RowsAgree
<1>2. /\ DOMAIN reads = Reader /\ DOMAIN page = Reader /\ DOMAIN reads' = Reader
      /\ reads'[r] = got /\ \A x \in Reader \ {r} : reads'[x] = reads[x]
  BY DEF History!IInv
<1>3. ASSUME NEW x \in Reader PROVE ReaderIsRight(x)'
  <2>1. ReaderIsRight(x)
    BY DEF History!IInv, ReaderIsRight
  <2>2. ReaderIsRight(x)' <=>
            /\ History!ReadsFit(reads'[x])
            /\ page[x] # Null => History!PageTells(page[x]) /\ History!GoesOn(page[x], reads'[x])
    BY DEF ReaderIsRight, History!ReadsFit, History!PageTells, History!GoesOn, History!WasPayment
  <2>3. CASE x = r
    BY <1>2, <2>1, <2>2, <2>3 DEF ReaderIsRight
  <2>4. CASE x # r
    BY <1>2, <2>1, <2>2, <2>4 DEF ReaderIsRight
  <2> QED
    BY <2>3, <2>4
<1> QED
  BY <1>1, <1>2, <1>3 DEF History!IInv, ReaderIsRight

\* The delivery is read first, and then the rest in any order.
LEMMA HistoryReads ==
    ASSUME History!HistoryAssumption, History!IInv, NEW r \in Reader,
           History!ReadDelivery(r) \/ \E q \in History!Queries : History!Query(r, q)
    PROVE  History!IInv'
<1> DEFINE old == reads[r]
<1>1. /\ History!ReadsFit(old)
      /\ page[r] # Null => History!PageTells(page[r]) /\ History!GoesOn(page[r], old)
      /\ timeline \in Seq(History!DeliveryStatuses) /\ shown \in History!ToSet(timeline)
      /\ payment # Null => payment \in History!PaymentRows /\ payment.refunded = History!Sum(refunds, {"SUCCESS"})
      /\ refunds \in Seq(History!RefundRows)
  BY DEF History!IInv, History!RowsAgree
<1>2. CASE History!ReadDelivery(r)
  <2> DEFINE got == [q \in {"delivery"} |-> shown]
  <2>1. /\ reads' = [reads EXCEPT ![r] = got]
        /\ UNCHANGED <<shown, timeline, cancellations, payment, refunds, page>>
    BY <1>2 DEF History!ReadDelivery, History!rows
  <2>2. DOMAIN got = {"delivery"} /\ got["delivery"] = shown
    OBVIOUS
  <2> HIDE DEF got
  <2>3. History!ReadsFit(got) /\ (page[r] # Null => History!GoesOn(page[r], got))
    BY <1>1, <2>2 DEF History!ReadsFit, History!GoesOn, History!Queries
  <2> QED
    BY <2>1, <2>3, ReadersKeep
<1>3. CASE \E q \in History!Queries : History!Query(r, q)
  <2>1. PICK q \in History!Queries : History!Query(r, q)
    BY <1>3
  <2> DEFINE got == [x \in DOMAIN old \union {q} |-> IF x = q THEN History!Answer(q) ELSE old[x]]
  <2>2. /\ reads' = [reads EXCEPT ![r] = got]
        /\ UNCHANGED <<shown, timeline, cancellations, payment, refunds, page>>
        /\ q # "delivery" /\ q \notin DOMAIN old /\ "delivery" \in DOMAIN old
        /\ q = "refunds" => "payment" \in DOMAIN old /\ old["payment"] # Null
    <3>1. reads' = [reads EXCEPT ![r] = got]
      BY <2>1 DEF History!Query, History!IInv
    <3> HIDE DEF got
    <3> QED
      BY <2>1, <3>1 DEF History!Query, History!rows, History!Has, History!Ready, History!Queries
  <2>3. /\ DOMAIN got = DOMAIN old \union {q} /\ got[q] = History!Answer(q)
        /\ \A x \in DOMAIN old : got[x] = old[x]
    BY <2>2
  <2> HIDE DEF got, old
  <2>4. /\ DOMAIN old \subseteq History!Queries
        /\ old["delivery"] \in History!ToSet(timeline)
        /\ "timeline" \in DOMAIN old =>
             /\ old["timeline"] \in Seq(History!DeliveryStatuses)
             /\ History!IsPrefix(old["timeline"], timeline)
             /\ old["delivery"] \in History!ToSet(old["timeline"])
        /\ "payment" \in DOMAIN old => old["payment"] = Null \/ History!WasPayment(old["payment"])
        /\ "refunds" \in DOMAIN old =>
             /\ "payment" \in DOMAIN old /\ old["payment"] # Null
             /\ old["refunds"] \in Seq(History!RefundRows)
             /\ old["payment"].refunded <= History!Sum(old["refunds"], {"SUCCESS"})
    BY <1>1, <2>2 DEF History!ReadsFit
  <2>5. DOMAIN got \subseteq History!Queries
    BY <2>3, <2>4
  <2>6. \A x : x # q => (x \in DOMAIN got <=> x \in DOMAIN old)
    BY <2>3
  <2>7. got["delivery"] = old["delivery"] /\ "delivery" \in DOMAIN got
    BY <2>2, <2>3
  <2>8. /\ "timeline" \in DOMAIN got =>
             /\ got["timeline"] \in Seq(History!DeliveryStatuses)
             /\ History!IsPrefix(got["timeline"], timeline)
             /\ got["delivery"] \in History!ToSet(got["timeline"])
        /\ page[r] # Null /\ "timeline" \in DOMAIN got
             => History!IsPrefix(page[r].timeline, got["timeline"])
    <3>1. CASE q = "timeline"
      <4>1. got["timeline"] = timeline /\ History!IsPrefix(timeline, timeline)
        BY <1>1, <2>3, <3>1, PrefixesChain DEF History!Answer
      <4>2. page[r] # Null => History!IsPrefix(page[r].timeline, timeline)
        BY <1>1 DEF History!PageTells
      <4> QED
        BY <1>1, <2>4, <2>7, <4>1, <4>2
    <3>2. CASE q # "timeline"
      <4>1. "timeline" \in DOMAIN got => "timeline" \in DOMAIN old /\ got["timeline"] = old["timeline"]
        BY <2>3, <2>6, <3>2
      <4>2. page[r] # Null /\ "timeline" \in DOMAIN old
            => History!IsPrefix(page[r].timeline, old["timeline"])
        BY <1>1 DEF History!GoesOn
      <4> QED
        BY <2>4, <2>7, <4>1, <4>2
    <3> QED
      BY <3>1, <3>2
  <2>9. /\ "payment" \in DOMAIN got => got["payment"] = Null \/ History!WasPayment(got["payment"])
        /\ page[r] # Null /\ "payment" \in DOMAIN got /\ page[r].payment # Null =>
             got["payment"] # Null /\ page[r].payment.refundedAmount <= got["payment"].refunded
    <3>1. CASE q = "payment"
      <4>1. got["payment"] = payment
        BY <2>3, <3>1 DEF History!Answer
      <4>2. payment # Null => History!WasPayment(payment)
        BY <1>1 DEF History!WasPayment, History!PaymentRows
      <4>3. page[r] # Null /\ page[r].payment # Null =>
              payment # Null /\ page[r].payment.refundedAmount <= payment.refunded
        BY <1>1 DEF History!PageTells
      <4> QED
        BY <4>1, <4>2, <4>3
    <3>2. CASE q # "payment"
      <4>1. "payment" \in DOMAIN got => "payment" \in DOMAIN old /\ got["payment"] = old["payment"]
        BY <2>3, <2>6, <3>2
      <4>2. page[r] # Null /\ "payment" \in DOMAIN old /\ page[r].payment # Null =>
              old["payment"] # Null /\ page[r].payment.refundedAmount <= old["payment"].refunded
        BY <1>1 DEF History!GoesOn
      <4> QED
        BY <2>4, <4>1, <4>2
    <3> QED
      BY <3>1, <3>2
  <2>10. "refunds" \in DOMAIN got =>
             /\ "payment" \in DOMAIN got /\ got["payment"] # Null
             /\ got["refunds"] \in Seq(History!RefundRows)
             /\ got["payment"].refunded <= History!Sum(got["refunds"], {"SUCCESS"})
    <3>1. CASE q = "refunds"
      <4>1. got["refunds"] = refunds
        BY <2>3, <3>1 DEF History!Answer
      <4>2. "payment" \in DOMAIN got /\ got["payment"] = old["payment"] /\ old["payment"] # Null
        BY <2>2, <2>3, <3>1
      <4>3. old["payment"].refunded <= payment.refunded /\ payment # Null
        BY <2>2, <2>4, <3>1 DEF History!WasPayment
      <4> QED
        BY <1>1, <4>1, <4>2, <4>3
    <3>2. CASE q # "refunds"
      <4> SUFFICES ASSUME "refunds" \in DOMAIN got
                   PROVE  /\ "payment" \in DOMAIN got /\ got["payment"] = old["payment"]
                          /\ "refunds" \in DOMAIN old /\ got["refunds"] = old["refunds"]
        BY <2>4
      <4>1. "refunds" \in DOMAIN old
        BY <2>6, <3>2
      <4>2. "payment" \in DOMAIN old
        BY <2>4, <4>1
      <4> QED
        BY <2>3, <4>1, <4>2
    <3> QED
      BY <3>1, <3>2
  <2>11. History!ReadsFit(got)
    BY <2>4, <2>5, <2>7, <2>8, <2>9, <2>10 DEF History!ReadsFit
  <2>12. page[r] # Null => History!GoesOn(page[r], got)
    BY <2>8, <2>9 DEF History!GoesOn
  <2> QED
    BY <2>2, <2>11, <2>12, ReadersKeep
<1> QED
  BY <1>2, <1>3

\* The refund linked to a cancellation is one of the list, with its key.
LEMMA LinkedRefundIsOfList ==
    ASSUME NEW list \in Seq(History!RefundRows), NEW id, History!LinkedRefund(id, list) # Null
    PROVE  /\ History!LinkedRefund(id, list) \in History!ToSet(list)
           /\ History!LinkedRefund(id, list).key = id
<1> DEFINE linked == {i \in DOMAIN list : list[i].key = id}
           least(i) == \A j \in linked : i <= j
<1>1. linked # {} /\ History!LinkedRefund(id, list) = list[CHOOSE i \in linked : least(i)]
  BY DEF History!LinkedRefund
<1>2. linked \in SUBSET Nat
  BY LenProperties
<1>3. \E i \in linked : least(i)
  <2> HIDE DEF linked
  <2> QED
    BY <1>1, <1>2, LeastElement
<1>4. (CHOOSE i \in linked : least(i)) \in linked
  <2> HIDE DEF linked, least
  <2> QED
    BY <1>3
<1> QED
  BY <1>1, <1>4 DEF History!ToSet

\* A page that is composed tells of the rows, and of what its reader had read.
LEMMA PageComposed ==
    ASSUME History!HistoryAssumption, History!IInv, NEW r \in Reader, History!Compose(r),
           NEW p, p = History!Detail(reads[r])
    PROVE  /\ History!PageTells(p) /\ p.timeline = reads[r]["timeline"]
           /\ "timeline" \in DOMAIN reads[r] /\ "payment" \in DOMAIN reads[r]
           /\ reads[r]["payment"] # Null =>
                p.payment # Null /\ p.payment.refundedAmount = reads[r]["payment"].refunded
<1> DEFINE got == reads[r]
           list == IF got["payment"] = Null THEN << >> ELSE got["refunds"]
           c == got["cancellation"]
<1>1. /\ {"delivery", "timeline", "cancellation", "payment"} \subseteq DOMAIN got
      /\ got["payment"] # Null => "refunds" \in DOMAIN got
  BY DEF History!Compose, History!Has, History!Queries
<1>2. History!ReadsFit(got)
  BY DEF History!IInv
<1>3. /\ got["timeline"] \in Seq(History!DeliveryStatuses) /\ History!IsPrefix(got["timeline"], timeline)
      /\ got["delivery"] \in History!ToSet(got["timeline"])
      /\ got["payment"] # Null =>
            /\ History!WasPayment(got["payment"]) /\ got["refunds"] \in Seq(History!RefundRows)
            /\ got["payment"].refunded <= History!Sum(got["refunds"], {"SUCCESS"})
  BY <1>1, <1>2 DEF History!ReadsFit
<1>4. /\ p.status = got["delivery"] /\ p.timeline = got["timeline"]
      /\ p.cancellation = History!mapCancellation(c, list)
      /\ p.payment = History!mapPaymentHistorySection(got["payment"], list)
  BY DEF History!Detail
<1>5. list \in Seq(History!RefundRows)
  BY <1>3
<1> HIDE DEF got
<1>6. ASSUME got["payment"] # Null
      PROVE  /\ p.payment # Null /\ p.payment.refundedAmount = got["payment"].refunded
             /\ payment # Null /\ p.payment.refundedAmount \in Nat
             /\ p.payment.refundedAmount <= payment.refunded
             /\ p.payment.refundedAmount <= History!Sum(p.payment.refunds, {"SUCCESS"})
             /\ History!Explains(p.payment) /\ p.payment.refunds = list
  <2>1. /\ payment # Null /\ got["payment"] \in History!PaymentRows
        /\ got["payment"].amount = payment.amount /\ got["payment"].snapshot = payment.snapshot
        /\ got["payment"].refunded <= payment.refunded
    BY <1>3, <1>6 DEF History!WasPayment
  <2>2. /\ History!IsSnapshot(payment.snapshot)
        /\ payment.amount = History!Charged(payment.snapshot)
    BY <2>1 DEF History!IInv, History!RowsAgree
  <2> DEFINE b == History!PricingBreakdown(payment.snapshot)
  <2>3. /\ b \in History!BreakdownRows /\ b.payable = payment.amount
        /\ b.subtotal + b.gst = b.payable /\ b.providerQuote + b.fee = b.subtotal
    BY <2>2, PricesAddUp DEF History!HistoryAssumption
  <2> HIDE DEF b, list
  <2>4. p.payment = [amount |-> payment.amount, refundedAmount |-> got["payment"].refunded,
                     breakdown |-> b, refunds |-> list]
    BY <1>4, <1>6, <2>1 DEF History!mapPaymentHistorySection, b
  <2>5. got["payment"].refunded \in Nat /\ payment.amount \in Nat
    BY <2>1 DEF History!PaymentRows
  <2>6. p.payment \in History!PaymentSections
    BY <1>5, <2>3, <2>4, <2>5 DEF History!PaymentSections
  <2>7. p.payment # Null
    BY <2>6 DEF History!HistoryAssumption
  <2>8. History!Explains(p.payment)
    BY <2>3, <2>4 DEF History!Explains
  <2>9. list = got["refunds"]
    BY <1>6 DEF list
  <2> QED
    BY <1>3, <1>6, <2>1, <2>4, <2>5, <2>7, <2>8, <2>9
<1>7. ASSUME p.cancellation # Null, p.cancellation.refund # Null
      PROVE  /\ p.cancellation.status = "CANCELLED"
             /\ p.cancellation.refund.key = p.cancellation.id
             /\ p.cancellation.refund \in History!ToSet(p.payment.refunds)
  <2> HIDE DEF c
  <2>1. c # Null /\ p.cancellation =
            [id |-> c.id, status |-> c.status,
             refund |-> IF c.status = "CANCELLED" THEN History!LinkedRefund(c.id, list) ELSE Null]
    <3> HIDE DEF list
    <3> QED
      BY <1>4, <1>7 DEF History!mapCancellation
  <2>2. /\ c.status = "CANCELLED" /\ p.cancellation.refund = History!LinkedRefund(c.id, list)
        /\ p.cancellation.id = c.id /\ p.cancellation.status = "CANCELLED"
    <3> HIDE DEF list
    <3> QED
      BY <1>7, <2>1
  <2>3. /\ History!LinkedRefund(c.id, list) \in History!ToSet(list)
        /\ History!LinkedRefund(c.id, list).key = c.id
    <3> HIDE DEF list
    <3> QED
      BY <1>5, <1>7, <2>2, LinkedRefundIsOfList
  <2>4. got["payment"] # Null
    <3> SUFFICES ASSUME got["payment"] = Null PROVE FALSE
      OBVIOUS
    <3>1. list = << >>
      OBVIOUS
    <3> QED
      BY <2>3, <3>1 DEF History!ToSet
  <2> QED
    BY <1>6, <2>2, <2>3, <2>4
<1>8. p.payment # Null => got["payment"] # Null
  <2> HIDE DEF list
  <2> QED
    BY <1>4 DEF History!mapPaymentHistorySection
<1>9. History!PageTells(p)
  <2> HIDE DEF list, c
  <2> QED
    BY <1>3, <1>4, <1>6, <1>7, <1>8 DEF History!PageTells
<1> QED
  BY <1>1, <1>4, <1>6, <1>9 DEF got
\* A page is composed, and its reader begins anew.
LEMMA HistoryComposes ==
    ASSUME History!HistoryAssumption, History!IInv, NEW r \in Reader, History!Compose(r)
    PROVE  History!IInv'
<1>1. PICK p : p = History!Detail(reads[r])
  OBVIOUS
<1>2. History!PageTells(p)
  BY <1>1, PageComposed
<1>3. /\ page' = [page EXCEPT ![r] = p] /\ reads' = [reads EXCEPT ![r] = << >>]
      /\ UNCHANGED <<shown, timeline, cancellations, payment, refunds>>
  BY <1>1 DEF History!Compose, History!rows
<1>4. History!RowsAgree'
  BY <1>3 DEF History!IInv, History!RowsAgree
<1>5. /\ DOMAIN reads' = Reader /\ DOMAIN page' = Reader
      /\ reads'[r] = << >> /\ page'[r] = p
      /\ \A x \in Reader \ {r} : reads'[x] = reads[x] /\ page'[x] = page[x]
  BY <1>3 DEF History!IInv
<1>6. History!ReadsFit(<< >>) /\ History!GoesOn(p, << >>)
  <2>1. DOMAIN << >> = {}
    OBVIOUS
  <2> QED
    BY <2>1 DEF History!ReadsFit, History!GoesOn
<1>7. ASSUME NEW x \in Reader PROVE ReaderIsRight(x)'
  <2>1. ReaderIsRight(x)
    BY DEF History!IInv, ReaderIsRight
  <2>2. ReaderIsRight(x)' <=>
            /\ History!ReadsFit(reads'[x])
            /\ page'[x] # Null => History!PageTells(page'[x]) /\ History!GoesOn(page'[x], reads'[x])
    BY <1>3 DEF ReaderIsRight, History!ReadsFit, History!PageTells, History!GoesOn,
       History!WasPayment
  <2>3. CASE x = r
    BY <1>2, <1>5, <1>6, <2>2, <2>3
  <2>4. CASE x # r
    BY <1>5, <2>1, <2>2, <2>4 DEF ReaderIsRight
  <2> QED
    BY <2>3, <2>4
<1> QED
  BY <1>4, <1>5, <1>7 DEF History!IInv, ReaderIsRight

\* What the two instances compute is the same: they differ in their prices and bounds.
LEMMA PricesComputeAlike ==
    /\ \A q, n : Prices!Priced(q, n) = History!Priced(q, n)
    /\ \A s : Prices!Charged(s) = History!Charged(s)
    /\ \A s : Prices!PricingBreakdown(s) = History!PricingBreakdown(s)
    /\ \A s : Prices!IsSnapshot(s) <=> History!IsSnapshot(s)
    /\ \A q : Prices!Answer(q) = History!Answer(q)
    /\ \A got : Prices!Detail(got) = History!Detail(got)
<1>1. /\ \A n : Prices!roundCurrency(n) = History!roundCurrency(n)
      /\ Prices!GST_PERCENT = History!GST_PERCENT
      /\ Prices!LEGACY_DEFAULT_PLATFORM_FEE_PERCENT = History!LEGACY_DEFAULT_PLATFORM_FEE_PERCENT
  BY DEF Prices!roundCurrency, History!roundCurrency, Prices!GST_PERCENT, History!GST_PERCENT,
     Prices!LEGACY_DEFAULT_PLATFORM_FEE_PERCENT, History!LEGACY_DEFAULT_PLATFORM_FEE_PERCENT
<1>2. \A q, n : Prices!Priced(q, n) = History!Priced(q, n)
  BY <1>1 DEF Prices!Priced, History!Priced
<1>3. \A s : Prices!Charged(s) = History!Charged(s)
  BY <1>1, <1>2 DEF Prices!Charged, History!Charged
<1>4. \A s : Prices!PricingBreakdown(s) = History!PricingBreakdown(s)
  BY <1>1, <1>2 DEF Prices!PricingBreakdown, History!PricingBreakdown
<1>5. \A s : Prices!IsSnapshot(s) <=> History!IsSnapshot(s)
  <2>1. \A q, n : Prices!Enriched(q, n) = History!Enriched(q, n) /\ Prices!Legacy(q) = History!Legacy(q)
    BY <1>2 DEF Prices!Enriched, History!Enriched, Prices!Legacy, History!Legacy
  <2> QED
    BY <2>1 DEF Prices!IsSnapshot, History!IsSnapshot
<1>6. \A q : Prices!Answer(q) = History!Answer(q)
  BY DEF Prices!Answer, History!Answer, Prices!LatestCancellation, History!LatestCancellation,
     Prices!Last, History!Last
<1>7. \A got : Prices!Detail(got) = History!Detail(got)
  <2>1. \A c, list : Prices!mapCancellation(c, list) = History!mapCancellation(c, list)
    BY DEF Prices!mapCancellation, History!mapCancellation, Prices!LinkedRefund, History!LinkedRefund
  <2>2. \A p, list : Prices!mapPaymentHistorySection(p, list) = History!mapPaymentHistorySection(p, list)
    BY <1>4 DEF Prices!mapPaymentHistorySection, History!mapPaymentHistorySection
  <2> QED
    BY <2>1, <2>2 DEF Prices!Detail, History!Detail
<1> QED
  BY <1>2, <1>3, <1>4, <1>5, <1>6, <1>7

\* Where many prices are paid, and nothing is cancelled or refunded, the steps are those of
\* the page of few, but for the price.
LEMMA PricesArePages ==
    ASSUME History!IInv, Prices!HistoryAssumption, Prices!Next
    PROVE  History!Next \/ \E s : History!IsSnapshot(s) /\ History!Pay(s)
<1>1. Prices!Write <=> History!Write
  BY DEF Prices!Write, History!Write
<1>2. Len(cancellations) \in Nat /\ Len(refunds) \in Nat
  BY LenProperties DEF History!IInv, History!RowsAgree
<1>3. CASE Prices!Advance
  BY <1>1, <1>3 DEF Prices!Advance, History!Advance, Prices!Transition, History!Transition, History!Next
<1>4. CASE Prices!CreateCancellation
  BY <1>2, <1>4 DEF Prices!CreateCancellation
<1>5. CASE \E s \in Tariffs : Prices!Pay(s)
  <2>1. PICK s \in Tariffs : Prices!Pay(s)
    BY <1>5
  <2>2. History!IsSnapshot(s)
    BY PricesComputeAlike DEF Prices!HistoryAssumption
  <2>3. History!Pay(s)
    BY <1>1, <2>1, PricesComputeAlike DEF Prices!Pay, History!Pay
  <2> QED
    BY <2>2, <2>3
<1>6. CASE \E n \in DOMAIN cancellations : Prices!Finalize(n) \/ Prices!CancelDelivery(n)
  <2>1. PICK n \in DOMAIN cancellations : Prices!Finalize(n) \/ Prices!CancelDelivery(n)
    BY <1>6
  <2>2. History!Finalize(n) \/ History!CancelDelivery(n)
    BY <1>1, <2>1 DEF Prices!Finalize, History!Finalize, Prices!CancelDelivery, History!CancelDelivery,
       Prices!Transition, History!Transition
  <2> QED
    BY <2>2 DEF History!Next
<1>7. CASE \/ Prices!RequestRefund(0, 1)
           \/ \E n \in DOMAIN cancellations : Prices!RefundPrepaid(n)
  <2>1. \A key, amount : ~Prices!RequestRefund(key, amount)
    BY <1>2 DEF Prices!RequestRefund
  <2> QED
    BY <1>7, <2>1 DEF Prices!RefundPrepaid
<1>8. CASE \E i \in DOMAIN refunds : Prices!Settle(i)
  <2>1. PICK i \in DOMAIN refunds : Prices!Settle(i)
    BY <1>8
  <2>2. History!Settle(i)
    BY <1>1, <2>1 DEF Prices!Settle, History!Settle
  <2> QED
    BY <2>2 DEF History!Next
<1>9. CASE \E r \in Reader : \/ Prices!ReadDelivery(r) \/ Prices!Compose(r)
                             \/ \E q \in Prices!Queries : Prices!Query(r, q)
  <2>1. PICK r \in Reader : \/ Prices!ReadDelivery(r) \/ Prices!Compose(r)
                            \/ \E q \in Prices!Queries : Prices!Query(r, q)
    BY <1>9
  <2>2. /\ Prices!rows = History!rows /\ Prices!Queries = History!Queries
        /\ \A q : Prices!Has(r, q) <=> History!Has(r, q)
    BY DEF Prices!rows, History!rows, Prices!Queries, History!Queries, Prices!Has, History!Has
  <2>3. \A q : Prices!Ready(r, q) <=> History!Ready(r, q)
    BY <2>2 DEF Prices!Ready, History!Ready
  <2>4. Prices!ReadDelivery(r) => History!ReadDelivery(r)
    BY DEF Prices!ReadDelivery, History!ReadDelivery, Prices!rows, History!rows
  <2>5. Prices!Compose(r) => History!Compose(r)
    BY <2>2, PricesComputeAlike DEF Prices!Compose, History!Compose, Prices!rows, History!rows
  <2>6. ASSUME NEW q \in Prices!Queries, Prices!Query(r, q) PROVE History!Query(r, q)
    BY <2>2, <2>3, <2>6, PricesComputeAlike DEF Prices!Query, History!Query, Prices!rows, History!rows
  <2> QED
    BY <2>1, <2>2, <2>4, <2>5, <2>6 DEF History!Next
<1> QED
  BY <1>3, <1>4, <1>5, <1>6, <1>7, <1>8, <1>9 DEF Prices!Next

\* Every step of the page and of the rows it tells of keeps the invariant.
LEMMA HistoryInductive ==
    ASSUME History!HistoryAssumption
    PROVE  /\ History!Init => History!IInv
           /\ History!IInv /\ [History!Next]_historyVars => History!IInv'
           /\ \A s : History!IInv /\ History!IsSnapshot(s) /\ History!Pay(s) => History!IInv'
<1>1. ASSUME History!Init PROVE History!IInv
  <2>1. /\ shown = Life[1] /\ timeline = <<Life[1]>> /\ cancellations = << >>
        /\ payment = Null /\ refunds = << >>
        /\ reads = [r \in Reader |-> << >>] /\ page = [r \in Reader |-> Null]
    BY <1>1 DEF History!Init
  <2>2. Life[1] \in History!DeliveryStatuses /\ Life[1] \in History!ToSet(Life)
    <3>1. Len(Life) \in Nat /\ Len(Life) # 0 /\ DOMAIN Life = 1 .. Len(Life)
          /\ Life \in Seq(History!DeliveryStatuses)
      BY LenProperties, EmptySeq DEF History!HistoryAssumption
    <3>2. 1 \in 1 .. Len(Life)
      BY <3>1
    <3> QED
      BY <3>1, <3>2, ElementOfSeq DEF History!ToSet
  <2>3. timeline \in Seq(History!DeliveryStatuses) /\ shown \in History!ToSet(timeline)
    <3>1. DOMAIN timeline = {1} /\ timeline[1] = Life[1]
      BY <2>1
    <3> QED
      BY <2>1, <2>2, <3>1 DEF History!ToSet
  <2>4. History!RowsAgree
    <3>1. cancellations \in Seq(History!CancellationStatuses) /\ Len(cancellations) = 0
          /\ refunds \in Seq(History!RefundRows) /\ Len(refunds) = 0
      BY <2>1
    <3> QED
      BY <2>1, <2>2, <2>3, <3>1 DEF History!RowsAgree, History!HistoryAssumption
  <2>5. ASSUME NEW r \in Reader
        PROVE  History!ReadsFit(reads[r]) /\ page[r] = Null
    <3>1. DOMAIN << >> = {} /\ reads[r] = << >> /\ page[r] = Null
      BY <2>1
    <3> QED
      BY <3>1 DEF History!ReadsFit
  <2>6. DOMAIN reads = Reader /\ DOMAIN page = Reader
    BY <2>1
  <2> QED
    BY <2>4, <2>5, <2>6 DEF History!IInv
<1>2. ASSUME History!IInv, History!Next PROVE History!IInv'
  <2>1. CASE History!Advance \/ \E n \in DOMAIN cancellations : History!CancelDelivery(n)
    BY <1>2, <2>1, HistoryMoves
  <2>2. CASE History!CreateCancellation \/ \E n \in DOMAIN cancellations : History!Finalize(n)
    BY <1>2, <2>2, HistoryCancels
  <2>3. CASE \E s \in Snapshots : History!Pay(s)
    <3>1. PICK s \in Snapshots : History!Pay(s)
      BY <2>3
    <3>2. History!IsSnapshot(s)
      BY DEF History!HistoryAssumption
    <3> QED
      BY <1>2, <3>1, <3>2, HistoryPays
  <2>4. CASE \/ History!RequestRefund(0, 1)
             \/ \E n \in DOMAIN cancellations : History!RefundPrepaid(n)
    BY <1>2, <2>4, HistoryRefunds
  <2>5. CASE \E i \in DOMAIN refunds : History!Settle(i)
    BY <1>2, <2>5, HistorySettles
  <2>6. CASE \E r \in Reader : \/ History!ReadDelivery(r)
                               \/ \E q \in History!Queries : History!Query(r, q)
    BY <1>2, <2>6, HistoryReads
  <2>7. CASE \E r \in Reader : History!Compose(r)
    BY <1>2, <2>7, HistoryComposes
  <2> QED
    BY <1>2, <2>1, <2>2, <2>3, <2>4, <2>5, <2>6, <2>7 DEF History!Next
<1>3. ASSUME History!IInv, UNCHANGED historyVars PROVE History!IInv'
  <2>1. UNCHANGED <<shown, timeline, cancellations, payment, refunds, reads, page>>
    BY <1>3 DEF historyVars
  <2>2. RowsGoOn
    BY <1>3, <2>1, PrefixesChain, TimelineGoesOn DEF History!IInv, History!RowsAgree
  <2>3. History!RowsAgree'
    BY <1>3, <2>1 DEF History!IInv, History!RowsAgree
  <2> QED
    BY <1>3, <2>1, <2>2, <2>3, WritersKeep
<1> QED
  BY <1>1, <1>2, <1>3, HistoryPays

\* What the invariant says of the pages that are shown.
LEMMA HistoryShows ==
    ASSUME History!HistoryAssumption, History!IInv
    PROVE  /\ History!TypeOK /\ History!StatusIsOnTimeline /\ History!RefundedIsListed
           /\ History!RefundBelongs /\ History!ChargedIsExplained
<1>1. \A p \in History!Shown : History!PageTells(p)
  BY DEF History!IInv, History!Shown
<1>2. History!TypeOK
  <2>1. payment # Null => payment.refunded \in 0 .. payment.amount
    <3> SUFFICES ASSUME payment # Null PROVE payment.refunded \in 0 .. payment.amount
      OBVIOUS
    <3>1. /\ payment \in History!PaymentRows /\ refunds \in Seq(History!RefundRows)
          /\ \A i \in DOMAIN refunds : refunds[i].amount <= payment.amount
          /\ payment.refunded = History!Sum(refunds, {"SUCCESS"})
          /\ History!Sum(refunds, {"REQUESTED", "SUCCESS"}) <= payment.amount
      BY DEF History!IInv, History!RowsAgree
    <3>2. payment.amount \in Nat /\ payment.refunded \in Nat
      BY <3>1 DEF History!PaymentRows
    <3>3. /\ History!Sum(refunds, {"REQUESTED", "SUCCESS"}) \in Nat
          /\ History!Sum(refunds, {"SUCCESS"}) <= History!Sum(refunds, {"REQUESTED", "SUCCESS"})
      <4>1. {"SUCCESS"} \subseteq {"REQUESTED", "SUCCESS"}
        OBVIOUS
      <4> QED
        BY <3>1, <3>2, <4>1, RefundsAddUp
    <3> QED
      BY <3>1, <3>2, <3>3
  <2> QED
    BY <2>1 DEF History!TypeOK, History!IInv, History!RowsAgree, History!ReadsFit
<1>3. History!StatusIsOnTimeline
  BY <1>1 DEF History!StatusIsOnTimeline, History!PageTells
<1>4. History!RefundedIsListed
  BY <1>1 DEF History!RefundedIsListed, History!PageTells
<1>5. History!RefundBelongs
  BY <1>1 DEF History!RefundBelongs, History!PageTells
<1>6. History!ChargedIsExplained
  BY <1>1 DEF History!ChargedIsExplained, History!PageTells, History!Explains
<1> QED
  BY <1>2, <1>3, <1>4, <1>5, <1>6

\* A later page of a reader takes nothing back of an earlier one.
PagesGoOn ==
    \A r \in Reader : (page[r] # Null) =>
        /\ History!IsPrefix(page[r].timeline, page'[r].timeline)
        /\ page[r].payment # Null =>
               /\ page'[r].payment # Null
               /\ page'[r].payment.refundedAmount >= page[r].payment.refundedAmount

\* Only the composition of a page changes it, and to one that goes on from it.
LEMMA HistoryGoesForward ==
    ASSUME History!HistoryAssumption, History!IInv,
           UNCHANGED page \/ \E r \in Reader : History!Compose(r)
    PROVE  PagesGoOn
<1> SUFFICES ASSUME NEW r \in Reader, page[r] # Null
             PROVE  /\ History!IsPrefix(page[r].timeline, page'[r].timeline)
                    /\ page[r].payment # Null =>
                         /\ page'[r].payment # Null
                         /\ page'[r].payment.refundedAmount >= page[r].payment.refundedAmount
  BY DEF PagesGoOn
<1>1. /\ page[r].timeline \in Seq(History!DeliveryStatuses)
      /\ page[r].payment # Null => page[r].payment.refundedAmount \in Nat
      /\ History!GoesOn(page[r], reads[r]) /\ DOMAIN page = Reader
  BY DEF History!IInv, History!PageTells
<1>2. CASE page'[r] = page[r]
  BY <1>1, <1>2, PrefixesChain
<1>3. CASE History!Compose(r)
  <2>1. PICK p : p = History!Detail(reads[r])
    OBVIOUS
  <2>2. page'[r] = p
    BY <1>1, <1>3, <2>1 DEF History!Compose
  <2>3. /\ p.timeline = reads[r]["timeline"]
        /\ "timeline" \in DOMAIN reads[r] /\ "payment" \in DOMAIN reads[r]
        /\ reads[r]["payment"] # Null =>
             p.payment # Null /\ p.payment.refundedAmount = reads[r]["payment"].refunded
        /\ History!PageTells(p)
    BY <1>3, <2>1, PageComposed
  <2>4. /\ History!IsPrefix(page[r].timeline, reads[r]["timeline"])
        /\ page[r].payment # Null =>
             /\ reads[r]["payment"] # Null
             /\ page[r].payment.refundedAmount <= reads[r]["payment"].refunded
    BY <1>1, <2>3 DEF History!GoesOn
  <2>5. p.payment # Null => p.payment.refundedAmount \in Nat
    BY <2>3 DEF History!PageTells
  <2> QED
    BY <1>1, <2>2, <2>3, <2>4, <2>5
<1>4. CASE \E x \in Reader : x # r /\ History!Compose(x)
  <2>1. page'[r] = page[r]
    BY <1>1, <1>4 DEF History!Compose
  <2> QED
    BY <1>2, <2>1
<1> QED
  BY <1>2, <1>3, <1>4
-----------------------------------------------------------------------------
(* FinanceReconciliation.                                                  *)

\* The sums of the reconciliation are those of Money, and so are its finite sets.
LEMMA BookSums ==
    /\ \A a, S : Books!SumOf(a, S) = SumOf(a, S)
    /\ \A S : Books!IsFiniteSet(S) <=> IsFiniteSet(S)
    /\ \A S : Books!Cardinality(S) = Cardinality(S)
<1>1. \A S : Books!Cardinality(S) = Cardinality(S)
  BY DEF Books!Cardinality, Cardinality
<1>2. \A a, S : Books!Units(a, S) = Units(a, S)
  BY DEF Books!Units, Units
<1>3. \A S : Books!IsFiniteSet(S) <=> IsFiniteSet(S)
  BY DEF Books!IsFiniteSet, IsFiniteSet
<1> QED
  BY <1>1, <1>2, <1>3 DEF Books!SumOf, SumOf

\* What the sum of a payment's successful refunds depends on.
LEMMA SuccessesAddUp ==
    ASSUME NEW p, NEW one, NEW other,
           Books!Successes(p, one) = Books!Successes(p, other),
           \A r \in Books!Successes(p, one) : one[r].amount = other[r].amount
    PROVE  SumOf(Books!Amounts(one), Books!Successes(p, one))
              = SumOf(Books!Amounts(other), Books!Successes(p, other))
<1> DEFINE S == Books!Successes(p, one)
<1>1. \A r \in S : r \in DOMAIN one /\ r \in DOMAIN other
  BY DEF Books!Successes
<1>2. \A r \in S : Books!Amounts(one)[r] = Books!Amounts(other)[r]
  BY <1>1 DEF Books!Amounts
<1> HIDE DEF S
<1>3. SumOf(Books!Amounts(one), S) = SumOf(Books!Amounts(other), S)
  BY <1>2, SumOfExtensional
<1> QED
  BY <1>3 DEF S

\* An honest payment stays so while what is looked at of it stays as it is.
LEMMA HonestLooksAt ==
    ASSUME NEW p, NEW row, NEW given, NEW entries, NEW row1, NEW given1, NEW entries1,
           Books!Honest(p, row, given, entries),
           row1.status \in Books!Captured <=> row.status \in Books!Captured,
           row1.refunded = row.refunded,
           Books!Credits(p, entries1) = Books!Credits(p, entries),
           Books!Successes(p, given1) = Books!Successes(p, given),
           \A r \in Books!Successes(p, given) :
               /\ given1[r].amount = given[r].amount
               /\ Books!Debits(r, entries1) = Books!Debits(r, entries)
    PROVE  Books!Honest(p, row1, given1, entries1)
<1>1. SumOf(Books!Amounts(given1), Books!Successes(p, given1))
         = SumOf(Books!Amounts(given), Books!Successes(p, given))
  BY SuccessesAddUp
<1> QED
  BY <1>1, BookSums DEF Books!Honest

\* An entry of the database is of its refund's payment.
LEMMA EntriesHaveOwners ==
    ASSUME NEW given, NEW entries, \A e \in entries : Books!EntryBelongs(e, Payments, given)
    PROVE  \A e \in entries :
               /\ e.payment \in Payments
               /\ e.type = "REFUND" => e.refund \in DOMAIN given /\ given[e.refund].payment = e.payment
  BY DEF Books!EntryBelongs

\* The rows of the database tell of every payment.
LEMMA TallyOfRows ==
    ASSUME NEW rows \in [Payments -> Books!PaymentRows],
           NEW given \in [Refunds -> Books!RefundRows],
           NEW entries \in SUBSET Books!EntryRows, IsFiniteSet(entries),
           \A e \in entries : Books!EntryBelongs(e, Payments, given),
           \A p \in Payments \ damaged : Books!Honest(p, rows[p], given, entries)
    PROVE  Books!Tally(Payments, {}, rows, given, entries)
<1>1. DOMAIN given = Refunds
  OBVIOUS
<1>2. \A e \in entries :
          /\ e.payment \in Payments
          /\ e.type = "REFUND" => e.refund \in DOMAIN given /\ given[e.refund].payment = e.payment
  BY EntriesHaveOwners
<1> QED
  BY <1>1, <1>2, BookSums DEF Books!Tally

\* And so do the rows after a step.
LEMMA TallyOfNextRows ==
    ASSUME pay' \in [Payments -> Books!PaymentRows],
           refund' \in [Refunds -> Books!RefundRows],
           ledger' \subseteq Books!EntryRows, IsFiniteSet(ledger'),
           \A e \in ledger' : Books!EntryBelongs(e, Payments, refund'),
           \A p \in Payments \ damaged' : Books!Honest(p, pay'[p], refund', ledger')
    PROVE  Books!Tally(Payments, {}, pay, refund, ledger)'
<1>1. DOMAIN refund' = Refunds
  OBVIOUS
<1>2. \A e \in ledger' :
          /\ e.payment \in Payments
          /\ e.type = "REFUND" => e.refund \in DOMAIN refund' /\ refund'[e.refund].payment = e.payment
  BY EntriesHaveOwners
<1> QED
  BY <1>1, <1>2, BookSums DEF Books!Tally

\* What is read of some payments tells of those that nobody wrote since, when an entry and
\* its refund are of one payment, and of those payments the rows that were read are the
\* rows there are.
LEMMA ReadingTells ==
    ASSUME Books!Tally(Payments, {}, pay, refund, ledger), DOMAIN refund = Refunds,
           NEW some \in SUBSET Payments, NEW raced,
           NEW rows \in [Payments -> Books!PaymentRows],
           NEW rs, DOMAIN rs \subseteq Refunds, rs \in [DOMAIN rs -> Books!RefundRows],
           NEW es \in SUBSET Books!EntryRows, IsFiniteSet(es),
           \A p \in some \ raced : rows[p] = pay[p],
           \A r \in DOMAIN rs : refund[r].payment = rs[r].payment,
           \A r \in Refunds : refund[r].payment \in some \ raced => r \in DOMAIN rs /\ rs[r] = refund[r],
           \A e \in es : /\ e.payment \in some
                         /\ e.type = "REFUND" =>
                               e.refund \in Refunds /\ refund[e.refund].payment = e.payment,
           \A e \in Books!EntryRows : e.payment \in some \ raced => (e \in es <=> e \in ledger)
    PROVE  Books!Tally(some, raced, rows, rs, es)
<1>1. /\ \A e \in ledger : Books!EntryBelongs(e, Payments, refund)
      /\ \A p \in Payments \ damaged : Books!Honest(p, pay[p], refund, ledger)
      /\ ledger \subseteq Books!EntryRows
  BY DEF Books!Tally
<1>2. ASSUME NEW e \in es, e.payment \notin raced PROVE Books!EntryBelongs(e, some, rs)
  <2>1. e \in ledger /\ e.payment \in some \ raced
    BY <1>2
  <2>2. Books!EntryBelongs(e, Payments, refund)
    BY <1>1, <2>1
  <2>3. e.type = "REFUND" => e.refund \in DOMAIN rs /\ rs[e.refund] = refund[e.refund]
    BY <2>1
  <2> QED
    BY <2>1, <2>2, <2>3 DEF Books!EntryBelongs
<1>3. ASSUME NEW e \in es, e.type = "REFUND", e.refund \in DOMAIN rs
      PROVE  rs[e.refund].payment = e.payment
  BY <1>3
<1>4. ASSUME NEW p \in some \ (damaged \cup raced) PROVE Books!Honest(p, rows[p], rs, es)
  <2>1. Books!Honest(p, pay[p], refund, ledger) /\ rows[p] = pay[p] /\ p \in some \ raced
    BY <1>1
  <2>2. Books!Credits(p, es) = Books!Credits(p, ledger)
    BY <1>1, <2>1 DEF Books!Credits
  <2>3. Books!Successes(p, rs) = Books!Successes(p, refund)
    BY <2>1 DEF Books!Successes
  <2>4. ASSUME NEW r \in Books!Successes(p, refund)
        PROVE  rs[r].amount = refund[r].amount /\ Books!Debits(r, es) = Books!Debits(r, ledger)
    <3>1. r \in Refunds /\ refund[r].payment = p
      BY DEF Books!Successes
    <3>2. rs[r] = refund[r]
      BY <2>1, <3>1
    <3>3. \A e \in es : e.refund = r /\ e.type = "REFUND" => e \in ledger
      BY <2>1, <3>1
    <3>4. \A e \in ledger : e.refund = r /\ e.type = "REFUND" => e.payment = p
      BY <1>1, <3>1 DEF Books!EntryBelongs
    <3>5. \A e \in ledger : e.refund = r /\ e.type = "REFUND" => e \in es
      BY <1>1, <2>1, <3>4
    <3> QED
      BY <3>2, <3>3, <3>5 DEF Books!Debits
  <2> QED
    BY <2>1, <2>2, <2>3, <2>4, HonestLooksAt
<1>5. \A e \in es :
        /\ e.payment \in some
        /\ e.payment \notin raced => Books!EntryBelongs(e, some, rs)
        /\ e.type = "REFUND" /\ e.refund \in DOMAIN rs => rs[e.refund].payment = e.payment
  BY <1>2, <1>3
<1> QED
  BY <1>4, <1>5, BookSums DEF Books!Tally

\* A payment that a step is not about stays honest, whatever is written of another one.
LEMMA HonestElsewhere ==
    ASSUME NEW p \in Payments, NEW q \in Payments \cup {"NONE"}, p # q, "NONE" \notin Payments,
           NEW row, NEW given, NEW entries, NEW given1, NEW entries1,
           Books!Honest(p, row, given, entries),
           DOMAIN given1 = DOMAIN given,
           \A r \in DOMAIN given : \/ given1[r] = given[r]
                                     \/ /\ given[r].payment \in {q, "NONE"}
                                        /\ given1[r].payment = q,
           \A e \in entries : Books!EntryBelongs(e, Payments, given),
           \A e \in entries1 : Books!EntryBelongs(e, Payments, given1),
           \A e \in entries \cup entries1 : e.payment # q => e \in entries /\ e \in entries1
    PROVE  Books!Honest(p, row, given1, entries1)
<1>1. Books!Credits(p, entries1) = Books!Credits(p, entries)
  BY DEF Books!Credits
<1>2. Books!Successes(p, given1) = Books!Successes(p, given)
  BY DEF Books!Successes
<1>3. ASSUME NEW r \in Books!Successes(p, given)
      PROVE  /\ given1[r].amount = given[r].amount
             /\ Books!Debits(r, entries1) = Books!Debits(r, entries)
  <2>1. r \in DOMAIN given /\ given[r].payment = p /\ given1[r] = given[r]
    BY DEF Books!Successes
  <2>2. \A e \in entries \cup entries1 : e.refund = r /\ e.type = "REFUND" => e.payment = p
    BY <2>1 DEF Books!EntryBelongs
  <2>3. \A e \in entries \cup entries1 :
            e.refund = r /\ e.type = "REFUND" => e \in entries /\ e \in entries1
    BY <2>2
  <2> QED
    BY <2>1, <2>3 DEF Books!Debits
<1> QED
  BY <1>1, <1>2, <1>3, HonestLooksAt

\* The rows of a database in which nothing happened yet.
LEMMA BooksStart ==
    ASSUME Books!AuditAssumption, Books!Init
    PROVE  Books!IInv
<1>1. Books!Tally(Payments, {}, pay, refund, ledger)
  <2>1. pay \in [Payments -> Books!PaymentRows]
    BY DEF Books!Init, Books!PaymentRows, Books!Instants, Books!NoTime
  <2>2. refund \in [Refunds -> Books!RefundRows] /\ DOMAIN refund = Refunds
    BY DEF Books!Init, Books!RefundRows
  <2>3. ledger = {} /\ IsFiniteSet(ledger)
    BY FS_EmptySet DEF Books!Init
  <2>4. ASSUME NEW p \in Payments PROVE Books!Honest(p, pay[p], refund, ledger)
    <3>1. Books!Successes(p, refund) = {}
      BY DEF Books!Successes, Books!Init, Books!NoRefund
    <3>2. SumOf(Books!Amounts(refund), {}) = 0
      BY SumOfEmpty
    <3>3. Books!Credits(p, ledger) = {}
      BY <2>3 DEF Books!Credits
    <3>4. pay[p].status \notin Books!Captured /\ pay[p].refunded = 0
      BY DEF Books!Init, Books!Captured
    <3> QED
      BY <3>1, <3>2, <3>3, <3>4, BookSums DEF Books!Honest
  <2> QED
    BY <2>1, <2>2, <2>3, <2>4, TallyOfRows
<1>2. audit = Books!Idle /\ audit.step = "IDLE"
  BY DEF Books!Init, Books!Idle
<1> QED
  BY <1>1, <1>2 DEF Books!IInv, Books!Init, Books!Done

\* The fields of a report.
LEMMA FieldsOfReport ==
    DOMAIN Books!Idle = {"step", "limit", "payments", "pay", "refund", "ledger", "window", "raced"}
  BY DEF Books!Idle

\* A step that writes one payment, with its refunds and its entries, leaves what was read
\* of the others true.
LEMMA OthersStayRead ==
    ASSUME Books!IInv, audit.step \in {"PAYMENTS", "REFUNDS", "LEDGER"}, "NONE" \notin Payments,
           NEW q,
           audit'.step = audit.step, audit'.payments = audit.payments, audit'.pay = audit.pay,
           audit'.refund = audit.refund, audit'.ledger = audit.ledger,
           audit'.raced = audit.raced \cup {q},
           \A p \in Payments : p # q => pay'[p] = pay[p],
           \A r \in Refunds : \/ refund'[r] = refund[r]
                              \/ refund[r].payment \in {q, "NONE"} /\ refund'[r].payment = q,
           \A e \in ledger \cup ledger' : e.payment # q => e \in ledger /\ e \in ledger'
    PROVE  Books!Reading'
<1>1. Books!Reading /\ audit.payments \subseteq Payments
  BY DEF Books!IInv, Books!Scanned
<1>2. Books!Known' = Books!Known \ {q}
  BY DEF Books!Known
<1>3. Books!Known \subseteq Payments
  BY <1>1 DEF Books!Known
<1>4. \A p \in Books!Known' : audit.pay[p] = pay'[p]
  BY <1>1, <1>2, <1>3 DEF Books!Reading
<1>5. \A r \in Refunds : refund[r].payment \in Payments => refund'[r].payment = refund[r].payment
  OBVIOUS
<1>6. \A r \in Refunds : refund'[r].payment # q => refund'[r] = refund[r]
  OBVIOUS
<1>7. ASSUME Books!RefundsAsRead PROVE Books!RefundsAsRead'
  <2>1. \A r \in DOMAIN audit.refund : refund'[r].payment = audit.refund[r].payment
    BY <1>1, <1>5, <1>7 DEF Books!RefundsAsRead
  <2>2. ASSUME NEW r \in Refunds, refund'[r].payment \in Books!Known'
        PROVE  r \in DOMAIN audit.refund /\ audit.refund[r] = refund'[r]
    <3>1. refund'[r] = refund[r] /\ refund[r].payment \in Books!Known
      BY <1>2, <1>6, <2>2
    <3> QED
      BY <1>7, <3>1 DEF Books!RefundsAsRead
  <2> QED
    BY <1>7, <2>1, <2>2 DEF Books!RefundsAsRead
<1>8. ASSUME Books!LedgerAsRead PROVE Books!LedgerAsRead'
  <2>1. \A e \in audit.ledger : e.type = "REFUND" => refund'[e.refund].payment = e.payment
    BY <1>1, <1>5, <1>8 DEF Books!LedgerAsRead
  <2>2. ASSUME NEW e \in Books!EntryRows, e.payment \in Books!Known'
        PROVE  e \in audit.ledger <=> e \in ledger'
    BY <1>2, <1>8, <2>2 DEF Books!LedgerAsRead
  <2> QED
    BY <1>8, <2>1, <2>2 DEF Books!LedgerAsRead
<1> QED
  BY <1>1, <1>4, <1>7, <1>8 DEF Books!Reading

\* While the database is written the report only learns of whom.
LEMMA WritingKeeps ==
    ASSUME Books!AuditAssumption, Books!IInv, NEW q \in Payments, Books!Race(q),
           Books!Tally(Payments, {}, pay, refund, ledger)',
           DOMAIN refund' = Refunds, UNCHANGED damaged, moment' = moment,
           \A p \in Payments : p # q => pay'[p] = pay[p],
           \A r \in Refunds : \/ refund'[r] = refund[r]
                              \/ refund[r].payment \in {q, "NONE"} /\ refund'[r].payment = q,
           \A e \in ledger \cup ledger' : e.payment # q => e \in ledger /\ e \in ledger'
    PROVE  Books!IInv'
<1>1. audit.step # "DONE"
  BY DEF Books!Race
<1>2. CASE audit.step = "IDLE"
  <2>1. audit = Books!Idle
    BY <1>2 DEF Books!IInv
  <2>2. audit' = Books!Idle
    BY <1>2, <2>1 DEF Books!Race, Books!Idle
  <2> QED
    BY <2>1, <2>2 DEF Books!IInv, Books!Idle, Books!Done
<1>3. CASE audit.step # "IDLE"
  <2>1. audit.step \in {"PAYMENTS", "REFUNDS", "LEDGER"} /\ Books!Scanned
    BY <1>1, <1>3 DEF Books!IInv
  <2>2. audit' = [audit EXCEPT !.raced = @ \cup {q}]
    BY <1>3 DEF Books!Race
  <2>3. /\ audit'.raced = audit.raced \cup {q} /\ audit'.step = audit.step
        /\ audit'.payments = audit.payments /\ audit'.limit = audit.limit
        /\ audit'.window = audit.window /\ audit'.pay = audit.pay
        /\ audit'.refund = audit.refund /\ audit'.ledger = audit.ledger
        /\ DOMAIN audit' = DOMAIN audit
    BY <2>1, <2>2, FieldsOfReport DEF Books!Scanned
  <2>4. Books!Scanned'
    BY <2>1, <2>3 DEF Books!Scanned
  <2>5. "NONE" \notin Payments
    BY DEF Books!AuditAssumption
  <2>6. Books!Reading'
    BY <2>1, <2>3, <2>5, OthersStayRead
  <2> QED
    BY <2>1, <2>3, <2>4, <2>6 DEF Books!IInv, Books!Done
<1> QED
  BY <1>2, <1>3

\* What the invariant says of the rows of one payment.
LEMMA RowsOfBooks ==
    ASSUME Books!AuditAssumption, Books!IInv
    PROVE  /\ DOMAIN refund = Refunds /\ "NONE" \notin Payments /\ "NONE" \notin Refunds
           /\ IsFiniteSet(Payments) /\ IsFiniteSet(Refunds)
           /\ pay \in [Payments -> Books!PaymentRows] /\ refund \in [Refunds -> Books!RefundRows]
           /\ ledger \subseteq Books!EntryRows /\ IsFiniteSet(ledger)
           /\ \A e \in ledger : Books!EntryBelongs(e, Payments, refund)
           /\ \A p \in Payments \ damaged : Books!Honest(p, pay[p], refund, ledger)
           /\ \A p \in Payments : Amount[p] \in Nat
           /\ moment \in 0 .. 1 /\ damaged \subseteq Payments
  BY BookSums DEF Books!IInv, Books!Tally, Books!AuditAssumption

\* A capture.
LEMMA CaptureKeeps ==
    ASSUME Books!AuditAssumption, Books!IInv, NEW q \in Payments, Books!Capture(q)
    PROVE  Books!IInv'
<1> DEFINE new == Books!Entry("CUSTOMER_PAYMENT", q, "NONE", Amount[q], Books!Key("payment", q))
<1>1. /\ pay[q].status = "PENDING" /\ refund' = refund /\ moment' = moment /\ damaged' = damaged
      /\ pay' = [pay EXCEPT ![q].status = "PAID", ![q].paidAt = moment]
      /\ ledger' = ledger \cup {new} /\ Books!Race(q)
  BY DEF Books!Capture
<1>2. new \in Books!EntryRows
  <2>1. Books!Key("payment", q) \in Books!Keys
    BY DEF Books!Key, Books!Keys
  <2> QED
    BY <2>1, RowsOfBooks DEF Books!EntryRows, Books!Entry, Books!Instants
<1>3. /\ new.type = "CUSTOMER_PAYMENT" /\ new.payment = q /\ new.refund = "NONE"
      /\ new.amount = Amount[q] /\ new.key = Books!Key("payment", q)
  BY DEF Books!Entry
<1> HIDE DEF new
<1>4. pay' \in [Payments -> Books!PaymentRows]
  <2> DEFINE row == [pay[q] EXCEPT !.status = "PAID", !.paidAt = moment]
  <2>1. pay[q] \in Books!PaymentRows /\ moment \in Books!Instants
    BY RowsOfBooks DEF Books!Instants
  <2>2. row \in Books!PaymentRows
    BY <2>1 DEF Books!PaymentRows, Books!Captured
  <2>3. pay' = [pay EXCEPT ![q] = row]
    BY <1>1, RowsOfBooks
  <2> HIDE DEF row
  <2> QED
    BY <2>2, <2>3, RowsOfBooks
<1>5. \A e \in ledger' : Books!EntryBelongs(e, Payments, refund)
  <2>1. Books!EntryBelongs(new, Payments, refund)
    BY <1>3 DEF Books!EntryBelongs
  <2> QED
    BY <1>1, <2>1, RowsOfBooks
<1>6. IsFiniteSet(ledger')
  BY <1>1, RowsOfBooks, FS_AddElement
<1>7. ASSUME NEW p \in Payments \ damaged
      PROVE  Books!Honest(p, pay'[p], refund, ledger')
  <2>1. Books!Honest(p, pay[p], refund, ledger)
    BY RowsOfBooks
  <2>2. CASE p # q
    <3>1. pay'[p] = pay[p]
      BY <1>1, <2>2, RowsOfBooks
    <3>2. \A e \in ledger \cup ledger' : e.payment # q => e \in ledger /\ e \in ledger'
      BY <1>1, <1>3
    <3>3. q \in Payments \cup {"NONE"} /\ "NONE" \notin Payments /\ DOMAIN refund = DOMAIN refund
      BY RowsOfBooks
    <3>4. \A r \in DOMAIN refund : refund[r] = refund[r]
      OBVIOUS
    <3>5. \A e \in ledger : Books!EntryBelongs(e, Payments, refund)
      BY RowsOfBooks
    <3>6. Books!Honest(p, pay[p], refund, ledger')
      BY <1>5, <2>1, <2>2, <3>2, <3>3, <3>4, <3>5, HonestElsewhere
    <3> QED
      BY <3>1, <3>6
  <2>3. CASE p = q
    <3>1. /\ pay'[q].status = "PAID" /\ pay'[q].refunded = pay[q].refunded
      BY <1>1, RowsOfBooks DEF Books!PaymentRows
    <3>2. Books!Credits(q, ledger) = {}
      BY <1>1, <2>1, <2>3 DEF Books!Honest, Books!Captured
    <3>3. Books!Credits(q, ledger') = {new}
      BY <1>1, <1>3, <3>2 DEF Books!Credits
    <3>4. Books!OnlyEntry(Books!Credits(q, ledger'), Amount[q], Books!Key("payment", q))
      BY <1>3, <3>3 DEF Books!OnlyEntry
    <3>5. \A r : Books!Debits(r, ledger') = Books!Debits(r, ledger)
      BY <1>1, <1>3 DEF Books!Debits
    <3> QED
      BY <2>1, <2>3, <3>1, <3>4, <3>5 DEF Books!Honest, Books!Captured
  <2> QED
    BY <2>2, <2>3
<1>8. Books!Tally(Payments, {}, pay, refund, ledger)'
  <2>1. ledger' \subseteq Books!EntryRows
    BY <1>1, <1>2, RowsOfBooks
  <2> QED
    BY <1>1, <1>4, <1>5, <1>6, <1>7, <2>1, RowsOfBooks, TallyOfNextRows
<1>9. /\ \A p \in Payments : p # q => pay'[p] = pay[p]
      /\ \A e \in ledger \cup ledger' : e.payment # q => e \in ledger /\ e \in ledger'
  BY <1>1, <1>3, RowsOfBooks
<1> QED
  BY <1>1, <1>8, <1>9, RowsOfBooks, WritingKeeps

\* A step that writes one refund which is not successful leaves every payment honest.
LEMMA RefundOpenKeeps ==
    ASSUME Books!AuditAssumption, Books!IInv, NEW q \in Payments, NEW r \in Refunds,
           NEW row \in Books!RefundRows, row.payment = q, refund[r].payment \in {q, "NONE"},
           refund' = [refund EXCEPT ![r] = row],
           refund[r].status # "SUCCESS", row.status # "SUCCESS",
           Books!Race(q), UNCHANGED <<pay, ledger, moment, damaged>>
    PROVE  Books!IInv'
<1>1. refund' \in [Refunds -> Books!RefundRows] /\ DOMAIN refund' = Refunds
      /\ \A x \in Refunds : x # r => refund'[x] = refund[x]
  BY RowsOfBooks
<1>2. refund'[r] = row
  BY RowsOfBooks
<1>3. ASSUME NEW e \in ledger PROVE Books!EntryBelongs(e, Payments, refund')
  <2>1. Books!EntryBelongs(e, Payments, refund)
    BY RowsOfBooks
  <2>2. e.type = "REFUND" => e.refund \in Refunds /\ e.refund # r
    BY <2>1, RowsOfBooks DEF Books!EntryBelongs
  <2> QED
    BY <1>1, <2>1, <2>2 DEF Books!EntryBelongs
<1>4. ASSUME NEW p \in Payments \ damaged PROVE Books!Honest(p, pay[p], refund', ledger)
  <2>1. Books!Honest(p, pay[p], refund, ledger)
    BY RowsOfBooks
  <2>2. Books!Successes(p, refund') = Books!Successes(p, refund)
    BY <1>1, <1>2, RowsOfBooks DEF Books!Successes
  <2>3. \A x \in Books!Successes(p, refund) : x \in Refunds /\ x # r
    BY RowsOfBooks DEF Books!Successes
  <2>4. \A x \in Books!Successes(p, refund) : refund'[x].amount = refund[x].amount
    BY <1>1, <2>3
  <2> QED
    BY <2>1, <2>2, <2>4, HonestLooksAt
<1>5. Books!Tally(Payments, {}, pay, refund, ledger)'
  BY <1>1, <1>3, <1>4, RowsOfBooks, TallyOfNextRows
<1>6. \A x \in Refunds : \/ refund'[x] = refund[x]
                         \/ refund[x].payment \in {q, "NONE"} /\ refund'[x].payment = q
  BY <1>1, <1>2
<1>7. DOMAIN refund' = Refunds
  BY <1>1
<1> QED
  BY <1>5, <1>6, <1>7, WritingKeeps

\* A refund that is requested or that fails.
LEMMA RequestKeeps ==
    ASSUME Books!AuditAssumption, Books!IInv, NEW p \in Payments, NEW r \in Refunds,
           NEW a \in 1 .. Amount[p], Books!Request(p, r, a)
    PROVE  Books!IInv'
<1> DEFINE row == [payment |-> p, amount |-> a, status |-> "PENDING",
                   requestedAt |-> moment, processedAt |-> Books!NoTime]
<1>1. row \in Books!RefundRows /\ row.payment = p
  BY RowsOfBooks DEF Books!RefundRows, Books!Instants
<1>2. refund' = [refund EXCEPT ![r] = row] /\ row.status # "SUCCESS"
  BY DEF Books!Request
<1>3. refund[r].status # "SUCCESS" /\ refund[r].payment = "NONE"
  BY DEF Books!Request, Books!NoRefund
<1>4. Books!Race(p) /\ UNCHANGED <<pay, ledger, moment, damaged>>
  BY DEF Books!Request
<1> HIDE DEF row
<1> QED
  BY <1>1, <1>2, <1>3, <1>4, RefundOpenKeeps

LEMMA FailKeeps ==
    ASSUME Books!AuditAssumption, Books!IInv, NEW r \in Refunds, Books!Fail(r)
    PROVE  Books!IInv'
<1> DEFINE row == [refund[r] EXCEPT !.status = "FAILED", !.processedAt = moment]
<1>1. refund[r].status = "PENDING"
  BY DEF Books!Fail
<1>2. refund[r] \in Books!RefundRows /\ refund[r] # Books!NoRefund
  BY <1>1, RowsOfBooks DEF Books!NoRefund
<1>3. row \in Books!RefundRows
  <2>1. /\ refund[r] \in [payment : Payments, amount : Nat, status : {"PENDING", "SUCCESS", "FAILED"},
                            requestedAt : Books!Instants, processedAt : Books!Instants]
        /\ refund[r].amount <= Amount[refund[r].payment]
    BY <1>2 DEF Books!RefundRows
  <2>2. moment \in Books!Instants
    BY RowsOfBooks DEF Books!Instants
  <2>3. /\ row \in [payment : Payments, amount : Nat, status : {"PENDING", "SUCCESS", "FAILED"},
                     requestedAt : Books!Instants, processedAt : Books!Instants]
        /\ row.amount = refund[r].amount /\ row.payment = refund[r].payment
    BY <2>1, <2>2
  <2> HIDE DEF row
  <2> QED
    BY <2>1, <2>3 DEF Books!RefundRows
<1>4. refund' = [refund EXCEPT ![r] = row]
  BY RowsOfBooks DEF Books!Fail
<1>5. row.status # "SUCCESS"
  BY <1>2 DEF Books!RefundRows
<1>6. Books!Race(refund[r].payment) /\ UNCHANGED <<pay, ledger, moment, damaged>>
  BY DEF Books!Fail
<1>7. refund[r].payment \in Payments /\ row.payment = refund[r].payment
  BY <1>2 DEF Books!RefundRows
<1> HIDE DEF row
<1> QED
  BY <1>1, <1>3, <1>4, <1>5, <1>6, <1>7, RefundOpenKeeps

\* The successful refunds of a payment are finitely many, each of what was paid at most.
LEMMA SuccessesBounded ==
    ASSUME Books!AuditAssumption, NEW given, DOMAIN given \subseteq Refunds,
           given \in [DOMAIN given -> Books!RefundRows], NEW p \in Payments
    PROVE  /\ IsFiniteSet(Books!Successes(p, given))
           /\ \A r \in Books!Successes(p, given) :
                  /\ Books!Amounts(given)[r] = given[r].amount
                  /\ Books!Amounts(given)[r] \in 0 .. Amount[p]
           /\ SumOf(Books!Amounts(given), Books!Successes(p, given)) \in Nat
<1> DEFINE S == Books!Successes(p, given)
<1>1. IsFiniteSet(Refunds) /\ Amount[p] \in Nat
  BY BookSums DEF Books!AuditAssumption
<1>2. S \subseteq Refunds
  BY DEF Books!Successes
<1>3. IsFiniteSet(S)
  BY <1>1, <1>2, FS_Subset
<1>4. ASSUME NEW r \in S
      PROVE  Books!Amounts(given)[r] = given[r].amount /\ given[r].amount \in 0 .. Amount[p]
  <2>1. r \in DOMAIN given /\ given[r].payment = p /\ given[r] \in Books!RefundRows
    BY DEF Books!Successes
  <2>2. given[r] # Books!NoRefund
    BY <2>1 DEF Books!NoRefund, Books!AuditAssumption
  <2> QED
    BY <1>1, <2>1, <2>2 DEF Books!RefundRows, Books!Amounts
<1> HIDE DEF S
<1>5. SumOf(Books!Amounts(given), S) \in Nat
  BY <1>1, <1>3, <1>4, SumOfType
<1> QED
  BY <1>3, <1>4, <1>5 DEF S

\* What a success writes of the payment and of the ledger.
LEMMA SuccessRows ==
    ASSUME Books!AuditAssumption, Books!IInv, NEW r \in Refunds,
           refund[r].status \in {"PENDING", "SUCCESS"}
    PROVE  /\ refund[r].payment \in Payments /\ refund[r].amount \in Nat
           /\ refund[r] # Books!NoRefund
           /\ Books!Debit(r) \in Books!EntryRows
           /\ Books!Debit(r).type = "REFUND" /\ Books!Debit(r).payment = refund[r].payment
           /\ Books!Debit(r).refund = r /\ Books!Debit(r).amount = refund[r].amount
           /\ Books!Debit(r).key = Books!Key("refund", r)
           /\ \A total \in Nat :
                 /\ Books!Refunded(refund[r].payment, total) \in Books!PaymentRows
                 /\ Books!Refunded(refund[r].payment, total).refunded = total
                 /\ Books!Refunded(refund[r].payment, total).status \in Books!Captured
<1>1. refund[r] \in Books!RefundRows /\ refund[r] # Books!NoRefund
  BY RowsOfBooks DEF Books!NoRefund
<1>2. refund[r].payment \in Payments /\ refund[r].amount \in Nat
  BY <1>1 DEF Books!RefundRows
<1>3. Books!Key("refund", r) \in Books!Keys
  BY DEF Books!Key, Books!Keys
<1>4. moment \in Books!Instants
  BY RowsOfBooks DEF Books!Instants
<1>5. Books!Debit(r) \in Books!EntryRows
  BY <1>2, <1>3, <1>4 DEF Books!Debit, Books!Entry, Books!EntryRows
<1>6. /\ Books!Debit(r).type = "REFUND" /\ Books!Debit(r).payment = refund[r].payment
      /\ Books!Debit(r).refund = r /\ Books!Debit(r).amount = refund[r].amount
      /\ Books!Debit(r).key = Books!Key("refund", r)
  BY DEF Books!Debit, Books!Entry
<1>7. ASSUME NEW p \in Payments, NEW total \in Nat
      PROVE  /\ Books!Refunded(p, total) \in Books!PaymentRows
             /\ Books!Refunded(p, total).refunded = total
             /\ Books!Refunded(p, total).status \in Books!Captured
  <2>1. pay[p] \in Books!PaymentRows
    BY RowsOfBooks
  <2> QED
    BY <2>1 DEF Books!Refunded, Books!PaymentRows, Books!Captured
<1> QED
  BY <1>1, <1>2, <1>5, <1>6, <1>7

\* A refund that succeeds.
LEMMA SucceedKeeps ==
    ASSUME Books!AuditAssumption, Books!IInv, NEW r \in Refunds, Books!Succeed(r)
    PROVE  Books!IInv'
<1> DEFINE q == refund[r].payment
           row == Books!Refunded(q, pay[q].refunded + refund[r].amount)
           new == Books!Debit(r)
           won == [refund[r] EXCEPT !.status = "SUCCESS", !.processedAt = moment]
<1>1. /\ refund[r].status = "PENDING" /\ pay[q].status \in {"PAID", "PARTIALLY_REFUNDED"}
      /\ pay' = [pay EXCEPT ![q] = row] /\ ledger' = ledger \cup {new}
      /\ Books!Race(q) /\ moment' = moment /\ damaged' = damaged
  BY DEF Books!Succeed
<1>2. refund' = [refund EXCEPT ![r] = won]
  BY RowsOfBooks DEF Books!Succeed
<1>3. /\ q \in Payments /\ refund[r].amount \in Nat /\ refund[r] # Books!NoRefund
      /\ new \in Books!EntryRows /\ new.type = "REFUND" /\ new.payment = q /\ new.refund = r
      /\ new.amount = refund[r].amount /\ new.key = Books!Key("refund", r)
  BY <1>1, SuccessRows
<1>4. pay[q] \in Books!PaymentRows /\ pay[q].refunded \in Nat
  BY <1>3, RowsOfBooks DEF Books!PaymentRows
<1>5. /\ row \in Books!PaymentRows /\ row.refunded = pay[q].refunded + refund[r].amount
      /\ row.status \in Books!Captured
  BY <1>1, <1>3, <1>4, SuccessRows
<1>6. /\ won \in Books!RefundRows /\ won.status = "SUCCESS" /\ won.payment = q
      /\ won.amount = refund[r].amount
  <2>1. /\ refund[r] \in [payment : Payments, amount : Nat, status : {"PENDING", "SUCCESS", "FAILED"},
                            requestedAt : Books!Instants, processedAt : Books!Instants]
        /\ refund[r].amount <= Amount[refund[r].payment]
    BY <1>3, RowsOfBooks DEF Books!RefundRows
  <2>2. moment \in Books!Instants
    BY RowsOfBooks DEF Books!Instants
  <2>3. /\ won \in [payment : Payments, amount : Nat, status : {"PENDING", "SUCCESS", "FAILED"},
                     requestedAt : Books!Instants, processedAt : Books!Instants]
        /\ won.amount = refund[r].amount /\ won.payment = refund[r].payment
        /\ won.status = "SUCCESS"
    BY <2>1, <2>2
  <2> HIDE DEF won
  <2> QED
    BY <2>1, <2>3 DEF Books!RefundRows
<1> HIDE DEF row, new, won
<1>7. /\ pay' \in [Payments -> Books!PaymentRows] /\ pay'[q] = row
      /\ \A p \in Payments : p # q => pay'[p] = pay[p]
  BY <1>1, <1>3, <1>5, RowsOfBooks
<1>8. /\ refund' \in [Refunds -> Books!RefundRows] /\ DOMAIN refund' = Refunds
      /\ refund'[r] = won /\ \A x \in Refunds : x # r => refund'[x] = refund[x]
  BY <1>2, <1>6, RowsOfBooks
<1> HIDE DEF q
<1>9. /\ \A e \in ledger : ~ (e.type = "REFUND" /\ e.refund = r)
      /\ refund[r].status = "PENDING" /\ refund[r].payment = q
  BY <1>1, RowsOfBooks DEF Books!EntryBelongs, q
<1>10. ASSUME NEW e \in ledger' PROVE Books!EntryBelongs(e, Payments, refund')
  <2>1. CASE e \in ledger
    <3>1. Books!EntryBelongs(e, Payments, refund)
      BY <2>1, RowsOfBooks
    <3>2. e.type = "REFUND" => e.refund \in Refunds /\ e.refund # r
      BY <1>9, <2>1, <3>1, RowsOfBooks DEF Books!EntryBelongs
    <3> QED
      BY <1>8, <3>1, <3>2 DEF Books!EntryBelongs
  <2>2. CASE e = new
    BY <1>3, <1>6, <1>8, <2>2 DEF Books!EntryBelongs
  <2> QED
    BY <1>1, <2>1, <2>2
<1>11. IsFiniteSet(ledger') /\ ledger' \subseteq Books!EntryRows
  BY <1>1, <1>3, RowsOfBooks, FS_AddElement
<1>12. ASSUME NEW p \in Payments \ damaged, p # q
       PROVE  Books!Honest(p, pay'[p], refund', ledger')
  <2>1. Books!Honest(p, pay[p], refund, ledger)
    BY RowsOfBooks
  <2>2. q \in Payments \cup {"NONE"} /\ "NONE" \notin Payments /\ DOMAIN refund' = DOMAIN refund
    BY <1>3, <1>8, RowsOfBooks
  <2>3. \A x \in DOMAIN refund : \/ refund'[x] = refund[x]
                                 \/ refund[x].payment \in {q, "NONE"} /\ refund'[x].payment = q
    BY <1>6, <1>8, <1>9, RowsOfBooks
  <2>4. \A e \in ledger \cup ledger' : e.payment # q => e \in ledger /\ e \in ledger'
    BY <1>1, <1>3
  <2>5. \A e \in ledger : Books!EntryBelongs(e, Payments, refund)
    BY RowsOfBooks
  <2>6. Books!Honest(p, pay[p], refund', ledger')
    BY <1>10, <1>12, <2>1, <2>2, <2>3, <2>4, <2>5, HonestElsewhere
  <2> QED
    BY <1>7, <1>12, <2>6
<1>13. ASSUME q \notin damaged PROVE Books!Honest(q, row, refund', ledger')
  <2> DEFINE S == Books!Successes(q, refund)
             T == Books!Successes(q, refund')
  <2>1. Books!Honest(q, pay[q], refund, ledger)
    BY <1>3, <1>13, RowsOfBooks
  <2>2. T = S \cup {r} /\ r \notin S
    BY <1>6, <1>8, <1>9, RowsOfBooks DEF Books!Successes
  <2>3. pay[q].refunded = SumOf(Books!Amounts(refund), S)
    BY <2>1, BookSums DEF Books!Honest
  <2>4. SumOf(Books!Amounts(refund'), T) = SumOf(Books!Amounts(refund'), S) + refund[r].amount
    <3>1. /\ IsFiniteSet(T) /\ \A x \in T : Books!Amounts(refund')[x] = refund'[x].amount
          /\ \A x \in T : Books!Amounts(refund')[x] \in 0 .. Amount[q]
      BY <1>3, <1>8, SuccessesBounded
    <3>2. Amount[q] \in Nat /\ IsFiniteSet(S)
      BY <1>3, <2>2, <3>1, RowsOfBooks, FS_Subset
    <3> HIDE DEF S, T
    <3>3. SumOf(Books!Amounts(refund'), S \cup {r})
             = SumOf(Books!Amounts(refund'), S) + Books!Amounts(refund')[r]
      BY <2>2, <3>1, <3>2, SumOfAdd
    <3> QED
      BY <1>6, <1>8, <2>2, <3>1, <3>3
  <2>5. SumOf(Books!Amounts(refund'), S) = SumOf(Books!Amounts(refund), S)
    <3>1. \A x \in S : Books!Amounts(refund')[x] = Books!Amounts(refund)[x]
      BY <1>8, <2>2, RowsOfBooks DEF Books!Amounts, Books!Successes
    <3> HIDE DEF S
    <3> QED
      BY <3>1, SumOfExtensional
  <2>6. row.refunded = SumOf(Books!Amounts(refund'), T)
    BY <1>5, <2>3, <2>4, <2>5
  <2>7. Books!Credits(q, ledger') = Books!Credits(q, ledger)
    BY <1>1, <1>3 DEF Books!Credits
  <2>8. ASSUME NEW x \in T
        PROVE  Books!OnlyEntry(Books!Debits(x, ledger'), refund'[x].amount, Books!Key("refund", x))
    <3>1. CASE x = r
      <4>1. Books!Debits(r, ledger') = {new}
        BY <1>1, <1>3, <1>9 DEF Books!Debits
      <4> QED
        BY <1>3, <1>6, <1>8, <3>1, <4>1 DEF Books!OnlyEntry
    <3>2. CASE x # r
      <4>1. x \in S /\ x \in Refunds
        BY <2>2, <3>2, RowsOfBooks DEF Books!Successes
      <4>2. Books!Debits(x, ledger') = Books!Debits(x, ledger)
        BY <1>1, <1>3, <3>2 DEF Books!Debits
      <4> QED
        BY <1>8, <2>1, <3>2, <4>1, <4>2 DEF Books!Honest
    <3> QED
      BY <3>1, <3>2
  <2>9. pay[q].status \in Books!Captured
    BY <1>1, <1>9 DEF Books!Captured, q
  <2> QED
    BY <1>5, <2>1, <2>6, <2>7, <2>8, <2>9, BookSums DEF Books!Honest
<1>14. Books!Tally(Payments, {}, pay, refund, ledger)'
  <2>1. \A p \in Payments \ damaged' : Books!Honest(p, pay'[p], refund', ledger')
    BY <1>1, <1>7, <1>12, <1>13
  <2> QED
    BY <1>7, <1>8, <1>10, <1>11, <2>1, TallyOfNextRows
<1>15. \A x \in Refunds : \/ refund'[x] = refund[x]
                          \/ refund[x].payment \in {q, "NONE"} /\ refund'[x].payment = q
  BY <1>6, <1>8, <1>9
<1>16. \A e \in ledger \cup ledger' : e.payment # q => e \in ledger /\ e \in ledger'
  BY <1>1, <1>3
<1> QED
  BY <1>1, <1>3, <1>7, <1>8, <1>14, <1>15, <1>16, WritingKeeps

\* A success that is told again finds something to put right in tampered books only.
LEMMA RepairKeeps ==
    ASSUME Books!AuditAssumption, Books!IInv, NEW r \in Refunds, Books!Repair(r)
    PROVE  Books!IInv'
<1> DEFINE q == refund[r].payment
           row == Books!Refunded(q, Books!SumOf(Books!Amounts(refund), Books!Successes(q, refund)))
           new == Books!Debit(r)
<1>1. /\ refund[r].status = "SUCCESS" /\ \A e \in ledger : e.key # Books!Key("refund", r)
      /\ pay' = [pay EXCEPT ![q] = row] /\ ledger' = ledger \cup {new}
      /\ Books!Race(q) /\ refund' = refund /\ moment' = moment /\ damaged' = damaged
  BY DEF Books!Repair
<1>2. /\ q \in Payments /\ new \in Books!EntryRows /\ new.type = "REFUND"
      /\ new.payment = q /\ new.refund = r
  BY <1>1, SuccessRows
<1>3. row \in Books!PaymentRows
  <2>1. SumOf(Books!Amounts(refund), Books!Successes(q, refund)) \in Nat
    BY <1>2, RowsOfBooks, SuccessesBounded
  <2> QED
    BY <1>1, <2>1, SuccessRows, BookSums
<1> HIDE DEF row, new
<1>4. /\ pay' \in [Payments -> Books!PaymentRows]
      /\ \A p \in Payments : p # q => pay'[p] = pay[p]
  BY <1>1, <1>2, <1>3, RowsOfBooks
<1>5. q \in damaged
  <2>1. SUFFICES ASSUME q \notin damaged PROVE FALSE
    OBVIOUS
  <2>2. Books!Honest(q, pay[q], refund, ledger)
    BY <1>2, <2>1, RowsOfBooks
  <2>3. r \in Books!Successes(q, refund)
    BY <1>1, RowsOfBooks DEF Books!Successes
  <2>4. Books!OnlyEntry(Books!Debits(r, ledger), refund[r].amount, Books!Key("refund", r))
    BY <2>2, <2>3 DEF Books!Honest
  <2> QED
    BY <1>1, <2>4 DEF Books!OnlyEntry, Books!Debits
<1> HIDE DEF q
<1>6. \A e \in ledger' : Books!EntryBelongs(e, Payments, refund)
  <2>1. Books!EntryBelongs(new, Payments, refund)
    BY <1>1, <1>2, RowsOfBooks DEF Books!EntryBelongs, q
  <2> QED
    BY <1>1, <2>1, RowsOfBooks
<1>7. IsFiniteSet(ledger') /\ ledger' \subseteq Books!EntryRows
  BY <1>1, <1>2, RowsOfBooks, FS_AddElement
<1>8. ASSUME NEW p \in Payments \ damaged PROVE Books!Honest(p, pay'[p], refund, ledger')
  <2>1. Books!Honest(p, pay[p], refund, ledger) /\ p # q
    BY <1>5, RowsOfBooks
  <2>2. q \in Payments \cup {"NONE"} /\ "NONE" \notin Payments /\ DOMAIN refund = DOMAIN refund
    BY <1>2, RowsOfBooks
  <2>3. \A e \in ledger \cup ledger' : e.payment # q => e \in ledger /\ e \in ledger'
    BY <1>1, <1>2
  <2>4. \A e \in ledger : Books!EntryBelongs(e, Payments, refund)
    BY RowsOfBooks
  <2>5. \A x \in DOMAIN refund : refund[x] = refund[x]
    OBVIOUS
  <2>6. Books!Honest(p, pay[p], refund, ledger')
    BY <1>6, <2>1, <2>2, <2>3, <2>4, <2>5, HonestElsewhere
  <2> QED
    BY <1>4, <2>1, <2>6
<1>9. Books!Tally(Payments, {}, pay, refund, ledger)'
  BY <1>1, <1>4, <1>6, <1>7, <1>8, RowsOfBooks, TallyOfNextRows
<1>10. \A e \in ledger \cup ledger' : e.payment # q => e \in ledger /\ e \in ledger'
  BY <1>1, <1>2
<1> QED
  BY <1>1, <1>2, <1>4, <1>9, <1>10, RowsOfBooks, WritingKeeps

\* Time that passes is not written down.
LEMMA TickKeeps ==
    ASSUME Books!IInv, Books!Tick
    PROVE  Books!IInv'
<1>1. /\ UNCHANGED <<pay, refund, ledger, damaged, audit>> /\ moment' \in 0 .. 1
      /\ audit.step # "DONE"
  BY DEF Books!Tick
<1>2. Books!Tally(Payments, {}, pay, refund, ledger)'
  BY <1>1 DEF Books!IInv, Books!Tally, Books!Honest
<1>3. (Books!Reading => Books!Reading') /\ (Books!Scanned => Books!Scanned')
  BY <1>1 DEF Books!Reading, Books!RefundsAsRead, Books!LedgerAsRead, Books!Known, Books!Scanned
<1> QED
  BY <1>1, <1>2, <1>3 DEF Books!IInv, Books!Done

\* Whatever was tampered with, the books of the other payments are what they were.
LEMMA HarmKeeps ==
    ASSUME Books!AuditAssumption, Books!IInv, NEW q \in Payments, Books!Harm(q),
           pay' \in [Payments -> Books!PaymentRows],
           \A p \in Payments : p # q => pay'[p] = pay[p],
           ledger' \subseteq Books!EntryRows, IsFiniteSet(ledger'),
           \A e \in ledger' : Books!EntryBelongs(e, Payments, refund),
           \A e \in ledger \cup ledger' : e.payment # q => e \in ledger /\ e \in ledger'
    PROVE  Books!IInv'
<1>1. /\ refund' = refund /\ moment' = moment /\ audit' = audit /\ damaged' = {q}
      /\ damaged = {} /\ audit.step = "IDLE"
  BY DEF Books!Harm
<1>2. ASSUME NEW p \in Payments \ damaged' PROVE Books!Honest(p, pay'[p], refund, ledger')
  <2>1. Books!Honest(p, pay[p], refund, ledger) /\ p # q /\ p \in Payments
    BY <1>1, <1>2, RowsOfBooks
  <2>2. q \in Payments \cup {"NONE"} /\ "NONE" \notin Payments /\ DOMAIN refund = DOMAIN refund
    BY RowsOfBooks
  <2>3. \A e \in ledger : Books!EntryBelongs(e, Payments, refund)
    BY RowsOfBooks
  <2>4. \A x \in DOMAIN refund : refund[x] = refund[x]
    OBVIOUS
  <2>5. Books!Honest(p, pay[p], refund, ledger')
    BY <2>1, <2>2, <2>3, <2>4, HonestElsewhere
  <2> QED
    BY <2>1, <2>5
<1>3. Books!Tally(Payments, {}, pay, refund, ledger)'
  BY <1>1, <1>2, RowsOfBooks, TallyOfNextRows
<1> QED
  BY <1>1, <1>3, RowsOfBooks DEF Books!IInv, Books!Done

LEMMA DamageKeeps ==
    ASSUME Books!AuditAssumption, Books!IInv, Books!Damage
    PROVE  Books!IInv'
<1>1. ASSUME NEW e \in ledger, Books!Harm(e.payment), UNCHANGED pay, NEW some,
             some \in Books!EntryRows \/ some \in ledger,
             Books!EntryBelongs(some, Payments, refund), some.payment = e.payment,
             \/ ledger' = ledger \ {e} \/ ledger' = ledger \cup {some}
             \/ ledger' = (ledger \ {e}) \cup {some}
      PROVE  Books!IInv'
  <2>1. e.payment \in Payments /\ pay' \in [Payments -> Books!PaymentRows]
    BY <1>1, RowsOfBooks DEF Books!EntryBelongs
  <2>2. IsFiniteSet(ledger') /\ ledger' \subseteq Books!EntryRows
    <3>1. IsFiniteSet(ledger \cup {some})
      BY RowsOfBooks, FS_AddElement
    <3>2. ledger' \subseteq ledger \cup {some}
      BY <1>1
    <3> QED
      BY <1>1, <3>1, <3>2, RowsOfBooks, FS_Subset
  <2>3. \A d \in ledger' : Books!EntryBelongs(d, Payments, refund)
    BY <1>1, RowsOfBooks
  <2>4. \A d \in ledger \cup ledger' : d.payment # e.payment => d \in ledger /\ d \in ledger'
    BY <1>1
  <2>5. \A p \in Payments : p # e.payment => pay'[p] = pay[p]
    BY <1>1
  <2> QED
    BY <1>1, <2>1, <2>2, <2>3, <2>4, <2>5, HarmKeeps
<1>2. ASSUME NEW e \in ledger
      PROVE  /\ e \in Books!EntryRows /\ Books!EntryBelongs(e, Payments, refund)
             /\ \A some \in {[e EXCEPT !.amount = @ + 1], Books!OtherKey(e)} :
                    /\ some \in Books!EntryRows /\ some.payment = e.payment
                    /\ Books!EntryBelongs(some, Payments, refund)
  <2>1. e \in Books!EntryRows /\ Books!EntryBelongs(e, Payments, refund)
    BY RowsOfBooks
  <2>2. Books!Key("other", e.payment) \in Books!Keys
    BY <2>1 DEF Books!Key, Books!Keys, Books!EntryRows
  <2>3. ASSUME NEW some \in {[e EXCEPT !.amount = @ + 1], Books!OtherKey(e)}
        PROVE  /\ some \in Books!EntryRows /\ some.payment = e.payment /\ some.type = e.type
               /\ some.refund = e.refund
    BY <2>1, <2>2 DEF Books!EntryRows, Books!OtherKey
  <2> QED
    BY <2>1, <2>3 DEF Books!EntryBelongs
<1>3. ASSUME NEW e \in ledger, Books!LoseEntry(e) PROVE Books!IInv'
  BY <1>1, <1>2, <1>3 DEF Books!LoseEntry
<1>4. ASSUME NEW e \in ledger, Books!DoubleEntry(e) PROVE Books!IInv'
  <2> DEFINE some == Books!OtherKey(e)
  <2>1. /\ some \in Books!EntryRows /\ some.payment = e.payment
        /\ Books!EntryBelongs(some, Payments, refund)
    BY <1>2
  <2>2. Books!Harm(e.payment) /\ UNCHANGED pay /\ ledger' = ledger \cup {some}
    BY <1>4 DEF Books!DoubleEntry
  <2> HIDE DEF some
  <2> QED
    BY <1>1, <2>1, <2>2
<1>5. ASSUME NEW e \in ledger, Books!AlterEntry(e) PROVE Books!IInv'
  <2>1. PICK some \in {[e EXCEPT !.amount = @ + 1], Books!OtherKey(e)} :
            ledger' = (ledger \ {e}) \cup {some}
    BY <1>5 DEF Books!AlterEntry
  <2>2. /\ some \in Books!EntryRows /\ some.payment = e.payment
        /\ Books!EntryBelongs(some, Payments, refund)
    BY <1>2
  <2>3. Books!Harm(e.payment) /\ UNCHANGED pay
    BY <1>5 DEF Books!AlterEntry
  <2> QED
    BY <1>1, <2>1, <2>2, <2>3
<1>6. ASSUME NEW q \in Payments, Books!AlterPayment(q) PROVE Books!IInv'
  <2>1. /\ Books!Harm(q) /\ ledger' = ledger
        /\ pay' = [pay EXCEPT ![q].refunded = @ + 1]
    BY <1>6 DEF Books!AlterPayment
  <2>2. /\ pay' \in [Payments -> Books!PaymentRows]
        /\ \A p \in Payments : p # q => pay'[p] = pay[p]
    <3> DEFINE row == [pay[q] EXCEPT !.refunded = @ + 1]
    <3>1. row \in Books!PaymentRows
      BY RowsOfBooks DEF Books!PaymentRows
    <3>2. pay' = [pay EXCEPT ![q] = row]
      BY <2>1, RowsOfBooks
    <3> HIDE DEF row
    <3> QED
      BY <3>1, <3>2, RowsOfBooks
  <2> QED
    BY <2>1, <2>2, RowsOfBooks, HarmKeeps
<1> QED
  BY <1>3, <1>4, <1>5, <1>6 DEF Books!Damage

\* The report begins.
LEMMA ReadPaymentsKeeps ==
    ASSUME Books!AuditAssumption, Books!IInv, NEW windowed, NEW limit \in Limits,
           Books!ReadPayments(windowed, limit)
    PROVE  Books!IInv'
<1> DEFINE every == {p \in Payments : windowed => Books!OfWindow(p)}
<1>1. PICK scanned \in SUBSET every :
          /\ IF Cardinality(every) <= Books!ScanLimit(limit) THEN scanned = every
             ELSE Cardinality(scanned) = Books!ScanLimit(limit)
          /\ audit' = [Books!Idle EXCEPT !.step = "PAYMENTS", !.limit = limit, !.pay = pay,
                       !.payments = scanned, !.window = every]
  BY BookSums DEF Books!ReadPayments
<1>2. UNCHANGED <<pay, refund, ledger, moment, damaged>>
  BY DEF Books!ReadPayments
<1>3. every \subseteq Payments
  OBVIOUS
<1> HIDE DEF every
<1>4. /\ DOMAIN audit' = DOMAIN Books!Idle /\ audit'.step = "PAYMENTS" /\ audit'.limit = limit
      /\ audit'.pay = pay /\ audit'.payments = scanned /\ audit'.window = every
  BY <1>1, FieldsOfReport DEF Books!Idle
<1>5. Books!ScanLimit(limit) \in Nat
  BY DEF Books!ScanLimit, Books!AuditAssumption
<1>6. Cardinality(scanned) < Books!ScanLimit(limit) => scanned = every
  BY <1>1, <1>5
<1>7. Books!Scanned'
  BY <1>1, <1>3, <1>4, <1>6, BookSums DEF Books!Scanned, Books!ScanLimit
<1>8. Books!Reading'
  BY <1>2, <1>4, RowsOfBooks DEF Books!Reading
<1>9. Books!Tally(Payments, {}, pay, refund, ledger)'
  BY <1>2 DEF Books!IInv, Books!Tally, Books!Honest
<1> QED
  BY <1>2, <1>4, <1>7, <1>8, <1>9, RowsOfBooks DEF Books!IInv, Books!Done

\* What either of the two other queries reads.
LEMMA QueriesRead ==
    ASSUME Books!AuditAssumption, Books!IInv, NEW some \in SUBSET Payments
    PROVE  /\ DOMAIN Books!RefundsOf(some) = {x \in Refunds : refund[x].payment \in some}
           /\ Books!RefundsOf(some) \in [DOMAIN Books!RefundsOf(some) -> Books!RefundRows]
           /\ \A r \in DOMAIN Books!RefundsOf(some) : Books!RefundsOf(some)[r] = refund[r]
           /\ Books!LedgerOf(some) \subseteq ledger /\ IsFiniteSet(Books!LedgerOf(some))
           /\ \A e \in ledger : e \in Books!LedgerOf(some) <=> e.payment \in some
           /\ \A e \in ledger : e.type = "REFUND" =>
                 e.refund \in Refunds /\ refund[e.refund].payment = e.payment
<1> DEFINE rs == Books!RefundsOf(some)
           dom == {x \in Refunds : refund[x].payment \in some}
<1>1. rs = [r \in dom |-> refund[r]]
  BY DEF Books!RefundsOf
<1>2. \A r \in dom : refund[r] \in Books!RefundRows
  BY RowsOfBooks
<1> HIDE DEF rs, dom
<1>3. DOMAIN rs = dom /\ rs \in [DOMAIN rs -> Books!RefundRows] /\ \A r \in DOMAIN rs : rs[r] = refund[r]
  BY <1>1, <1>2
<1>4. Books!LedgerOf(some) \subseteq ledger /\ \A e \in ledger : e \in Books!LedgerOf(some) <=> e.payment \in some
  BY DEF Books!LedgerOf
<1>5. IsFiniteSet(Books!LedgerOf(some))
  BY <1>4, RowsOfBooks, FS_Subset
<1>6. \A e \in ledger : e.type = "REFUND" => e.refund \in Refunds /\ refund[e.refund].payment = e.payment
  BY RowsOfBooks, EntriesHaveOwners
<1> QED
  BY <1>3, <1>4, <1>5, <1>6 DEF rs, dom

\* One of the two queries, and the other: what was read tells of the payments that nobody
\* wrote in between.
LEMMA ReadOnKeeps ==
    ASSUME Books!AuditAssumption, Books!IInv, Books!ReadRefunds \/ Books!ReadLedger
    PROVE  Books!IInv'
<1> DEFINE some == audit.payments
           rs == Books!RefundsOf(some)
           es == Books!LedgerOf(some)
<1>1. UNCHANGED <<pay, refund, ledger, moment, damaged>>
  BY DEF Books!ReadRefunds, Books!ReadLedger
<1>2. Books!Tally(Payments, {}, pay, refund, ledger) /\ Books!Tally(Payments, {}, pay, refund, ledger)'
  BY <1>1 DEF Books!IInv, Books!Tally, Books!Honest
<1>3. audit.step \in {"PAYMENTS", "REFUNDS", "LEDGER"} /\ Books!Scanned /\ Books!Reading
  BY DEF Books!IInv, Books!ReadRefunds, Books!ReadLedger
<1>4. some \in SUBSET Payments /\ DOMAIN audit = DOMAIN Books!Idle
  BY <1>3 DEF Books!Scanned
<1>5. /\ DOMAIN rs = {x \in Refunds : refund[x].payment \in some}
      /\ rs \in [DOMAIN rs -> Books!RefundRows]
      /\ \A r \in DOMAIN rs : rs[r] = refund[r]
      /\ es \subseteq ledger /\ IsFiniteSet(es)
      /\ \A e \in ledger : e \in es <=> e.payment \in some
      /\ \A e \in ledger : e.type = "REFUND" =>
            e.refund \in Refunds /\ refund[e.refund].payment = e.payment
  BY <1>4, QueriesRead
<1>6. ledger \subseteq Books!EntryRows /\ Books!Known \subseteq some
  BY RowsOfBooks DEF Books!Known
<1> HIDE DEF rs, es
<1>7. ASSUME NEW step \in {"REFUNDS", "LEDGER", "DONE"}, NEW given, NEW entries,
             audit' = [audit EXCEPT !.refund = given, !.ledger = entries, !.step = step]
      PROVE  /\ audit'.step = step /\ audit'.refund = given /\ audit'.ledger = entries
             /\ audit'.payments = some /\ audit'.pay = audit.pay /\ audit'.raced = audit.raced
             /\ Books!Scanned' /\ Books!Known' = Books!Known
  <2>1. /\ audit'.step = step /\ audit'.refund = given /\ audit'.ledger = entries
        /\ audit'.payments = some /\ audit'.pay = audit.pay /\ audit'.raced = audit.raced
        /\ DOMAIN audit' = DOMAIN audit /\ audit'.limit = audit.limit
        /\ audit'.window = audit.window
    BY <1>4, <1>7, FieldsOfReport
  <2> QED
    BY <1>3, <2>1 DEF Books!Scanned, Books!Known
<1>8. CASE Books!ReadRefunds /\ audit.step = "PAYMENTS"
  <2>1. audit' = [audit EXCEPT !.refund = rs, !.ledger = audit.ledger, !.step = "REFUNDS"]
    BY <1>4, <1>8, FieldsOfReport DEF Books!ReadRefunds, rs
  <2>2. /\ audit'.step = "REFUNDS" /\ audit'.refund = rs /\ audit'.payments = some
        /\ audit'.pay = audit.pay /\ Books!Scanned' /\ Books!Known' = Books!Known
    BY <1>7, <2>1
  <2>3. Books!RefundsAsRead'
    <3>1. DOMAIN rs \subseteq Refunds
      BY <1>5
    <3>2. \A r \in DOMAIN rs : rs[r].payment \in some /\ refund[r].payment = rs[r].payment
      BY <1>5
    <3>3. \A r \in Refunds : refund[r].payment \in Books!Known => r \in DOMAIN rs /\ rs[r] = refund[r]
      BY <1>5, <1>6
    <3> QED
      BY <1>1, <1>5, <2>2, <3>1, <3>2, <3>3 DEF Books!RefundsAsRead
  <2>4. Books!Reading'
    BY <1>1, <1>3, <2>2, <2>3 DEF Books!Reading
  <2> QED
    BY <1>1, <1>2, <2>2, <2>4, RowsOfBooks DEF Books!IInv, Books!Done
<1>9. CASE Books!ReadLedger /\ audit.step = "PAYMENTS"
  <2>1. audit' = [audit EXCEPT !.refund = audit.refund, !.ledger = es, !.step = "LEDGER"]
    BY <1>4, <1>9, FieldsOfReport DEF Books!ReadLedger, es
  <2>2. /\ audit'.step = "LEDGER" /\ audit'.ledger = es /\ audit'.payments = some
        /\ audit'.pay = audit.pay /\ Books!Scanned' /\ Books!Known' = Books!Known
    BY <1>7, <2>1
  <2>3. Books!LedgerAsRead'
    <3>1. es \subseteq Books!EntryRows
      BY <1>5, <1>6
    <3>2. \A e \in es : /\ e.payment \in some
                        /\ e.type = "REFUND" =>
                              e.refund \in Refunds /\ refund[e.refund].payment = e.payment
      BY <1>5
    <3>3. \A e \in Books!EntryRows : e.payment \in Books!Known => (e \in es <=> e \in ledger)
      BY <1>5, <1>6
    <3> QED
      BY <1>1, <1>5, <2>2, <3>1, <3>2, <3>3, BookSums DEF Books!LedgerAsRead
  <2>4. Books!Reading'
    BY <1>1, <1>3, <2>2, <2>3 DEF Books!Reading
  <2> QED
    BY <1>1, <1>2, <2>2, <2>4, RowsOfBooks DEF Books!IInv, Books!Done
<1>10. ASSUME NEW given, NEW entries, Books!Tally(some, audit.raced, audit.pay, given, entries),
              audit' = [audit EXCEPT !.refund = given, !.ledger = entries, !.step = "DONE"]
       PROVE  Books!IInv'
  <2>1. /\ audit'.step = "DONE" /\ audit'.refund = given /\ audit'.ledger = entries
        /\ audit'.payments = some /\ audit'.pay = audit.pay /\ audit'.raced = audit.raced
        /\ Books!Scanned'
    BY <1>7, <1>10
  <2>2. Books!Tally(audit.payments, audit.raced, audit.pay, audit.refund, audit.ledger)'
    BY <1>1, <1>10, <2>1 DEF Books!Tally
  <2> QED
    BY <1>1, <1>2, <2>1, <2>2, RowsOfBooks DEF Books!IInv, Books!Done
<1>11. /\ audit.pay \in [Payments -> Books!PaymentRows]
       /\ \A p \in some \ audit.raced : audit.pay[p] = pay[p]
  BY <1>3 DEF Books!Reading, Books!Known
<1>12. CASE Books!ReadRefunds /\ audit.step # "PAYMENTS"
  <2> DEFINE entries == audit.ledger
  <2>1. Books!LedgerAsRead /\ audit.step = "LEDGER"
    BY <1>3, <1>12 DEF Books!Reading, Books!ReadRefunds
  <2>2. audit' = [audit EXCEPT !.refund = rs, !.ledger = entries, !.step = "DONE"]
    BY <1>4, <1>12, FieldsOfReport DEF Books!ReadRefunds, rs
  <2>3. /\ entries \in SUBSET Books!EntryRows /\ IsFiniteSet(entries)
        /\ \A e \in entries : /\ e.payment \in some
                              /\ e.type = "REFUND" =>
                                    e.refund \in Refunds /\ refund[e.refund].payment = e.payment
        /\ \A e \in Books!EntryRows : e.payment \in some \ audit.raced => (e \in entries <=> e \in ledger)
    BY <2>1, BookSums DEF Books!LedgerAsRead, Books!Known
  <2>4. /\ DOMAIN rs \subseteq Refunds
        /\ \A r \in DOMAIN rs : refund[r].payment = rs[r].payment
        /\ \A r \in Refunds : refund[r].payment \in some \ audit.raced =>
               r \in DOMAIN rs /\ rs[r] = refund[r]
    BY <1>5
  <2> HIDE DEF some, entries
  <2>5. Books!Tally(some, audit.raced, audit.pay, rs, entries)
    BY <1>2, <1>4, <1>5, <1>11, <2>3, <2>4, RowsOfBooks, ReadingTells
  <2> QED
    BY <1>10, <2>2, <2>5
<1>13. CASE Books!ReadLedger /\ audit.step # "PAYMENTS"
  <2> DEFINE given == audit.refund
  <2>1. Books!RefundsAsRead /\ audit.step = "REFUNDS"
    BY <1>3, <1>13 DEF Books!Reading, Books!ReadLedger
  <2>2. audit' = [audit EXCEPT !.refund = given, !.ledger = es, !.step = "DONE"]
    BY <1>4, <1>13, FieldsOfReport DEF Books!ReadLedger, es
  <2>3. /\ DOMAIN given \subseteq Refunds /\ given \in [DOMAIN given -> Books!RefundRows]
        /\ \A r \in DOMAIN given : refund[r].payment = given[r].payment
        /\ \A r \in Refunds : refund[r].payment \in some \ audit.raced =>
               r \in DOMAIN given /\ given[r] = refund[r]
    BY <2>1 DEF Books!RefundsAsRead, Books!Known
  <2>4. /\ es \in SUBSET Books!EntryRows
        /\ \A e \in es : /\ e.payment \in some
                         /\ e.type = "REFUND" =>
                               e.refund \in Refunds /\ refund[e.refund].payment = e.payment
        /\ \A e \in Books!EntryRows : e.payment \in some \ audit.raced => (e \in es <=> e \in ledger)
    BY <1>5, <1>6
  <2> HIDE DEF some, given
  <2>5. Books!Tally(some, audit.raced, audit.pay, given, es)
    BY <1>2, <1>4, <1>5, <1>11, <2>3, <2>4, RowsOfBooks, ReadingTells
  <2> QED
    BY <1>10, <2>2, <2>5
<1> QED
  BY <1>8, <1>9, <1>12, <1>13

\* The invariant holds initially and every step keeps it.
LEMMA BooksInductive ==
    ASSUME Books!AuditAssumption
    PROVE  /\ Books!Init => Books!IInv
           /\ Books!IInv /\ [Books!Next]_bookVars => Books!IInv'
<1>1. ASSUME Books!IInv, [Books!Next]_bookVars PROVE Books!IInv'
  <2>1. CASE UNCHANGED bookVars
    BY <1>1, <2>1 DEF bookVars, Books!IInv, Books!Tally, Books!Honest, Books!Done, Books!Reading,
       Books!RefundsAsRead, Books!LedgerAsRead, Books!Known, Books!Scanned
  <2>2. CASE Books!Read
    BY <1>1, <2>2, ReadPaymentsKeeps, ReadOnKeeps DEF Books!Read
  <2>3. CASE Books!Write
    BY <1>1, <2>3, CaptureKeeps, RequestKeeps, SucceedKeeps, RepairKeeps, FailKeeps
       DEF Books!Write
  <2>4. CASE Books!Damage
    BY <1>1, <2>4, DamageKeeps
  <2>5. CASE Books!Tick
    BY <1>1, <2>5, TickKeeps
  <2> QED
    BY <1>1, <2>1, <2>2, <2>3, <2>4, <2>5 DEF Books!Next
<1> QED
  BY <1>1, BooksStart

\* The issues of one payment are about it, and those about its refunded amount tell of it.
LEMMA IssuesOfPayment ==
    ASSUME NEW p, NEW row, NEW given, NEW entries,
           NEW i \in Books!PaymentIssues(p, row, given, entries)
    PROVE  /\ i.payment = p
           /\ i.type = "REFUNDED_AMOUNT_MISMATCH" =>
                 ~ Books!RefundedAmountMatches(p, row, given)
<1>1. ASSUME NEW es, NEW amount, NEW key, NEW j \in Books!EntryIssues(es, amount, key, p)
      PROVE  j.payment = p /\ j.type # "REFUNDED_AMOUNT_MISMATCH"
  BY <1>1 DEF Books!EntryIssues, Books!Issue, Books!If
<1> DEFINE wrong == Books!If(Books!SumOf(Books!Amounts(given), Books!Successes(p, given))
                                # row.refunded,
                             Books!Issue("REFUNDED_AMOUNT_MISMATCH", p, Books!Key("payment", p)))
<1>2. ASSUME NEW j \in wrong
      PROVE  j.payment = p /\ ~ Books!RefundedAmountMatches(p, row, given)
  BY <1>2 DEF Books!Issue, Books!If, Books!RefundedAmountMatches
<1>3. \/ \E es, amount, key : i \in Books!EntryIssues(es, amount, key, p)
      \/ i \in wrong
  BY DEF Books!PaymentIssues
<1> HIDE DEF wrong
<1> QED
  BY <1>1, <1>2, <1>3

\* Of a payment whose books are in order there is nothing to say, and the entries that tell
\* of payments and refunds that were read are no orphans.
LEMMA HonestIsSilent ==
    ASSUME NEW p, NEW row, NEW given, NEW entries, Books!Honest(p, row, given, entries)
    PROVE  Books!PaymentIssues(p, row, given, entries) = {}
<1>1. ASSUME NEW es, NEW amount, NEW key, Books!OnlyEntry(es, amount, key)
      PROVE  Books!EntryIssues(es, amount, key, p) = {}
  <2>1. PICK e \in es : es = {e} /\ e.amount = amount /\ e.key = key
    BY <1>1 DEF Books!OnlyEntry
  <2>2. (CHOOSE x \in es : TRUE) = e
    BY <2>1
  <2> QED
    BY <2>1, <2>2 DEF Books!EntryIssues, Books!If
<1> DEFINE S == Books!Successes(p, given)
<1>2. row.status \in Books!Captured =>
          Books!EntryIssues(Books!Credits(p, entries), Amount[p], Books!Key("payment", p), p) = {}
  BY <1>1 DEF Books!Honest
<1>3. \A r \in S : Books!EntryIssues(Books!Debits(r, entries), given[r].amount,
                                     Books!Key("refund", r), p) = {}
  BY <1>1 DEF Books!Honest
<1>4. Books!SumOf(Books!Amounts(given), S) = row.refunded
  BY DEF Books!Honest
<1> QED
  BY <1>2, <1>3, <1>4 DEF Books!PaymentIssues, Books!If

\* What the report says is about payments that were tampered with, or written between its
\* queries.
LEMMA IssuesAreDeserved ==
    ASSUME Books!AuditAssumption, Books!IInv, Books!Done, NEW i \in Books!AllIssues(audit)
    PROVE  i.payment \in damaged \cup audit.raced
<1>1. Books!Tally(audit.payments, audit.raced, audit.pay, audit.refund, audit.ledger)
  BY DEF Books!IInv
<1>2. ASSUME NEW p \in audit.payments,
             i \in Books!PaymentIssues(p, audit.pay[p], audit.refund, audit.ledger)
      PROVE  i.payment \in damaged \cup audit.raced
  <2>1. i.payment = p
    BY <1>2, IssuesOfPayment
  <2>2. p \notin damaged \cup audit.raced =>
            Books!Honest(p, audit.pay[p], audit.refund, audit.ledger)
    BY <1>1 DEF Books!Tally
  <2> QED
    BY <1>2, <2>1, <2>2, HonestIsSilent
<1>3. ASSUME NEW e \in audit.ledger, i \in Books!OrphanIssues(e, audit.payments, audit.refund)
      PROVE  i.payment \in audit.raced
  <2>1. i.payment = e.payment
    BY <1>3 DEF Books!OrphanIssues, Books!If, Books!Issue
  <2>2. e.payment \notin audit.raced => Books!EntryBelongs(e, audit.payments, audit.refund)
    BY <1>1 DEF Books!Tally
  <2> QED
    BY <1>3, <2>1, <2>2 DEF Books!EntryBelongs, Books!OrphanIssues, Books!If
<1> QED
  BY <1>2, <1>3 DEF Books!AllIssues

\* There are finitely many issues, whatever was read.
LEMMA IssuesAreFinite ==
    ASSUME Books!AuditAssumption, Books!IInv, audit.step = "DONE"
    PROVE  IsFiniteSet(Books!AllIssues(audit))
<1>1. /\ IsFiniteSet(audit.payments) /\ IsFiniteSet(DOMAIN audit.refund)
      /\ IsFiniteSet(audit.ledger)
  <2>1. Books!Tally(audit.payments, audit.raced, audit.pay, audit.refund, audit.ledger)
    BY DEF Books!IInv, Books!Done
  <2>2. audit.payments \subseteq Payments /\ DOMAIN audit.refund \subseteq Refunds
    BY <2>1 DEF Books!Tally
  <2>3. IsFiniteSet(audit.ledger)
    BY <2>1, BookSums DEF Books!Tally
  <2> QED
    BY <2>2, <2>3, RowsOfBooks, FS_Subset
<1>2. \A c, j : IsFiniteSet(Books!If(c, j))
  BY FS_Singleton, FS_EmptySet DEF Books!If
<1>3. \A es, amount, key, p : IsFiniteSet(Books!EntryIssues(es, amount, key, p))
  BY <1>2, FS_Singleton, FS_Union DEF Books!EntryIssues
<1>4. ASSUME NEW p
      PROVE  IsFiniteSet(Books!PaymentIssues(p, audit.pay[p], audit.refund, audit.ledger))
  <2> DEFINE S == Books!Successes(p, audit.refund)
             f == [r \in S |-> Books!EntryIssues(Books!Debits(r, audit.ledger),
                                  audit.refund[r].amount, Books!Key("refund", r), p)]
             every == UNION {Books!EntryIssues(Books!Debits(r, audit.ledger),
                              audit.refund[r].amount, Books!Key("refund", r), p) : r \in S}
  <2>1. IsFiniteSet(S)
    BY <1>1, FS_Subset DEF Books!Successes
  <2>2. every = UNION {f[r] : r \in S} /\ \A r \in S : IsFiniteSet(f[r])
    BY <1>3
  <2> HIDE DEF S, f, every
  <2>3. IsFiniteSet(UNION {f[r] : r \in S})
    BY <2>1, <2>2, FiniteTogether
  <2>4. IsFiniteSet(every)
    BY <2>2, <2>3
  <2> QED
    BY <1>2, <1>3, <2>4, FS_Union, FS_EmptySet DEF Books!PaymentIssues, S, every
<1>5. \A e : IsFiniteSet(Books!OrphanIssues(e, audit.payments, audit.refund))
  BY <1>2, FS_Union DEF Books!OrphanIssues
<1> DEFINE f == [p \in audit.payments |->
                    Books!PaymentIssues(p, audit.pay[p], audit.refund, audit.ledger)]
           g == [e \in audit.ledger |-> Books!OrphanIssues(e, audit.payments, audit.refund)]
           one == UNION {f[p] : p \in audit.payments}
           other == UNION {g[e] : e \in audit.ledger}
<1>6. /\ Books!AllIssues(audit) = one \cup other
      /\ \A p \in audit.payments : IsFiniteSet(f[p])
      /\ \A e \in audit.ledger : IsFiniteSet(g[e])
  BY <1>4, <1>5 DEF Books!AllIssues
<1> HIDE DEF f, g
<1>7. IsFiniteSet(one)
  BY <1>1, <1>6, FiniteTogether
<1>8. IsFiniteSet(other)
  BY <1>1, <1>6, FiniteTogether
<1> HIDE DEF one, other
<1> QED
  BY <1>6, <1>7, <1>8, FS_Union

\* What is left of the issues is some of them, as many as were asked for if it is not all.
LEMMA CutIsPart ==
    ASSUME NEW issues, IsFiniteSet(issues), NEW limit \in Nat \ {0}
    PROVE  /\ Books!Cut(issues, limit) \subseteq issues
           /\ Books!Cut(issues, limit) # issues => Cardinality(Books!Cut(issues, limit)) = limit
           /\ Books!Cut(issues, limit) = {} => issues = {}
<1>1. Cardinality(issues) \in Nat /\ Cardinality({}) = 0
  BY FS_CardinalityType, FS_EmptySet
<1>2. CASE Cardinality(issues) <= limit
  BY <1>2, BookSums DEF Books!Cut
<1>3. CASE ~ (Cardinality(issues) <= limit)
  <2>1. \E some \in SUBSET issues : Cardinality(some) = limit
    BY <1>1, <1>3, PartOfSize
  <2>2. Books!Cut(issues, limit) = CHOOSE some \in SUBSET issues : Cardinality(some) = limit
    BY <1>3, BookSums DEF Books!Cut
  <2>3. Books!Cut(issues, limit) \subseteq issues /\ Cardinality(Books!Cut(issues, limit)) = limit
    BY <2>1, <2>2
  <2> QED
    BY <1>1, <2>3
<1> QED
  BY <1>2, <1>3

\* What the report shows, whatever was read.
LEMMA ResultIsCut ==
    ASSUME Books!AuditAssumption, Books!IInv, audit.step = "DONE"
    PROVE  /\ Books!Result.issues \subseteq Books!AllIssues(audit)
           /\ Books!Result.issues # Books!AllIssues(audit) =>
                 Cardinality(Books!Result.issues) >= audit.limit
           /\ Books!Result.issues = {} => Books!AllIssues(audit) = {}
<1>1. IsFiniteSet(Books!AllIssues(audit))
  BY IssuesAreFinite
<1>2. audit.limit \in Nat \ {0}
  BY DEF Books!IInv, Books!Scanned, Books!AuditAssumption
<1>3. Books!Result.issues = Books!Cut(Books!AllIssues(audit), audit.limit)
  BY DEF Books!Result, Books!runInternalReconciliation
<1> QED
  BY <1>1, <1>2, <1>3, CutIsPart

\* A report that leaves an issue out says so.
LEMMA BooksSayCut ==
    ASSUME Books!AuditAssumption, Books!IInv
    PROVE  Books!CutIsSaid
<1> SUFFICES ASSUME audit.step = "DONE", Books!Result.issues # Books!AllIssues(audit)
             PROVE  Books!Result.truncated
  BY DEF Books!CutIsSaid, Books!Done
<1>1. Books!Result.truncated <=>
          /\ Cardinality(Books!Result.issues) >= audit.limit
          /\ audit.payments # {} \/ DOMAIN audit.refund # {} \/ audit.ledger # {}
  BY BookSums DEF Books!Result, Books!runInternalReconciliation
<1>2. Books!AllIssues(audit) # {}
  BY ResultIsCut
<1>3. audit.payments # {} \/ audit.ledger # {}
  BY <1>2 DEF Books!AllIssues
<1> QED
  BY <1>1, <1>3, ResultIsCut

\* The report and the page of a payment compute the same.
LEMMA BooksAgree ==
    ASSUME NEW p \in audit.payments
    PROVE  Books!RefundedAmountMatches(p, audit.pay[p], audit.refund) <=>
               \A i \in Books!AllIssues(audit) :
                   ~ (i.type = "REFUNDED_AMOUNT_MISMATCH" /\ i.payment = p)
<1> DEFINE issue == Books!Issue("REFUNDED_AMOUNT_MISMATCH", p, Books!Key("payment", p))
<1>1. ASSUME ~ Books!RefundedAmountMatches(p, audit.pay[p], audit.refund)
      PROVE  issue \in Books!AllIssues(audit)
  <2>1. issue \in Books!PaymentIssues(p, audit.pay[p], audit.refund, audit.ledger)
    BY <1>1 DEF Books!PaymentIssues, Books!RefundedAmountMatches, Books!If
  <2> HIDE DEF issue
  <2> QED
    BY <2>1 DEF Books!AllIssues
<1>2. issue.type = "REFUNDED_AMOUNT_MISMATCH" /\ issue.payment = p
  BY DEF Books!Issue
<1>3. ASSUME NEW i \in Books!AllIssues(audit), i.type = "REFUNDED_AMOUNT_MISMATCH", i.payment = p
      PROVE  ~ Books!RefundedAmountMatches(p, audit.pay[p], audit.refund)
  <2>1. \A e : i \notin Books!OrphanIssues(e, audit.payments, audit.refund)
    BY <1>3 DEF Books!OrphanIssues, Books!Issue, Books!If
  <2>2. PICK other \in audit.payments :
            i \in Books!PaymentIssues(other, audit.pay[other], audit.refund, audit.ledger)
    BY <1>3, <2>1 DEF Books!AllIssues
  <2>3. other = p
    BY <1>3, <2>2, IssuesOfPayment
  <2> QED
    BY <1>3, <2>2, <2>3, IssuesOfPayment
<1> HIDE DEF issue
<1> QED
  BY <1>1, <1>2, <1>3

\* A payment of which nothing is said has the one entry of its capture and of each refund,
\* and these add up.
LEMMA SilentIsHonest ==
    ASSUME NEW p, NEW row, NEW given, NEW entries,
           Books!PaymentIssues(p, row, given, entries) = {}
    PROVE  /\ row.status \in Books!Captured =>
                 Books!OnlyEntry(Books!Credits(p, entries), Amount[p], Books!Key("payment", p))
           /\ SumOf(Books!Amounts(given), Books!Successes(p, given)) = row.refunded
           /\ \A r \in Books!Successes(p, given) :
                 Books!OnlyEntry(Books!Debits(r, entries), given[r].amount, Books!Key("refund", r))
<1>1. ASSUME NEW es, NEW amount, NEW key, Books!EntryIssues(es, amount, key, p) = {}
      PROVE  Books!OnlyEntry(es, amount, key)
  <2>1. es # {} /\ \A d, e \in es : d = e
    BY <1>1 DEF Books!EntryIssues
  <2>2. PICK e \in es : es = {e}
    BY <2>1
  <2>3. (CHOOSE x \in es : TRUE) = e
    BY <2>2
  <2>4. e.amount = amount /\ e.key = key
    BY <1>1, <2>1, <2>3 DEF Books!EntryIssues, Books!If
  <2> QED
    BY <2>2, <2>4 DEF Books!OnlyEntry
<1>2. /\ row.status \in Books!Captured =>
            Books!EntryIssues(Books!Credits(p, entries), Amount[p], Books!Key("payment", p), p) = {}
      /\ \A r \in Books!Successes(p, given) :
            Books!EntryIssues(Books!Debits(r, entries), given[r].amount,
                              Books!Key("refund", r), p) = {}
  BY DEF Books!PaymentIssues
<1>3. Books!SumOf(Books!Amounts(given), Books!Successes(p, given)) = row.refunded
  BY DEF Books!PaymentIssues, Books!If
<1> QED
  BY <1>1, <1>2, <1>3, BookSums

\* What was debited of a payment is what its successful refunds add up to, one entry each.
LEMMA DebitsAddUp ==
    ASSUME Books!AuditAssumption, NEW p \in Payments, NEW some, NEW given, NEW entries,
           DOMAIN given \subseteq Refunds, given \in [DOMAIN given -> Books!RefundRows],
           IsFiniteSet(entries),
           \A e \in entries : e.payment = p => Books!EntryBelongs(e, some, given),
           \A e \in entries : e.type = "REFUND" /\ e.refund \in DOMAIN given =>
               given[e.refund].payment = e.payment,
           \A r \in Books!Successes(p, given) :
               Books!OnlyEntry(Books!Debits(r, entries), given[r].amount, Books!Key("refund", r)),
           NEW amounts, \A e \in entries : amounts[e] = e.amount
    PROVE  SumOf(amounts, {e \in entries : e.payment = p /\ e.type = "REFUND"})
              = SumOf(Books!Amounts(given), Books!Successes(p, given))
<1> DEFINE E == {e \in entries : e.payment = p /\ e.type = "REFUND"}
           S == Books!Successes(p, given)
           f == [e \in E |-> e.refund]
<1>1. IsFiniteSet(E)
  BY FS_Subset
<1>2. \A e \in E : e.refund \in S /\ e \in Books!Debits(e.refund, entries)
  BY DEF Books!EntryBelongs, Books!Successes, Books!Debits
<1>3. \A e \in E : amounts[e] = given[e.refund].amount
  BY <1>2 DEF Books!OnlyEntry
<1>4. f \in [E -> S]
  BY <1>2
<1>5. \A d, e \in E : f[d] = f[e] => d = e
  BY <1>2 DEF Books!OnlyEntry
<1>6. ASSUME NEW r \in S PROVE \E e \in E : f[e] = r
  <2>1. PICK e \in entries : e.refund = r /\ e.type = "REFUND"
    BY DEF Books!OnlyEntry, Books!Debits
  <2>2. e.payment = p
    BY <2>1 DEF Books!Successes
  <2> QED
    BY <2>1, <2>2
<1>7. /\ Amount[p] \in Nat
      /\ \A r \in S : /\ Books!Amounts(given)[r] = given[r].amount
                      /\ Books!Amounts(given)[r] \in 0 .. Amount[p]
  BY SuccessesBounded DEF Books!AuditAssumption
<1>8. \A e \in E : amounts[e] \in 0 .. Amount[p] /\ Books!Amounts(given)[f[e]] = amounts[e]
  BY <1>2, <1>3, <1>7
<1> DEFINE M == Amount[p]
           credit == Books!Amounts(given)
<1> HIDE DEF E, S, f, M, credit
<1>9. /\ M \in Nat /\ \A r \in S : \E e \in E : f[e] = r
      /\ \A e \in E : amounts[e] \in 0 .. M /\ credit[f[e]] = amounts[e]
  BY <1>6, <1>7, <1>8 DEF M, credit
<1>10. SumOf(amounts, E) = SumOf(credit, S)
  BY <1>1, <1>4, <1>5, <1>9, SumOfMatching
<1> QED
  BY <1>10 DEF E, S, credit

\* The silence of a report about a payment means that it is settled.
LEMMA BooksAreSettled ==
    ASSUME Books!AuditAssumption, Books!IInv
    PROVE  Books!SilentMeansSettled
<1> SUFFICES ASSUME Books!Done, ~ Books!Result.truncated,
                    NEW p \in IF Books!Cardinality(audit.payments) < Books!ScanLimit(audit.limit)
                              THEN audit.window ELSE audit.payments,
                    Books!Quiet(p), \A i \in Books!Result.issues : i.payment # p
             PROVE  Books!Settled(p)
  BY DEF Books!SilentMeansSettled
<1> DEFINE amounts == [e \in audit.ledger |-> e.amount]
           sum(type) == Books!SumOf(amounts, {e \in audit.ledger : e.payment = p /\ e.type = type})
<1> SUFFICES ASSUME audit.pay[p].status \in Books!Captured
             PROVE  sum("CUSTOMER_PAYMENT") + audit.pay[p].refunded = Amount[p] + sum("REFUND")
  BY DEF Books!Settled
<1>1. /\ Books!Tally(audit.payments, audit.raced, audit.pay, audit.refund, audit.ledger)
      /\ p \in audit.payments /\ p \notin audit.raced /\ p \in Payments
  <2>1. Books!Scanned
    BY DEF Books!IInv, Books!Done
  <2>2. p \in audit.payments /\ p \in Payments
    BY <2>1 DEF Books!Scanned
  <2> QED
    BY <2>2 DEF Books!IInv, Books!Done, Books!Quiet
<1>2. Books!PaymentIssues(p, audit.pay[p], audit.refund, audit.ledger) = {}
  <2>1. \A i \in Books!AllIssues(audit) : i.payment # p
    BY BooksSayCut DEF Books!CutIsSaid
  <2>2. Books!PaymentIssues(p, audit.pay[p], audit.refund, audit.ledger) \subseteq Books!AllIssues(audit)
    BY <1>1 DEF Books!AllIssues
  <2> QED
    BY <2>1, <2>2, IssuesOfPayment
<1>3. Books!OnlyEntry(Books!Credits(p, audit.ledger), Amount[p], Books!Key("payment", p))
  BY <1>2, SilentIsHonest
<1>4. sum("CUSTOMER_PAYMENT") = Amount[p]
  <2>1. PICK e : Books!Credits(p, audit.ledger) = {e} /\ e.amount = Amount[p] /\ e \in audit.ledger
    BY <1>3 DEF Books!OnlyEntry, Books!Credits
  <2>2. amounts[e] = Amount[p] /\ Amount[p] \in Nat
    BY <1>1, <2>1 DEF Books!AuditAssumption
  <2> HIDE DEF amounts
  <2>4. SumOf(amounts, {e}) = Amount[p]
    BY <2>2, SumOfOne
  <2> QED
    BY <2>1, <2>4, BookSums DEF Books!Credits
<1>5. sum("REFUND") = SumOf(Books!Amounts(audit.refund), Books!Successes(p, audit.refund))
  <2>1. \A r \in Books!Successes(p, audit.refund) :
            Books!OnlyEntry(Books!Debits(r, audit.ledger), audit.refund[r].amount,
                            Books!Key("refund", r))
    BY <1>2, SilentIsHonest
  <2>2. /\ DOMAIN audit.refund \subseteq Refunds
        /\ audit.refund \in [DOMAIN audit.refund -> Books!RefundRows]
        /\ IsFiniteSet(audit.ledger)
        /\ \A e \in audit.ledger : e.payment = p => Books!EntryBelongs(e, audit.payments, audit.refund)
        /\ \A e \in audit.ledger : e.type = "REFUND" /\ e.refund \in DOMAIN audit.refund =>
               audit.refund[e.refund].payment = e.payment
    BY <1>1, BookSums DEF Books!Tally
  <2>3. \A e \in audit.ledger : amounts[e] = e.amount
    OBVIOUS
  <2> HIDE DEF amounts
  <2>4. SumOf(amounts, {e \in audit.ledger : e.payment = p /\ e.type = "REFUND"})
           = SumOf(Books!Amounts(audit.refund), Books!Successes(p, audit.refund))
    BY <1>1, <2>1, <2>2, <2>3, DebitsAddUp
  <2> QED
    BY <2>4, BookSums
<1>6. SumOf(Books!Amounts(audit.refund), Books!Successes(p, audit.refund)) = audit.pay[p].refunded
  BY <1>2, SilentIsHonest
<1> HIDE DEF sum
<1> QED
  BY <1>4, <1>5, <1>6

\* All that is said of the reconciliation.
LEMMA BooksTell ==
    ASSUME Books!AuditAssumption, Books!IInv
    PROVE  /\ Books!TypeOK
           /\ Books!HonestBooksAreSilent
           /\ Books!SilentMeansSettled
           /\ Books!ReportAgreesWithPage
           /\ Books!CutIsSaid
<1>1. Books!TypeOK
  BY RowsOfBooks DEF Books!TypeOK, Books!PaymentRows, Books!RefundRows, Books!EntryRows,
     Books!NoRefund
<1>2. Books!HonestBooksAreSilent
  BY ResultIsCut, IssuesAreDeserved DEF Books!HonestBooksAreSilent, Books!Done
<1>3. Books!ReportAgreesWithPage
  BY BooksAgree DEF Books!ReportAgreesWithPage, Books!Done
<1> QED
  BY <1>1, <1>2, <1>3, BooksAreSettled, BooksSayCut

-----------------------------------------------------------------------------
(* The polls.                                                              *)

PollsAlone == INSTANCE OperationalPollingProofs WITH
    status <- polled, booked <- pollable, points <- events, proc <- cycles, faults <- mishaps,
    Instance <- Timers.instances, Admin <- Timers.admins, Connection <- Timers.connections,
    Delivery <- Timers.deliveries, Eligible <- Timers.eligible, Reports <- Timers.reports,
    BatchSize <- Timers.batch, InitialStatus <- Timers.status, MaxFaults <- Timers.faults
PollsMeet == INSTANCE OperationalPollingProofs WITH
    status <- polled, booked <- pollable, points <- events, proc <- cycles, faults <- mishaps,
    Instance <- Meeting.instances, Admin <- Meeting.admins, Connection <- Meeting.connections,
    Delivery <- Meeting.deliveries, Eligible <- Meeting.eligible, Reports <- Meeting.reports,
    BatchSize <- Meeting.batch, InitialStatus <- Meeting.status, MaxFaults <- Meeting.faults

\* The instance of the proofs and that of the suite have the same definitions, as is seen
\* when all of them are expanded.
LEMMA PollsAloneAreTwoPolls ==
    /\ TwoPolls!PollingAssumption => PollsAlone!PollingAssumption
    /\ TwoPolls!Init => PollsAlone!Init
    /\ TwoPolls!Next => PollsAlone!Next
    /\ PollsAlone!TypeOK /\ PollsAlone!NoConcurrentPolls
       => TwoPolls!TypeOK /\ TwoPolls!NoConcurrentPolls
<1>1. /\ TwoPolls!PollingAssumption => PollsAlone!PollingAssumption
      /\ TwoPolls!Init => PollsAlone!Init
      /\ TwoPolls!Next => PollsAlone!Next
      /\ PollsAlone!TypeOK => TwoPolls!TypeOK
      /\ PollsAlone!NoConcurrentPolls => TwoPolls!NoConcurrentPolls
  BY DEF TwoPolls!vars, PollsAlone!vars, TwoPolls!rows, PollsAlone!rows,
     TwoPolls!PollingStatuses, PollsAlone!PollingStatuses, TwoPolls!NoReport,
     PollsAlone!NoReport, TwoPolls!Idle, PollsAlone!Idle, TwoPolls!Goto, PollsAlone!Goto,
     TwoPolls!Current, PollsAlone!Current, TwoPolls!Orders, PollsAlone!Orders, TwoPolls!Init,
     PollsAlone!Init, TwoPolls!TransitionStatus, PollsAlone!TransitionStatus, TwoPolls!Wanted,
     PollsAlone!Wanted, TwoPolls!Batches, PollsAlone!Batches, TwoPolls!StartCycle,
     PollsAlone!StartCycle, TwoPolls!Proceed, PollsAlone!Proceed, TwoPolls!TryAcquire,
     PollsAlone!TryAcquire, TwoPolls!Leave, PollsAlone!Leave, TwoPolls!Release,
     PollsAlone!Release, TwoPolls!AdminRefresh, PollsAlone!AdminRefresh,
     TwoPolls!ReadDelivery, PollsAlone!ReadDelivery, TwoPolls!GetTracking,
     PollsAlone!GetTracking, TwoPolls!FindDriver, PollsAlone!FindDriver,
     TwoPolls!FindExisting, PollsAlone!FindExisting, TwoPolls!InUse, PollsAlone!InUse,
     TwoPolls!NewRow, PollsAlone!NewRow, TwoPolls!UpsertDriver, PollsAlone!UpsertDriver,
     TwoPolls!AssignDriver, PollsAlone!AssignDriver, TwoPolls!RereadDelivery,
     PollsAlone!RereadDelivery, TwoPolls!FindEvent, PollsAlone!FindEvent,
     TwoPolls!CreatePoint, PollsAlone!CreatePoint,
     TwoPolls!TransitionFromTracking, PollsAlone!TransitionFromTracking, TwoPolls!Fail,
     PollsAlone!Fail, TwoPolls!Crash, PollsAlone!Crash, TwoPolls!Operate, PollsAlone!Operate,
     TwoPolls!Refresh, PollsAlone!Refresh, TwoPolls!Poll,
     PollsAlone!Poll, TwoPolls!Next, PollsAlone!Next, TwoPolls!TypeOK, PollsAlone!TypeOK,
     TwoPolls!NoConcurrentPolls, PollsAlone!NoConcurrentPolls, TwoPolls!DeliveryStatuses,
     PollsAlone!DeliveryStatuses, TwoPolls!TerminalStatuses, PollsAlone!TerminalStatuses,
     TwoPolls!AllowedTransitions, PollsAlone!AllowedTransitions,
     TwoPolls!CanTransitionDelivery, PollsAlone!CanTransitionDelivery, TwoPolls!StatusOrder,
     PollsAlone!StatusOrder, TwoPolls!Rank, PollsAlone!Rank, TwoPolls!IsStaleTransition,
     PollsAlone!IsStaleTransition, TwoPolls!LifecycleVerdict, PollsAlone!LifecycleVerdict,
     TwoPolls!CancellableStatuses, PollsAlone!CancellableStatuses, TwoPolls!Cardinality,
     PollsAlone!Cardinality, TwoPolls!IsFiniteSet, PollsAlone!IsFiniteSet,
     TwoPolls!PollingAssumption, PollsAlone!PollingAssumption
<1> QED
  BY <1>1

\* So it is with administrators.
LEMMA PollsMeetArePollAndAdmin ==
    /\ PollAndAdmin!PollingAssumption => PollsMeet!PollingAssumption
    /\ PollAndAdmin!Init => PollsMeet!Init
    /\ PollAndAdmin!Next => PollsMeet!Next
    /\ PollsMeet!TypeOK => PollAndAdmin!TypeOK
    /\ \A from, to : PollsMeet!CanTransitionDelivery(from, to)
                     => PollAndAdmin!CanTransitionDelivery(from, to)
<1>1. /\ PollAndAdmin!PollingAssumption => PollsMeet!PollingAssumption
      /\ PollAndAdmin!Init => PollsMeet!Init
      /\ PollAndAdmin!Next => PollsMeet!Next
      /\ PollsMeet!TypeOK => PollAndAdmin!TypeOK
  BY DEF PollAndAdmin!vars, PollsMeet!vars, PollAndAdmin!rows, PollsMeet!rows,
     PollAndAdmin!PollingStatuses, PollsMeet!PollingStatuses, PollAndAdmin!NoReport,
     PollsMeet!NoReport, PollAndAdmin!Idle, PollsMeet!Idle, PollAndAdmin!Goto, PollsMeet!Goto,
     PollAndAdmin!Current, PollsMeet!Current, PollAndAdmin!Orders, PollsMeet!Orders,
     PollAndAdmin!Init, PollsMeet!Init, PollAndAdmin!TransitionStatus,
     PollsMeet!TransitionStatus, PollAndAdmin!Wanted, PollsMeet!Wanted, PollAndAdmin!Batches,
     PollsMeet!Batches, PollAndAdmin!StartCycle, PollsMeet!StartCycle, PollAndAdmin!Proceed,
     PollsMeet!Proceed, PollAndAdmin!TryAcquire, PollsMeet!TryAcquire, PollAndAdmin!Leave,
     PollsMeet!Leave, PollAndAdmin!Release, PollsMeet!Release, PollAndAdmin!AdminRefresh,
     PollsMeet!AdminRefresh, PollAndAdmin!ReadDelivery, PollsMeet!ReadDelivery,
     PollAndAdmin!GetTracking, PollsMeet!GetTracking, PollAndAdmin!FindDriver,
     PollsMeet!FindDriver, PollAndAdmin!FindExisting, PollsMeet!FindExisting,
     PollAndAdmin!InUse, PollsMeet!InUse, PollAndAdmin!NewRow, PollsMeet!NewRow,
     PollAndAdmin!UpsertDriver, PollsMeet!UpsertDriver, PollAndAdmin!AssignDriver,
     PollsMeet!AssignDriver, PollAndAdmin!RereadDelivery, PollsMeet!RereadDelivery,
     PollAndAdmin!FindEvent, PollsMeet!FindEvent,
     PollAndAdmin!CreatePoint, PollsMeet!CreatePoint, PollAndAdmin!TransitionFromTracking,
     PollsMeet!TransitionFromTracking, PollAndAdmin!Fail, PollsMeet!Fail, PollAndAdmin!Crash,
     PollsMeet!Crash, PollAndAdmin!Operate, PollsMeet!Operate,
     PollAndAdmin!Refresh, PollsMeet!Refresh, PollAndAdmin!Poll,
     PollsMeet!Poll, PollAndAdmin!Next, PollsMeet!Next, PollAndAdmin!TypeOK, PollsMeet!TypeOK,
     PollAndAdmin!NoConcurrentPolls, PollsMeet!NoConcurrentPolls,
     PollAndAdmin!DeliveryStatuses, PollsMeet!DeliveryStatuses, PollAndAdmin!TerminalStatuses,
     PollsMeet!TerminalStatuses, PollAndAdmin!AllowedTransitions,
     PollsMeet!AllowedTransitions, PollAndAdmin!CanTransitionDelivery,
     PollsMeet!CanTransitionDelivery, PollAndAdmin!StatusOrder, PollsMeet!StatusOrder,
     PollAndAdmin!Rank, PollsMeet!Rank, PollAndAdmin!IsStaleTransition,
     PollsMeet!IsStaleTransition, PollAndAdmin!LifecycleVerdict, PollsMeet!LifecycleVerdict,
     PollAndAdmin!CancellableStatuses, PollsMeet!CancellableStatuses,
     PollAndAdmin!Cardinality, PollsMeet!Cardinality, PollAndAdmin!IsFiniteSet,
     PollsMeet!IsFiniteSet, PollAndAdmin!PollingAssumption, PollsMeet!PollingAssumption
<1>2. \A from, to : PollsMeet!CanTransitionDelivery(from, to)
                    => PollAndAdmin!CanTransitionDelivery(from, to)
  BY DEF PollsMeet!CanTransitionDelivery, PollAndAdmin!CanTransitionDelivery,
     PollsMeet!TerminalStatuses, PollAndAdmin!TerminalStatuses,
     PollsMeet!AllowedTransitions, PollAndAdmin!AllowedTransitions
<1> QED
  BY <1>1, <1>2

-----------------------------------------------------------------------------
(* All parts.                                                              *)

\* The invariants of all parts; those at rest are in their initial state.
AllInvariants ==
    /\ part \in {"webhook", "twilio", "msg91", "twoPolls", "pollAndAdmin", "survey",
                "history", "prices", "books"}
    /\ IInv /\ Twilio!IInv /\ Survey!IInv /\ History!IInv /\ Books!IInv
    /\ IF part = "pollAndAdmin" THEN PollsMeet!IInv ELSE PollsAlone!IInv

\* A step of the suite is one of each part, or leaves the part alone.
LEMMA StepsOfParts ==
    ASSUME [MCNext]_all
    PROVE  /\ part' = part
           /\ [Next]_vars /\ [Survey!Next]_surveyVars
           /\ Twilio!Next \/ Msg91!Next \/ UNCHANGED otpVars
           /\ part = "pollAndAdmin" => [PollAndAdmin!Next]_pollVars
           /\ part # "pollAndAdmin" => [TwoPolls!Next]_pollVars
           /\ part # "twilio" /\ part # "msg91" => UNCHANGED otpVars
           /\ History!Next \/ Prices!Next \/ UNCHANGED historyVars
           /\ [Books!Next]_bookVars
<1>1. CASE UNCHANGED all
  <2>1. UNCHANGED <<part, webhookVars, otpVars, pollVars, surveyVars, historyVars, bookVars>>
    BY <1>1 DEF all
  <2>2. UNCHANGED vars
    BY <2>1 DEF webhookVars, vars
  <2> QED
    BY <2>1, <2>2
<1>2. CASE MCNext
  <2>1. UNCHANGED webhookVars => UNCHANGED vars
    BY DEF webhookVars, vars
  <2>2. part' = part
    BY <1>2 DEF MCNext
  <2>3. CASE /\ part = "webhook" /\ Next
             /\ UNCHANGED <<otpVars, pollVars, surveyVars, historyVars, bookVars>>
    BY <2>2, <2>3
  <2>4. CASE /\ \/ part = "twilio" /\ Twilio!Next
                \/ part = "msg91" /\ Msg91!Next
             /\ UNCHANGED <<webhookVars, pollVars, surveyVars, historyVars, bookVars>>
    BY <2>1, <2>2, <2>4
  <2>5. CASE /\ \/ part = "twoPolls" /\ TwoPolls!Next
                \/ part = "pollAndAdmin" /\ PollAndAdmin!Next
             /\ UNCHANGED <<webhookVars, otpVars, surveyVars, historyVars, bookVars>>
    BY <2>1, <2>2, <2>5
  <2>6. CASE /\ part = "survey" /\ Survey!Next
             /\ UNCHANGED <<webhookVars, otpVars, pollVars, historyVars, bookVars>>
    BY <2>1, <2>2, <2>6
  <2>7. CASE /\ \/ part = "history" /\ History!Next
                \/ part = "prices" /\ Prices!Next
             /\ UNCHANGED <<webhookVars, otpVars, pollVars, surveyVars, bookVars>>
    BY <2>1, <2>2, <2>7
  <2>8. CASE /\ part = "books" /\ Books!Next
             /\ UNCHANGED <<webhookVars, otpVars, pollVars, surveyVars, historyVars>>
    BY <2>1, <2>2, <2>8
  <2> QED
    BY <1>2, <2>3, <2>4, <2>5, <2>6, <2>7, <2>8 DEF MCNext
<1> QED
  BY <1>1, <1>2

\* The page is composed of what is, of few prices and of many.
LEMMA HistoryKeeps ==
    ASSUME History!IInv, History!Next \/ Prices!Next \/ UNCHANGED historyVars
    PROVE  History!IInv'
<1>1. History!HistoryAssumption /\ Prices!HistoryAssumption
  BY OperationsAssumption
<1>2. CASE History!Next \/ UNCHANGED historyVars
  BY <1>1, <1>2, HistoryInductive
<1>3. CASE Prices!Next
  BY <1>1, <1>2, <1>3, PricesArePages, HistoryInductive
<1> QED
  BY <1>2, <1>3

\* Every part keeps its invariant, by its own steps and those of the others.
LEMMA OperationsInductive ==
    /\ MCInit => AllInvariants
    /\ AllInvariants /\ [MCNext]_all => AllInvariants'
<1>a. /\ Twilio!OtpAssumption /\ Survey!ExperienceAssumption /\ History!HistoryAssumption
      /\ PollsAlone!PollingAssumption /\ PollsMeet!PollingAssumption
      /\ Books!AuditAssumption
  BY OperationsAssumption, PollsAloneAreTwoPolls, PollsMeetArePollAndAdmin
<1>1. ASSUME MCInit PROVE AllInvariants
  <2>1. /\ part \in {"webhook", "twilio", "msg91", "twoPolls", "pollAndAdmin", "survey",
                    "history", "prices", "books"}
        /\ Init /\ Twilio!Init /\ Survey!Init /\ History!Init /\ Books!Init
        /\ IF part = "pollAndAdmin" THEN PollAndAdmin!Init ELSE TwoPolls!Init
    BY <1>1 DEF MCInit
  <2>2. IInv /\ Twilio!IInv /\ Survey!IInv /\ History!IInv /\ Books!IInv
    BY <1>a, <2>1, WebhookInductive, OtpInductive, SurveyInductive, HistoryInductive,
       BooksInductive
  <2>3. IF part = "pollAndAdmin" THEN PollsMeet!IInv ELSE PollsAlone!IInv
    BY <1>a, <2>1, PollsAloneAreTwoPolls, PollsMeetArePollAndAdmin,
       PollsAlone!PollingInductive, PollsMeet!PollingInductive
  <2> QED
    BY <2>1, <2>2, <2>3 DEF AllInvariants
<1>2. ASSUME AllInvariants, [MCNext]_all PROVE AllInvariants'
  <2>1. IInv' /\ Twilio!IInv' /\ Survey!IInv' /\ History!IInv' /\ Books!IInv'
    BY <1>a, <1>2, StepsOfParts, WebhookInductive, OtpInductive, SurveyInductive, HistoryKeeps,
       BooksInductive
       DEF AllInvariants
  <2>2. CASE part = "pollAndAdmin"
    <3>1. [PollsMeet!Next]_(PollsMeet!vars) /\ PollsMeet!IInv
      <4>1. [PollAndAdmin!Next]_pollVars
        BY <1>2, <2>2, StepsOfParts
      <4>2. PollsMeet!IInv
        BY <1>2, <2>2 DEF AllInvariants
      <4>3. PollAndAdmin!Next => PollsMeet!Next
        BY PollsMeetArePollAndAdmin
      <4> QED
        BY <4>1, <4>2, <4>3 DEF PollsMeet!vars, pollVars
    <3>2. PollsMeet!IInv'
      BY <1>a, <3>1, PollsMeet!PollingInductive
    <3> QED
      BY <1>2, <2>1, <2>2, <3>2, StepsOfParts DEF AllInvariants
  <2>3. CASE part # "pollAndAdmin"
    <3>1. [PollsAlone!Next]_(PollsAlone!vars) /\ PollsAlone!IInv
      <4>1. [TwoPolls!Next]_pollVars
        BY <1>2, <2>3, StepsOfParts
      <4>2. PollsAlone!IInv
        BY <1>2, <2>3 DEF AllInvariants
      <4>3. TwoPolls!Next => PollsAlone!Next
        BY PollsAloneAreTwoPolls
      <4> QED
        BY <4>1, <4>2, <4>3 DEF PollsAlone!vars, pollVars
    <3>2. PollsAlone!IInv'
      BY <1>a, <3>1, PollsAlone!PollingInductive
    <3> QED
      BY <1>2, <2>1, <2>3, <3>2, StepsOfParts DEF AllInvariants
  <2> QED
    BY <2>2, <2>3
<1> QED
  BY <1>1, <1>2

\* In every behaviour, of the code of any part, its invariant holds.
THEOREM OperationsInvariant == MCSpec => []AllInvariants
<1>1. MCInit => AllInvariants
  BY OperationsInductive
<1>2. AllInvariants /\ [MCNext]_all => AllInvariants'
  BY OperationsInductive
<1> QED
  BY <1>1, <1>2, PTL DEF MCSpec

\* The lease of a webhook event has one holder until it runs out, and a delivery is polled by
\* one of those that believe to have its lock, for any number of handlers and instances
\* (WebhookInboxService, OperationalPollingService.pollDelivery).
THEOREM OneAtATimeAlways == MCSpec => []OneAtATime
<1>1. ASSUME AllInvariants PROVE OneAtATime
  <2>1. PollsAlone!PollingAssumption /\ PollsMeet!PollingAssumption
    BY OperationsAssumption, PollsAloneAreTwoPolls, PollsMeetArePollAndAdmin
  <2>2. TypeOK /\ LeaseIsExclusive
    BY <1>1, LeaseHasOneHolder DEF AllInvariants, IInv
  <2>3. part = "twoPolls" => TwoPolls!TypeOK /\ TwoPolls!NoConcurrentPolls
    BY <1>1, <2>1, PollsAlone!PollsHaveOneHolder, PollsAloneAreTwoPolls DEF AllInvariants
  <2>4. part = "pollAndAdmin" => PollAndAdmin!TypeOK
    BY <1>1, <2>1, PollsMeet!PollsHaveOneHolder, PollsMeetArePollAndAdmin DEF AllInvariants
  <2> QED
    BY <2>2, <2>3, <2>4 DEF OneAtATime
<1>2. AllInvariants => OneAtATime
  BY <1>1
<1> QED
  BY <1>2, OperationsInvariant, PTL

\* A parcel changes hands for a code only, whatever the limits are and however many handlers
\* send and verify codes at a time (DeliveryOtpService, SmsService).
THEOREM CodesOpenTheWayAlways == MCSpec => []CodesOpenTheWay
<1>1. ASSUME AllInvariants PROVE CodesOpenTheWay
  <2>1. Twilio!TypeOK /\ Msg91!TypeOK
    BY <1>1, OperationsAssumption, OtpTypeOK DEF AllInvariants
  <2>2. \A i \in DOMAIN codes : Twilio!Sound(i)
    BY <1>1 DEF AllInvariants, Twilio!IInv
  <2>3. Twilio!CodeWinsOnce /\ Twilio!WithdrawnWasNotReceived /\ Msg91!WithdrawnWasNotReceived
    BY <2>2 DEF Twilio!CodeWinsOnce, Twilio!WithdrawnWasNotReceived,
       Msg91!WithdrawnWasNotReceived, Twilio!Sound
  <2>4. Twilio!CompletedByCode /\ Twilio!AwaitedWasAccepted
    BY <1>1 DEF AllInvariants, Twilio!IInv
  <2> QED
    BY <2>1, <2>3, <2>4 DEF CodesOpenTheWay
<1>2. AllInvariants => CodesOpenTheWay
  BY <1>1
<1> QED
  BY <1>2, OperationsInvariant, PTL

\* A delivery has a whole survey or none, of its customer and after it was delivered, however
\* many submissions race each other and wherever one is cut off (RatingService.submit).
THEOREM SurveyIsWholeAlways == MCSpec => []SurveyIsWhole
<1>1. AllInvariants => SurveyIsWhole
  BY SurveyTypeOK DEF AllInvariants, SurveyIsWhole, Survey!IInv
<1> QED
  BY <1>1, OperationsInvariant, PTL

\* The inbox keeps its promise: an event is settled once, and as processed only when all
\* that it reports is recorded, for any bodies, handlers, failures and crashes
\* (WebhookInboxService.process).
THEOREM RefinesWebhookInbox == MCSpec => ImplementsWebhookInbox
<1>1. MCInit => Inbox!Init
  BY WebhookRefines DEF MCInit
<1>2. AllInvariants /\ [MCNext]_all => [Inbox!Next]_<<Verdicts, points>>
  BY StepsOfParts, WebhookRefines DEF AllInvariants
<1> QED
  BY <1>1, <1>2, OperationsInvariant, PTL DEF MCSpec, ImplementsWebhookInbox, Inbox!Spec

\* A delivery moves along its table, whether a webhook, a code or a poll moves it, whatever
\* status the handler had read, for any number of them.
THEOREM AllFollowTheTableAlways == MCSpec => AllFollowTheTable
<1> DEFINE WebhookFollows == \A d \in Delivery : CanTransitionDelivery(delivery[d], delivery'[d])
           OtpFollows == Twilio!CanTransitionDelivery(otpStatus, otpStatus')
           PollFollows == \A d \in DOMAIN polled :
                              PollAndAdmin!CanTransitionDelivery(polled[d], polled'[d])
<1>1. AllInvariants /\ [MCNext]_all => [WebhookFollows]_vars
  BY StepsOfParts, WebhookFollowsTable DEF AllInvariants
<1>2. AllInvariants /\ [MCNext]_all => [OtpFollows]_otpStatus
  BY StepsOfParts, OtpFollowsTable DEF AllInvariants, otpVars
<1>3. AllInvariants /\ [MCNext]_all => [PollFollows]_polled
  <2> SUFFICES ASSUME AllInvariants, [MCNext]_all PROVE PollFollows
    OBVIOUS
  <2>a. PollsAlone!PollingAssumption /\ PollsMeet!PollingAssumption
    BY OperationsAssumption, PollsAloneAreTwoPolls, PollsMeetArePollAndAdmin
  <2>1. CASE part = "pollAndAdmin"
    <3>1. [PollsMeet!Next]_(PollsMeet!vars) /\ PollsMeet!IInv
      <4>1. [PollAndAdmin!Next]_pollVars
        BY <2>1, StepsOfParts
      <4>2. PollsMeet!IInv
        BY <2>1 DEF AllInvariants
      <4>3. PollAndAdmin!Next => PollsMeet!Next
        BY PollsMeetArePollAndAdmin
      <4> QED
        BY <4>1, <4>2, <4>3 DEF PollsMeet!vars, pollVars
    <3>2. \A d \in DOMAIN polled : PollsMeet!CanTransitionDelivery(polled[d], polled'[d])
      BY <2>a, <3>1, PollsMeet!PollingFollowsTable
    <3> QED
      BY <3>2, PollsMeetArePollAndAdmin
  <2>2. CASE part # "pollAndAdmin"
    <3>1. [PollsAlone!Next]_(PollsAlone!vars) /\ PollsAlone!IInv
      <4>1. [TwoPolls!Next]_pollVars
        BY <2>2, StepsOfParts
      <4>2. PollsAlone!IInv
        BY <2>2 DEF AllInvariants
      <4>3. TwoPolls!Next => PollsAlone!Next
        BY PollsAloneAreTwoPolls
      <4> QED
        BY <4>1, <4>2, <4>3 DEF PollsAlone!vars, pollVars
    <3>2. \A d \in DOMAIN polled : PollsAlone!CanTransitionDelivery(polled[d], polled'[d])
      BY <2>a, <3>1, PollsAlone!PollingFollowsTable
    <3>3. \A from, to : PollsAlone!CanTransitionDelivery(from, to)
                        => PollAndAdmin!CanTransitionDelivery(from, to)
      BY DEF PollsAlone!CanTransitionDelivery, PollAndAdmin!CanTransitionDelivery,
         PollsAlone!TerminalStatuses, PollAndAdmin!TerminalStatuses,
         PollsAlone!AllowedTransitions, PollAndAdmin!AllowedTransitions
    <3> QED
      BY <3>2, <3>3
  <2> QED
    BY <2>1, <2>2
<1>4. MCSpec => [][WebhookFollows]_vars
  BY <1>1, OperationsInvariant, PTL DEF MCSpec
<1>5. MCSpec => [][OtpFollows]_otpStatus
  BY <1>2, OperationsInvariant, PTL DEF MCSpec
<1>6. MCSpec => [][PollFollows]_polled
  BY <1>3, OperationsInvariant, PTL DEF MCSpec
<1> QED
  BY <1>4, <1>5, <1>6 DEF AllFollowTheTable, FollowsTransitionTable,
     Twilio!FollowsTransitionTable, PollAndAdmin!FollowsTransitionTable

\* The page of a delivery tells what happened, for any number of readers, cancellations and
\* refunds, any prices, and wherever the rows move between two reads of a page; and a later
\* page of a reader takes nothing back (DeliveryHistoryService.getHistoryDetail).
THEOREM HistoryTellsAllAlways == MCSpec => HistoryTellsAll
<1> DEFINE Told ==
    /\ part = "history" =>
          /\ History!TypeOK
          /\ History!StatusIsOnTimeline
          /\ History!RefundedIsListed
          /\ History!RefundBelongs
    /\ part \in {"history", "prices"} => History!ChargedIsExplained
<1>1. AllInvariants => Told
  BY OperationsAssumption, HistoryShows DEF AllInvariants
<1>2. AllInvariants /\ [MCNext]_all => [PagesGoOn]_(History!vars)
  <2> SUFFICES ASSUME AllInvariants, [MCNext]_all PROVE PagesGoOn \/ UNCHANGED History!vars
    OBVIOUS
  <2>1. History!HistoryAssumption /\ Prices!HistoryAssumption /\ History!IInv
    BY OperationsAssumption DEF AllInvariants
  <2>2. CASE UNCHANGED historyVars
    BY <2>2 DEF historyVars, History!vars, History!rows
  <2>3. ASSUME History!Next PROVE PagesGoOn
    <3>1. UNCHANGED page \/ \E r \in Reader : History!Compose(r)
      BY <2>3 DEF History!Next, History!Advance, History!CreateCancellation, History!Pay,
         History!Finalize, History!CancelDelivery, History!RefundPrepaid, History!RequestRefund,
         History!Settle, History!ReadDelivery, History!Query, History!Write
    <3> QED
      BY <2>1, <3>1, HistoryGoesForward
  <2>4. ASSUME NEW s, History!Pay(s) PROVE PagesGoOn
    BY <2>1, <2>4, HistoryGoesForward DEF History!Pay, History!Write
  <2> QED
    BY <2>1, <2>2, <2>3, <2>4, StepsOfParts, PricesArePages
<1>3. MCSpec => []Told
  BY <1>1, OperationsInvariant, PTL
<1>4. MCSpec => [][PagesGoOn]_(History!vars)
  BY <1>2, OperationsInvariant, PTL DEF MCSpec
<1> QED
  BY <1>3, <1>4 DEF HistoryTellsAll, History!PagesGoForward, PagesGoOn

\* The reconciliation tells the truth about every payment that nobody wrote between its
\* queries, for any number of payments and refunds, any amounts, any limit of a report and
\* of its scan, and whatever the service writes of the other payments while its queries run
\* (AdminFinanceService, runInternalReconciliation).
THEOREM BooksAddUpAlways == MCSpec => []BooksAddUp
<1>1. AllInvariants => BooksAddUp
  BY OperationsAssumption, BooksTell DEF AllInvariants, BooksAddUp
<1> QED
  BY <1>1, OperationsInvariant, PTL
=============================================================================

------------------------ MODULE DeliveryBookingProofs ------------------------
(***************************************************************************)
(* Proofs about DeliveryBooking, for every set of handlers and any number  *)
(* of bookings, cancellations and crashes. No handler holds a lock; what   *)
(* keeps them apart is that a booking attempt that is in progress has one  *)
(* handler and keeps the delivery BOOKING (Books), and that what a handler *)
(* read before is still true when it matters (ConfirmKnows, CancelKnows).  *)
(***************************************************************************)
EXTENDS DeliveryBooking, FiniteSetTheorems, TLAPS

-----------------------------------------------------------------------------
(* Numbered tables.                                                        *)

\* The latest number of a table with M numbers is one of them, or 0.
LEMMA LatestType ==
    ASSUME NEW M \in Nat, NEW row
    PROVE  Latest(row, 1 .. M) \in 0 .. M
<1> DEFINE used == {n \in 1 .. M : row[n] # "NONE"}
<1>1. IsFiniteSet(1 .. M) /\ Cardinality(1 .. M) = M
  BY FS_Interval
<1>2. IsFiniteSet(used) /\ Cardinality(used) <= M
  BY <1>1, FS_Subset
<1>3. Cardinality(used) \in Nat
  BY <1>2, FS_CardinalityType
<1> QED
  BY <1>2, <1>3 DEF Latest

\* A table whose first k numbers are used, and no others, has k as its latest.
LEMMA LatestIs ==
    ASSUME NEW M \in Nat, NEW row, NEW k \in 0 .. M,
           \A n \in 1 .. M : row[n] # "NONE" <=> n <= k
    PROVE  Latest(row, 1 .. M) = k
<1>1. {n \in 1 .. M : row[n] # "NONE"} = 1 .. k
  OBVIOUS
<1>2. Cardinality(1 .. k) = k
  BY FS_Interval
<1> QED
  BY <1>1, <1>2 DEF Latest

\* A change that adds no row and removes none keeps the latest number.
LEMMA SameRows ==
    ASSUME NEW M \in Nat, NEW row, NEW new, Gapless(row, 1 .. M),
           \A n \in 1 .. M : new[n] # "NONE" <=> row[n] # "NONE"
    PROVE  Latest(new, 1 .. M) = Latest(row, 1 .. M) /\ Gapless(new, 1 .. M)
<1>1. Latest(new, 1 .. M) = Latest(row, 1 .. M)
  BY LatestType, LatestIs DEF Gapless
<1> QED
  BY <1>1 DEF Gapless

\* A number that is free, and was the next one at some time, is the next one still; the
\* insert leaves no gap.
LEMMA NextRow ==
    ASSUME NEW M \in Nat, NEW row, NEW new, Gapless(row, 1 .. M),
           NEW k \in 1 .. M, k <= Latest(row, 1 .. M) + 1, row[k] = "NONE",
           \A n \in 1 .. M : new[n] # "NONE" <=> (row[n] # "NONE" \/ n = k)
    PROVE  /\ k = Latest(row, 1 .. M) + 1
           /\ Latest(new, 1 .. M) = k
           /\ Gapless(new, 1 .. M)
<1>1. Latest(row, 1 .. M) \in 0 .. M
  BY LatestType
<1>2. k = Latest(row, 1 .. M) + 1
  BY <1>1 DEF Gapless
<1>3. \A n \in 1 .. M : new[n] # "NONE" <=> n <= k
  BY <1>1, <1>2 DEF Gapless
<1>4. Latest(new, 1 .. M) = k
  BY <1>3, LatestIs
<1> QED
  BY <1>2, <1>3, <1>4 DEF Gapless
-----------------------------------------------------------------------------
(* What a step does to the handlers.                                       *)

\* The handler p takes a step, the others do not, and all keep their types.
OnlyMoves(p) ==
    /\ proc' \in [Proc -> Handlers]
    /\ \A q \in Proc \ {p} : proc'[q] = proc[q]

LEMMA IdleType == Idle \in Handlers
  BY BookingAssumption DEF Idle, Handlers, Pcs, DeliveryStatuses

\* A handler that moves on keeps what it remembers.
LEMMA GotoStep ==
    ASSUME TypeOK, NEW p \in Proc, NEW pc \in Pcs, Goto(p, pc)
    PROVE  /\ OnlyMoves(p)
           /\ proc'[p].pc = pc
           /\ proc'[p].n = proc[p].n
           /\ proc'[p].from = proc[p].from
           /\ proc'[p].outcome = proc[p].outcome
  BY DEF TypeOK, Goto, OnlyMoves, Handlers

\* A handler that has counted rows remembers the number.
LEMMA GotoWithStep ==
    ASSUME TypeOK, NEW p \in Proc, NEW pc \in Pcs,
           NEW n \in 0 .. MaxBookings + MaxCancels, GotoWith(p, pc, n)
    PROVE  /\ OnlyMoves(p)
           /\ proc'[p].pc = pc
           /\ proc'[p].n = n
           /\ proc'[p].from = proc[p].from
<1> DEFINE moved == [proc EXCEPT ![p].pc = pc]
<1>1. /\ moved \in [Proc -> Handlers]
      /\ moved[p].pc = pc /\ moved[p].from = proc[p].from
      /\ \A q \in Proc \ {p} : moved[q] = proc[q]
  BY DEF TypeOK, Handlers
<1>2. proc' = [moved EXCEPT ![p].n = n]
  BY DEF GotoWith
<1> HIDE DEF moved
<1> QED
  BY <1>1, <1>2 DEF OnlyMoves, Handlers

\* A handler that was answered remembers the outcome.
LEMMA AnswerStep ==
    ASSUME TypeOK, NEW p \in Proc, NEW pc \in Pcs,
           NEW outcome \in {"BOOKED", "FAILED", "UNKNOWN", "CANCELLED", "REJECTED"},
           proc' = [proc EXCEPT ![p].pc = pc, ![p].outcome = outcome]
    PROVE  /\ OnlyMoves(p)
           /\ proc'[p].pc = pc
           /\ proc'[p].outcome = outcome
           /\ proc'[p].n = proc[p].n
           /\ proc'[p].from = proc[p].from
<1> DEFINE moved == [proc EXCEPT ![p].pc = pc]
<1>1. /\ moved \in [Proc -> Handlers]
      /\ moved[p].pc = pc /\ moved[p].from = proc[p].from /\ moved[p].n = proc[p].n
      /\ \A q \in Proc \ {p} : moved[q] = proc[q]
  BY DEF TypeOK, Handlers
<1>2. proc' = [moved EXCEPT ![p].outcome = outcome]
  OBVIOUS
<1> HIDE DEF moved
<1> DEFINE new == [moved[p] EXCEPT !.outcome = outcome]
<1>3. /\ new \in Handlers /\ new.pc = moved[p].pc /\ new.outcome = outcome
      /\ new.n = moved[p].n /\ new.from = moved[p].from
  BY <1>1 DEF Handlers
<1>4. proc' = [moved EXCEPT ![p] = new]
  BY <1>1, <1>2
<1> HIDE DEF new
<1> QED
  BY ZenonT(30), <1>1, <1>3, <1>4 DEF OnlyMoves

\* A handler that returns is idle.
LEMMA ReturnStep ==
    ASSUME TypeOK, NEW p \in Proc, Return(p)
    PROVE  OnlyMoves(p) /\ proc'[p].pc = "idle"
  BY IdleType DEF TypeOK, Return, OnlyMoves, Idle
-----------------------------------------------------------------------------
(* What the other handlers know.                                           *)

\* What can be known when p moves: no row is removed, a BOOKED attempt stays BOOKED and
\* its order, once cancelled, is not made again, an UNKNOWN attempt can only become
\* BOOKED, and only its own handler ends an attempt in progress.
Monotone(p) ==
    /\ LatestBooking' >= LatestBooking
    /\ LatestCancellation' >= LatestCancellation
    /\ \A n \in Attempt :
          /\ booking[n] = "BOOKED" => booking'[n] = "BOOKED"
          /\ booking[n] = "UNKNOWN" => booking'[n] \in {"UNKNOWN", "BOOKED"}
          /\ booking[n] = "BOOKING" /\ ~(Books(p) /\ proc[p].n = n) =>
                booking'[n] = "BOOKING"
    /\ \A n \in Cancel : cancellation[n] # "NONE" => cancellation'[n] # "NONE"
    /\ provider = "cancelled" /\ (\E n \in Attempt : booking[n] = "BOOKED") =>
          provider' = "cancelled"

\* Then the handlers that do not move go on knowing it.
LEMMA KnowledgeStays ==
    ASSUME IInv, NEW p \in Proc, OnlyMoves(p), Monotone(p), NEW q \in Proc \ {p}
    PROVE  ConfirmKnows(q)' /\ CancelKnows(q)'
<1>1. proc'[q] = proc[q] /\ ConfirmKnows(q) /\ CancelKnows(q)
  BY DEF OnlyMoves, IInv
<1>2. /\ LatestBooking \in Int /\ LatestBooking' \in Int
      /\ LatestCancellation \in Int /\ LatestCancellation' \in Int
  BY LatestType, BookingAssumption DEF LatestBooking, LatestCancellation, Attempt, Cancel
<1>3. Books(q) /\ Books(p) => proc[p].n # proc[q].n
  BY DEF IInv, Books
<1>4. proc[q].n \in Int
  BY DEF IInv, TypeOK, Handlers
<1>5. ConfirmKnows(q)'
  BY <1>1, <1>2, <1>3, <1>4 DEF ConfirmKnows, Monotone, Books, Attempt
<1>6. CancelKnows(q)'
  BY <1>1, <1>2, <1>4 DEF CancelKnows, Monotone, CanCancelLocally, Cancel
<1> QED
  BY <1>5, <1>6

\* A step of p keeps the invariant if the rows fit together after it and p knows what its
\* next step relies on.
LEMMA StepKeeps ==
    ASSUME IInv, NEW p \in Proc, OnlyMoves(p), Monotone(p), TypeOK',
           Gapless(booking, Attempt)', Gapless(cancellation, Cancel)',
           BookingBacksDelivery', AttemptsFitDelivery', CancelledIsReleased',
           ConfirmKnows(p)', CancelKnows(p)',
           Books(p)' => \/ Books(p) /\ proc'[p].n = proc[p].n
                        \/ \A q \in Proc : ~Books(q)
    PROVE  IInv'
<1>1. \A q \in Proc : ConfirmKnows(q)' /\ CancelKnows(q)'
  BY KnowledgeStays
<1>2. ASSUME NEW q \in Proc \ {p}, Books(q)'
      PROVE  Books(q) /\ ~Books(p)'
  <2>1. proc'[q] = proc[q] /\ ConfirmKnows(q)
    BY DEF OnlyMoves, IInv
  <2>2. Books(q)
    BY <1>2, <2>1 DEF Books, ConfirmKnows, Monotone
  <2>3. ~Books(p)
    BY <2>2 DEF IInv
  <2> QED
    BY <2>2, <2>3
<1>3. \A q, r \in Proc : Books(q)' /\ Books(r)' => q = r
  <2> SUFFICES ASSUME NEW q \in Proc, NEW r \in Proc, Books(q)', Books(r)', q # r
               PROVE  FALSE
    OBVIOUS
  <2> QED
    BY <1>2 DEF IInv
<1> QED
  BY <1>1, <1>3 DEF IInv

\* A step that leaves the rows and the provider alone needs no more than that p knows what
\* its next step relies on, and does not take an attempt over.
LEMMA QuietStep ==
    ASSUME IInv, NEW p \in Proc, OnlyMoves(p),
           UNCHANGED <<delivery, booking, cancellation, provider>>,
           orderKnown' \subseteq Attempt,
           payment' \in {"NONE", "PENDING", "PAID", "REFUNDED"}, crashes' \in 0 .. MaxCrashes,
           ConfirmKnows(p)', CancelKnows(p)', Books(p)' => Books(p) /\ proc'[p].n = proc[p].n,
           proc'[p].pc # "createBooking"
    PROVE  IInv'
<1>1. TypeOK'
  BY DEF IInv, TypeOK, OnlyMoves
<1>2. UNCHANGED <<LatestBooking, LatestCancellation>>
  BY DEF LatestBooking, LatestCancellation
<1>3. Monotone(p)
  <2>1. LatestBooking \in Int /\ LatestCancellation \in Int
    BY LatestType, BookingAssumption DEF LatestBooking, LatestCancellation, Attempt, Cancel
  <2> QED
    BY <1>2, <2>1 DEF Monotone
<1>4. /\ Gapless(booking, Attempt)' /\ Gapless(cancellation, Cancel)'
      /\ BookingBacksDelivery' /\ AttemptsFitDelivery'
  BY DEF IInv, Gapless, BookingBacksDelivery, AttemptsFitDelivery, LatestBooking
<1>5. CancelledIsReleased'
  BY DEF IInv, CancelledIsReleased, OnlyMoves
<1> QED
  BY <1>1, <1>3, <1>4, <1>5, StepKeeps
-----------------------------------------------------------------------------
(* The inductive invariant.                                                *)

\* It holds before any request ...
LEMMA IInvInit == Init => IInv
<1> SUFFICES ASSUME Init
             PROVE  IInv
  OBVIOUS
<1>1. TypeOK
  BY IdleType, BookingAssumption
     DEF Init, TypeOK, DeliveryStatuses, BookingStatuses, CancellationStatuses
<1>2. LatestBooking = 0 /\ LatestCancellation = 0
  BY LatestIs, BookingAssumption
     DEF Init, LatestBooking, LatestCancellation, Attempt, Cancel
<1>3. Gapless(booking, Attempt) /\ Gapless(cancellation, Cancel)
  <2>1. /\ \A n \in Attempt : booking[n] = "NONE" /\ ~(n <= 0)
        /\ \A n \in Cancel : cancellation[n] = "NONE" /\ ~(n <= 0)
    BY BookingAssumption DEF Init, Attempt, Cancel
  <2> QED
    BY <1>2, <2>1 DEF Gapless, LatestBooking, LatestCancellation
<1>4. BookingBacksDelivery /\ AttemptsFitDelivery /\ CancelledIsReleased
  BY DEF Init, BookingBacksDelivery, AttemptsFitDelivery, CancelledIsReleased
<1>5. \A p \in Proc : proc[p].pc = "idle"
  BY DEF Init, Idle
<1>6. \A p \in Proc : ConfirmKnows(p) /\ CancelKnows(p) /\ ~Books(p)
  BY <1>5 DEF ConfirmKnows, CancelKnows, Books
<1> QED
  BY <1>1, <1>3, <1>4, <1>6 DEF IInv

\* ... orchestration keeps it: the attempts before it have FAILED ...
LEMMA OrchestrationKeeps ==
    ASSUME IInv, NEW p \in Proc,
           Orchestrate(p) \/ RunOrchestration(p) \/ FailOrchestration(p)
    PROVE  IInv'
<1> DEFINE early == {"CREATED", "ORCHESTRATING", "OPTION_READY", "FAILED"}
<1>1. UNCHANGED <<booking, orderKnown, cancellation, payment, provider, crashes>>
  BY DEF Orchestrate, RunOrchestration, FailOrchestration, bookings
<1>2. \/ UNCHANGED delivery
      \/ delivery \in early /\ delivery' \in early
  BY DEF Orchestrate, RunOrchestration, FailOrchestration, TransitionStatus
<1>3. OnlyMoves(p) /\ proc'[p].pc \in {"idle", "runOrchestration", "failOrchestration"}
  <2>1. {"runOrchestration", "failOrchestration"} \subseteq Pcs
    BY DEF Pcs
  <2> QED
    BY <2>1, GotoStep, ReturnStep
       DEF Orchestrate, RunOrchestration, FailOrchestration, IInv
<1>4. ConfirmKnows(p)' /\ CancelKnows(p)' /\ ~Books(p)'
  BY <1>3 DEF ConfirmKnows, CancelKnows, Books
<1>5. CASE UNCHANGED delivery
  BY <1>1, <1>3, <1>4, <1>5, QuietStep DEF IInv, TypeOK
<1>6. CASE delivery \in early /\ delivery' \in early
  <2>1. TypeOK'
    BY <1>1, <1>3, <1>6 DEF IInv, TypeOK, OnlyMoves, DeliveryStatuses
  <2>2. UNCHANGED <<LatestBooking, LatestCancellation>>
    BY <1>1 DEF LatestBooking, LatestCancellation
  <2>3. Monotone(p)
    <3>1. LatestBooking \in Int /\ LatestCancellation \in Int
      BY LatestType, BookingAssumption
         DEF LatestBooking, LatestCancellation, Attempt, Cancel
    <3> QED
      BY <1>1, <2>2, <3>1 DEF Monotone
  <2>4. Gapless(booking, Attempt)' /\ Gapless(cancellation, Cancel)'
    BY <1>1 DEF IInv, Gapless
  <2>5. \A n \in Attempt : booking[n] \in {"NONE", "FAILED"}
    BY <1>6 DEF IInv, AttemptsFitDelivery
  <2>6. BookingBacksDelivery' /\ AttemptsFitDelivery' /\ CancelledIsReleased'
    BY <1>1, <1>6, <2>5
       DEF IInv, BookingBacksDelivery, AttemptsFitDelivery, CancelledIsReleased
  <2> QED
    BY <1>3, <1>4, <2>1, <2>3, <2>4, <2>6, StepKeeps
<1> QED
  BY <1>2, <1>5, <1>6

\* ... so do the reads of confirm, which remember the number of an attempt ...
LEMMA ConfirmReadsKeep ==
    ASSUME IInv, NEW p \in Proc,
           Confirm(p) \/ CheckPayment(p) \/ CountBookings(p) \/ GetBooking(p)
    PROVE  IInv'
<1>1. UNCHANGED <<delivery, booking, orderKnown, cancellation, payment, provider, crashes>>
  BY DEF Confirm, CheckPayment, CountBookings, GetBooking, bookings
<1>2. LatestBooking \in 0 .. MaxBookings
  BY LatestType, BookingAssumption DEF LatestBooking, Attempt
<1>3. UNCHANGED LatestBooking
  BY <1>1 DEF LatestBooking
<1>4. LatestBooking < MaxBookings => LatestBooking + 1 \in 0 .. MaxBookings + MaxCancels
  BY <1>2, BookingAssumption
<1>5. LatestBooking \in 0 .. MaxBookings + MaxCancels
  BY <1>2, BookingAssumption
<1>6. {"getBooking", "checkPayment", "countBookings", "startBooking", "finalizeBooking"}
        \subseteq Pcs
  BY DEF Pcs
<1>7. CASE Confirm(p)
  <2>1. /\ OnlyMoves(p)
        /\ \/ /\ proc'[p].pc = "getBooking" /\ proc'[p].n = LatestBooking
              /\ LatestBooking \in orderKnown /\ booking[LatestBooking] = "UNKNOWN"
           \/ proc'[p].pc = "checkPayment"
    BY <1>5, <1>6, <1>7, GotoStep, GotoWithStep DEF Confirm, IInv
  <2>2. orderKnown \subseteq Attempt
    BY DEF IInv, TypeOK
  <2>3. ConfirmKnows(p)' /\ CancelKnows(p)' /\ ~Books(p)'
    BY <1>1, <2>1, <2>2 DEF ConfirmKnows, CancelKnows, Books
  <2> QED
    BY <1>1, <2>1, <2>3, QuietStep DEF IInv, TypeOK
<1>8. CASE CheckPayment(p)
  <2>1. OnlyMoves(p) /\ proc'[p].pc \in {"countBookings", "idle"}
    BY <1>6, <1>8, GotoStep, ReturnStep DEF CheckPayment, IInv
  <2>2. ConfirmKnows(p)' /\ CancelKnows(p)' /\ ~Books(p)'
    BY <2>1 DEF ConfirmKnows, CancelKnows, Books
  <2> QED
    BY <1>1, <2>1, <2>2, QuietStep DEF IInv, TypeOK
<1>9. CASE CountBookings(p)
  <2>1. /\ OnlyMoves(p) /\ proc'[p].pc = "startBooking" /\ proc'[p].n = LatestBooking + 1
    BY <1>4, <1>6, <1>9, GotoWithStep DEF CountBookings, IInv
  <2>2. LatestBooking < MaxBookings
    BY <1>9 DEF CountBookings
  <2>3. ConfirmKnows(p)' /\ CancelKnows(p)' /\ ~Books(p)'
    BY <1>2, <1>3, <2>1, <2>2, BookingAssumption DEF ConfirmKnows, CancelKnows, Books, Attempt
  <2> QED
    BY <1>1, <2>1, <2>3, QuietStep DEF IInv, TypeOK
<1>10. CASE GetBooking(p)
  <2>1. /\ OnlyMoves(p)
        /\ \/ /\ proc'[p].pc = "finalizeBooking" /\ proc'[p].outcome = "BOOKED"
              /\ proc'[p].n = proc[p].n
           \/ proc'[p].pc = "idle"
    BY <1>6, <1>10, AnswerStep, ReturnStep DEF GetBooking, IInv
  <2>2. proc[p].n \in Attempt /\ booking[proc[p].n] \in {"UNKNOWN", "BOOKED"}
    BY <1>10 DEF GetBooking, IInv, ConfirmKnows
  <2>3. ConfirmKnows(p)' /\ CancelKnows(p)' /\ ~Books(p)'
    BY <1>1, <2>1, <2>2 DEF ConfirmKnows, CancelKnows, Books
  <2> QED
    BY <1>1, <2>1, <2>3, QuietStep DEF IInv, TypeOK
<1> QED
  BY <1>7, <1>8, <1>9, <1>10

\* ... the start of a booking: an OPTION_READY delivery has no attempt but FAILED ones, and
\* the number that was counted before is the next one still, or it is taken ...
LEMMA StartBookingKeeps ==
    ASSUME IInv, NEW p \in Proc, StartBooking(p)
    PROVE  IInv'
<1> DEFINE n == proc[p].n
<1>1. UNCHANGED <<orderKnown, cancellation, payment, provider, crashes>>
  BY DEF StartBooking
<1>2. CASE delivery = "OPTION_READY" /\ booking[n] = "NONE"
  <2>1. /\ delivery' = "BOOKING"
        /\ booking' = [booking EXCEPT ![n] = "BOOKING"]
        /\ Goto(p, "createBooking")
    BY <1>2 DEF StartBooking
  <2>2. n \in Attempt /\ n <= LatestBooking + 1
    BY DEF IInv, ConfirmKnows, StartBooking
  <2>3. /\ OnlyMoves(p) /\ proc'[p].pc = "createBooking" /\ proc'[p].n = n
    BY <2>1, GotoStep DEF IInv, Pcs
  <2>4. booking'[n] = "BOOKING" /\ \A m \in Attempt \ {n} : booking'[m] = booking[m]
    BY <2>1, <2>2 DEF IInv, TypeOK
  <2> HIDE DEF n
  <2>5. /\ n = LatestBooking + 1 /\ LatestBooking' = n /\ Gapless(booking, Attempt)'
    BY <1>2, <2>2, <2>4, NextRow, BookingAssumption DEF IInv, LatestBooking, Attempt
  <2>6. /\ LatestCancellation' = LatestCancellation /\ Gapless(cancellation, Cancel)'
    BY <1>1 DEF LatestCancellation, IInv, Gapless
  <2>7. LatestCancellation \in Nat /\ LatestBooking \in Nat
    BY LatestType, BookingAssumption DEF LatestBooking, LatestCancellation, Attempt, Cancel
  <2>8. \A m \in Attempt : booking[m] \in {"NONE", "FAILED"}
    BY <1>2 DEF IInv, AttemptsFitDelivery
  <2>9. Monotone(p)
    BY <1>1, <2>5, <2>6, <2>7, <2>8 DEF Monotone
  <2>10. TypeOK'
    BY <1>1, <2>1, <2>3 DEF IInv, TypeOK, OnlyMoves, DeliveryStatuses, BookingStatuses
  <2>11. BookingBacksDelivery' /\ AttemptsFitDelivery' /\ CancelledIsReleased'
    BY <2>1, <2>2, <2>4, <2>5, <2>8
       DEF BookingBacksDelivery, AttemptsFitDelivery, CancelledIsReleased
  <2>12. ConfirmKnows(p)' /\ CancelKnows(p)'
    BY <2>2, <2>3, <2>4 DEF ConfirmKnows, CancelKnows
  <2>13. \A q \in Proc : ~Books(q)
    <3> SUFFICES ASSUME NEW q \in Proc, Books(q)
                 PROVE  FALSE
      OBVIOUS
    <3>1. proc[q].n \in Attempt
      BY DEF IInv, ConfirmKnows, Books
    <3> QED
      BY <2>8, <3>1 DEF Books
  <2> QED
    BY <2>3, <2>5, <2>6, <2>9, <2>10, <2>11, <2>12, <2>13, StepKeeps
<1>3. CASE ~(delivery = "OPTION_READY" /\ booking[n] = "NONE")
  <2>1. OnlyMoves(p) /\ proc'[p].pc = "idle" /\ UNCHANGED <<delivery, booking>>
    BY <1>3, ReturnStep DEF StartBooking, IInv
  <2>2. ConfirmKnows(p)' /\ CancelKnows(p)' /\ ~Books(p)'
    BY <2>1 DEF ConfirmKnows, CancelKnows, Books
  <2> QED
    BY <1>1, <2>1, <2>2, QuietStep DEF IInv, TypeOK
<1> QED
  BY <1>2, <1>3

\* ... the provider's answer: an order is made while the delivery is BOOKING, so that none
\* that was cancelled for a BOOKED attempt comes back ...
LEMMA CreateBookingKeeps ==
    ASSUME IInv, NEW p \in Proc, CreateBooking(p)
    PROVE  IInv'
<1>1. UNCHANGED <<delivery, booking, orderKnown, cancellation, payment, crashes>>
  BY DEF CreateBooking, bookings
<1>2. provider' \in {provider, "live"}
  BY DEF CreateBooking
<1>3. /\ OnlyMoves(p) /\ proc'[p].pc = "finalizeBooking" /\ proc'[p].n = proc[p].n
      /\ proc'[p].outcome \in {"BOOKED", "FAILED", "UNKNOWN"}
  BY AnswerStep DEF CreateBooking, IInv, Pcs
<1>4. proc[p].n \in Attempt /\ booking[proc[p].n] = "BOOKING"
  BY DEF CreateBooking, IInv, ConfirmKnows
<1>5. delivery = "BOOKING" /\ \A m \in Attempt : booking[m] # "BOOKED"
  BY <1>4 DEF IInv, BookingBacksDelivery
<1>6. UNCHANGED <<LatestBooking, LatestCancellation>>
  BY <1>1 DEF LatestBooking, LatestCancellation
<1>7. Monotone(p)
  <2>1. LatestBooking \in Int /\ LatestCancellation \in Int
    BY LatestType, BookingAssumption DEF LatestBooking, LatestCancellation, Attempt, Cancel
  <2> QED
    BY <1>1, <1>5, <1>6, <2>1 DEF Monotone
<1>8. TypeOK'
  BY <1>1, <1>2, <1>3 DEF IInv, TypeOK, OnlyMoves
<1>9. /\ Gapless(booking, Attempt)' /\ Gapless(cancellation, Cancel)'
      /\ BookingBacksDelivery' /\ AttemptsFitDelivery' /\ CancelledIsReleased'
  BY <1>1, <1>4, <1>5
     DEF IInv, Gapless, BookingBacksDelivery, AttemptsFitDelivery, LatestBooking,
         CancelledIsReleased
<1>10. ConfirmKnows(p)' /\ CancelKnows(p)' /\ Books(p)
  BY <1>1, <1>3, <1>4 DEF ConfirmKnows, CancelKnows, Books, CreateBooking
<1> QED
  BY <1>3, <1>7, <1>8, <1>9, <1>10, StepKeeps

\* ... the end of a booking: its attempt is the latest row, and no other is in progress ...
LEMMA FinalizeBookingKeeps ==
    ASSUME IInv, NEW p \in Proc, FinalizeBooking(p)
    PROVE  IInv'
<1> DEFINE n == proc[p].n
           outcome == proc[p].outcome
<1>1. UNCHANGED <<cancellation, payment, provider, crashes>>
  BY DEF FinalizeBooking
<1>2. /\ booking' = [booking EXCEPT ![n] = outcome]
      /\ delivery' = IF outcome # "UNKNOWN" /\ delivery = "BOOKING" THEN outcome ELSE delivery
      /\ Return(p)
  BY DEF FinalizeBooking, TransitionStatus
<1>3. /\ n \in Attempt
      /\ \/ booking[n] = "BOOKING" /\ outcome \in {"BOOKED", "FAILED", "UNKNOWN"} /\ Books(p)
         \/ booking[n] \in {"UNKNOWN", "BOOKED"} /\ outcome = "BOOKED"
  BY DEF FinalizeBooking, IInv, ConfirmKnows, Books
<1>4. orderKnown' \subseteq Attempt
  BY <1>3 DEF FinalizeBooking, IInv, TypeOK
<1>5. OnlyMoves(p) /\ proc'[p].pc = "idle"
  BY <1>2, ReturnStep DEF IInv
<1>6. booking'[n] = outcome /\ \A m \in Attempt \ {n} : booking'[m] = booking[m]
  BY <1>2, <1>3 DEF IInv, TypeOK
<1> HIDE DEF n, outcome
<1>7. TypeOK'
  BY <1>1, <1>2, <1>3, <1>4, <1>5
     DEF IInv, TypeOK, OnlyMoves, DeliveryStatuses, BookingStatuses
<1>8. \A m \in Attempt : booking'[m] # "NONE" <=> booking[m] # "NONE"
  BY <1>3, <1>6
<1>9. LatestBooking' = LatestBooking /\ Gapless(booking, Attempt)'
  BY <1>8, SameRows, BookingAssumption DEF IInv, LatestBooking, Attempt
<1>10. LatestCancellation' = LatestCancellation /\ Gapless(cancellation, Cancel)'
  BY <1>1 DEF LatestCancellation, IInv, Gapless
<1>11. n = LatestBooking /\ \A m \in Attempt \ {n} : booking[m] \in {"NONE", "FAILED"}
  BY <1>3 DEF IInv, BookingBacksDelivery, TypeOK, BookingStatuses
<1>12. LatestBooking \in 0 .. MaxBookings /\ LatestCancellation \in Int
  BY LatestType, BookingAssumption DEF LatestBooking, LatestCancellation, Attempt, Cancel
<1>13. Monotone(p)
  BY <1>1, <1>3, <1>6, <1>9, <1>10, <1>12 DEF Monotone, n
<1>14. delivery = "BOOKING" <=> booking[n] \in {"BOOKING", "UNKNOWN"}
  BY <1>3, <1>11 DEF IInv, BookingBacksDelivery
<1>15. BookingBacksDelivery'
  BY <1>2, <1>3, <1>6, <1>9, <1>11, <1>12, <1>14
     DEF IInv, BookingBacksDelivery, Attempt
<1>16. AttemptsFitDelivery'
  <2>1. delivery' \in {"CREATED", "ORCHESTRATING", "OPTION_READY", "FAILED"} =>
            \A m \in Attempt : booking'[m] \in {"NONE", "FAILED"}
    BY <1>2, <1>3, <1>6, <1>11, <1>14 DEF IInv, AttemptsFitDelivery
  <2> QED
    BY <1>1, <1>3, <1>8, <2>1 DEF IInv, AttemptsFitDelivery
<1>17. CancelledIsReleased'
  BY <1>1, <1>2, <1>3, <1>5, <1>6, <1>11, <1>14 DEF IInv, CancelledIsReleased, OnlyMoves
<1>18. ConfirmKnows(p)' /\ CancelKnows(p)' /\ ~Books(p)'
  BY <1>5 DEF ConfirmKnows, CancelKnows, Books
<1> QED
  BY <1>5, <1>7, <1>9, <1>10, <1>13, <1>15, <1>16, <1>17, <1>18, StepKeeps

\* ... the reads of cancel: one that is not before its booking finds it BOOKED ...
LEMMA CancelReadsKeep ==
    ASSUME IInv, NEW p \in Proc,
           \/ CancelRequest(p) \/ CheckUnknown(p) \/ CheckProcessing(p)
           \/ CountCancellations(p)
    PROVE  IInv'
<1>1. UNCHANGED <<delivery, booking, orderKnown, cancellation, payment, provider, crashes>>
  BY DEF CancelRequest, CheckUnknown, CheckProcessing, CountCancellations, bookings
<1>2. /\ LatestBooking \in 0 .. MaxBookings
      /\ LatestCancellation \in 0 .. MaxCancels
  BY LatestType, BookingAssumption DEF LatestBooking, LatestCancellation, Attempt, Cancel
<1>3. {"checkUnknown", "checkProcessing", "countCancellations", "createCancellation"}
        \subseteq Pcs
  BY DEF Pcs
<1>4. CASE CancelRequest(p)
  <2> DEFINE started == [Idle EXCEPT !.pc = "checkUnknown", !.from = delivery]
  <2>1. started \in Handlers /\ started.pc = "checkUnknown" /\ started.from = delivery
    BY <1>3, IdleType DEF Handlers, IInv, TypeOK, Idle
  <2>2. proc' = [proc EXCEPT ![p] = started]
    BY <1>4 DEF CancelRequest
  <2> HIDE DEF started
  <2>3. OnlyMoves(p) /\ proc'[p] = started
    BY <2>1, <2>2 DEF IInv, TypeOK, OnlyMoves
  <2>4. ~CanCancelLocally(delivery) => \E n \in Attempt : booking[n] = "BOOKED"
    BY <1>2, <1>4 DEF CancelRequest, CanCancelAtProvider, Attempt
  <2>5. ConfirmKnows(p)' /\ CancelKnows(p)' /\ ~Books(p)'
    BY <1>1, <2>1, <2>3, <2>4 DEF ConfirmKnows, CancelKnows, Books, CanCancelLocally
  <2> QED
    BY <1>1, <2>1, <2>3, <2>5, QuietStep DEF IInv, TypeOK
<1>5. CASE CheckUnknown(p) \/ CheckProcessing(p)
  <2>1. /\ OnlyMoves(p)
        /\ \/ /\ proc'[p].pc \in {"checkProcessing", "countCancellations"}
              /\ proc'[p].from = proc[p].from
           \/ proc'[p].pc = "idle"
    BY <1>3, <1>5, GotoStep, ReturnStep DEF CheckUnknown, CheckProcessing, IInv
  <2>2. CancelKnows(p) /\ proc[p].pc \in {"checkUnknown", "checkProcessing"}
    BY <1>5 DEF CheckUnknown, CheckProcessing, IInv
  <2>3. ConfirmKnows(p)' /\ CancelKnows(p)' /\ ~Books(p)'
    BY <1>1, <2>1, <2>2 DEF ConfirmKnows, CancelKnows, Books, CanCancelLocally
  <2> QED
    BY <1>1, <2>1, <2>3, QuietStep DEF IInv, TypeOK
<1>6. CASE CountCancellations(p)
  <2>1. LatestCancellation + 1 \in Cancel
    BY <1>2, <1>6, BookingAssumption DEF CountCancellations, Cancel
  <2>2. LatestCancellation + 1 \in 0 .. MaxBookings + MaxCancels
    BY <1>2, <1>6, BookingAssumption DEF CountCancellations
  <2>3. /\ OnlyMoves(p) /\ proc'[p].pc = "createCancellation"
        /\ proc'[p].n = LatestCancellation + 1 /\ proc'[p].from = proc[p].from
    BY <1>3, <1>6, <2>2, GotoWithStep DEF CountCancellations, IInv
  <2>4. CancelKnows(p) /\ proc[p].pc = "countCancellations"
    BY <1>6 DEF CountCancellations, IInv
  <2>5. UNCHANGED LatestCancellation
    BY <1>1 DEF LatestCancellation
  <2>6. ConfirmKnows(p)' /\ CancelKnows(p)' /\ ~Books(p)'
    BY <1>1, <2>1, <2>3, <2>4, <2>5
       DEF ConfirmKnows, CancelKnows, Books, CanCancelLocally, Cancel
  <2> QED
    BY <1>1, <2>3, <2>6, QuietStep DEF IInv, TypeOK
<1> QED
  BY <1>4, <1>5, <1>6

\* ... its record, whose number is the next one or taken ...
LEMMA CreateCancellationKeeps ==
    ASSUME IInv, NEW p \in Proc, CreateCancellation(p)
    PROVE  IInv'
<1> DEFINE n == proc[p].n
<1>1. UNCHANGED <<delivery, booking, orderKnown, payment, provider, crashes>>
  BY DEF CreateCancellation, bookings
<1>2. n \in Cancel /\ n <= LatestCancellation + 1 /\ CancelKnows(p)
      /\ proc[p].pc = "createCancellation"
  BY DEF IInv, CancelKnows, CreateCancellation
<1>3. CASE cancellation[n] = "NONE"
  <2>1. /\ cancellation' = [cancellation EXCEPT ![n] = "PROCESSING"]
        /\ IF CanCancelLocally(proc[p].from)
           THEN proc' = [proc EXCEPT ![p].pc = "finalizeCancellation",
                                     ![p].outcome = "CANCELLED"]
           ELSE Goto(p, "cancelBooking")
    BY <1>3 DEF CreateCancellation
  <2>2. /\ OnlyMoves(p) /\ proc'[p].n = n /\ proc'[p].from = proc[p].from
        /\ \/ /\ CanCancelLocally(proc[p].from)
              /\ proc'[p].pc = "finalizeCancellation" /\ proc'[p].outcome = "CANCELLED"
           \/ /\ ~CanCancelLocally(proc[p].from)
              /\ proc'[p].pc = "cancelBooking"
    BY <2>1, AnswerStep, GotoStep DEF IInv, Pcs
  <2>3. /\ cancellation'[n] = "PROCESSING"
        /\ \A m \in Cancel \ {n} : cancellation'[m] = cancellation[m]
    BY <1>2, <2>1 DEF IInv, TypeOK
  <2>4. TypeOK'
    BY <1>1, <2>1, <2>2 DEF IInv, TypeOK, OnlyMoves, CancellationStatuses
  <2> HIDE DEF n
  <2>5. LatestCancellation' = n /\ n = LatestCancellation + 1 /\ Gapless(cancellation, Cancel)'
    BY <1>2, <1>3, <2>3, NextRow, BookingAssumption DEF IInv, LatestCancellation, Cancel
  <2>6. LatestBooking' = LatestBooking /\ LatestBooking \in Int /\ LatestCancellation \in Int
    BY <1>1, LatestType, BookingAssumption
       DEF LatestBooking, LatestCancellation, Attempt, Cancel
  <2>7. Monotone(p)
    BY <1>1, <2>3, <2>5, <2>6 DEF Monotone, n
  <2>8. /\ Gapless(booking, Attempt)' /\ BookingBacksDelivery' /\ AttemptsFitDelivery'
        /\ CancelledIsReleased'
    BY <1>1, <2>2
       DEF IInv, Gapless, BookingBacksDelivery, AttemptsFitDelivery, LatestBooking,
           CancelledIsReleased, OnlyMoves
  <2>9. ConfirmKnows(p)' /\ CancelKnows(p)' /\ ~Books(p)'
    BY <1>1, <1>2, <2>2, <2>3 DEF ConfirmKnows, CancelKnows, Books, CanCancelLocally
  <2> QED
    BY <2>2, <2>4, <2>5, <2>7, <2>8, <2>9, StepKeeps
<1>4. CASE cancellation[n] # "NONE"
  <2>1. OnlyMoves(p) /\ proc'[p].pc = "idle" /\ UNCHANGED cancellation
    BY <1>4, ReturnStep DEF CreateCancellation, IInv
  <2>2. ConfirmKnows(p)' /\ CancelKnows(p)' /\ ~Books(p)'
    BY <2>1 DEF ConfirmKnows, CancelKnows, Books
  <2> QED
    BY <1>1, <2>1, <2>2, QuietStep DEF IInv, TypeOK
<1> QED
  BY <1>3, <1>4

\* ... the provider's cancellation, of the order of a BOOKED attempt ...
LEMMA CancelBookingKeeps ==
    ASSUME IInv, NEW p \in Proc, CancelBooking(p)
    PROVE  IInv'
<1>1. UNCHANGED <<delivery, booking, orderKnown, cancellation, payment, crashes>>
  BY DEF CancelBooking, bookings
<1>2. /\ OnlyMoves(p) /\ proc'[p].pc = "finalizeCancellation"
      /\ proc'[p].n = proc[p].n /\ proc'[p].from = proc[p].from
      /\ proc'[p].outcome \in {"CANCELLED", "REJECTED", "UNKNOWN"}
      /\ provider' \in {provider, "cancelled"}
      /\ proc'[p].outcome = "CANCELLED" => provider' = "cancelled"
  BY AnswerStep DEF CancelBooking, IInv, Pcs
<1>3. /\ proc[p].n \in Cancel /\ cancellation[proc[p].n] # "NONE"
      /\ \E n \in Attempt : booking[n] = "BOOKED"
  BY DEF CancelBooking, IInv, CancelKnows
<1>4. UNCHANGED <<LatestBooking, LatestCancellation>>
  BY <1>1 DEF LatestBooking, LatestCancellation
<1>5. Monotone(p)
  <2>1. LatestBooking \in Int /\ LatestCancellation \in Int
    BY LatestType, BookingAssumption DEF LatestBooking, LatestCancellation, Attempt, Cancel
  <2> QED
    BY <1>1, <1>2, <1>4, <2>1 DEF Monotone
<1>6. TypeOK'
  BY <1>1, <1>2 DEF IInv, TypeOK, OnlyMoves
<1>7. /\ Gapless(booking, Attempt)' /\ Gapless(cancellation, Cancel)'
      /\ BookingBacksDelivery' /\ AttemptsFitDelivery' /\ CancelledIsReleased'
  BY <1>1, <1>2, <1>3
     DEF IInv, Gapless, BookingBacksDelivery, AttemptsFitDelivery, LatestBooking,
         CancelledIsReleased, OnlyMoves
<1>8. ConfirmKnows(p)' /\ CancelKnows(p)' /\ ~Books(p)'
  BY <1>1, <1>2, <1>3 DEF ConfirmKnows, CancelKnows, Books, CanCancelLocally
<1> QED
  BY <1>2, <1>5, <1>6, <1>7, <1>8, StepKeeps

\* ... the end of its record ...
LEMMA FinalizeCancellationKeeps ==
    ASSUME IInv, NEW p \in Proc, FinalizeCancellation(p)
    PROVE  IInv'
<1> DEFINE n == proc[p].n
           outcome == proc[p].outcome
<1>1. UNCHANGED <<delivery, booking, orderKnown, payment, provider, crashes>>
  BY DEF FinalizeCancellation, bookings
<1>2. /\ proc[p].pc = "finalizeCancellation" /\ CancelKnows(p)
      /\ n \in Cancel /\ outcome \in {"CANCELLED", "REJECTED", "UNKNOWN"}
  BY DEF FinalizeCancellation, IInv, CancelKnows
<1>3. /\ OnlyMoves(p)
      /\ \/ /\ proc'[p].pc = "cancelDelivery" /\ outcome = "CANCELLED"
            /\ proc'[p].from = proc[p].from
         \/ proc'[p].pc = "idle"
  BY GotoStep, ReturnStep DEF FinalizeCancellation, IInv, Pcs
<1>4. cancellation' = [cancellation EXCEPT ![n] = outcome]
  BY DEF FinalizeCancellation
<1>5. TypeOK'
  BY <1>1, <1>2, <1>3, <1>4 DEF IInv, TypeOK, OnlyMoves, CancellationStatuses
<1>6. \A m \in Cancel : cancellation'[m] # "NONE" <=> cancellation[m] # "NONE"
  BY <1>2, <1>4 DEF IInv, TypeOK, CancelKnows
<1>7. LatestCancellation' = LatestCancellation /\ Gapless(cancellation, Cancel)'
  BY <1>6, SameRows, BookingAssumption DEF IInv, LatestCancellation, Cancel
<1>8. /\ LatestBooking' = LatestBooking /\ LatestBooking \in Int
      /\ LatestCancellation \in Int
  BY <1>1, LatestType, BookingAssumption
     DEF LatestBooking, LatestCancellation, Attempt, Cancel
<1>9. Monotone(p)
  BY <1>1, <1>6, <1>7, <1>8 DEF Monotone
<1>10. /\ Gapless(booking, Attempt)' /\ BookingBacksDelivery' /\ AttemptsFitDelivery'
       /\ CancelledIsReleased'
  BY <1>1, <1>3
     DEF IInv, Gapless, BookingBacksDelivery, AttemptsFitDelivery, LatestBooking,
         CancelledIsReleased, OnlyMoves
<1>11. ConfirmKnows(p)' /\ CancelKnows(p)' /\ ~Books(p)'
  BY <1>1, <1>2, <1>3 DEF ConfirmKnows, CancelKnows, Books, CanCancelLocally
<1> QED
  BY <1>3, <1>5, <1>7, <1>9, <1>10, <1>11, StepKeeps

\* ... the delivery: it is still where it was read, and then before its booking or with a
\* cancelled order, or it stays ...
LEMMA CancelDeliveryKeeps ==
    ASSUME IInv, NEW p \in Proc, CancelDelivery(p)
    PROVE  IInv'
<1>1. UNCHANGED <<booking, orderKnown, cancellation, payment, provider, crashes>>
  BY DEF CancelDelivery, bookings
<1>2. OnlyMoves(p) /\ proc'[p].pc = "refund"
  BY GotoStep DEF CancelDelivery, IInv, Pcs
<1>3. ConfirmKnows(p)' /\ CancelKnows(p)' /\ ~Books(p)'
  BY <1>2 DEF ConfirmKnows, CancelKnows, Books
<1>4. CASE delivery # proc[p].from
  <2>1. UNCHANGED delivery
    BY <1>4 DEF CancelDelivery, TransitionStatus
  <2> QED
    BY <1>1, <1>2, <1>3, <2>1, QuietStep DEF IInv, TypeOK
<1>5. CASE delivery = proc[p].from
  <2>1. delivery' = "CANCELLED" /\ CanTransitionDelivery(delivery, "CANCELLED")
    BY <1>5 DEF CancelDelivery, TransitionStatus
  <2>2. delivery # "BOOKING"
    BY <2>1 DEF CanTransitionDelivery, AllowedTransitions
  <2>3. CanCancelLocally(delivery) \/ provider = "cancelled"
    BY <1>5 DEF IInv, CancelKnows, CancelDelivery
  <2>4. \A q \in Proc : proc'[q].pc # "createBooking"
    <3> SUFFICES ASSUME NEW q \in Proc, proc'[q].pc = "createBooking"
                 PROVE  FALSE
      OBVIOUS
    <3>1. proc[q].pc = "createBooking"
      BY <1>2 DEF OnlyMoves
    <3>2. proc[q].n \in Attempt /\ booking[proc[q].n] = "BOOKING"
      BY <3>1 DEF IInv, ConfirmKnows
    <3> QED
      BY <2>2, <3>2 DEF IInv, BookingBacksDelivery
  <2>5. provider = "live" => \E n \in Attempt : booking[n] = "FAILED"
    <3> SUFFICES ASSUME provider = "live"
                 PROVE  \E n \in Attempt : booking[n] = "FAILED"
      OBVIOUS
    <3> QED
      BY <2>3 DEF IInv, AttemptsFitDelivery, CanCancelLocally
  <2>6. CancelledIsReleased'
    BY <1>1, <2>4, <2>5 DEF CancelledIsReleased
  <2>7. BookingBacksDelivery' /\ AttemptsFitDelivery'
    BY <1>1, <2>1, <2>2 DEF IInv, BookingBacksDelivery, AttemptsFitDelivery, LatestBooking
  <2>8. /\ Gapless(booking, Attempt)' /\ Gapless(cancellation, Cancel)'
        /\ UNCHANGED <<LatestBooking, LatestCancellation>>
    BY <1>1 DEF IInv, Gapless, LatestBooking, LatestCancellation
  <2>9. Monotone(p)
    <3>1. LatestBooking \in Int /\ LatestCancellation \in Int
      BY LatestType, BookingAssumption
         DEF LatestBooking, LatestCancellation, Attempt, Cancel
    <3> QED
      BY <1>1, <2>8, <3>1 DEF Monotone
  <2>10. TypeOK'
    BY <1>1, <1>2, <2>1 DEF IInv, TypeOK, OnlyMoves, DeliveryStatuses
  <2> QED
    BY <1>2, <1>3, <2>6, <2>7, <2>8, <2>9, <2>10, StepKeeps
<1> QED
  BY <1>4, <1>5

\* ... the refund, and the death of a handler ...
LEMMA RefundAndCrashKeep ==
    ASSUME IInv, NEW p \in Proc, RefundPrepaid(p) \/ Crash(p)
    PROVE  IInv'
<1>1. UNCHANGED <<delivery, booking, orderKnown, cancellation, provider>>
  BY DEF RefundPrepaid, Crash, bookings
<1>2. OnlyMoves(p) /\ proc'[p].pc = "idle"
  BY ReturnStep DEF RefundPrepaid, Crash, IInv
<1>3. ConfirmKnows(p)' /\ CancelKnows(p)' /\ ~Books(p)'
  BY <1>2 DEF ConfirmKnows, CancelKnows, Books
<1>4. /\ payment' \in {"NONE", "PENDING", "PAID", "REFUNDED"}
      /\ crashes' \in 0 .. MaxCrashes
  BY BookingAssumption DEF RefundPrepaid, Crash, IInv, TypeOK
<1>5. orderKnown' \subseteq Attempt
  BY <1>1 DEF IInv, TypeOK
<1> QED
  BY <1>1, <1>2, <1>3, <1>4, <1>5, QuietStep

\* ... and what happens outside: payments, and a BOOKED delivery on its way.
LEMMA OutsideKeeps ==
    ASSUME IInv, CreatePayment \/ CapturePayment \/ Operate \/ UNCHANGED vars
    PROVE  IInv'
<1>1. UNCHANGED <<booking, orderKnown, cancellation, proc, provider, crashes>>
  BY DEF CreatePayment, CapturePayment, Operate, vars, bookings
<1>2. /\ payment' \in {"NONE", "PENDING", "PAID", "REFUNDED"}
      /\ \/ UNCHANGED delivery
         \/ /\ delivery \in {"BOOKED", "DRIVER_ASSIGNED", "PICKUP_OTP_PENDING"}
            /\ delivery' \in {"DRIVER_ASSIGNED", "PICKUP_OTP_PENDING", "PICKED_UP"}
  BY DEF CreatePayment, CapturePayment, Operate, vars, IInv, TypeOK
<1>3. TypeOK'
  BY <1>1, <1>2 DEF IInv, TypeOK, DeliveryStatuses
<1>4. UNCHANGED <<LatestBooking, LatestCancellation>>
  BY <1>1 DEF LatestBooking, LatestCancellation
<1>5. /\ Gapless(booking, Attempt)' /\ Gapless(cancellation, Cancel)'
      /\ BookingBacksDelivery' /\ AttemptsFitDelivery' /\ CancelledIsReleased'
  BY <1>1, <1>2, <1>4
     DEF IInv, Gapless, BookingBacksDelivery, AttemptsFitDelivery, CancelledIsReleased
<1>6. \A p \in Proc : ConfirmKnows(p)' /\ CancelKnows(p)' /\ Books(p)' = Books(p)
  BY <1>1, <1>4 DEF IInv, ConfirmKnows, CancelKnows, Books
<1> QED
  BY <1>3, <1>5, <1>6 DEF IInv

\* Every action keeps the invariant.
LEMMA IInvStep == IInv /\ [Next]_vars => IInv'
<1> SUFFICES ASSUME IInv, [Next]_vars
             PROVE  IInv'
  OBVIOUS
<1>1. ASSUME NEW p \in Proc, Step(p)
      PROVE  IInv'
  BY <1>1, OrchestrationKeeps, ConfirmReadsKeep, StartBookingKeeps, CreateBookingKeeps,
     FinalizeBookingKeeps, CancelReadsKeep, CreateCancellationKeeps, CancelBookingKeeps,
     FinalizeCancellationKeeps, CancelDeliveryKeeps, RefundAndCrashKeep DEF Step
<1>2. ASSUME NEW p \in Proc, Orchestrate(p) \/ Confirm(p) \/ CancelRequest(p) \/ Crash(p)
      PROVE  IInv'
  BY <1>2, OrchestrationKeeps, ConfirmReadsKeep, CancelReadsKeep, RefundAndCrashKeep
<1> QED
  BY <1>1, <1>2, OutsideKeeps DEF Next
-----------------------------------------------------------------------------
(* The theorems.                                                           *)

\* The inductive invariant holds in every reachable state, for any number of handlers,
\* bookings, cancellations and crashes.
THEOREM BookingInvariant == Spec => []IInv
  BY IInvInit, IInvStep, PTL DEF Spec

\* Every variable keeps its type.
THEOREM BookingTypeCorrect == Spec => []TypeOK
<1>1. IInv => TypeOK
  BY DEF IInv
<1> QED
  BY <1>1, BookingInvariant, PTL

\* A delivery and its latest attempt agree in every committed state, whatever confirms,
\* cancellations, orchestrations and deaths race.
THEOREM BookingBacksDeliveryAlways == Spec => []BookingBacksDelivery
<1>1. IInv => BookingBacksDelivery
  BY DEF IInv
<1> QED
  BY <1>1, BookingInvariant, PTL

\* The provider is asked for an order by one handler at a time, and never while another
\* attempt is in progress, UNKNOWN or BOOKED.
THEOREM OneBookingInFlightAlways == Spec => []OneBookingInFlight
<1>1. IInv => OneBookingInFlight
  <2> SUFFICES ASSUME IInv, NEW p \in Proc, proc[p].pc = "createBooking"
               PROVE  /\ delivery = "BOOKING"
                      /\ booking[proc[p].n] = "BOOKING"
                      /\ \A n \in Attempt \ {proc[p].n} : booking[n] \in {"NONE", "FAILED"}
                      /\ \A q \in Proc \ {p} : proc[q].pc # "createBooking"
    BY DEF OneBookingInFlight
  <2>1. proc[p].n \in Attempt /\ booking[proc[p].n] = "BOOKING" /\ Books(p)
    BY DEF IInv, ConfirmKnows, Books
  <2>2. delivery = "BOOKING"
    BY <2>1 DEF IInv, BookingBacksDelivery
  <2>3. \A n \in Attempt \ {proc[p].n} : booking[n] \in {"NONE", "FAILED"}
    BY <2>1 DEF IInv, TypeOK, BookingStatuses, BookingBacksDelivery
  <2>4. \A q \in Proc \ {p} : proc[q].pc # "createBooking"
    BY <2>1 DEF IInv, ConfirmKnows, Books
  <2> QED
    BY <2>1, <2>2, <2>3, <2>4
<1> QED
  BY <1>1, BookingInvariant, PTL

\* A cancelled delivery leaves no live order behind, unless one of its attempts FAILED,
\* and nobody is about to make one.
THEOREM CancelledIsReleasedAlways == Spec => []CancelledIsReleased
<1>1. IInv => CancelledIsReleased
  BY DEF IInv
<1> QED
  BY <1>1, BookingInvariant, PTL

\* No step takes the delivery off its table, except that a FAILED one is orchestrated again.
THEOREM DeliveryFollowsTable == Spec => FollowsTransitionTable
<1> DEFINE Allowed == \/ CanTransitionDelivery(delivery, delivery')
                      \/ delivery = "FAILED" /\ delivery' = "ORCHESTRATING"
<1>1. ASSUME IInv, [Next]_vars
      PROVE  [Allowed]_delivery
  <2>1. ASSUME NEW p \in Proc, Step(p)
        PROVE  Allowed
    <3>1. \/ UNCHANGED delivery
          \/ delivery = "ORCHESTRATING" /\ delivery' \in {"OPTION_READY", "FAILED"}
          \/ delivery = "OPTION_READY" /\ delivery' = "BOOKING"
          \/ delivery = "BOOKING" /\ delivery' \in {"BOOKED", "FAILED"}
          \/ CanTransitionDelivery(delivery, delivery')
      BY <1>1, <2>1
         DEF Step, RunOrchestration, FailOrchestration, CheckPayment, CountBookings,
             StartBooking, CreateBooking, GetBooking, FinalizeBooking, CheckUnknown,
             CheckProcessing, CountCancellations, CreateCancellation, CancelBooking,
             FinalizeCancellation, CancelDelivery, RefundPrepaid, TransitionStatus,
             IInv, ConfirmKnows
    <3> QED
      BY <3>1 DEF CanTransitionDelivery, TerminalStatuses, AllowedTransitions
  <2>2. ASSUME NEW p \in Proc, Orchestrate(p)
        PROVE  Allowed
    BY <2>2 DEF Orchestrate, CanTransitionDelivery, TerminalStatuses, AllowedTransitions
  <2>3. ASSUME NEW p \in Proc, Confirm(p) \/ CancelRequest(p) \/ Crash(p)
        PROVE  UNCHANGED delivery
    BY <2>3 DEF Confirm, CancelRequest, Crash
  <2>4. ASSUME CreatePayment \/ CapturePayment \/ Operate
        PROVE  UNCHANGED delivery \/ Allowed
    BY <2>4 DEF CreatePayment, CapturePayment, Operate
  <2>5. UNCHANGED vars => UNCHANGED delivery
    BY DEF vars
  <2> QED
    BY <1>1, <2>1, <2>2, <2>3, <2>4, <2>5 DEF Next
<1> QED
  BY <1>1, BookingInvariant, PTL DEF Spec, FollowsTransitionTable
=============================================================================

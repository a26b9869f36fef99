----------------------- MODULE PaymentCollectionProofs -----------------------
(***************************************************************************)
(* Proofs about PaymentCollection, for every set of handlers and keys and  *)
(* any number of crashes. The rows are not locked between the reads of a   *)
(* handler and its writes; what makes the writes right is that everything  *)
(* a handler remembers can only become more true (Knows).                  *)
(***************************************************************************)
EXTENDS PaymentCollection, TLAPS

-----------------------------------------------------------------------------
(* What a step does to the handlers.                                       *)

\* The handler p takes a step, the others do not, and all keep their types.
OnlyMoves(p) ==
    /\ proc' \in [Proc -> Handlers]
    /\ \A q \in Proc \ {p} : proc'[q] = proc[q]

\* A handler that has nothing to do is a handler.
LEMMA IdleType == Idle \in Handlers
  BY DEF Idle, Handlers, Pcs

\* A handler that moves on keeps what it has seen.
LEMMA GotoStep ==
    ASSUME TypeOK, NEW p \in Proc, NEW pc \in Pcs, Goto(p, pc)
    PROVE  /\ OnlyMoves(p)
           /\ proc'[p].pc = pc
           /\ proc'[p].attemptSeen = proc[p].attemptSeen
  BY DEF TypeOK, Goto, OnlyMoves, Handlers

\* A handler that returns is idle and has seen nothing.
LEMMA ReturnStep ==
    ASSUME TypeOK, NEW p \in Proc, Return(p)
    PROVE  /\ OnlyMoves(p)
           /\ proc'[p].pc = "idle"
           /\ ~proc'[p].attemptSeen
  BY IdleType DEF TypeOK, Return, OnlyMoves, Idle

\* What follows a capture is the response to the request, or nothing.
LEMMA AfterStep ==
    ASSUME TypeOK, NEW p \in Proc, After(p)
    PROVE  /\ OnlyMoves(p)
           /\ proc'[p].pc \in {"respond", "idle"}
           /\ proc'[p].attemptSeen => proc[p].attemptSeen
<1>1. "respond" \in Pcs
  BY DEF Pcs
<1> QED
  BY <1>1, GotoStep, ReturnStep DEF After

\* A handler that starts on a request or a webhook has seen nothing.
LEMMA StartStep ==
    ASSUME TypeOK, NEW p \in Proc, NEW k \in Key \cup {NoKey},
           NEW pc \in {"create", "checkout", "respond", "markPaid", "markFailed"},
           proc' = [proc EXCEPT ![p] = [Idle EXCEPT !.pc = pc, !.key = k]]
    PROVE  /\ OnlyMoves(p)
           /\ proc'[p].pc = pc
           /\ ~proc'[p].attemptSeen
<1> DEFINE started == [Idle EXCEPT !.pc = pc, !.key = k]
<1>1. started \in Handlers
  BY DEF Idle, Handlers, Pcs
<1>2. started.pc = pc /\ ~started.attemptSeen
  BY DEF Idle
<1>3. proc' = [proc EXCEPT ![p] = started]
  OBVIOUS
<1> HIDE DEF started
<1> QED
  BY <1>1, <1>2, <1>3 DEF TypeOK, OnlyMoves

\* A webhook starts without a key.
LEMMA WebhookStart ==
    ASSUME TypeOK, NEW p \in Proc, NEW pc \in {"markPaid", "markFailed"},
           proc' = [proc EXCEPT ![p] = [Idle EXCEPT !.pc = pc]]
    PROVE  /\ OnlyMoves(p)
           /\ proc'[p].pc = pc
           /\ ~proc'[p].attemptSeen
<1> DEFINE started == [Idle EXCEPT !.pc = pc]
<1>1. started \in Handlers
  BY DEF Idle, Handlers, Pcs
<1>2. started.pc = pc /\ ~started.attemptSeen
  BY DEF Idle
<1>3. proc' = [proc EXCEPT ![p] = started]
  OBVIOUS
<1> HIDE DEF started
<1> QED
  BY <1>1, <1>2, <1>3 DEF TypeOK, OnlyMoves

\* A handler looks for the latest attempt.
LEMMA LookStep ==
    ASSUME TypeOK, NEW p \in Proc, NEW pc \in Pcs,
           proc' = [proc EXCEPT ![p].pc = pc, ![p].attemptSeen = attempt # "NONE"]
    PROVE  /\ OnlyMoves(p)
           /\ proc'[p].pc = pc
           /\ proc'[p].attemptSeen = (attempt # "NONE")
<1> DEFINE moved == [proc EXCEPT ![p].pc = pc]
           seen == (attempt # "NONE")
<1>1. /\ moved \in [Proc -> Handlers]
      /\ moved[p].pc = pc
      /\ \A q \in Proc \ {p} : moved[q] = proc[q]
  BY DEF TypeOK, Handlers
<1>2. seen \in BOOLEAN
  OBVIOUS
<1>3. proc' = [moved EXCEPT ![p].attemptSeen = seen]
  OBVIOUS
<1> HIDE DEF moved, seen
<1>4. ASSUME NEW h \in Handlers
      PROVE  /\ [h EXCEPT !.attemptSeen = seen] \in Handlers
             /\ [h EXCEPT !.attemptSeen = seen].pc = h.pc
             /\ [h EXCEPT !.attemptSeen = seen].attemptSeen = seen
  BY <1>2 DEF Handlers
<1> DEFINE new == [moved[p] EXCEPT !.attemptSeen = seen]
<1>5. proc' = [moved EXCEPT ![p] = new]
  BY <1>1, <1>3
<1>6. new \in Handlers /\ new.pc = moved[p].pc /\ new.attemptSeen = seen
  BY <1>1, <1>4
<1> HIDE DEF new
<1> QED
  BY <1>1, <1>5, <1>6 DEF OnlyMoves, seen

\* A checkout at STUB goes on to the capture, and will respond.
LEMMA StubStep ==
    ASSUME TypeOK, NEW p \in Proc,
           proc' = [proc EXCEPT ![p].pc = "markPaid", ![p].respond = TRUE]
    PROVE  /\ OnlyMoves(p)
           /\ proc'[p].pc = "markPaid"
           /\ proc'[p].attemptSeen = proc[p].attemptSeen
<1> DEFINE moved == [proc EXCEPT ![p].pc = "markPaid"]
<1>1. /\ moved \in [Proc -> Handlers]
      /\ moved[p].pc = "markPaid"
      /\ moved[p].attemptSeen = proc[p].attemptSeen
      /\ \A q \in Proc \ {p} : moved[q] = proc[q]
  BY DEF TypeOK, Handlers, Pcs
<1>2. proc' = [moved EXCEPT ![p].respond = TRUE]
  OBVIOUS
<1> HIDE DEF moved
<1>3. ASSUME NEW h \in Handlers
      PROVE  /\ [h EXCEPT !.respond = TRUE] \in Handlers
             /\ [h EXCEPT !.respond = TRUE].pc = h.pc
             /\ [h EXCEPT !.respond = TRUE].attemptSeen = h.attemptSeen
  BY DEF Handlers
<1> DEFINE new == [moved[p] EXCEPT !.respond = TRUE]
<1>4. proc' = [moved EXCEPT ![p] = new]
  BY <1>1, <1>2
<1>5. new \in Handlers /\ new.pc = moved[p].pc /\ new.attemptSeen = moved[p].attemptSeen
  BY <1>1, <1>3
<1> HIDE DEF new
<1> QED
  BY <1>1, <1>4, <1>5 DEF OnlyMoves
-----------------------------------------------------------------------------
(* What the handlers know.                                                 *)

\* What can be known only becomes more true in a step: an attempt is not deleted, a paid
\* order stays paid, a FAILED payment stays FAILED.
Monotone ==
    /\ attempt # "NONE" => attempt' # "NONE"
    /\ order = "paid" => order' = "paid"
    /\ payment.status = "FAILED" => payment'.status = "FAILED"
    /\ gatewayCode' = gatewayCode

\* Then the handlers that do not move go on knowing it.
LEMMA KnowledgeStays ==
    ASSUME HandlersKnow, Monotone, NEW p \in Proc, OnlyMoves(p), Knows(p)'
    PROVE  HandlersKnow'
<1> SUFFICES ASSUME NEW q \in Proc \ {p}
             PROVE  Knows(q)'
  BY DEF HandlersKnow
<1>1. proc'[q] = proc[q] /\ Knows(q)
  BY DEF OnlyMoves, HandlersKnow
<1> QED
  BY <1>1 DEF Knows, Monotone

\* The same when nobody moves.
LEMMA KnowledgeStaysAll ==
    ASSUME HandlersKnow, Monotone, UNCHANGED proc
    PROVE  HandlersKnow'
<1> SUFFICES ASSUME NEW q \in Proc
             PROVE  Knows(q)'
  BY DEF HandlersKnow
<1>1. Knows(q)
  BY DEF HandlersKnow
<1> QED
  BY <1>1 DEF Knows, Monotone

\* A step of a handler that writes no row and no order keeps the invariant, if the handler
\* knows what its next step relies on.
LEMMA QuietStep ==
    ASSUME IInv, NEW p \in Proc, OnlyMoves(p), Knows(p)',
           UNCHANGED <<gatewayCode, payment, attempt, credited, order, events>>,
           ready' \in BOOLEAN, saved' \subseteq Key, crashes' \in 0 .. MaxCrashes
    PROVE  IInv'
<1>1. TypeOK'
  BY DEF IInv, TypeOK, OnlyMoves
<1>2. CaptureIsConsistent' /\ CheckoutIsWhole' /\ EventsAreTrue'
  BY DEF IInv, CaptureIsConsistent, CheckoutIsWhole, EventsAreTrue
<1>3. HandlersKnow'
  BY KnowledgeStays DEF IInv, Monotone
<1> QED
  BY <1>1, <1>2, <1>3 DEF IInv
-----------------------------------------------------------------------------
(* The inductive invariant.                                                *)

\* It holds before any request ...
LEMMA IInvInit == Init => IInv
<1> SUFFICES ASSUME Init
             PROVE  IInv
  OBVIOUS
<1>1. TypeOK
  <2>1. NoPayment \in Payments
    BY DEF NoPayment, Payments
  <2>2. [p \in Proc |-> Idle] \in [Proc -> Handlers]
    BY IdleType
  <2>3. 0 \in 0 .. MaxCrashes
    BY CollectionAssumption
  <2> QED
    BY <2>1, <2>2, <2>3 DEF Init, TypeOK
<1>2. CaptureIsConsistent /\ CheckoutIsWhole /\ EventsAreTrue
  BY DEF Init, NoPayment, CaptureIsConsistent, CheckoutIsWhole, EventsAreTrue
<1>3. HandlersKnow
  BY DEF Init, Idle, HandlersKnow, Knows
<1> QED
  BY <1>1, <1>2, <1>3 DEF IInv

\* ... a request keeps it that only looks ...
LEMMA RequestKeeps ==
    ASSUME IInv, NEW p \in Proc, NEW k \in Key \cup {NoKey}, CreateRequest(p, k)
    PROVE  IInv'
<1>1. \E pc \in {"create", "checkout", "respond"} :
          proc' = [proc EXCEPT ![p] = [Idle EXCEPT !.pc = pc, !.key = k]]
  <2>1. CASE proc' = [proc EXCEPT ![p] = [Idle EXCEPT !.pc = "create", !.key = k]]
    BY <2>1
  <2>2. ASSUME proc' = [proc EXCEPT ![p] =
                  [Idle EXCEPT !.key = k,
                       !.pc = IF NeedsCheckoutCompletion THEN "checkout" ELSE "respond"]]
        PROVE  \E pc \in {"checkout", "respond"} :
                  proc' = [proc EXCEPT ![p] = [Idle EXCEPT !.pc = pc, !.key = k]]
    BY <2>2 DEF Idle
  <2> QED
    BY <2>1, <2>2 DEF CreateRequest
<1>2. /\ OnlyMoves(p)
      /\ proc'[p].pc \in {"create", "checkout", "respond"}
      /\ ~proc'[p].attemptSeen
  BY <1>1, StartStep DEF IInv
<1>3. Knows(p)'
  BY <1>2 DEF Knows
<1> QED
  BY <1>2, <1>3, QuietStep DEF CreateRequest, stored, outside, IInv, TypeOK

\* ... as does the insert of the payment ...
LEMMA CreateKeeps ==
    ASSUME IInv, NEW p \in Proc, CreatePayment(p)
    PROVE  IInv'
<1>1. UNCHANGED <<attempt, credited, saved, gatewayCode, ready, order, events, crashes>>
  BY DEF CreatePayment, outside
<1>2. CASE payment.status # "NONE"
  <2>1. Return(p) /\ UNCHANGED payment
    BY <1>2 DEF CreatePayment
  <2>2. OnlyMoves(p) /\ Knows(p)'
    BY <2>1, ReturnStep DEF Knows, IInv
  <2> QED
    BY <1>1, <2>1, <2>2, QuietStep DEF IInv, TypeOK
<1>3. CASE payment.status = "NONE"
  <2>1. /\ payment' = [NoPayment EXCEPT !.status = "CREATED"]
        /\ Goto(p, "checkout")
        /\ payment = NoPayment
    BY <1>3 DEF CreatePayment, IInv, EventsAreTrue
  <2>2. /\ payment' \in Payments
        /\ payment'.status = "CREATED" /\ ~payment'.orderId /\ ~payment'.session
    BY <2>1 DEF NoPayment, Payments, PaymentStatuses
  <2>3. ~payment.orderId /\ attempt = "NONE" /\ ~credited
    BY <1>3, <2>1 DEF NoPayment, IInv, CheckoutIsWhole, CaptureIsConsistent
  <2>4. OnlyMoves(p) /\ proc'[p].pc = "checkout"
        /\ proc'[p].attemptSeen = proc[p].attemptSeen
    BY <2>1, GotoStep DEF IInv, Pcs
  <2>5. Knows(p)'
    BY <1>1, <2>4 DEF IInv, HandlersKnow, Knows
  <2>6. HandlersKnow'
    BY <1>1, <1>3, <2>4, <2>5, KnowledgeStays DEF Monotone, IInv
  <2>7. TypeOK'
    BY <1>1, <2>2, <2>4 DEF IInv, TypeOK, OnlyMoves
  <2>8. CaptureIsConsistent' /\ CheckoutIsWhole' /\ EventsAreTrue'
    BY <1>1, <2>2, <2>3
       DEF IInv, CaptureIsConsistent, CheckoutIsWhole, EventsAreTrue
  <2> QED
    BY <2>6, <2>7, <2>8 DEF IInv
<1> QED
  BY <1>2, <1>3

\* ... the call of the gateway, which may open the order ...
LEMMA OrderKeeps ==
    ASSUME IInv, NEW p \in Proc, CreatePaymentOrder(p)
    PROVE  IInv'
<1>1. UNCHANGED <<payment, attempt, credited, saved, gatewayCode, ready, events, crashes>>
  BY DEF CreatePaymentOrder, stored
<1>2. order' = order \/ (order = "none" /\ order' = "active")
  BY DEF CreatePaymentOrder
<1>3. OnlyMoves(p) /\ proc'[p].pc \in {"findAttempt", "idle"}
      /\ (proc'[p].attemptSeen => proc[p].attemptSeen)
  BY GotoStep, ReturnStep DEF CreatePaymentOrder, IInv, Pcs
<1>4. Knows(p)'
  BY <1>1, <1>3 DEF IInv, HandlersKnow, Knows
<1>5. HandlersKnow'
  BY <1>1, <1>2, <1>3, <1>4, KnowledgeStays DEF Monotone, IInv
<1>6. TypeOK'
  BY <1>1, <1>2, <1>3 DEF IInv, TypeOK, OnlyMoves
<1>7. CaptureIsConsistent' /\ CheckoutIsWhole' /\ EventsAreTrue'
  BY <1>1, <1>2 DEF IInv, CaptureIsConsistent, CheckoutIsWhole, EventsAreTrue
<1> QED
  BY <1>5, <1>6, <1>7 DEF IInv

\* ... the transaction that stores the checkout, whose handler saw an attempt that is still
\* there, or sees that there is none ...
LEMMA StoreKeeps ==
    ASSUME IInv, NEW p \in Proc, StoreCheckout(p)
    PROVE  IInv'
<1>1. UNCHANGED <<credited, saved, gatewayCode, ready, order, events, crashes>>
  BY DEF StoreCheckout, outside
<1>2. CASE UNCHANGED <<payment, attempt>> /\ (Return(p) \/ Goto(p, "respond"))
  <2>1. OnlyMoves(p) /\ proc'[p].pc \in {"idle", "respond"}
        /\ (proc'[p].attemptSeen => proc[p].attemptSeen)
    BY <1>2, GotoStep, ReturnStep DEF IInv, Pcs
  <2>2. Knows(p)'
    BY <1>2, <2>1 DEF IInv, HandlersKnow, Knows
  <2> QED
    BY <1>1, <1>2, <2>1, <2>2, QuietStep DEF IInv, TypeOK
<1>3. CASE /\ payment.status \in ActiveCreateStatuses
           /\ payment' = [status |-> "PENDING", orderId |-> TRUE,
                          session |-> gatewayCode = "CASHFREE"]
           /\ attempt' = IF proc[p].attemptSeen THEN attempt ELSE "PENDING"
           /\ IF gatewayCode = "STUB"
              THEN proc' = [proc EXCEPT ![p].pc = "markPaid", ![p].respond = TRUE]
              ELSE Goto(p, "respond")
  <2>1. /\ payment' \in Payments
        /\ payment'.status = "PENDING" /\ payment'.orderId
    BY <1>3 DEF Payments, PaymentStatuses
  <2>2. payment.status \notin {"NONE", "PAID", "FAILED"} /\ ~credited /\ attempt # "SUCCEEDED"
    BY <1>3 DEF ActiveCreateStatuses, IInv, CaptureIsConsistent
  <2>3. /\ attempt' \in {"NONE", "PENDING", "SUCCEEDED", "FAILED"}
        /\ attempt' \notin {"NONE", "SUCCEEDED"}
    BY <1>3, <2>2 DEF IInv, TypeOK, HandlersKnow, Knows
  <2>4. /\ OnlyMoves(p)
        /\ \/ gatewayCode = "STUB" /\ proc'[p].pc = "markPaid"
           \/ proc'[p].pc = "respond"
    BY <1>3, GotoStep, StubStep DEF IInv, Pcs
  <2>5. Knows(p)'
    BY <1>1, <2>3, <2>4 DEF Knows
  <2>6. HandlersKnow'
    BY <1>1, <2>2, <2>3, <2>4, <2>5, KnowledgeStays DEF Monotone, IInv
  <2>7. TypeOK'
    BY <1>1, <2>1, <2>3, <2>4 DEF IInv, TypeOK, OnlyMoves
  <2>8. CaptureIsConsistent' /\ CheckoutIsWhole' /\ EventsAreTrue'
    BY <1>1, <2>1, <2>2, <2>3
       DEF IInv, CaptureIsConsistent, CheckoutIsWhole, EventsAreTrue
  <2> QED
    BY <2>6, <2>7, <2>8 DEF IInv
<1> QED
  BY <1>2, <1>3 DEF StoreCheckout

\* ... the capture, whose handler knows that the order is paid and has its attempt ...
LEMMA CaptureKeeps ==
    ASSUME IInv, NEW p \in Proc, MarkPaidCommit(p)
    PROVE  IInv'
<1>1. UNCHANGED <<saved, gatewayCode, ready, order, events, crashes>>
  BY DEF MarkPaidCommit, outside
<1>2. OnlyMoves(p) /\ proc'[p].pc \in {"idle", "respond"}
      /\ (proc'[p].attemptSeen => proc[p].attemptSeen)
  BY AfterStep, ReturnStep DEF MarkPaidCommit, IInv
<1>3. /\ proc[p].attemptSeen /\ attempt # "NONE"
      /\ gatewayCode = "CASHFREE" => order = "paid"
  BY DEF MarkPaidCommit, IInv, HandlersKnow, Knows
<1>4. CASE UNCHANGED <<payment, attempt, credited>>
  <2>1. Knows(p)'
    BY <1>2, <1>3, <1>4 DEF Knows
  <2> QED
    BY <1>1, <1>2, <1>4, <2>1, QuietStep DEF IInv, TypeOK
<1>5. CASE /\ payment.status \in ActiveCreateStatuses
           /\ payment' = [payment EXCEPT !.status = "PAID"]
           /\ attempt' = IF proc[p].attemptSeen THEN "SUCCEEDED" ELSE attempt
           /\ credited' = TRUE
  <2>1. attempt' = "SUCCEEDED" /\ credited'
    BY <1>3, <1>5
  <2>2. /\ payment' \in Payments
        /\ payment'.status = "PAID"
        /\ payment'.orderId = payment.orderId /\ payment'.session = payment.session
    BY <1>5 DEF IInv, TypeOK, Payments, PaymentStatuses
  <2>3. payment.status # "FAILED"
    BY <1>5 DEF ActiveCreateStatuses
  <2>4. Knows(p)'
    BY <1>2, <2>1 DEF Knows
  <2>5. HandlersKnow'
    BY <1>1, <1>2, <2>1, <2>3, <2>4, KnowledgeStays DEF Monotone, IInv
  <2>6. TypeOK'
    BY <1>1, <1>2, <1>5, <2>1, <2>2 DEF IInv, TypeOK, OnlyMoves
  <2>7. CaptureIsConsistent' /\ CheckoutIsWhole' /\ EventsAreTrue'
    BY <1>1, <1>3, <2>1, <2>2
       DEF IInv, CaptureIsConsistent, CheckoutIsWhole, EventsAreTrue
  <2> QED
    BY <2>5, <2>6, <2>7 DEF IInv
<1> QED
  BY <1>4, <1>5 DEF MarkPaidCommit

\* ... a failure, which moves only a payment that is still active ...
LEMMA FailureKeeps ==
    ASSUME IInv, NEW p \in Proc, MarkFailed(p)
    PROVE  IInv'
<1>1. UNCHANGED <<attempt, credited, saved, gatewayCode, ready, order, events, crashes>>
  BY DEF MarkFailed, outside
<1>2. CASE payment.status \notin ActiveCreateStatuses
  <2>1. Return(p) /\ UNCHANGED payment
    BY <1>2 DEF MarkFailed
  <2>2. OnlyMoves(p) /\ Knows(p)'
    BY <2>1, ReturnStep DEF Knows, IInv
  <2> QED
    BY <1>1, <2>1, <2>2, QuietStep DEF IInv, TypeOK
<1>3. CASE payment.status \in ActiveCreateStatuses
  <2>1. payment' = [payment EXCEPT !.status = "FAILED"] /\ Goto(p, "failAttempt")
    BY <1>3 DEF MarkFailed
  <2>2. /\ payment' \in Payments
        /\ payment'.status = "FAILED"
        /\ payment'.orderId = payment.orderId /\ payment'.session = payment.session
    BY <2>1 DEF IInv, TypeOK, Payments, PaymentStatuses
  <2>3. payment.status # "PAID" /\ ~credited
    BY <1>3 DEF ActiveCreateStatuses, IInv, CaptureIsConsistent
  <2>4. OnlyMoves(p) /\ proc'[p].pc = "failAttempt"
        /\ proc'[p].attemptSeen = proc[p].attemptSeen
    BY <2>1, GotoStep DEF IInv, Pcs
  <2>5. Knows(p)'
    BY <1>1, <2>2, <2>4 DEF IInv, HandlersKnow, Knows
  <2>6. HandlersKnow'
    BY <1>1, <2>2, <2>4, <2>5, KnowledgeStays DEF Monotone, IInv
  <2>7. TypeOK'
    BY <1>1, <2>2, <2>4 DEF IInv, TypeOK, OnlyMoves
  <2>8. CaptureIsConsistent' /\ CheckoutIsWhole' /\ EventsAreTrue'
    BY <1>1, <2>2, <2>3
       DEF IInv, CaptureIsConsistent, CheckoutIsWhole, EventsAreTrue
  <2> QED
    BY <2>6, <2>7, <2>8 DEF IInv
<1> QED
  BY <1>2, <1>3

\* ... and the second statement of it, which finds the payment still FAILED ...
LEMMA FailAttemptKeeps ==
    ASSUME IInv, NEW p \in Proc, FailAttempt(p)
    PROVE  IInv'
<1>1. UNCHANGED <<payment, credited, saved, gatewayCode, ready, order, events, crashes>>
  BY DEF FailAttempt, outside
<1>2. payment.status = "FAILED" /\ ~credited /\ attempt # "SUCCEEDED"
  BY DEF FailAttempt, IInv, HandlersKnow, Knows, CaptureIsConsistent
<1>3. /\ attempt' \in {"NONE", "PENDING", "FAILED"}
      /\ attempt' = "NONE" <=> attempt = "NONE"
  BY DEF FailAttempt
<1>4. OnlyMoves(p) /\ proc'[p].pc = "idle" /\ ~proc'[p].attemptSeen
  BY ReturnStep DEF FailAttempt, IInv
<1>5. Knows(p)'
  BY <1>4 DEF Knows
<1>6. HandlersKnow'
  BY <1>1, <1>3, <1>4, <1>5, KnowledgeStays DEF Monotone, IInv
<1>7. TypeOK'
  BY <1>1, <1>3, <1>4 DEF IInv, TypeOK, OnlyMoves
<1>8. CaptureIsConsistent' /\ CheckoutIsWhole' /\ EventsAreTrue'
  BY <1>1, <1>2, <1>3 DEF IInv, CaptureIsConsistent, CheckoutIsWhole, EventsAreTrue
<1> QED
  BY <1>6, <1>7, <1>8 DEF IInv

\* ... the steps that only read, look, answer or die ...
LEMMA ReadKeeps ==
    ASSUME IInv, NEW p \in Proc,
           \/ FindAttempt(p) \/ Respond(p) \/ MarkPaidRead(p) \/ Crash(p)
    PROVE  IInv'
<1>1. CASE FindAttempt(p)
  <2>1. /\ OnlyMoves(p)
        /\ proc'[p].pc = "storeCheckout"
        /\ proc'[p].attemptSeen = (attempt # "NONE")
    BY <1>1, LookStep DEF FindAttempt, IInv, Pcs
  <2>2. UNCHANGED <<stored, outside>>
    BY <1>1 DEF FindAttempt
  <2>3. Knows(p)'
    BY <2>1, <2>2 DEF Knows, stored
  <2> QED
    BY <2>1, <2>2, <2>3, QuietStep DEF stored, outside, IInv, TypeOK
<1>2. CASE Respond(p)
  <2>1. OnlyMoves(p) /\ Knows(p)'
    BY <1>2, ReturnStep DEF Respond, Knows, IInv
  <2>2. saved' \subseteq Key
    BY <1>2 DEF Respond, IInv, TypeOK, Handlers
  <2> QED
    BY <1>2, <2>1, <2>2, QuietStep DEF Respond, outside, IInv, TypeOK
<1>3. CASE MarkPaidRead(p)
  <2>1. UNCHANGED <<stored, outside>>
    BY <1>3 DEF MarkPaidRead
  <2>2. attempt # "NONE" /\ (gatewayCode = "CASHFREE" => order = "paid")
    BY <1>3 DEF MarkPaidRead, IInv, HandlersKnow, Knows
  <2>3. /\ OnlyMoves(p)
        /\ \/ proc'[p].pc = "commitPaid" /\ proc'[p].attemptSeen
           \/ proc'[p].pc \in {"idle", "respond"}
    BY <1>3, <2>2, LookStep, AfterStep, ReturnStep DEF MarkPaidRead, IInv, Pcs
  <2>4. Knows(p)'
    BY <2>1, <2>2, <2>3 DEF Knows, stored, outside
  <2> QED
    BY <2>1, <2>3, <2>4, QuietStep DEF stored, outside, IInv, TypeOK
<1>4. CASE Crash(p)
  <2>1. OnlyMoves(p) /\ Knows(p)'
    BY <1>4, ReturnStep DEF Crash, Knows, IInv
  <2>2. crashes' \in 0 .. MaxCrashes
    BY <1>4, CollectionAssumption DEF Crash, IInv, TypeOK
  <2> QED
    BY <1>4, <2>1, <2>2, QuietStep DEF Crash, stored, IInv, TypeOK
<1> QED
  BY <1>1, <1>2, <1>3, <1>4

\* ... the webhooks: they find a payment that has its order id, and so its attempt, and a
\* success is told only of a paid order ...
LEMMA WebhookKeeps ==
    ASSUME IInv, NEW p \in Proc, PaymentSuccessWebhook(p) \/ PaymentFailedWebhook(p)
    PROVE  IInv'
<1>1. UNCHANGED <<stored, outside>>
  BY DEF PaymentSuccessWebhook, PaymentFailedWebhook
<1>2. attempt # "NONE"
  BY DEF PaymentSuccessWebhook, PaymentFailedWebhook, IInv, CheckoutIsWhole
<1>3. /\ OnlyMoves(p) /\ ~proc'[p].attemptSeen
      /\ \/ proc'[p].pc = "markPaid" /\ order = "paid"
         \/ proc'[p].pc = "markFailed"
  BY WebhookStart DEF PaymentSuccessWebhook, PaymentFailedWebhook, IInv, EventsAreTrue
<1>4. Knows(p)'
  BY <1>1, <1>2, <1>3 DEF Knows, stored, outside
<1> QED
  BY <1>1, <1>3, <1>4, QuietStep DEF stored, outside, IInv, TypeOK

\* ... and what happens outside.
LEMMA OutsideKeeps ==
    ASSUME IInv, CustomerPays \/ CustomerTryFails \/ DeliveryMovesOn \/ UNCHANGED vars
    PROVE  IInv'
<1>1. UNCHANGED <<payment, attempt, credited, saved, gatewayCode, proc, crashes>>
  BY DEF CustomerPays, CustomerTryFails, DeliveryMovesOn, vars, stored
<1>2. /\ ready' \in BOOLEAN
      /\ order' \in {order, "paid"}
      /\ events' \subseteq {"PAYMENT_SUCCESS", "PAYMENT_FAILED"}
      /\ "PAYMENT_SUCCESS" \in events' => "PAYMENT_SUCCESS" \in events \/ order' = "paid"
  BY DEF CustomerPays, CustomerTryFails, DeliveryMovesOn, vars, IInv, TypeOK
<1>3. HandlersKnow'
  BY <1>1, <1>2, KnowledgeStaysAll DEF Monotone, IInv
<1>4. TypeOK'
  BY <1>1, <1>2 DEF IInv, TypeOK
<1>5. CaptureIsConsistent' /\ CheckoutIsWhole' /\ EventsAreTrue'
  BY <1>1, <1>2 DEF IInv, CaptureIsConsistent, CheckoutIsWhole, EventsAreTrue
<1> QED
  BY <1>3, <1>4, <1>5 DEF IInv

\* Every action keeps the invariant.
LEMMA IInvStep == IInv /\ [Next]_vars => IInv'
<1> SUFFICES ASSUME IInv, [Next]_vars
             PROVE  IInv'
  OBVIOUS
<1>1. ASSUME NEW p \in Proc, Step(p)
      PROVE  IInv'
  BY <1>1, CreateKeeps, OrderKeeps, StoreKeeps, CaptureKeeps, FailureKeeps,
     FailAttemptKeeps, ReadKeeps DEF Step
<1>2. ASSUME NEW p \in Proc,
             \/ Crash(p) \/ PaymentSuccessWebhook(p) \/ PaymentFailedWebhook(p)
             \/ \E k \in Key \cup {NoKey} : CreateRequest(p, k)
      PROVE  IInv'
  BY <1>2, ReadKeeps, WebhookKeeps, RequestKeeps
<1> QED
  BY <1>1, <1>2, OutsideKeeps DEF Next
-----------------------------------------------------------------------------
(* The theorems.                                                           *)

\* The inductive invariant holds in every reachable state, for any number of handlers,
\* keys and crashes.
THEOREM CollectionInvariant == Spec => []IInv
  BY IInvInit, IInvStep, PTL DEF Spec

\* Every variable keeps its type, for any number of handlers, keys and crashes.
THEOREM CollectionTypeCorrect == Spec => []TypeOK
<1>1. IInv => TypeOK
  BY DEF IInv
<1> QED
  BY <1>1, CollectionInvariant, PTL

\* Payment, attempt and ledger agree in every committed state, and a payment at CASHFREE
\* is PAID only if the customer paid, whatever webhooks, checkouts and deaths race.
THEOREM CaptureIsConsistentAlways == Spec => []CaptureIsConsistent
<1>1. IInv => CaptureIsConsistent
  BY DEF IInv
<1> QED
  BY <1>1, CollectionInvariant, PTL

\* A checkout the customer can pay always has the order id and the attempt its webhook
\* will look for.
THEOREM CheckoutIsWholeAlways == Spec => []CheckoutIsWhole
<1>1. IInv => CheckoutIsWhole
  BY DEF IInv
<1> QED
  BY <1>1, CollectionInvariant, PTL

\* No step takes a payment off the table of payment.transitions.ts, however late it is.
THEOREM StatusFollowsTableAlways == Spec => StatusFollowsTable
<1>1. ASSUME IInv, [Next]_vars
      PROVE  [payment.status # "NONE"
                => CanTransitionPayment(payment.status, payment'.status)]_vars
  <2>1. UNCHANGED payment => CanTransitionPayment(payment.status, payment'.status)
    BY DEF CanTransitionPayment
  <2>2. ASSUME NEW p \in Proc, Step(p), payment.status # "NONE"
        PROVE  CanTransitionPayment(payment.status, payment'.status)
    <3>1. \/ UNCHANGED payment
          \/ /\ payment.status \in ActiveCreateStatuses
             /\ payment'.status \in {"PENDING", "PAID", "FAILED"}
      BY <1>1, <2>2
         DEF Step, CreatePayment, CreatePaymentOrder, FindAttempt, StoreCheckout, Respond,
             MarkPaidRead, MarkPaidCommit, MarkFailed, FailAttempt, stored,
             IInv, TypeOK, Payments
    <3> QED
      BY <2>1, <3>1
         DEF ActiveCreateStatuses, CanTransitionPayment, PaymentMoves, TerminalPaymentStatuses
  <2>3. ASSUME NEW p \in Proc,
               \/ Crash(p) \/ PaymentSuccessWebhook(p) \/ PaymentFailedWebhook(p)
               \/ \E k \in Key \cup {NoKey} : CreateRequest(p, k)
        PROVE  UNCHANGED payment
    BY <2>3 DEF Crash, PaymentSuccessWebhook, PaymentFailedWebhook, CreateRequest, stored
  <2>4. ASSUME CustomerPays \/ CustomerTryFails \/ DeliveryMovesOn
        PROVE  UNCHANGED payment
    BY <2>4 DEF CustomerPays, CustomerTryFails, DeliveryMovesOn, stored
  <2> QED
    BY <1>1, <2>1, <2>2, <2>3, <2>4 DEF Next
<1> QED
  BY <1>1, CollectionInvariant, PTL DEF Spec, StatusFollowsTable
=============================================================================

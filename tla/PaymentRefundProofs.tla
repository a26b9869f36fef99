------------------------- MODULE PaymentRefundProofs -------------------------
(***************************************************************************)
(* Proofs about PaymentRefund, for every set of handlers, every finite set *)
(* of keys and every paid amount. Shape is inductive on its own; the two   *)
(* sums need the frame lemmas, which say what a step can do to the rows    *)
(* and to what an open transaction has read. The last part is the proof    *)
(* that PaymentRefund implements RefundLedger.                             *)
(***************************************************************************)
EXTENDS PaymentRefund, CommonLemmas

-----------------------------------------------------------------------------
(* What the helpers the actions are built from do to the handlers and rows.*)

\* The sums the model takes are over finitely many bounded amounts.
LEMMA Sums ==
    ASSUME TypeOK, NEW S \in SUBSET Key
    PROVE  /\ IsFiniteSet(S)
           /\ \A k \in S : AmountOf[k] \in 0 .. Amount
           /\ SumOf(AmountOf, S) \in Nat
<1>1. IsFiniteSet(S)
  BY KeyAssumption, FS_Subset
<1>2. \A k \in S : AmountOf[k] \in 0 .. Amount
  BY DEF TypeOK, AmountOf, Refunds
<1> QED
  BY <1>1, <1>2, SumOfType, AmountAssumption

\* A handler that has nothing to do is a handler.
LEMMA IdleType == Idle \in Handlers
  BY AmountAssumption DEF Idle, Handlers, Pcs, PaymentStatuses

\* A handler that moves on keeps what it works on; the others stay put.
LEMMA GotoStep ==
    ASSUME Shape, NEW p \in Proc, proc[p].pc # "idle",
           NEW pc \in Pcs \ {"reserve", "reserving"}, Goto(p, pc)
    PROVE  /\ proc' \in [Proc -> Handlers]
           /\ proc'[p] = [proc[p] EXCEPT !.pc = pc]
           /\ proc'[p].pc = pc
           /\ \A q \in Proc \ {p} : proc'[q] = proc[q]
           /\ HandlersHaveWork'
<1>1. /\ proc' \in [Proc -> Handlers]
      /\ proc'[p].pc = pc
      /\ proc'[p].key = proc[p].key
      /\ \A q \in Proc \ {p} : proc'[q] = proc[q]
  BY DEF Goto, Shape, TypeOK, Handlers
<1>2. proc'[p] = [proc[p] EXCEPT !.pc = pc]
  BY DEF Goto, Shape, TypeOK
<1>3. HandlersHaveWork'
  BY <1>1 DEF HandlersHaveWork, Shape
<1> QED
  BY <1>1, <1>2, <1>3

\* A handler that returns is idle again.
LEMMA ReturnStep ==
    ASSUME Shape, NEW p \in Proc, Return(p)
    PROVE  /\ proc' \in [Proc -> Handlers]
           /\ proc'[p] = Idle
           /\ \A q \in Proc \ {p} : proc'[q] = proc[q]
           /\ HandlersHaveWork'
  BY IdleType DEF Return, Shape, TypeOK, HandlersHaveWork, Idle

\* Either way, when the step opens no transaction.
LEMMA MoveStep ==
    ASSUME Shape, NEW p \in Proc, proc[p].pc # "idle",
           \/ \E pc \in Pcs \ {"reserve", "reserving", "finalizing"} : Goto(p, pc)
           \/ Return(p)
    PROVE  /\ proc' \in [Proc -> Handlers]
           /\ proc'[p].pc \notin {"reserving", "finalizing"}
           /\ \A q \in Proc \ {p} : proc'[q] = proc[q]
           /\ HandlersHaveWork'
<1>1. CASE Return(p)
  BY <1>1, ReturnStep DEF Idle
<1>2. ASSUME NEW pc \in Pcs \ {"reserve", "reserving", "finalizing"}, Goto(p, pc)
      PROVE  /\ proc' \in [Proc -> Handlers]
             /\ proc'[p].pc \notin {"reserving", "finalizing"}
             /\ \A q \in Proc \ {p} : proc'[q] = proc[q]
             /\ HandlersHaveWork'
  BY <1>2, GotoStep
<1> QED
  BY <1>1, <1>2

\* A handler that starts on a webhook or a reconciliation.
LEMMA EnterStep ==
    ASSUME Shape, NEW p \in Proc, NEW k \in Key,
           NEW pc \in {"finalize", "markFailed", "getRefundStatus"},
           proc' = [proc EXCEPT ![p] = [Idle EXCEPT !.pc = pc, !.key = k]]
    PROVE  /\ proc' \in [Proc -> Handlers]
           /\ proc'[p].pc = pc
           /\ \A q \in Proc \ {p} : proc'[q] = proc[q]
           /\ HandlersHaveWork'
  BY IdleType DEF Shape, TypeOK, HandlersHaveWork, Idle, Handlers, Pcs

\* What every step other than an insert or a commit leaves of a refund row: its
\* amount, and its status unless an unfinished refund is stored PENDING or FAILED.
RowsKept ==
    \A k \in Key :
        /\ refund'[k].amount = refund[k].amount
        /\ \/ refund'[k].status = refund[k].status
           \/ /\ refund[k].status \in {"REQUESTED", "PENDING"}
              /\ refund'[k].status \in {"PENDING", "FAILED"}

\* updateRefundStatus to PENDING or FAILED is such a step.
LEMMA StatusStep ==
    ASSUME Shape, NEW k \in Key,
           \/ refund[k].status \in {"REQUESTED", "PENDING"}
              /\ refund' = [refund EXCEPT ![k].status = "FAILED"]
           \/ StorePending(k)
           \/ UNCHANGED refund
    PROVE  /\ refund' \in [Key -> Refunds]
           /\ RowsKept
<1>1. CASE UNCHANGED refund
  BY <1>1 DEF Shape, TypeOK, RowsKept
<1>2. CASE /\ refund[k].status \in {"REQUESTED", "PENDING"}
           /\ refund' = [refund EXCEPT ![k].status = "FAILED"]
  BY <1>2 DEF Shape, TypeOK, RowsKept, RefundStatuses, Refunds
<1>3. CASE StorePending(k)
  <2>1. CASE refund[k].status = "REQUESTED"
    <3> DEFINE stored == [refund EXCEPT ![k].status = "PENDING"]
    <3>1. /\ stored \in [Key -> Refunds]
          /\ stored[k].status = "PENDING"
          /\ stored[k].amount = refund[k].amount
          /\ \A j \in Key \ {k} : stored[j] = refund[j]
      BY DEF Shape, TypeOK, RefundStatuses, Refunds
    <3>2. refund' = [stored EXCEPT ![k].gatewayRefundId = TRUE]
      BY <1>3, <2>1 DEF StorePending
    <3> HIDE DEF stored
    <3> QED
      BY <2>1, <3>1, <3>2 DEF RowsKept, Refunds
  <2>2. CASE refund[k].status # "REQUESTED"
    BY <1>1, <1>3, <2>2 DEF StorePending
  <2> QED
    BY <2>1, <2>2
<1> QED
  BY <1>1, <1>2, <1>3

\* It keeps the stored amounts positive.
LEMMA RowsStayPositive ==
    ASSUME Shape, RowsKept
    PROVE  RefundsArePositive'
  BY DEF RowsKept, RefundsArePositive, Shape

\* A new row is an insert; the other rows are not touched.
LEMMA InsertStep ==
    ASSUME Shape, NEW k \in Key, NEW a \in 1 .. Amount,
           refund' = [refund EXCEPT ![k] =
                [status |-> "REQUESTED", amount |-> a, gatewayRefundId |-> FALSE]]
    PROVE  /\ refund' \in [Key -> Refunds]
           /\ refund'[k].status = "REQUESTED"
           /\ refund'[k].amount = a
           /\ \A j \in Key \ {k} : refund'[j] = refund[j]
<1> DEFINE row == [status |-> "REQUESTED", amount |-> a, gatewayRefundId |-> FALSE]
<1>1. /\ row \in Refunds
      /\ row.status = "REQUESTED"
      /\ row.amount = a
  BY AmountAssumption DEF RefundStatuses, Refunds
<1>2. refund' = [refund EXCEPT ![k] = row]
  OBVIOUS
<1> HIDE DEF row
<1> QED
  BY ZenonT(30), <1>1, <1>2 DEF Shape, TypeOK

\* A commit makes one refund SUCCESS and keeps its amount.
LEMMA CommitStep ==
    ASSUME Shape, NEW k \in Key,
           refund' = [refund EXCEPT ![k].status = "SUCCESS", ![k].gatewayRefundId = TRUE]
    PROVE  /\ refund' \in [Key -> Refunds]
           /\ refund'[k].status = "SUCCESS"
           /\ \A j \in Key : refund'[j].amount = refund[j].amount
           /\ \A j \in Key \ {k} : refund'[j] = refund[j]
<1> DEFINE stored == [refund EXCEPT ![k].status = "SUCCESS"]
<1>1. /\ stored \in [Key -> Refunds]
      /\ stored[k].status = "SUCCESS"
      /\ stored[k].amount = refund[k].amount
      /\ \A j \in Key \ {k} : stored[j] = refund[j]
  BY DEF Shape, TypeOK, RefundStatuses, Refunds
<1>2. refund' = [stored EXCEPT ![k].gatewayRefundId = TRUE]
  OBVIOUS
<1> HIDE DEF stored
<1>3. refund' \in [Key -> Refunds]
  BY <1>1, <1>2 DEF Refunds
<1>4. /\ refund'[k].status = stored[k].status
      /\ refund'[k].amount = stored[k].amount
      /\ \A j \in Key \ {k} : refund'[j] = stored[j]
  BY <1>1, <1>2
<1> QED
  BY <1>1, <1>3, <1>4
-----------------------------------------------------------------------------
(* Types, and who holds the lock.                                          *)

\* The shape of the state holds before any request.
LEMMA ShapeInit == Init => Shape
<1> SUFFICES ASSUME Init
             PROVE  Shape
  OBVIOUS
<1>1. TypeOK
  BY IdleType, AmountAssumption, CrashAssumption
     DEF Init, TypeOK, NoRefund, PaymentStatuses, Refunds
<1>2. HandlersHaveWork /\ RefundsArePositive /\ LockIsHeld
  BY ProcAssumption DEF Init, HandlersHaveWork, RefundsArePositive, LockIsHeld, Idle, NoRefund
<1> QED
  BY <1>1, <1>2 DEF Shape

\* The steps that keep the rows as RowsKept says and leave the lock alone.
LEMMA QuietShape ==
    ASSUME Shape, NEW p \in Proc,
           proc[p].pc \notin {"reserving", "finalizing"},
           proc'[p].pc \notin {"reserving", "finalizing"},
           \A q \in Proc \ {p} : proc'[q] = proc[q],
           proc' \in [Proc -> Handlers], HandlersHaveWork',
           refund' \in [Key -> Refunds],
           RowsKept,
           gateway' \in [Key -> {"none", "pending", "success", "failed"}],
           events' \in [Key -> SUBSET {"REFUND_SUCCESS", "REFUND_FAILED"}],
           UNCHANGED <<payment, ledger, lock, crashes>>
    PROVE  Shape'
<1>1. TypeOK'
  BY DEF Shape, TypeOK
<1>2. RefundsArePositive'
  BY RowsStayPositive
<1>3. LockIsHeld'
  BY DEF Shape, LockIsHeld
<1> QED
  BY <1>1, <1>2, <1>3 DEF Shape

\* Every action keeps the shape of the state.
LEMMA ShapeStep == Shape /\ [Next]_vars => Shape'
<1> SUFFICES ASSUME Shape, [Next]_vars
             PROVE  Shape'
  OBVIOUS
<1> USE DEF Pcs
<1>1. ASSUME NEW p \in Proc, NEW k \in Key, NEW a \in 1 .. Amount,
             RequestRefund(p, k, a)
      PROVE  Shape'
  <2>1. /\ proc' \in [Proc -> Handlers]
        /\ proc'[p].pc = "reserve" /\ proc'[p].key = k /\ proc'[p].amount = a
        /\ \A q \in Proc \ {p} : proc'[q] = proc[q]
    <3> DEFINE started == [pc |-> "reserve", key |-> k, amount |-> a, seen |-> Idle.seen]
    <3>1. started \in Handlers
      BY IdleType, AmountAssumption DEF Handlers
    <3>2. proc' = [proc EXCEPT ![p] = started]
      BY <1>1 DEF RequestRefund
    <3> QED
      BY <3>1, <3>2 DEF Shape, TypeOK
  <2>2. HandlersHaveWork'
    BY <2>1 DEF Shape, HandlersHaveWork
  <2>3. UNCHANGED <<payment, refund, ledger, lock, gateway, events, crashes>>
    BY <1>1 DEF RequestRefund
  <2>4. RowsKept
    BY <2>3 DEF RowsKept
  <2> QED
    BY <1>1, <2>1, <2>2, <2>3, <2>4, QuietShape DEF RequestRefund, Shape, TypeOK
<1>2. ASSUME NEW p \in Proc, ReserveLock(p)
      PROVE  Shape'
  <2>1. SumActiveRefundAmounts \in Nat
    BY Sums DEF SumActiveRefundAmounts, WithStatus, Shape
  <2>2. CASE /\ lock' = p
             /\ proc' = [proc EXCEPT ![p].pc = "reserving",
                            ![p].seen = [status |-> payment.status,
                                         total |-> SumActiveRefundAmounts]]
    <3> DEFINE moved == [proc EXCEPT ![p].pc = "reserving"]
               read == [status |-> payment.status, total |-> SumActiveRefundAmounts]
    <3>1. /\ moved \in [Proc -> Handlers]
          /\ moved[p].pc = "reserving"
          /\ moved[p].key = proc[p].key /\ moved[p].amount = proc[p].amount
          /\ \A q \in Proc \ {p} : moved[q] = proc[q]
      BY DEF Shape, TypeOK, Handlers
    <3>2. read \in [status : PaymentStatuses, total : Nat]
      BY <2>1 DEF Shape, TypeOK
    <3>3. proc' = [moved EXCEPT ![p].seen = read]
      BY <2>2
    <3> HIDE DEF moved, read
    <3>4. /\ proc' \in [Proc -> Handlers]
          /\ proc'[p].pc = "reserving"
          /\ proc'[p].key = proc[p].key /\ proc'[p].amount = proc[p].amount
          /\ \A q \in Proc \ {p} : proc'[q] = proc[q]
      BY <3>1, <3>2, <3>3 DEF Handlers
    <3>5. TypeOK'
      BY <1>2, <2>2, <3>4 DEF ReserveLock, Shape, TypeOK
    <3>6. HandlersHaveWork' /\ RefundsArePositive'
      BY <1>2, <3>4 DEF ReserveLock, Shape, HandlersHaveWork, RefundsArePositive
    <3>7. LockIsHeld'
      BY <1>2, <2>2, <3>4, ProcAssumption DEF ReserveLock, Shape, LockIsHeld
    <3> QED
      BY <3>5, <3>6, <3>7 DEF Shape
  <2>3. CASE Return(p) /\ UNCHANGED lock
    <3>1. UNCHANGED <<payment, refund, ledger, gateway, events, crashes>>
      BY <1>2 DEF ReserveLock
    <3> QED
      BY <1>2, <2>3, <3>1, ReturnStep, QuietShape
         DEF ReserveLock, Shape, TypeOK, RowsKept, Idle
  <2> QED
    BY <1>2, <2>2, <2>3 DEF ReserveLock
<1>3. ASSUME NEW p \in Proc, ReserveInsert(p)
      PROVE  Shape'
  <2>1. /\ proc[p].pc = "reserving"
        /\ proc[p].key \in Key /\ proc[p].amount \in 1 .. Amount
    BY <1>3 DEF ReserveInsert, Shape, HandlersHaveWork
  <2>2. Goto(p, "createRefund") \/ Return(p)
    BY <1>3 DEF ReserveInsert
  <2>3. /\ proc' \in [Proc -> Handlers]
        /\ proc'[p].pc \notin {"reserving", "finalizing"}
        /\ \A q \in Proc \ {p} : proc'[q] = proc[q]
        /\ HandlersHaveWork'
    BY <2>1, <2>2, MoveStep
  <2>4. refund' \in [Key -> Refunds] /\ RefundsArePositive'
    <3>1. CASE UNCHANGED refund
      BY <3>1 DEF Shape, TypeOK, RefundsArePositive
    <3>2. CASE ~UNCHANGED refund
      <4>1. /\ refund' \in [Key -> Refunds]
            /\ refund'[proc[p].key].amount = proc[p].amount
            /\ \A j \in Key \ {proc[p].key} : refund'[j] = refund[j]
        BY <1>3, <2>1, <3>2, InsertStep DEF ReserveInsert
      <4> QED
        BY <2>1, <4>1 DEF Shape, RefundsArePositive
    <3> QED
      BY <3>1, <3>2
  <2>5. TypeOK'
    BY <1>3, <2>3, <2>4 DEF ReserveInsert, Shape, TypeOK
  <2>6. LockIsHeld'
    BY <1>3, <2>1, <2>3, ProcAssumption DEF ReserveInsert, Shape, LockIsHeld
  <2> QED
    BY <2>3, <2>4, <2>5, <2>6 DEF Shape
<1>4. ASSUME NEW p \in Proc, CreateRefund(p)
      PROVE  Shape'
  <2>1. proc[p].pc = "createRefund"
    BY <1>4 DEF CreateRefund
  <2>2. \E pc \in {"pendingAnswer", "successAnswer", "failedAnswer", "markFailed"} :
            Goto(p, pc)
    BY <1>4 DEF CreateRefund
  <2>3. /\ gateway' \in [Key -> {"none", "pending", "success", "failed"}]
        /\ events' \in [Key -> SUBSET {"REFUND_SUCCESS", "REFUND_FAILED"}]
    BY <1>4 DEF CreateRefund, Shape, TypeOK
  <2>4. UNCHANGED <<payment, refund, ledger, lock, crashes>>
    BY <1>4 DEF CreateRefund
  <2>5. refund' \in [Key -> Refunds] /\ RowsKept
    BY <2>4 DEF RowsKept, Shape, TypeOK
  <2> QED
    BY <2>1, <2>2, <2>3, <2>4, <2>5, GotoStep, QuietShape
<1>5. ASSUME NEW p \in Proc, MarkPending(p)
      PROVE  Shape'
  <2>1. /\ proc[p].pc \in {"pendingAnswer", "successAnswer", "failedAnswer"}
        /\ proc[p].key \in Key
    BY <1>5 DEF MarkPending, Shape, HandlersHaveWork
  <2>2. (\E pc \in {"finalize", "markFailed"} : Goto(p, pc)) \/ Return(p)
    BY <1>5 DEF MarkPending
  <2>3. UNCHANGED <<payment, ledger, lock, gateway, events, crashes>>
    BY <1>5 DEF MarkPending
  <2>4. refund' \in [Key -> Refunds] /\ RowsKept
    BY <1>5, <2>1, StatusStep DEF MarkPending
  <2>5. /\ proc' \in [Proc -> Handlers]
        /\ proc'[p].pc \notin {"reserving", "finalizing"}
        /\ \A q \in Proc \ {p} : proc'[q] = proc[q]
        /\ HandlersHaveWork'
    BY <2>1, <2>2, MoveStep
  <2> QED
    BY <2>1, <2>3, <2>4, <2>5, QuietShape DEF Shape, TypeOK
<1>6. ASSUME NEW p \in Proc, MarkRefundFailed(p)
      PROVE  Shape'
  <2>1. proc[p].pc = "markFailed" /\ proc[p].key \in Key /\ Return(p)
    BY <1>6 DEF MarkRefundFailed, Shape, HandlersHaveWork
  <2>2. UNCHANGED <<payment, ledger, lock, gateway, events, crashes>>
    BY <1>6 DEF MarkRefundFailed
  <2>3. refund' \in [Key -> Refunds] /\ RowsKept
    BY <1>6, <2>1, StatusStep DEF MarkRefundFailed
  <2> QED
    BY <2>1, <2>2, <2>3, ReturnStep, QuietShape DEF Idle, Shape, TypeOK
<1>7. ASSUME NEW p \in Proc, FinalizeRead(p) \/ GetRefundStatus(p)
      PROVE  Shape'
  <2>1. proc[p].pc \in {"finalize", "getRefundStatus"}
    BY <1>7 DEF FinalizeRead, GetRefundStatus
  <2>2. (\E pc \in {"finalizeLock", "finalize", "markFailed"} : Goto(p, pc)) \/ Return(p)
    BY <1>7 DEF FinalizeRead, GetRefundStatus
  <2>3. UNCHANGED <<payment, refund, ledger, lock, gateway, events, crashes>>
    BY <1>7 DEF FinalizeRead, GetRefundStatus
  <2>4. refund' \in [Key -> Refunds] /\ RowsKept
    BY <2>3 DEF RowsKept, Shape, TypeOK
  <2>5. /\ proc' \in [Proc -> Handlers]
        /\ proc'[p].pc \notin {"reserving", "finalizing"}
        /\ \A q \in Proc \ {p} : proc'[q] = proc[q]
        /\ HandlersHaveWork'
    BY <2>1, <2>2, MoveStep
  <2> QED
    BY <2>1, <2>3, <2>4, <2>5, QuietShape DEF Shape, TypeOK
<1>8. ASSUME NEW p \in Proc, FinalizeLock(p)
      PROVE  Shape'
  <2>1. proc[p].pc = "finalizeLock" /\ proc[p].key \in Key
    BY <1>8 DEF FinalizeLock, Shape, HandlersHaveWork
  <2>2. UNCHANGED <<payment, refund, ledger, gateway, events, crashes>>
    BY <1>8 DEF FinalizeLock
  <2>3. CASE Return(p) /\ UNCHANGED lock
    <3>1. refund' \in [Key -> Refunds] /\ RowsKept
      BY <2>2 DEF RowsKept, Shape, TypeOK
    <3> QED
      BY <2>1, <2>2, <2>3, <3>1, MoveStep, QuietShape DEF Shape, TypeOK
  <2>4. CASE /\ lock' = p
             /\ proc' = [proc EXCEPT ![p].pc = "finalizing",
                            ![p].seen = [status |-> payment.status,
                                         total |-> payment.refundedAmount]]
    <3> DEFINE moved == [proc EXCEPT ![p].pc = "finalizing"]
               read == [status |-> payment.status, total |-> payment.refundedAmount]
    <3>1. /\ moved \in [Proc -> Handlers]
          /\ moved[p].pc = "finalizing"
          /\ moved[p].key = proc[p].key
          /\ \A q \in Proc \ {p} : moved[q] = proc[q]
      BY DEF Shape, TypeOK, Handlers
    <3>2. read \in [status : PaymentStatuses, total : Nat]
      BY AmountAssumption DEF Shape, TypeOK
    <3>3. proc' = [moved EXCEPT ![p].seen = read]
      BY <2>4
    <3> HIDE DEF moved, read
    <3>4. /\ proc' \in [Proc -> Handlers]
          /\ proc'[p].pc = "finalizing"
          /\ proc'[p].key = proc[p].key
          /\ \A q \in Proc \ {p} : proc'[q] = proc[q]
      BY <3>1, <3>2, <3>3 DEF Handlers
    <3>5. TypeOK'
      BY <2>2, <2>4, <3>4 DEF Shape, TypeOK
    <3>6. HandlersHaveWork' /\ RefundsArePositive'
      BY <2>1, <2>2, <3>4 DEF Shape, HandlersHaveWork, RefundsArePositive
    <3>7. LockIsHeld'
      BY <1>8, <2>4, <3>4, ProcAssumption DEF FinalizeLock, Shape, LockIsHeld
    <3> QED
      BY <3>5, <3>6, <3>7 DEF Shape
  <2> QED
    BY <1>8, <2>3, <2>4 DEF FinalizeLock
<1>9. ASSUME NEW p \in Proc, FinalizeCommit(p)
      PROVE  Shape'
  <2> DEFINE k == proc[p].key
             total == proc[p].seen.total + refund[k].amount
  <2>1. proc[p].pc = "finalizing" /\ k \in Key /\ Return(p)
    BY <1>9 DEF FinalizeCommit, Shape, HandlersHaveWork
  <2>2. /\ lock' = Nobody
        /\ UNCHANGED <<gateway, events, crashes>>
    BY <1>9 DEF FinalizeCommit
  <2>3. /\ refund' \in [Key -> Refunds]
        /\ payment' \in [status : PaymentStatuses, refundedAmount : 0 .. Amount]
        /\ ledger' \subseteq Key
        /\ RefundsArePositive'
    <3>1. CASE UNCHANGED <<refund, payment, ledger>>
      BY <3>1 DEF Shape, TypeOK, RefundsArePositive
    <3>2. CASE /\ FinalizeAllowed(p)
               /\ refund' = [refund EXCEPT ![k].status = "SUCCESS",
                                           ![k].gatewayRefundId = TRUE]
               /\ payment' = [status |-> RefundedStatus(total),
                              refundedAmount |-> total]
               /\ ledger' = ledger \cup {k}
      <4>1. total \in 0 .. Amount
        BY <2>1, <3>2, AmountAssumption
           DEF FinalizeAllowed, IsRefundWithinPaidAmount, Shape, TypeOK, Handlers, Refunds
      <4>2. RefundedStatus(total) \in PaymentStatuses
        BY DEF RefundedStatus, PaymentStatuses
      <4>3. payment' \in [status : PaymentStatuses, refundedAmount : 0 .. Amount]
        BY <3>2, <4>1, <4>2
      <4>4. refund' \in [Key -> Refunds] /\ RefundsArePositive'
        BY <2>1, <3>2, CommitStep
           DEF FinalizeAllowed, Shape, RefundsArePositive
      <4>5. ledger' \subseteq Key
        BY <2>1, <3>2 DEF Shape, TypeOK
      <4> QED
        BY <4>3, <4>4, <4>5
    <3> QED
      BY <1>9, <3>1, <3>2 DEF FinalizeCommit
  <2>4. TypeOK'
    BY <2>1, <2>2, <2>3, ReturnStep DEF Shape, TypeOK
  <2>5. LockIsHeld'
    BY <2>1, <2>2, ReturnStep, ProcAssumption DEF Shape, LockIsHeld, Idle
  <2> QED
    BY <2>1, <2>3, <2>4, <2>5, ReturnStep DEF Shape
<1>10. ASSUME NEW p \in Proc, NEW k \in Key,
              \/ RefundSuccessWebhook(p, k)
              \/ RefundFailedWebhook(p, k)
              \/ ReconcileRefund(p, k)
       PROVE  Shape'
  <2>1. proc[p].pc = "idle"
    BY <1>10 DEF RefundSuccessWebhook, RefundFailedWebhook, ReconcileRefund
  <2>2. \E pc \in {"finalize", "markFailed", "getRefundStatus"} :
            proc' = [proc EXCEPT ![p] = [Idle EXCEPT !.pc = pc, !.key = k]]
    BY <1>10 DEF RefundSuccessWebhook, RefundFailedWebhook, ReconcileRefund
  <2>3. UNCHANGED <<payment, refund, ledger, lock, gateway, events, crashes>>
    BY <1>10 DEF RefundSuccessWebhook, RefundFailedWebhook, ReconcileRefund
  <2>4. refund' \in [Key -> Refunds] /\ RowsKept
    BY <2>3 DEF RowsKept, Shape, TypeOK
  <2> QED
    BY <2>1, <2>2, <2>3, <2>4, EnterStep, QuietShape DEF Shape, TypeOK
<1>11. ASSUME NEW p \in Proc, Crash(p)
       PROVE  Shape'
  <2>1. Return(p) /\ UNCHANGED <<payment, refund, ledger, gateway, events>>
    BY <1>11 DEF Crash
  <2>2. TypeOK'
    BY <1>11, <2>1, ReturnStep, CrashAssumption DEF Crash, Shape, TypeOK
  <2>3. LockIsHeld'
    BY <1>11, <2>1, ReturnStep, ProcAssumption DEF Crash, Shape, LockIsHeld, Idle
  <2> QED
    BY <2>1, <2>2, <2>3, ReturnStep DEF Shape, RefundsArePositive
<1>12. ASSUME NEW k \in Key, GatewaySettle(k) \/ GatewayReverse(k)
       PROVE  Shape'
  <2>1. /\ gateway' \in [Key -> {"none", "pending", "success", "failed"}]
        /\ events' \in [Key -> SUBSET {"REFUND_SUCCESS", "REFUND_FAILED"}]
    BY <1>12 DEF GatewaySettle, GatewayReverse, Shape, TypeOK
  <2>2. UNCHANGED <<payment, refund, ledger, lock, proc, crashes>>
    BY <1>12 DEF GatewaySettle, GatewayReverse
  <2> QED
    BY <2>1, <2>2 DEF Shape, TypeOK, HandlersHaveWork, RefundsArePositive, LockIsHeld
<1>13. ASSUME UNCHANGED vars
       PROVE  Shape'
  BY <1>13 DEF vars, Shape, TypeOK, HandlersHaveWork, RefundsArePositive, LockIsHeld
<1> QED
  BY <1>1, <1>2, <1>3, <1>4, <1>5, <1>6, <1>7, <1>8, <1>9, <1>10, <1>11, <1>12,
     <1>13 DEF Next, Step

\* Every variable always has its type, and a handler's row lock and work are what
\* its place in the code implies.
THEOREM ShapeHolds == Spec => []Shape
  BY ShapeInit, ShapeStep, PTL DEF Spec

\* Every variable always has its type.
THEOREM TypeCorrect == Spec => []TypeOK
<1>1. Shape => TypeOK
  BY DEF Shape
<1> QED
  BY <1>1, ShapeHolds, PTL
-----------------------------------------------------------------------------
(* The sums.                                                               *)

\* The rows, the payment and the ledger change in three ways only.
LEMMA RowChanges ==
    ASSUME Shape, [Next]_vars
    PROVE  \/ \E p \in Proc : ReserveInsert(p)
           \/ \E p \in Proc : FinalizeCommit(p)
           \/ RowsKept /\ UNCHANGED <<payment, ledger>>
<1> DEFINE Quiet == RowsKept /\ UNCHANGED <<payment, ledger>>
<1>1. UNCHANGED refund => RowsKept
  BY DEF RowsKept
<1>2. ASSUME NEW p \in Proc, MarkPending(p)
      PROVE  Quiet
  <2>1. proc[p].key \in Key
    BY <1>2 DEF MarkPending, Shape, HandlersHaveWork
  <2> QED
    BY <1>2, <2>1, StatusStep DEF MarkPending
<1>3. ASSUME NEW p \in Proc, MarkRefundFailed(p)
      PROVE  Quiet
  <2>1. proc[p].key \in Key
    BY <1>3 DEF MarkRefundFailed, Shape, HandlersHaveWork
  <2> QED
    BY <1>3, <2>1, StatusStep DEF MarkRefundFailed
<1>4. ASSUME NEW p \in Proc,
             \/ ReserveLock(p) \/ CreateRefund(p) \/ FinalizeRead(p)
             \/ FinalizeLock(p) \/ GetRefundStatus(p) \/ Crash(p)
      PROVE  Quiet
  BY <1>1, <1>4 DEF ReserveLock, CreateRefund, FinalizeRead, FinalizeLock,
                    GetRefundStatus, Crash
<1>5. ASSUME NEW p \in Proc, NEW k \in Key,
             \/ \E a \in 1 .. Amount : RequestRefund(p, k, a)
             \/ RefundSuccessWebhook(p, k) \/ RefundFailedWebhook(p, k)
             \/ ReconcileRefund(p, k)
      PROVE  Quiet
  BY <1>1, <1>5 DEF RequestRefund, RefundSuccessWebhook, RefundFailedWebhook,
                    ReconcileRefund
<1>6. ASSUME NEW k \in Key, GatewaySettle(k) \/ GatewayReverse(k)
      PROVE  Quiet
  BY <1>1, <1>6 DEF GatewaySettle, GatewayReverse
<1>7. ASSUME UNCHANGED vars
      PROVE  Quiet
  BY <1>1, <1>7 DEF vars
<1> QED
  BY <1>2, <1>3, <1>4, <1>5, <1>6, <1>7 DEF Next, Step

\* A handler inside a transaction has just opened it, or has not moved.
LEMMA TransactionChanges ==
    ASSUME Shape, [Next]_vars, NEW q \in Proc,
           proc'[q].pc \in {"reserving", "finalizing"}
    PROVE  \/ proc'[q] = proc[q]
           \/ proc'[q].pc = "reserving" /\ ReserveLock(q)
           \/ proc'[q].pc = "finalizing" /\ FinalizeLock(q)
<1> DEFINE Moved(p) == /\ proc'[p].pc \notin {"reserving", "finalizing"}
                       /\ \A r \in Proc \ {p} : proc'[r] = proc[r]
<1>1. ASSUME NEW p \in Proc, NEW k \in Key, NEW a \in 1 .. Amount,
             RequestRefund(p, k, a)
      PROVE  Moved(p)
  BY <1>1 DEF RequestRefund, Shape, TypeOK
<1>2. ASSUME NEW p \in Proc,
             \/ ReserveInsert(p) \/ CreateRefund(p) \/ MarkPending(p)
             \/ MarkRefundFailed(p) \/ FinalizeRead(p) \/ FinalizeCommit(p)
             \/ GetRefundStatus(p) \/ Crash(p)
      PROVE  Moved(p)
  <2>1. /\ proc[p].pc # "idle"
        /\ \/ \E pc \in Pcs \ {"reserve", "reserving", "finalizing"} : Goto(p, pc)
           \/ Return(p)
    BY <1>2 DEF ReserveInsert, CreateRefund, MarkPending, MarkRefundFailed,
                FinalizeRead, FinalizeCommit, GetRefundStatus, Crash, Pcs
  <2> QED
    BY <2>1, MoveStep
<1>3. ASSUME NEW p \in Proc, NEW k \in Key,
             \/ RefundSuccessWebhook(p, k) \/ RefundFailedWebhook(p, k)
             \/ ReconcileRefund(p, k)
      PROVE  Moved(p)
  <2>1. \E pc \in {"finalize", "markFailed", "getRefundStatus"} :
            proc' = [proc EXCEPT ![p] = [Idle EXCEPT !.pc = pc, !.key = k]]
    BY <1>3 DEF RefundSuccessWebhook, RefundFailedWebhook, ReconcileRefund
  <2> QED
    BY <2>1, EnterStep
<1>4. ASSUME NEW p \in Proc, ReserveLock(p) \/ FinalizeLock(p)
      PROVE  /\ \A r \in Proc \ {p} : proc'[r] = proc[r]
             /\ proc'[p].pc \in {"reserving", "finalizing"} =>
                   \/ proc'[p].pc = "reserving" /\ ReserveLock(p)
                   \/ proc'[p].pc = "finalizing" /\ FinalizeLock(p)
  <2>1. ASSUME Return(p)
        PROVE  Moved(p)
    BY <2>1, ReturnStep DEF Idle
  <2>2. CASE ReserveLock(p)
    BY SMTT(30), <2>1, <2>2 DEF ReserveLock, Shape, TypeOK, Handlers
  <2>3. CASE FinalizeLock(p)
    BY <2>1, <2>3 DEF FinalizeLock, Shape, TypeOK, Handlers
  <2> QED
    BY <1>4, <2>2, <2>3
<1>5. ASSUME UNCHANGED proc
      PROVE  proc'[q] = proc[q]
  BY <1>5
<1> QED
  <2> HIDE DEF Moved
  <2>1. ASSUME NEW p \in Proc, Moved(p)
        PROVE  proc'[q] = proc[q]
    BY <2>1 DEF Moved
  <2>2. \/ \E p \in Proc : Moved(p)
        \/ \E p \in Proc : ReserveLock(p) \/ FinalizeLock(p)
        \/ UNCHANGED proc
    BY <1>1, <1>2, <1>3 DEF Next, Step, vars, GatewaySettle, GatewayReverse
  <2> QED
    BY <2>1, <2>2, <1>4, <1>5

\* Handlers exclude each other from their transactions.
LEMMA OneTransaction ==
    ASSUME Shape, NEW p \in Proc, NEW q \in Proc,
           proc[p].pc \in {"reserving", "finalizing"},
           proc[q].pc \in {"reserving", "finalizing"}
    PROVE  p = q
  BY DEF Shape, LockIsHeld

Active == WithStatus(ActiveRefundStatuses)

\* The reserved total is a natural number, before a step ...
LEMMA SumActiveType ==
    ASSUME Shape
    PROVE  SumActiveRefundAmounts \in Nat
  BY Sums DEF SumActiveRefundAmounts, WithStatus, Shape

\* ... and after it.
LEMMA SumActiveTypeNext ==
    ASSUME Shape'
    PROVE  SumActiveRefundAmounts' \in Nat
<1> DEFINE S == Active'
<1>1. S \subseteq Key
  BY DEF Active, WithStatus
<1>2. IsFiniteSet(S)
  BY <1>1, KeyAssumption, FS_Subset
<1>3. \A k \in S : AmountOf'[k] \in 0 .. Amount
  BY <1>1 DEF Shape, TypeOK, AmountOf, Refunds
<1> QED
  BY <1>2, <1>3, SumOfType, AmountAssumption DEF SumActiveRefundAmounts, Active

\* Steps that keep the rows free capacity, they never take any.
LEMMA KeptRowsFreeCapacity ==
    ASSUME Shape, Shape', RowsKept
    PROVE  SumActiveRefundAmounts' <= SumActiveRefundAmounts
<1>1. Active' \subseteq Active
  BY DEF RowsKept, Active, WithStatus, ActiveRefundStatuses
<1>2. Active \subseteq Key
  BY DEF Active, WithStatus
<1>3. SumOf(AmountOf', Active') = SumOf(AmountOf, Active')
  <2>1. \A k \in Active' : AmountOf'[k] = AmountOf[k]
    BY <1>1, <1>2 DEF RowsKept, AmountOf
  <2> QED
    BY <2>1, SumOfExtensional
<1>4. SumOf(AmountOf, Active') <= SumOf(AmountOf, Active)
  <2>1. IsFiniteSet(Active) /\ \A k \in Active : AmountOf[k] \in 0 .. Amount
    BY <1>2, Sums DEF Shape
  <2> QED
    BY <1>1, <2>1, SumOfMonotone, AmountAssumption
<1> QED
  BY <1>3, <1>4 DEF SumActiveRefundAmounts, Active

\* reserveActiveRefund takes no more than is free.
LEMMA InsertFits ==
    ASSUME IInv, Shape', NEW p \in Proc, ReserveInsert(p), ~UNCHANGED refund
    PROVE  SumActiveRefundAmounts' <= Amount
<1> DEFINE k == proc[p].key
           a == proc[p].amount
<1>1. /\ proc[p].pc = "reserving"
      /\ k \in Key /\ a \in 1 .. Amount
      /\ refund[k].status = "NONE"
      /\ SumActiveRefundAmounts <= proc[p].seen.total
  BY DEF IInv, Shape, HandlersHaveWork, ReservationIsCurrent, ReserveInsert
<1>2. /\ refund'[k].status = "REQUESTED"
      /\ refund'[k].amount = a
      /\ \A j \in Key \ {k} : refund'[j] = refund[j]
  BY <1>1, InsertStep DEF ReserveInsert, IInv
<1>3. proc[p].seen.total + a <= Amount /\ proc[p].seen.total \in Nat
  BY DEF ReserveInsert, IsRefundWithinPaidAmount, IInv, Shape, TypeOK, Handlers
<1>4. Active' = Active \cup {k} /\ k \notin Active
  BY <1>1, <1>2 DEF Active, WithStatus, ActiveRefundStatuses
<1>5. Active \subseteq Key /\ Active' \subseteq Key
  BY DEF Active, WithStatus
<1>6. /\ IsFiniteSet(Active)
      /\ SumOf(AmountOf, Active) \in Nat
  BY <1>5, Sums DEF IInv, Shape
<1>7. \A j \in Active \cup {k} : AmountOf'[j] \in 0 .. Amount
  BY <1>1, <1>5 DEF Shape, TypeOK, AmountOf, Refunds
<1>8. SumOf(AmountOf', Active \cup {k}) = SumOf(AmountOf', Active) + AmountOf'[k]
  BY <1>4, <1>6, <1>7, SumOfAdd, AmountAssumption
<1>9. SumOf(AmountOf', Active) = SumOf(AmountOf, Active)
  <2>1. \A j \in Active : AmountOf'[j] = AmountOf[j]
    BY <1>2, <1>4, <1>5 DEF AmountOf
  <2> QED
    BY <2>1, SumOfExtensional
<1>10. AmountOf'[k] = a
  BY <1>1, <1>2 DEF AmountOf
<1>11. /\ SumActiveRefundAmounts = SumOf(AmountOf, Active)
       /\ SumActiveRefundAmounts' = SumOf(AmountOf', Active \cup {k})
  BY <1>4 DEF SumActiveRefundAmounts, Active
<1> QED
  BY <1>1, <1>3, <1>6, <1>8, <1>9, <1>10, <1>11, AmountAssumption

\* Finalizing settles capacity that was already taken.
LEMMA CommitTakesNothing ==
    ASSUME Shape, NEW p \in Proc, FinalizeCommit(p)
    PROVE  SumActiveRefundAmounts' = SumActiveRefundAmounts
<1> DEFINE k == proc[p].key
<1>1. k \in Key
  BY DEF FinalizeCommit, Shape, HandlersHaveWork
<1>2. CASE UNCHANGED refund
  <2>1. Active' = Active /\ AmountOf' = AmountOf
    BY <1>2 DEF Active, WithStatus, AmountOf
  <2> QED
    BY <2>1 DEF SumActiveRefundAmounts, Active
<1>3. CASE ~UNCHANGED refund
  <2>1. /\ refund[k].status \in {"REQUESTED", "PENDING"}
        /\ refund'[k].status = "SUCCESS"
        /\ \A j \in Key : refund'[j].amount = refund[j].amount
        /\ \A j \in Key \ {k} : refund'[j] = refund[j]
    BY <1>1, <1>3, CommitStep DEF FinalizeCommit, FinalizeAllowed
  <2>2. Active' = Active
    BY <1>1, <2>1 DEF Active, WithStatus, ActiveRefundStatuses
  <2>3. \A j \in Active : AmountOf'[j] = AmountOf[j]
    BY <2>1 DEF Active, WithStatus, AmountOf
  <2>4. SumOf(AmountOf', Active) = SumOf(AmountOf, Active)
    BY <2>3, SumOfExtensional
  <2> QED
    BY <2>2, <2>4 DEF SumActiveRefundAmounts, Active
<1> QED
  BY <1>2, <1>3

\* One step keeps the reserved total within the paid amount.
LEMMA CapacityStep ==
    ASSUME IInv, Shape', [Next]_vars
    PROVE  NeverOverReserved'
<1>1. ASSUME NEW p \in Proc, ReserveInsert(p)
      PROVE  SumActiveRefundAmounts' <= Amount
  <2>1. CASE UNCHANGED refund
    <3>1. RowsKept
      BY <2>1 DEF RowsKept
    <3> QED
      BY <3>1, KeptRowsFreeCapacity, SumActiveType, SumActiveTypeNext, AmountAssumption
         DEF IInv, NeverOverReserved
  <2> QED
    BY <1>1, <2>1, InsertFits
<1>2. ASSUME NEW p \in Proc, FinalizeCommit(p)
      PROVE  SumActiveRefundAmounts' <= Amount
  BY <1>2, CommitTakesNothing DEF IInv, NeverOverReserved
<1>3. ASSUME RowsKept
      PROVE  SumActiveRefundAmounts' <= Amount
  BY <1>3, KeptRowsFreeCapacity, SumActiveType, SumActiveTypeNext, AmountAssumption
     DEF IInv, NeverOverReserved
<1> QED
  BY <1>1, <1>2, <1>3, RowChanges DEF IInv, NeverOverReserved

\* What an open reservation has read stays a bound: nobody else can insert.
LEMMA ReservationStep ==
    ASSUME IInv, Shape', [Next]_vars
    PROVE  ReservationIsCurrent'
<1> SUFFICES ASSUME NEW q \in Proc, proc'[q].pc = "reserving"
             PROVE  /\ refund'[proc'[q].key].status = "NONE"
                    /\ SumActiveRefundAmounts' <= proc'[q].seen.total
  BY DEF ReservationIsCurrent
<1>1. /\ SumActiveRefundAmounts \in Nat /\ SumActiveRefundAmounts' \in Nat
      /\ proc'[q].seen.total \in Nat
      /\ proc'[q].key \in Key
  BY SumActiveType, SumActiveTypeNext DEF IInv, Shape, TypeOK, Handlers, HandlersHaveWork
<1>2. CASE ReserveLock(q)
  <2>1. /\ refund[proc[q].key].status = "NONE"
        /\ proc'[q].key = proc[q].key
        /\ proc'[q].seen.total = SumActiveRefundAmounts
        /\ UNCHANGED refund
    <3>1. ~Return(q)
      BY ReturnStep DEF IInv, Idle
    <3>2. proc' = [proc EXCEPT ![q].pc = "reserving",
                       ![q].seen = [status |-> payment.status,
                                    total |-> SumActiveRefundAmounts]]
      BY <1>2, <3>1 DEF ReserveLock
    <3> QED
      BY <1>2, <3>1, <3>2 DEF ReserveLock, IInv, Shape, TypeOK, Handlers
  <2>2. RowsKept
    BY <2>1 DEF RowsKept
  <2> QED
    BY <1>1, <2>1, <2>2, KeptRowsFreeCapacity DEF IInv
<1>3. CASE proc'[q] = proc[q]
  <2>1. /\ proc[q].pc = "reserving"
        /\ refund[proc[q].key].status = "NONE"
        /\ SumActiveRefundAmounts <= proc[q].seen.total
    BY <1>3 DEF IInv, ReservationIsCurrent
  <2>2. ASSUME NEW p \in Proc, ReserveInsert(p) \/ FinalizeCommit(p)
        PROVE  FALSE
    <3>1. proc[p].pc \in {"reserving", "finalizing"}
      BY <2>2 DEF ReserveInsert, FinalizeCommit
    <3>2. p = q
      BY <2>1, <3>1, OneTransaction DEF IInv
    <3>3. /\ proc[p].pc # "idle"
          /\ \/ \E pc \in Pcs \ {"reserve", "reserving", "finalizing"} : Goto(p, pc)
             \/ Return(p)
      BY <2>2, <3>1 DEF ReserveInsert, FinalizeCommit, Pcs
    <3> QED
      BY <3>2, <3>3, MoveStep DEF IInv
  <2>3. RowsKept
    BY <2>2, RowChanges DEF IInv
  <2>4. refund'[proc'[q].key].status = "NONE"
    BY <1>1, <1>3, <2>1, <2>3 DEF RowsKept
  <2>5. SumActiveRefundAmounts' <= SumActiveRefundAmounts
    BY <2>3, KeptRowsFreeCapacity DEF IInv
  <2> QED
    BY <1>1, <1>3, <2>1, <2>4, <2>5
<1> QED
  BY <1>2, <1>3, TransactionChanges DEF IInv

\* What an open finalization has read stays the payment row: nobody else commits.
LEMMA FinalizationStep ==
    ASSUME IInv, [Next]_vars
    PROVE  FinalizationIsCurrent'
<1> SUFFICES ASSUME NEW q \in Proc, proc'[q].pc = "finalizing"
             PROVE  /\ proc'[q].seen.status = payment'.status
                    /\ proc'[q].seen.total = payment'.refundedAmount
  BY DEF FinalizationIsCurrent
<1>1. CASE FinalizeLock(q)
  <2>1. ~Return(q)
    BY ReturnStep DEF IInv, Idle
  <2>2. proc' = [proc EXCEPT ![q].pc = "finalizing",
                     ![q].seen = [status |-> payment.status,
                                  total |-> payment.refundedAmount]]
    BY <1>1, <2>1 DEF FinalizeLock
  <2> QED
    BY <1>1, <2>2 DEF FinalizeLock, IInv, Shape, TypeOK, Handlers
<1>2. CASE proc'[q] = proc[q]
  <2>1. /\ proc[q].pc = "finalizing"
        /\ proc[q].seen.status = payment.status
        /\ proc[q].seen.total = payment.refundedAmount
    BY <1>2 DEF IInv, FinalizationIsCurrent
  <2>2. ASSUME NEW p \in Proc, FinalizeCommit(p)
        PROVE  FALSE
    <3>1. proc[p].pc = "finalizing" /\ Return(p)
      BY <2>2 DEF FinalizeCommit
    <3>2. p = q
      BY <2>1, <3>1, OneTransaction DEF IInv
    <3> QED
      BY <3>1, <3>2, ReturnStep DEF IInv, Idle
  <2>3. UNCHANGED payment
    BY <2>2, RowChanges DEF IInv, ReserveInsert
  <2> QED
    BY <1>2, <2>1, <2>3
<1> QED
  BY <1>1, <1>2, TransactionChanges DEF IInv

\* Steps that leave SUCCESS rows, payment and ledger alone keep them consistent.
LEMMA LedgerKept ==
    ASSUME IInv, UNCHANGED <<payment, ledger>>,
           WithStatus({"SUCCESS"})' = WithStatus({"SUCCESS"}),
           \A k \in WithStatus({"SUCCESS"}) : refund'[k].amount = refund[k].amount
    PROVE  LedgerMatchesPayment'
<1>1. ledger = WithStatus({"SUCCESS"}) /\ ledger \subseteq Key
  BY DEF IInv, LedgerMatchesPayment, WithStatus
<1>2. SumOf(AmountOf', ledger) = SumOf(AmountOf, ledger)
  <2>1. \A k \in ledger : AmountOf'[k] = AmountOf[k]
    BY <1>1 DEF AmountOf
  <2> QED
    BY <2>1, SumOfExtensional
<1> QED
  BY <1>1, <1>2 DEF IInv, LedgerMatchesPayment, RefundedStatus

\* A commit moves payment, refund and ledger together.
LEMMA LedgerCommit ==
    ASSUME IInv, NEW p \in Proc, FinalizeCommit(p), ~UNCHANGED <<refund, payment, ledger>>
    PROVE  LedgerMatchesPayment'
<1> DEFINE k == proc[p].key
           total == proc[p].seen.total + refund[k].amount
<1>1. /\ k \in Key
      /\ refund[k].status \in {"REQUESTED", "PENDING"}
      /\ refund' = [refund EXCEPT ![k].status = "SUCCESS", ![k].gatewayRefundId = TRUE]
      /\ payment' = [status |-> RefundedStatus(total), refundedAmount |-> total]
      /\ ledger' = ledger \cup {k}
  BY DEF FinalizeCommit, FinalizeAllowed, IInv, Shape, HandlersHaveWork
<1>2. proc[p].seen.total = payment.refundedAmount
  BY DEF FinalizeCommit, IInv, FinalizationIsCurrent
<1>3. /\ refund'[k].status = "SUCCESS"
      /\ \A j \in Key : refund'[j].amount = refund[j].amount
      /\ \A j \in Key \ {k} : refund'[j] = refund[j]
  BY <1>1, CommitStep DEF IInv
<1>4. ledger = WithStatus({"SUCCESS"}) /\ ledger \subseteq Key /\ k \notin ledger
  BY <1>1 DEF IInv, LedgerMatchesPayment, WithStatus
<1>5. ledger' = WithStatus({"SUCCESS"})'
  BY <1>1, <1>3, <1>4 DEF WithStatus
<1>6. total = SumOf(AmountOf', ledger')
  <2>1. /\ IsFiniteSet(ledger)
        /\ \A j \in ledger \cup {k} : AmountOf[j] \in 0 .. Amount
    BY <1>1, <1>4, Sums DEF IInv, Shape, TypeOK, AmountOf, Refunds
  <2>2. SumOf(AmountOf, ledger \cup {k}) = SumOf(AmountOf, ledger) + AmountOf[k]
    BY <1>4, <2>1, SumOfAdd, AmountAssumption
  <2>3. SumOf(AmountOf', ledger \cup {k}) = SumOf(AmountOf, ledger \cup {k})
    <3>1. \A j \in ledger \cup {k} : AmountOf'[j] = AmountOf[j]
      BY <1>1, <1>3, <1>4 DEF AmountOf
    <3> QED
      BY <3>1, SumOfExtensional
  <2>4. payment.refundedAmount = SumOf(AmountOf, ledger) /\ AmountOf[k] = refund[k].amount
    BY <1>1 DEF IInv, LedgerMatchesPayment, AmountOf
  <2> QED
    BY <1>1, <1>2, <2>2, <2>3, <2>4
<1> QED
  BY <1>1, <1>5, <1>6 DEF LedgerMatchesPayment, RefundedStatus

\* Payment, refunds and ledger agree after every action if they did before.
LEMMA LedgerStep ==
    ASSUME IInv, [Next]_vars
    PROVE  LedgerMatchesPayment'
<1>1. ASSUME NEW p \in Proc, ReserveInsert(p)
      PROVE  LedgerMatchesPayment'
  <2>1. /\ proc[p].key \in Key /\ proc[p].amount \in 1 .. Amount
        /\ refund[proc[p].key].status = "NONE"
        /\ UNCHANGED <<payment, ledger>>
    BY <1>1 DEF ReserveInsert, IInv, Shape, HandlersHaveWork, ReservationIsCurrent
  <2>2. CASE UNCHANGED refund
    BY <2>1, <2>2, LedgerKept DEF WithStatus
  <2>3. CASE ~UNCHANGED refund
    <3>1. /\ refund'[proc[p].key].status = "REQUESTED"
          /\ \A j \in Key \ {proc[p].key} : refund'[j] = refund[j]
      BY <1>1, <2>1, <2>3, InsertStep DEF ReserveInsert, IInv
    <3> QED
      BY <2>1, <3>1, LedgerKept DEF WithStatus
  <2> QED
    BY <2>2, <2>3
<1>2. ASSUME NEW p \in Proc, FinalizeCommit(p)
      PROVE  LedgerMatchesPayment'
  <2>1. CASE UNCHANGED <<refund, payment, ledger>>
    BY <2>1, LedgerKept DEF WithStatus
  <2> QED
    BY <1>2, <2>1, LedgerCommit
<1>3. ASSUME RowsKept, UNCHANGED <<payment, ledger>>
      PROVE  LedgerMatchesPayment'
  BY <1>3, LedgerKept DEF RowsKept, WithStatus
<1> QED
  BY <1>1, <1>2, <1>3, RowChanges DEF IInv
-----------------------------------------------------------------------------
(* The theorems.                                                           *)

\* The inductive invariant holds before any request ...
LEMMA IInvInit == Init => IInv
<1> SUFFICES ASSUME Init
             PROVE  IInv
  OBVIOUS
<1>1. Shape
  BY ShapeInit
<1>2. WithStatus({"SUCCESS"}) = {} /\ WithStatus(ActiveRefundStatuses) = {}
  BY DEF Init, NoRefund, WithStatus, ActiveRefundStatuses
<1>3. SumActiveRefundAmounts = 0 /\ SumOf(AmountOf, {}) = 0
  BY <1>2, SumOfEmpty DEF SumActiveRefundAmounts
<1>4. NeverOverReserved /\ LedgerMatchesPayment
  BY <1>2, <1>3, AmountAssumption DEF Init, NeverOverReserved, LedgerMatchesPayment
<1>5. ReservationIsCurrent /\ FinalizationIsCurrent
  BY DEF Init, Idle, ReservationIsCurrent, FinalizationIsCurrent
<1> QED
  BY <1>1, <1>4, <1>5 DEF IInv

\* ... and every action keeps it ...
LEMMA IInvStep == IInv /\ [Next]_vars => IInv'
<1> SUFFICES ASSUME IInv, [Next]_vars
             PROVE  IInv'
  OBVIOUS
<1>1. Shape'
  BY ShapeStep DEF IInv
<1> QED
  BY <1>1, CapacityStep, ReservationStep, FinalizationStep, LedgerStep DEF IInv

\* ... so that it holds in every reachable state, for any number of handlers and
\* keys and any paid amount.
THEOREM IInvHolds == Spec => []IInv
  BY IInvInit, IInvStep, PTL DEF Spec

\* However many handlers, keys, retries and crashes: active and successful refunds
\* together never exceed the paid amount.
THEOREM NeverOverReservedAlways == Spec => []NeverOverReserved
<1>1. IInv => NeverOverReserved
  BY DEF IInv
<1> QED
  BY <1>1, IInvHolds, PTL

\* Payment, SUCCESS refunds and ledger agree in every committed state.
THEOREM LedgerMatchesPaymentAlways == Spec => []LedgerMatchesPayment
<1>1. IInv => LedgerMatchesPayment
  BY DEF IInv
<1> QED
  BY <1>1, IInvHolds, PTL

\* An active refund still fits the payment its finalization has locked: its amount
\* was part of the reserved total all along.
THEOREM FinalizeNeverRefusedAlways == Spec => []FinalizeNeverRefused
<1>1. ASSUME IInv
      PROVE  FinalizeNeverRefused
  <2> SUFFICES ASSUME NEW p \in Proc, proc[p].pc = "finalizing",
                      refund[proc[p].key].status \in {"REQUESTED", "PENDING"}
               PROVE  FinalizeAllowed(p)
    BY DEF FinalizeNeverRefused
  <2> DEFINE k == proc[p].key
             total == payment.refundedAmount + refund[k].amount
  <2>1. /\ k \in Key
        /\ refund[k].amount \in 1 .. Amount
        /\ payment.refundedAmount \in 0 .. Amount
    BY <1>1 DEF IInv, Shape, TypeOK, HandlersHaveWork, RefundsArePositive
  <2>2. /\ proc[p].seen.status = payment.status
        /\ proc[p].seen.total = payment.refundedAmount
    BY <1>1 DEF IInv, FinalizationIsCurrent
  <2>3. /\ ledger = WithStatus({"SUCCESS"}) /\ k \notin ledger
        /\ payment.refundedAmount = SumOf(AmountOf, ledger)
        /\ payment.status = IF ledger = {} THEN "PAID"
                            ELSE RefundedStatus(payment.refundedAmount)
    BY <1>1 DEF IInv, LedgerMatchesPayment, WithStatus
  <2>4. total <= Amount
    <3>1. Active \subseteq Key /\ ledger \cup {k} \subseteq Active
      BY <2>1, <2>3 DEF Active, WithStatus, ActiveRefundStatuses
    <3>2. /\ IsFiniteSet(Active) /\ IsFiniteSet(ledger)
          /\ \A j \in Active : AmountOf[j] \in 0 .. Amount
          /\ SumOf(AmountOf, ledger) \in Nat
          /\ SumOf(AmountOf, Active) \in Nat
      <4>1. ledger \subseteq Key
        BY <3>1
      <4> QED
        BY <1>1, <3>1, <4>1, Sums DEF IInv, Shape
    <3>3. SumOf(AmountOf, ledger \cup {k}) = SumOf(AmountOf, ledger) + AmountOf[k]
      <4>1. \A j \in ledger \cup {k} : AmountOf[j] \in 0 .. Amount
        BY <3>1, <3>2
      <4> QED
        <5>1. Amount \in Nat /\ IsFiniteSet(ledger) /\ k \notin ledger
          BY <2>3, <3>2, AmountAssumption
        <5> HIDE DEF k
        <5> QED
          BY <4>1, <5>1, SumOfAdd
    <3>4. SumOf(AmountOf, ledger \cup {k}) <= SumOf(AmountOf, Active)
      <4>1. ledger \cup {k} \in SUBSET Active
        BY <3>1
      <4> QED
        BY <3>2, <4>1, SumOfMonotone, AmountAssumption
    <3>5. SumOf(AmountOf, Active) <= Amount
      BY <1>1 DEF IInv, NeverOverReserved, SumActiveRefundAmounts, Active
    <3>6. AmountOf[k] = refund[k].amount
      BY <2>1 DEF AmountOf
    <3> QED
      BY <2>1, <2>3, <3>2, <3>3, <3>4, <3>5, <3>6, AmountAssumption
  <2>5. payment.status \in {"PAID", "PARTIALLY_REFUNDED"}
    BY <2>1, <2>3, <2>4, AmountAssumption DEF RefundedStatus
  <2>6. RefundedStatus(total) \in {"PARTIALLY_REFUNDED", "REFUNDED"}
    BY DEF RefundedStatus
  <2>7. CanTransitionPayment(payment.status, RefundedStatus(total))
    BY <2>5, <2>6 DEF CanTransitionPayment, PaymentMoves, TerminalPaymentStatuses
  <2> QED
    BY <2>2, <2>4, <2>5, <2>7
       DEF FinalizeAllowed, IsRefundWithinPaidAmount, RefundableStatuses
<1> QED
  BY <1>1, IInvHolds, PTL
-----------------------------------------------------------------------------
(* PaymentRefund implements RefundLedger: an insert is a promise, a commit *)
(* a payout, a failure a withdrawal, and nothing else is seen.             *)

\* A row whose status only moves between REQUESTED and PENDING, and keeps its amount,
\* stands for the same promise.
LEMMA SamePromise ==
    ASSUME \A j \in Key :
              /\ refund'[j].amount = refund[j].amount
              /\ \/ refund'[j].status = refund[j].status
                 \/ /\ refund[j].status \in {"REQUESTED", "PENDING"}
                    /\ refund'[j].status \in {"REQUESTED", "PENDING"}
    PROVE  Phase' = Phase /\ AmountOf' = AmountOf
  BY DEF Phase, AmountOf

\* A failure withdraws what was promised under its key.
LEMMA FailureWithdraws ==
    ASSUME Shape, NEW k \in Key,
           refund[k].status \in {"REQUESTED", "PENDING"},
           refund' = [refund EXCEPT ![k].status = "FAILED"],
           UNCHANGED payment
    PROVE  Abstract!Withdraw(k)
<1>1. /\ refund'[k].status = "FAILED"
      /\ \A j \in Key : refund'[j].amount = refund[j].amount
      /\ \A j \in Key \ {k} : refund'[j] = refund[j]
  BY DEF Shape, TypeOK, Refunds
<1>2. Phase[k] = "promised" /\ Phase' = [Phase EXCEPT ![k] = "withdrawn"]
  BY <1>1 DEF Phase
<1>3. AmountOf' = AmountOf
  BY <1>1 DEF AmountOf
<1> QED
  BY <1>2, <1>3 DEF Abstract!Withdraw

\* The PENDING update of a row is not seen.
LEMMA PendingIsUnseen ==
    ASSUME Shape, NEW k \in Key, StorePending(k)
    PROVE  Phase' = Phase /\ AmountOf' = AmountOf
<1>1. CASE refund[k].status = "REQUESTED"
  <2> DEFINE stored == [refund EXCEPT ![k].status = "PENDING"]
  <2>1. /\ stored \in [Key -> Refunds]
        /\ stored[k].status = "PENDING"
        /\ \A j \in Key : stored[j].amount = refund[j].amount
        /\ \A j \in Key \ {k} : stored[j] = refund[j]
    BY DEF Shape, TypeOK, RefundStatuses, Refunds
  <2>2. refund' = [stored EXCEPT ![k].gatewayRefundId = TRUE]
    BY <1>1 DEF StorePending
  <2> HIDE DEF stored
  <2>3. \A j \in Key : /\ refund'[j].amount = stored[j].amount
                       /\ refund'[j].status = stored[j].status
    BY <2>1, <2>2 DEF Refunds
  <2> QED
    BY <1>1, <2>1, <2>3, SamePromise
<1>2. CASE refund[k].status # "REQUESTED"
  <2>1. UNCHANGED refund
    BY <1>2 DEF StorePending
  <2> QED
    BY <2>1, SamePromise
<1> QED
  BY <1>1, <1>2

\* The insert of reserveActiveRefund is a promise: what its transaction read under the
\* lock bounds what is committed now.
LEMMA InsertPromises ==
    ASSUME IInv, NEW p \in Proc, ReserveInsert(p), ~UNCHANGED refund
    PROVE  Abstract!Promise(proc[p].key, proc[p].amount)
<1> DEFINE k == proc[p].key
           a == proc[p].amount
<1>1. /\ proc[p].pc = "reserving"
      /\ k \in Key /\ a \in 1 .. Amount
      /\ refund[k].status = "NONE"
      /\ SumActiveRefundAmounts <= proc[p].seen.total
      /\ UNCHANGED payment
  BY DEF IInv, Shape, HandlersHaveWork, ReservationIsCurrent, ReserveInsert
<1>2. /\ refund'[k].status = "REQUESTED"
      /\ refund'[k].amount = a
      /\ \A j \in Key \ {k} : refund'[j] = refund[j]
  BY <1>1, InsertStep DEF ReserveInsert, IInv
<1>3. Abstract!Committed = Active
  BY DEF Abstract!Committed, Phase, Active, WithStatus, ActiveRefundStatuses
<1>4. SumOf(AmountOf, Active) + a <= Amount
  <2>1. proc[p].seen.total + a <= Amount /\ proc[p].seen.total \in Nat
    BY DEF ReserveInsert, IsRefundWithinPaidAmount, IInv, Shape, TypeOK, Handlers
  <2>2. SumOf(AmountOf, Active) = SumActiveRefundAmounts /\ SumActiveRefundAmounts \in Nat
    BY SumActiveType DEF SumActiveRefundAmounts, Active, IInv
  <2> QED
    BY <1>1, <2>1, <2>2, AmountAssumption
<1>5. Abstract!SumOf(AmountOf, Abstract!Committed) + a <= Amount
  <2>1. Abstract!Units(AmountOf, Active) = Units(AmountOf, Active)
    BY DEF Units, Abstract!Units
  <2>2. \A S : Abstract!Cardinality(S) = Cardinality(S)
    BY DEF Cardinality, Abstract!Cardinality
  <2> QED
    BY <1>3, <1>4, <2>1, <2>2 DEF SumOf, Abstract!SumOf
<1>6. Phase[k] = "open" /\ Phase' = [Phase EXCEPT ![k] = "promised"]
  BY <1>1, <1>2 DEF Phase
<1>7. AmountOf' = [AmountOf EXCEPT ![k] = a]
  BY <1>1, <1>2 DEF AmountOf
<1> QED
  BY <1>1, <1>5, <1>6, <1>7 DEF Abstract!Promise

\* The commit of finalizeRefundSuccessInTransaction is a payout: what it read of the
\* payment is still the row, so that one refund's amount is added to it.
LEMMA CommitPaysOut ==
    ASSUME IInv, NEW p \in Proc, FinalizeCommit(p), ~UNCHANGED <<refund, payment, ledger>>
    PROVE  Abstract!PayOut(proc[p].key)
<1> DEFINE k == proc[p].key
           total == proc[p].seen.total + refund[k].amount
<1>1. /\ k \in Key
      /\ refund[k].status \in {"REQUESTED", "PENDING"}
      /\ refund' = [refund EXCEPT ![k].status = "SUCCESS", ![k].gatewayRefundId = TRUE]
      /\ payment' = [status |-> RefundedStatus(total), refundedAmount |-> total]
  BY DEF FinalizeCommit, FinalizeAllowed, IInv, Shape, HandlersHaveWork
<1>2. proc[p].seen.total = payment.refundedAmount
  BY DEF FinalizeCommit, IInv, FinalizationIsCurrent
<1>3. /\ refund'[k].status = "SUCCESS"
      /\ \A j \in Key : refund'[j].amount = refund[j].amount
      /\ \A j \in Key \ {k} : refund'[j] = refund[j]
  BY <1>1, CommitStep DEF IInv
<1>4. Phase[k] = "promised" /\ Phase' = [Phase EXCEPT ![k] = "paid"]
  BY <1>1, <1>3 DEF Phase
<1>5. AmountOf' = AmountOf /\ AmountOf[k] = refund[k].amount
  BY <1>1, <1>3 DEF AmountOf
<1>6. payment'.refundedAmount = payment.refundedAmount + AmountOf[k]
  BY <1>1, <1>2, <1>5
<1> QED
  BY <1>4, <1>5, <1>6 DEF Abstract!PayOut

\* Every other step changes neither refunds nor payment.
LEMMA SilentSteps ==
    ASSUME [Next]_vars
    PROVE  \/ \E p \in Proc : \/ ReserveInsert(p) \/ FinalizeCommit(p)
                              \/ MarkPending(p) \/ MarkRefundFailed(p)
           \/ UNCHANGED <<refund, payment>>
<1>1. ASSUME NEW p \in Proc,
             \/ ReserveLock(p) \/ CreateRefund(p) \/ FinalizeRead(p)
             \/ FinalizeLock(p) \/ GetRefundStatus(p) \/ Crash(p)
      PROVE  UNCHANGED <<refund, payment>>
  BY <1>1 DEF ReserveLock, CreateRefund, FinalizeRead, FinalizeLock, GetRefundStatus, Crash
<1>2. ASSUME NEW p \in Proc, NEW k \in Key,
             \/ \E a \in 1 .. Amount : RequestRefund(p, k, a)
             \/ RefundSuccessWebhook(p, k) \/ RefundFailedWebhook(p, k)
             \/ ReconcileRefund(p, k)
      PROVE  UNCHANGED <<refund, payment>>
  BY <1>2 DEF RequestRefund, RefundSuccessWebhook, RefundFailedWebhook, ReconcileRefund
<1>3. ASSUME NEW k \in Key, GatewaySettle(k) \/ GatewayReverse(k)
      PROVE  UNCHANGED <<refund, payment>>
  BY <1>3 DEF GatewaySettle, GatewayReverse
<1>4. ASSUME UNCHANGED vars
      PROVE  UNCHANGED <<refund, payment>>
  BY <1>4 DEF vars
<1> QED
  BY <1>1, <1>2, <1>3, <1>4 DEF Next, Step

\* The initial states of the code are initial states of the ledger.
LEMMA LedgerInit == Init => Abstract!Init
<1> SUFFICES ASSUME Init
             PROVE  Abstract!Init
  OBVIOUS
<1>1. Phase = [k \in Key |-> "open"] /\ AmountOf = [k \in Key |-> 0]
  BY DEF Init, NoRefund, Phase, AmountOf
<1> QED
  BY <1>1 DEF Init, Abstract!Init

\* Every step of the code is a step of the ledger, or is not seen there.
LEMMA LedgerNext == IInv /\ [Next]_vars => [Abstract!Next]_(Abstract!vars)
<1> SUFFICES ASSUME IInv, [Next]_vars
             PROVE  Abstract!Next \/ UNCHANGED Abstract!vars
  OBVIOUS
<1>1. ASSUME UNCHANGED payment, Phase' = Phase, AmountOf' = AmountOf
      PROVE  UNCHANGED Abstract!vars
  BY <1>1 DEF Abstract!vars
<1>2. ASSUME UNCHANGED <<refund, payment>>
      PROVE  UNCHANGED Abstract!vars
  BY <1>1, <1>2, SamePromise
<1>3. ASSUME NEW p \in Proc, ReserveInsert(p)
      PROVE  Abstract!Next \/ UNCHANGED Abstract!vars
  <2>1. proc[p].key \in Key /\ proc[p].amount \in 1 .. Amount /\ UNCHANGED payment
    BY <1>3 DEF ReserveInsert, IInv, Shape, HandlersHaveWork
  <2> QED
    BY <1>2, <1>3, <2>1, InsertPromises DEF Abstract!Next
<1>4. ASSUME NEW p \in Proc, FinalizeCommit(p)
      PROVE  Abstract!Next \/ UNCHANGED Abstract!vars
  <2>1. proc[p].key \in Key
    BY <1>4 DEF FinalizeCommit, IInv, Shape, HandlersHaveWork
  <2> QED
    BY <1>2, <1>4, <2>1, CommitPaysOut DEF Abstract!Next
<1>5. ASSUME NEW p \in Proc, MarkPending(p)
      PROVE  UNCHANGED Abstract!vars
  <2>1. proc[p].key \in Key /\ UNCHANGED payment
    BY <1>5 DEF MarkPending, IInv, Shape, HandlersHaveWork
  <2>2. StorePending(proc[p].key) \/ UNCHANGED refund
    BY <1>5 DEF MarkPending
  <2> QED
    BY <1>1, <1>2, <2>1, <2>2, PendingIsUnseen DEF IInv
<1>6. ASSUME NEW p \in Proc, MarkRefundFailed(p)
      PROVE  Abstract!Next \/ UNCHANGED Abstract!vars
  <2>1. proc[p].key \in Key /\ UNCHANGED payment
    BY <1>6 DEF MarkRefundFailed, IInv, Shape, HandlersHaveWork
  <2>2. \/ /\ refund[proc[p].key].status \in {"REQUESTED", "PENDING"}
           /\ refund' = [refund EXCEPT ![proc[p].key].status = "FAILED"]
        \/ UNCHANGED refund
    BY <1>6 DEF MarkRefundFailed
  <2> QED
    BY <1>2, <2>1, <2>2, FailureWithdraws DEF IInv, Abstract!Next
<1> QED
  BY <1>2, <1>3, <1>4, <1>5, <1>6, SilentSteps

\* The refund half of PaymentService keeps the promises of RefundLedger: under a key at most
\* one refund is promised, promises fit the paid amount, and each is paid out or withdrawn
\* once, whatever handlers race, die or meet webhooks.
THEOREM RefinesRefundLedger == Spec => ImplementsRefundLedger
<1>1. Init => Abstract!Init
  BY LedgerInit
<1>2. IInv /\ [Next]_vars => [Abstract!Next]_(Abstract!vars)
  BY LedgerNext
<1> QED
  BY <1>1, <1>2, IInvHolds, PTL DEF Spec, ImplementsRefundLedger, Abstract!Spec
=============================================================================

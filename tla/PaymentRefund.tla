---------------------------- MODULE PaymentRefund ----------------------------
(***************************************************************************)
(* Refunds of one paid payment: PaymentService.requestRefund,              *)
(* markRefundSuccessful, markRefundFailed, reconcileRefundStatus and the   *)
(* REFUND_* webhooks, run by any number of concurrent request handlers     *)
(* against one Postgres row of Payment, its Refund rows and its ledger.    *)
(*                                                                         *)
(* A handler awaits the database and the gateway, so it is a process with  *)
(* a program counter; what one SQL statement or one committed transaction  *)
(* does is one step. lockPaymentForUpdate is the row lock `lock`, held     *)
(* from the SELECT ... FOR UPDATE to the commit or rollback. A handler may *)
(* die at any await (Crash): its open transaction rolls back.              *)
(*                                                                         *)
(* Refund rows are identified by their idempotency key, which is unique.   *)
(* The gateway is external: only its answers and its webhooks matter here. *)
(***************************************************************************)
EXTENDS Money, PaymentTransitions

CONSTANTS
    Key,         \* idempotency keys of refund requests
    NoKey,       \* no key
    Proc,        \* request handlers of the server
    Nobody,      \* no handler
    Amount,      \* the paid amount, in minor units
    MaxCrashes   \* how many handlers may die (bound)

ASSUME AmountAssumption == Amount \in Nat \ {0}
ASSUME KeyAssumption == NoKey \notin Key /\ IsFiniteSet(Key)
ASSUME ProcAssumption == Nobody \notin Proc
ASSUME CrashAssumption == MaxCrashes \in Nat

VARIABLES
    payment,     \* the Payment row: [status, refundedAmount]
    refund,      \* the Refund row of each key; status NONE when there is none
    ledger,      \* keys whose REFUND debit is in LedgerEntry (refund:{id})
    lock,        \* the handler that holds the Payment row lock
    proc,        \* the handlers
    gateway,     \* external: what the gateway did with each refund
    events,      \* external: the REFUND_* webhooks it sends, any number of times
    crashes      \* handlers that died so far

vars == <<payment, refund, ledger, lock, proc, gateway, events, crashes>>

Idle == [pc |-> "idle", key |-> NoKey, amount |-> 0,
         seen |-> [status |-> "PAID", total |-> 0]]

NoRefund == [status |-> "NONE", amount |-> 0, gatewayRefundId |-> FALSE]

\* Mutated form: only settled refunds count as reserved.
ActiveRefundStatuses_SettledOnly == {"SUCCESS"}

ActiveRefundStatuses == {"REQUESTED", "PENDING", "SUCCESS"}
RefundableStatuses == {"PAID", "PARTIALLY_REFUNDED"}

AmountOf == [k \in Key |-> refund[k].amount]
WithStatus(S) == {k \in Key : refund[k].status \in S}

\* sumActiveRefundAmounts(paymentId): what is reserved or already refunded.
SumActiveRefundAmounts == SumOf(AmountOf, WithStatus(ActiveRefundStatuses))

\* The status a payment has once `total` of it is refunded.
RefundedStatus(total) ==
    IF total >= Amount THEN "REFUNDED" ELSE "PARTIALLY_REFUNDED"

Goto(p, pc) == proc' = [proc EXCEPT ![p].pc = pc]
Return(p) == proc' = [proc EXCEPT ![p] = Idle]

Init ==
    /\ payment = [status |-> "PAID", refundedAmount |-> 0]
    /\ refund = [k \in Key |-> NoRefund]
    /\ ledger = {}
    /\ lock = Nobody
    /\ proc = [p \in Proc |-> Idle]
    /\ gateway = [k \in Key |-> "none"]
    /\ events = [k \in Key |-> {}]
    /\ crashes = 0
-----------------------------------------------------------------------------
(* requestRefund.                                                          *)

\* The unlocked lookup of the key finds nothing. (When it finds a row the
\* call returns it and changes nothing.)
RequestRefund(p, k, a) ==
    /\ proc[p].pc = "idle"
    /\ IsPositiveMoney(a)
    /\ refund[k].status = "NONE"
    /\ proc' = [proc EXCEPT ![p] =
                    [pc |-> "reserve", key |-> k, amount |-> a, seen |-> Idle.seen]]
    /\ UNCHANGED <<payment, refund, ledger, lock, gateway, events, crashes>>

\* Mutated form: lockPaymentForUpdate is not called before the sum is read.
ReserveLock_Unlocked(p) ==
    /\ proc[p].pc = "reserve"
    /\ refund[proc[p].key].status = "NONE"
    /\ payment.status \in RefundableStatuses
    /\ proc' = [proc EXCEPT ![p].pc = "reserving",
                   ![p].seen = [status |-> payment.status,
                                total |-> SumActiveRefundAmounts]]
    /\ UNCHANGED <<payment, refund, ledger, lock, gateway, events, crashes>>

\* reserveActiveRefund up to the insert: take the row lock, look the key up
\* again, check the payment, sum the active refunds.
ReserveLock(p) ==
    /\ proc[p].pc = "reserve"
    /\ lock = Nobody
    /\ \/ /\ refund[proc[p].key].status = "NONE"
          /\ payment.status \in RefundableStatuses
          /\ lock' = p
          /\ proc' = [proc EXCEPT ![p].pc = "reserving",
                         ![p].seen = [status |-> payment.status,
                                      total |-> SumActiveRefundAmounts]]
       \/ /\ \/ refund[proc[p].key].status # "NONE"
             \/ payment.status \notin RefundableStatuses
          /\ Return(p)
          /\ UNCHANGED lock
    /\ UNCHANGED <<payment, refund, ledger, gateway, events, crashes>>

\* ... and the insert, or REFUND_EXCEEDS_PAID; the transaction ends either way.
ReserveInsert(p) ==
    LET k == proc[p].key
        a == proc[p].amount
    IN  /\ proc[p].pc = "reserving"
        /\ lock' = Nobody
        /\ \/ /\ IsRefundWithinPaidAmount(Amount, proc[p].seen.total, a)
              /\ refund' = [refund EXCEPT ![k] =
                    [status |-> "REQUESTED", amount |-> a, gatewayRefundId |-> FALSE]]
              /\ Goto(p, "createRefund")
           \/ /\ ~IsRefundWithinPaidAmount(Amount, proc[p].seen.total, a)
              /\ Return(p)
              /\ UNCHANGED refund
        /\ UNCHANGED <<payment, ledger, gateway, events, crashes>>

\* gateway.createRefund, awaited outside any transaction: the gateway answers
\* PENDING, SUCCESS or FAILED; or it refuses; or it accepts and the answer is
\* lost or unreadable. The call throws in the last two cases.
CreateRefund(p) ==
    LET k == proc[p].key
    IN  /\ proc[p].pc = "createRefund"
        /\ \/ /\ gateway' = [gateway EXCEPT ![k] = "pending"]
              /\ Goto(p, "pendingAnswer")
              /\ UNCHANGED events
           \/ /\ gateway' = [gateway EXCEPT ![k] = "success"]
              /\ events' = [events EXCEPT ![k] = @ \cup {"REFUND_SUCCESS"}]
              /\ Goto(p, "successAnswer")
           \/ /\ gateway' = [gateway EXCEPT ![k] = "failed"]
              /\ events' = [events EXCEPT ![k] = @ \cup {"REFUND_FAILED"}]
              /\ Goto(p, "failedAnswer")
           \/ /\ gateway' \in {gateway, [gateway EXCEPT ![k] = "pending"]}
              /\ Goto(p, "markFailed")
              /\ UNCHANGED events
        /\ UNCHANGED <<payment, refund, ledger, lock, crashes>>

\* Mutated form: the gateway's refund id is not stored.
StorePending_NoGatewayId(k) ==
    refund' = IF refund[k].status = "REQUESTED"
              THEN [refund EXCEPT ![k].status = "PENDING"]
              ELSE refund

\* updateRefundStatus(REQUESTED -> PENDING), which stores gatewayRefundId.
StorePending(k) ==
    refund' = IF refund[k].status = "REQUESTED"
              THEN [refund EXCEPT ![k].status = "PENDING",
                                  ![k].gatewayRefundId = TRUE]
              ELSE refund

\* After the gateway's answer: store PENDING, then finalize or fail as it
\* said. The statement may also throw, having taken effect or not; the catch
\* block then marks the refund failed. (markRefundSuccessful is returned, not
\* awaited: what it throws does not reach that catch block.)
MarkPending(p) ==
    LET k == proc[p].key
        pc == proc[p].pc
    IN  /\ pc \in {"pendingAnswer", "successAnswer", "failedAnswer"}
        /\ \/ /\ StorePending(k)
              /\ \/ pc = "pendingAnswer" /\ Return(p)
                 \/ pc = "successAnswer" /\ Goto(p, "finalize")
                 \/ pc = "failedAnswer" /\ Goto(p, "markFailed")
           \/ /\ StorePending(k) \/ UNCHANGED refund
              /\ Goto(p, "markFailed")
        /\ UNCHANGED <<payment, ledger, lock, gateway, events, crashes>>

\* Mutated form: the update has no status condition.
MarkRefundFailed_Unconditional(p) ==
    /\ proc[p].pc = "markFailed"
    /\ refund' = [refund EXCEPT ![proc[p].key].status = "FAILED"]
    /\ Return(p)
    /\ UNCHANGED <<payment, ledger, lock, gateway, events, crashes>>

\* markRefundFailed: updateRefundStatus from REQUESTED or PENDING; a refund
\* that is in another status is left alone (409, swallowed by requestRefund).
MarkRefundFailed(p) ==
    LET k == proc[p].key
    IN  /\ proc[p].pc = "markFailed"
        /\ refund' = IF refund[k].status \in {"REQUESTED", "PENDING"}
                     THEN [refund EXCEPT ![k].status = "FAILED"]
                     ELSE refund
        /\ Return(p)
        /\ UNCHANGED <<payment, ledger, lock, gateway, events, crashes>>
-----------------------------------------------------------------------------
(* markRefundSuccessful.                                                   *)

\* finalizeRefundSuccessInTransaction before the lock: a SUCCESS refund is
\* returned as it is, one that cannot become SUCCESS is refused.
FinalizeRead(p) ==
    LET status == refund[proc[p].key].status
    IN  /\ proc[p].pc = "finalize"
        /\ \/ /\ status # "SUCCESS" /\ CanTransitionRefund(status, "SUCCESS")
              /\ Goto(p, "finalizeLock")
           \/ /\ status = "SUCCESS" \/ ~CanTransitionRefund(status, "SUCCESS")
              /\ Return(p)
        /\ UNCHANGED <<payment, refund, ledger, lock, gateway, events, crashes>>

\* Mutated form: the payment is read without the row lock.
FinalizeLock_Unlocked(p) ==
    /\ proc[p].pc = "finalizeLock"
    /\ refund[proc[p].key].status # "SUCCESS"
    /\ proc' = [proc EXCEPT ![p].pc = "finalizing",
                   ![p].seen = [status |-> payment.status,
                                total |-> payment.refundedAmount]]
    /\ UNCHANGED <<payment, refund, ledger, lock, gateway, events, crashes>>

\* Take the row lock and read the refund and the payment again.
FinalizeLock(p) ==
    /\ proc[p].pc = "finalizeLock"
    /\ lock = Nobody
    /\ \/ /\ refund[proc[p].key].status = "SUCCESS"
          /\ Return(p)
          /\ UNCHANGED lock
       \/ /\ refund[proc[p].key].status # "SUCCESS"
          /\ lock' = p
          /\ proc' = [proc EXCEPT ![p].pc = "finalizing",
                         ![p].seen = [status |-> payment.status,
                                      total |-> payment.refundedAmount]]
    /\ UNCHANGED <<payment, refund, ledger, gateway, events, crashes>>

\* The checks of the transaction, over what it read under the lock, and its
\* conditional updates' WHERE clauses.
FinalizeAllowed(p) ==
    LET k == proc[p].key
        total == proc[p].seen.total + refund[k].amount
    IN  /\ IsRefundWithinPaidAmount(Amount, proc[p].seen.total, refund[k].amount)
        /\ CanTransitionPayment(proc[p].seen.status, RefundedStatus(total))
        /\ refund[k].status \in {"REQUESTED", "PENDING"}
        /\ payment.status \in RefundableStatuses

\* Refund SUCCESS, payment status and refundedAmount, ledger debit: all
\* committed together, or rolled back together.
FinalizeCommit(p) ==
    LET k == proc[p].key
        total == proc[p].seen.total + refund[k].amount
    IN  /\ proc[p].pc = "finalizing"
        /\ \/ /\ FinalizeAllowed(p)
              /\ refund' = [refund EXCEPT ![k].status = "SUCCESS",
                                          ![k].gatewayRefundId = TRUE]
              /\ payment' = [status |-> RefundedStatus(total),
                             refundedAmount |-> total]
              /\ ledger' = ledger \cup {k}
           \/ /\ ~FinalizeAllowed(p)
              /\ UNCHANGED <<refund, payment, ledger>>
        /\ lock' = Nobody
        /\ Return(p)
        /\ UNCHANGED <<gateway, events, crashes>>
-----------------------------------------------------------------------------
(* Webhooks and reconciliation.                                            *)

\* processRefundEvent(REFUND_SUCCESS). The refund is found by the gateway's
\* id; before that id is stored the webhook is refused with 404.
RefundSuccessWebhook(p, k) ==
    /\ proc[p].pc = "idle"
    /\ "REFUND_SUCCESS" \in events[k]
    /\ refund[k].gatewayRefundId
    /\ refund[k].status # "SUCCESS"
    /\ proc' = [proc EXCEPT ![p] = [Idle EXCEPT !.pc = "finalize", !.key = k]]
    /\ UNCHANGED <<payment, refund, ledger, lock, gateway, events, crashes>>

\* processRefundEvent(REFUND_FAILED).
RefundFailedWebhook(p, k) ==
    /\ proc[p].pc = "idle"
    /\ "REFUND_FAILED" \in events[k]
    /\ refund[k].gatewayRefundId
    /\ refund[k].status \notin {"SUCCESS", "FAILED"}
    /\ proc' = [proc EXCEPT ![p] = [Idle EXCEPT !.pc = "markFailed", !.key = k]]
    /\ UNCHANGED <<payment, refund, ledger, lock, gateway, events, crashes>>

\* reconcileRefundStatus up to the gateway query, which it awaits.
ReconcileRefund(p, k) ==
    /\ proc[p].pc = "idle"
    /\ refund[k].status \in {"REQUESTED", "PENDING"}
    /\ refund[k].gatewayRefundId
    /\ proc' = [proc EXCEPT ![p] = [Idle EXCEPT !.pc = "getRefundStatus", !.key = k]]
    /\ UNCHANGED <<payment, refund, ledger, lock, gateway, events, crashes>>

\* The answer of getRefundStatus.
GetRefundStatus(p) ==
    LET status == gateway[proc[p].key]
    IN  /\ proc[p].pc = "getRefundStatus"
        /\ \/ status = "success" /\ Goto(p, "finalize")
           \/ status = "failed" /\ Goto(p, "markFailed")
           \/ status = "pending" /\ Return(p)
        /\ UNCHANGED <<payment, refund, ledger, lock, gateway, events, crashes>>

\* The handler dies: process restart, lost connection, transaction timeout.
Crash(p) ==
    /\ crashes < MaxCrashes
    /\ proc[p].pc # "idle"
    /\ crashes' = crashes + 1
    /\ lock' = IF lock = p THEN Nobody ELSE lock
    /\ Return(p)
    /\ UNCHANGED <<payment, refund, ledger, gateway, events>>
-----------------------------------------------------------------------------
(* The gateway, external.                                                  *)

\* It settles an accepted refund, one way or the other.
GatewaySettle(k) ==
    /\ gateway[k] = "pending"
    /\ \E outcome \in {"success", "failed"} :
          /\ gateway' = [gateway EXCEPT ![k] = outcome]
          /\ events' = [events EXCEPT ![k] = @ \cup
                {IF outcome = "success" THEN "REFUND_SUCCESS" ELSE "REFUND_FAILED"}]
    /\ UNCHANGED <<payment, refund, ledger, lock, proc, crashes>>

\* A refund it reported as successful comes back from the customer's bank.
GatewayReverse(k) ==
    /\ gateway[k] = "success"
    /\ gateway' = [gateway EXCEPT ![k] = "failed"]
    /\ events' = [events EXCEPT ![k] = @ \cup {"REFUND_FAILED"}]
    /\ UNCHANGED <<payment, refund, ledger, lock, proc, crashes>>
-----------------------------------------------------------------------------
\* What a handler does once it has started, other than dying.
Step(p) ==
    \/ ReserveLock(p)
    \/ ReserveInsert(p)
    \/ CreateRefund(p)
    \/ MarkPending(p)
    \/ MarkRefundFailed(p)
    \/ FinalizeRead(p)
    \/ FinalizeLock(p)
    \/ FinalizeCommit(p)
    \/ GetRefundStatus(p)

Next ==
    \/ \E p \in Proc :
          \/ Step(p)
          \/ Crash(p)
          \/ \E k \in Key :
                \/ \E a \in 1 .. Amount : RequestRefund(p, k, a)
                \/ RefundSuccessWebhook(p, k)
                \/ RefundFailedWebhook(p, k)
                \/ ReconcileRefund(p, k)
    \/ \E k \in Key : GatewaySettle(k) \/ GatewayReverse(k)

Spec == Init /\ [][Next]_vars

\* A started handler keeps running (event loop; Postgres queues row locks
\* fairly); the gateway settles what it accepted and redelivers a webhook
\* until it is acknowledged.
Fairness ==
    /\ \A p \in Proc : SF_vars(Step(p))
    /\ \A k \in Key :
          /\ WF_vars(GatewaySettle(k))
          /\ SF_vars(\E p \in Proc : RefundSuccessWebhook(p, k))
          /\ SF_vars(\E p \in Proc : RefundFailedWebhook(p, k))

FairSpec == Spec /\ Fairness
-----------------------------------------------------------------------------
(* Properties.                                                             *)

Pcs == {"idle", "reserve", "reserving", "createRefund", "pendingAnswer",
        "successAnswer", "failedAnswer", "markFailed", "finalize",
        "finalizeLock", "finalizing", "getRefundStatus"}

Refunds == [status : RefundStatuses \cup {"NONE"}, amount : 0 .. Amount,
            gatewayRefundId : BOOLEAN]

Handlers == [pc : Pcs, key : Key \cup {NoKey}, amount : 0 .. Amount,
             seen : [status : PaymentStatuses, total : Nat]]

\* Every variable has its type.
TypeOK ==
    /\ payment \in [status : PaymentStatuses, refundedAmount : 0 .. Amount]
    /\ refund \in [Key -> Refunds]
    /\ ledger \subseteq Key
    /\ lock \in Proc \cup {Nobody}
    /\ proc \in [Proc -> Handlers]
    /\ gateway \in [Key -> {"none", "pending", "success", "failed"}]
    /\ events \in [Key -> SUBSET {"REFUND_SUCCESS", "REFUND_FAILED"}]
    /\ crashes \in 0 .. MaxCrashes

\* Active and successful refunds together never exceed the paid amount, however
\* requests, failures and retries interleave (reserveActiveRefund).
NeverOverReserved == SumActiveRefundAmounts <= Amount

\* In every committed state the payment, its SUCCESS refunds and its ledger tell
\* the same story: refundedAmount is the sum of the SUCCESS refunds, each of them
\* and nothing else is debited in the ledger, and the payment's status is the one
\* that total gives, so that the repair in reconcileSuccessfulRefundRecord never
\* has anything to do (finalizeRefundSuccessInTransaction).
LedgerMatchesPayment ==
    /\ ledger = WithStatus({"SUCCESS"})
    /\ payment.refundedAmount = SumOf(AmountOf, ledger)
    /\ payment.status = IF ledger = {} THEN "PAID"
                        ELSE RefundedStatus(payment.refundedAmount)

\* A refund that is still active when a transaction has locked its payment to
\* finalize it is never refused: the amount checks of reserveActiveRefund make
\* those of finalizeRefundSuccessInTransaction redundant.
FinalizeNeverRefused ==
    \A p \in Proc :
        /\ proc[p].pc = "finalizing"
        /\ refund[proc[p].key].status \in {"REQUESTED", "PENDING"}
        => FinalizeAllowed(p)

\* Every refund the gateway reports as paid can be resolved by that webhook once the
\* request that created it is over (docs/cashfree-sandbox-payment-refund-report.md:
\* "resolve Refund by gateway/merchant refund id"). FALSE of the code: see README.
WebhookResolvesRefund ==
    \A k \in Key :
        /\ "REFUND_SUCCESS" \in events[k]
        /\ \A p \in Proc : proc[p].key # k
        => refund[k].gatewayRefundId

\* A refund the gateway has accepted and the database knows as PENDING does not
\* stay PENDING: redelivered webhooks settle it although handlers die and
\* duplicates race.
AcceptedRefundSettles ==
    \A k \in Key : refund[k].status = "PENDING"
                     ~> refund[k].status \in {"SUCCESS", "FAILED"}

\* What the status of a key's row says of the promise under it.
Phase == [k \in Key |->
    CASE refund[k].status = "NONE" -> "open"
      [] refund[k].status \in {"REQUESTED", "PENDING"} -> "promised"
      [] refund[k].status = "SUCCESS" -> "paid"
      [] OTHER -> "withdrawn"]

Abstract == INSTANCE RefundLedger WITH
    phase <- Phase, promised <- AmountOf, paidOut <- payment.refundedAmount

\* The code implements RefundLedger: reserving promises, finalizing pays out,
\* failing withdraws, and every other step changes none of it.
ImplementsRefundLedger == Abstract!Spec
-----------------------------------------------------------------------------
(* What makes the invariants above inductive (PaymentRefundProofs).        *)

\* A running handler works on a key, and a reservation on a positive amount.
HandlersHaveWork ==
    \A p \in Proc :
        /\ proc[p].pc # "idle" => proc[p].key \in Key
        /\ proc[p].pc \in {"reserve", "reserving"} => proc[p].amount \in 1 .. Amount

\* A stored refund has a positive amount.
RefundsArePositive ==
    \A k \in Key : refund[k].status # "NONE" => refund[k].amount \in 1 .. Amount

\* The row lock is held exactly by the handler inside a transaction.
LockIsHeld ==
    \A p \in Proc : lock = p <=> proc[p].pc \in {"reserving", "finalizing"}

\* What a reservation read under the lock still bounds what is reserved.
ReservationIsCurrent ==
    \A p \in Proc : proc[p].pc = "reserving" =>
        /\ refund[proc[p].key].status = "NONE"
        /\ SumActiveRefundAmounts <= proc[p].seen.total

\* What a finalization read under the lock is still the payment row.
FinalizationIsCurrent ==
    \A p \in Proc : proc[p].pc = "finalizing" =>
        /\ proc[p].seen.status = payment.status
        /\ proc[p].seen.total = payment.refundedAmount

Shape == TypeOK /\ HandlersHaveWork /\ RefundsArePositive /\ LockIsHeld

IInv ==
    /\ Shape
    /\ ReservationIsCurrent
    /\ FinalizationIsCurrent
    /\ NeverOverReserved
    /\ LedgerMatchesPayment
=============================================================================

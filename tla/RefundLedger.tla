---------------------------- MODULE RefundLedger ----------------------------
(***************************************************************************)
(* What the payment domain promises about refunds, without saying how      *)
(* (docs/payment-domain-phase-1.md, "Refund lifecycle" and "Idempotency"): *)
(* under one idempotency key at most one refund is ever promised; what is  *)
(* promised or paid out never exceeds the paid amount; a promise is kept   *)
(* or withdrawn once, and the total paid out counts each kept promise once.*)
(***************************************************************************)
EXTENDS Money

CONSTANTS Key, Amount

VARIABLES
    phase,      \* of each key: open, promised, paid or withdrawn
    promised,   \* the amount promised under each key
    paidOut     \* the total paid out

vars == <<phase, promised, paidOut>>

Committed == {k \in Key : phase[k] \in {"promised", "paid"}}

Init ==
    /\ phase = [k \in Key |-> "open"]
    /\ promised = [k \in Key |-> 0]
    /\ paidOut = 0

Promise(k, a) ==
    /\ phase[k] = "open"
    /\ SumOf(promised, Committed) + a <= Amount
    /\ phase' = [phase EXCEPT ![k] = "promised"]
    /\ promised' = [promised EXCEPT ![k] = a]
    /\ UNCHANGED paidOut

PayOut(k) ==
    /\ phase[k] = "promised"
    /\ phase' = [phase EXCEPT ![k] = "paid"]
    /\ paidOut' = paidOut + promised[k]
    /\ UNCHANGED promised

Withdraw(k) ==
    /\ phase[k] = "promised"
    /\ phase' = [phase EXCEPT ![k] = "withdrawn"]
    /\ UNCHANGED <<promised, paidOut>>

Next == \E k \in Key :
    \/ \E a \in 1 .. Amount : Promise(k, a)
    \/ PayOut(k)
    \/ Withdraw(k)

Spec == Init /\ [][Next]_vars
=============================================================================

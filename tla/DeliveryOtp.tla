------------------------------ MODULE DeliveryOtp ------------------------------
(***************************************************************************)
(* OtpService: the codes that let a parcel be picked up and handed over,   *)
(* and the delivery they move.                                             *)
(*                                                                         *)
(* A code is a row; generating one invalidates the rows before it, inserts *)
(* a row, sends the code and moves the delivery to the status that awaits  *)
(* it; verifying one reads the newest row that is not consumed, compares,  *)
(* counts the attempt or consumes the row, and moves the delivery on. Each *)
(* of these is a statement of its own, a step here, outside a transaction. *)
(***************************************************************************)
EXTENDS DeliveryTransitions, SmsOutcome, Sequences, FiniteSets

CONSTANTS
    Proc,          \* request handlers
    MaxAttempts,   \* OTP_MAX_ATTEMPTS
    MaxCodes,      \* codes ever created (bound)
    MaxCrashes     \* requests that die or meet a failing statement (bound)

OtpAssumption ==
    /\ MaxAttempts \in Nat \ {0} /\ MaxCodes \in Nat /\ MaxCrashes \in Nat
    /\ IsFiniteSet(Proc)

VARIABLES
    status,        \* Delivery.status
    codes,         \* the rows of delivery_otps, oldest first
    proc,          \* the handlers
    crashes        \* requests that died so far

vars == <<status, codes, proc, crashes>>

OtpType == {"PICKUP", "DELIVERY"}
Generation == [PICKUP |-> {"BOOKED", "DRIVER_ASSIGNED", "PICKUP_OTP_PENDING"},
               DELIVERY |-> {"IN_TRANSIT", "DELIVERY_OTP_PENDING"}]
Pending == [PICKUP |-> "PICKUP_OTP_PENDING", DELIVERY |-> "DELIVERY_OTP_PENDING"]
Target == [PICKUP |-> "PICKED_UP", DELIVERY |-> "DELIVERED"]

Idle == [pc |-> "idle", type |-> "PICKUP", from |-> "CREATED", row |-> 0, guess |-> 0]
Goto(p, pc) == proc' = [proc EXCEPT ![p].pc = pc]
Answer(p) == proc' = [proc EXCEPT ![p] = Idle]

\* findActive: the newest row of a type that is not consumed, or 0.
Active(type) ==
    LET open == {i \in DOMAIN codes : codes[i].type = type /\ ~codes[i].consumed}
    IN  IF open = {} THEN 0 ELSE CHOOSE i \in open : \A j \in open : j <= i

Init ==
    /\ status = "BOOKED"
    /\ codes = <<>>
    /\ proc = [p \in Proc |-> Idle]
    /\ crashes = 0
-----------------------------------------------------------------------------
(* Generating a code.                                                      *)


\* generatePickupOtp, generateDeliveryOtp: the status of the delivery.
GenerateOtp(p, type) ==
    /\ proc[p].pc = "idle"
    /\ status \in Generation[type]
    /\ proc' = [proc EXCEPT ![p].pc = "cooldown", ![p].type = type, ![p].from = status]
    /\ UNCHANGED <<status, codes, crashes>>

\* ensureGenerationAllowed: 429 while the active code is young.
EnsureGenerationAllowed(p) ==
    /\ proc[p].pc = "cooldown"
    /\ LET active == Active(proc[p].type)
       IN  IF active # 0 /\ codes[active].young THEN Answer(p) ELSE Goto(p, "invalidate")
    /\ UNCHANGED <<status, codes, crashes>>

InvalidateActive(p) ==
    /\ proc[p].pc = "invalidate"
    /\ codes' = [i \in DOMAIN codes |->
                    IF codes[i].type = proc[p].type
                    THEN [codes[i] EXCEPT !.consumed = TRUE, !.young = FALSE,
                                          !.expired = FALSE]
                    ELSE codes[i]]
    /\ Goto(p, "create")
    /\ UNCHANGED <<status, crashes>>

CreateCode(p) ==
    /\ proc[p].pc = "create"
    /\ Len(codes) < MaxCodes
    /\ codes' = Append(codes, [type |-> proc[p].type, attempts |-> 0, consumed |-> FALSE,
                               young |-> TRUE, expired |-> FALSE, accepted |-> FALSE,
                               received |-> FALSE, withdrawn |-> FALSE, wins |-> 0])
    /\ proc' = [proc EXCEPT ![p].pc = "send", ![p].row = Len(codes) + 1]
    /\ UNCHANGED <<status, crashes>>

\* sendSms and the catch block around it: an SMS the provider refused takes its
\* row with it, one whose fate is unknown is an error that keeps it.
SendSms(p) ==
    /\ proc[p].pc = "send"
    /\ \E sms \in Sends :
        /\ codes' = [codes EXCEPT ![proc[p].row].received = sms.received,
                                  ![proc[p].row].accepted = sms.outcome = "ACCEPTED"]
        /\ CASE ShouldInvalidateOtp(sms.outcome) -> Goto(p, "withdraw")
             [] sms.outcome = "ACCEPTED" /\ proc[p].from # Pending[proc[p].type] ->
                    Goto(p, "await")
             [] OTHER -> Answer(p)
    /\ UNCHANGED <<status, crashes>>

\* recoverOtpAfterSmsFailure.
Withdraw(p) ==
    /\ proc[p].pc = "withdraw"
    /\ codes' = [codes EXCEPT ![proc[p].row].withdrawn = TRUE,
                              ![proc[p].row].consumed = TRUE,
                              ![proc[p].row].young = FALSE,
                              ![proc[p].row].expired = FALSE]
    /\ Answer(p)
    /\ UNCHANGED <<status, crashes>>

\* The delivery awaits the code, from any status before that.
AwaitCode(p) ==
    /\ proc[p].pc = "await"
    /\ status' = IF status \in Generation[proc[p].type] \ {Pending[proc[p].type]}
                 THEN Pending[proc[p].type] ELSE status
    /\ Answer(p)
    /\ UNCHANGED <<codes, crashes>>
-----------------------------------------------------------------------------
(* Verifying a code.                                                       *)

\* verifyPickupOtp, verifyDeliveryOtp. The guess is a code that somebody has
\* received, or none of them (0).
VerifyOtp(p, type, guess) ==
    /\ proc[p].pc = "idle"
    /\ status = Pending[type]
    /\ proc' = [proc EXCEPT ![p].pc = "find", ![p].type = type, ![p].guess = guess]
    /\ UNCHANGED <<status, codes, crashes>>

\* The row, refused when expired or locked, and the comparison with its hash.
FindActive(p) ==
    LET active == Active(proc[p].type) IN
    /\ proc[p].pc = "find"
    /\ IF active = 0 \/ codes[active].expired \/ codes[active].attempts >= MaxAttempts
       THEN Answer(p)
       ELSE proc' = [proc EXCEPT
                ![p].pc = IF proc[p].guess = active THEN "consume" ELSE "count",
                ![p].row = active, ![p].guess = 0]
    /\ UNCHANGED <<status, codes, crashes>>

IncrementAttempts(p) ==
    /\ proc[p].pc = "count"
    /\ codes' = [codes EXCEPT ![proc[p].row].attempts = @ + 1]
    /\ Answer(p)
    /\ UNCHANGED <<status, crashes>>

\* Mutated form: the update is not conditional.
Consume_Unconditional(p) ==
    /\ proc[p].pc = "consume"
    /\ codes' = [codes EXCEPT ![proc[p].row].consumed = TRUE,
                              ![proc[p].row].young = FALSE,
                              ![proc[p].row].expired = FALSE,
                              ![proc[p].row].wins = @ + 1]
    /\ Goto(p, "complete")
    /\ UNCHANGED <<status, crashes>>

\* Mutated form: who comes too late is not refused.
Consume_NullIgnored(p) ==
    /\ proc[p].pc = "consume"
    /\ codes' = IF codes[proc[p].row].consumed THEN codes
                ELSE [codes EXCEPT ![proc[p].row].consumed = TRUE,
                                   ![proc[p].row].wins = @ + 1]
    /\ Goto(p, "complete")
    /\ UNCHANGED <<status, crashes>>

\* consume, where consumedAt is null; who comes too late is refused.
Consume(p) ==
    /\ proc[p].pc = "consume"
    /\ IF codes[proc[p].row].consumed
       THEN Answer(p) /\ UNCHANGED codes
       ELSE /\ codes' = [codes EXCEPT ![proc[p].row].consumed = TRUE,
                                      ![proc[p].row].young = FALSE,
                                      ![proc[p].row].expired = FALSE,
                                      ![proc[p].row].wins = @ + 1]
            /\ Goto(p, "complete")
    /\ UNCHANGED <<status, crashes>>

\* Mutated form: whatever the delivery has become.
Complete_Unconditional(p) ==
    /\ proc[p].pc = "complete"
    /\ status' = Target[proc[p].type]
    /\ Answer(p)
    /\ UNCHANGED <<codes, crashes>>

\* The delivery moves on if it still awaits the code; the answer does not
\* depend on it.
Complete(p) ==
    /\ proc[p].pc = "complete"
    /\ status' = IF status = Pending[proc[p].type] THEN Target[proc[p].type] ELSE status
    /\ Answer(p)
    /\ UNCHANGED <<codes, crashes>>
-----------------------------------------------------------------------------
(* Faults, time and the rest of the system.                                *)

\* The request dies, or a statement of it fails: nothing is undone.
Crash(p) ==
    /\ proc[p].pc # "idle"
    /\ crashes < MaxCrashes
    /\ crashes' = crashes + 1
    /\ Answer(p)
    /\ UNCHANGED <<status, codes>>

\* The cooldown of a code is over.
CoolDown(i) ==
    /\ codes[i].young
    /\ codes' = [codes EXCEPT ![i].young = FALSE]
    /\ UNCHANGED <<status, proc, crashes>>

Expire(i) ==
    /\ ~codes[i].consumed /\ ~codes[i].young /\ ~codes[i].expired
    /\ codes' = [codes EXCEPT ![i].expired = TRUE]
    /\ UNCHANGED <<status, proc, crashes>>

\* A driver is assigned, or tracking sees the parcel on its way.
MoveOn ==
    /\ \/ status = "BOOKED" /\ status' = "DRIVER_ASSIGNED"
       \/ status = "PICKED_UP" /\ status' = "IN_TRANSIT"
    /\ UNCHANGED <<codes, proc, crashes>>

Cancel ==
    /\ status \in CancellableStatuses
    /\ status' = "CANCELLED"
    /\ UNCHANGED <<codes, proc, crashes>>

Process(p) ==
    \/ EnsureGenerationAllowed(p) \/ InvalidateActive(p) \/ CreateCode(p) \/ SendSms(p)
    \/ Withdraw(p) \/ AwaitCode(p) \/ FindActive(p) \/ IncrementAttempts(p)
    \/ Consume(p) \/ Complete(p)

\* The codes somebody has received, and a wrong one.
Guesses(type) == {0} \cup {i \in DOMAIN codes : codes[i].type = type /\ codes[i].received}

Next ==
    \/ \E p \in Proc : \/ Process(p) \/ Crash(p)
                       \/ \E type \in OtpType :
                            \/ GenerateOtp(p, type)
                            \/ \E guess \in Guesses(type) : VerifyOtp(p, type, guess)
    \/ \E i \in DOMAIN codes : CoolDown(i) \/ Expire(i)
    \/ MoveOn \/ Cancel

\* The code that was received is entered.
VerifyRight(p, type) ==
    LET active == Active(type)
    IN  active # 0 /\ codes[active].received /\ VerifyOtp(p, type, active)

Spec == Init /\ [][Next]_vars
-----------------------------------------------------------------------------
(* Properties.                                                             *)

\* Handlers that count a wrong guess at the same time have all read the row
\* below its limit: the attempts go past it by at most one less than their number.
TypeOK ==
    /\ status \in DeliveryStatuses
    /\ codes \in Seq([type : OtpType, attempts : 0 .. MaxAttempts + Cardinality(Proc) - 1,
                      consumed : BOOLEAN, young : BOOLEAN, expired : BOOLEAN,
                      accepted : BOOLEAN, received : BOOLEAN, withdrawn : BOOLEAN,
                      wins : Nat])
    /\ Len(codes) <= MaxCodes
    /\ crashes \in 0 .. MaxCrashes

\* A code opens the way once, however many handlers verify it at a time.
CodeWinsOnce == \A i \in DOMAIN codes : codes[i].wins <= 1

\* A parcel is picked up, and handed over, only after a code of that type was
\* verified; completion is authoritative by the code.
CompletedByCode ==
    LET Verified(type) == \E i \in DOMAIN codes : codes[i].type = type /\ codes[i].wins > 0
    IN  /\ status \in {"PICKED_UP", "IN_TRANSIT", "DELIVERY_OTP_PENDING", "DELIVERED"}
           => Verified("PICKUP")
        /\ status = "DELIVERED" => Verified("DELIVERY")

\* A delivery awaits a code only after an SMS with one was accepted.
AwaitedWasAccepted ==
    \A type \in OtpType : status = Pending[type] =>
        \E i \in DOMAIN codes : codes[i].type = type /\ codes[i].accepted

\* A code that was withdrawn for its SMS has reached nobody.
WithdrawnWasNotReceived ==
    \A i \in DOMAIN codes : codes[i].withdrawn => ~codes[i].received

\* What a row and a handler are.
Codes == [type : OtpType, attempts : Nat, consumed : BOOLEAN, young : BOOLEAN,
          expired : BOOLEAN, accepted : BOOLEAN, received : BOOLEAN, withdrawn : BOOLEAN,
          wins : Nat]
Handlers ==
    [pc : {"idle", "cooldown", "invalidate", "create", "send", "withdraw", "await", "find",
           "count", "consume", "complete"},
     type : OtpType, from : DeliveryStatuses, row : Nat, guess : Nat]
Sending == {"send", "withdraw", "await"}

\* What a handler knows of its row.
Knows(p) ==
    LET row == codes[proc[p].row] IN
    /\ proc[p].pc \in Sending \cup {"count", "consume", "complete"}
       => proc[p].row \in DOMAIN codes /\ row.type = proc[p].type
    /\ proc[p].pc = "send" => ~row.accepted /\ ~row.received /\ ~row.withdrawn
    /\ proc[p].pc = "withdraw" => ~row.received
    /\ proc[p].pc = "await" => row.accepted
    /\ proc[p].pc = "complete" => row.wins > 0

\* The handlers that have read a row below its limit and are about to count.
Counting(i) == {p \in Proc : proc[p].pc = "count" /\ proc[p].row = i}

\* What is true of a row.
Sound(i) ==
    /\ codes[i].attempts + Cardinality(Counting(i)) <= MaxAttempts - 1 + Cardinality(Proc)
    /\ codes[i].wins <= 1
    /\ codes[i].wins > 0 => codes[i].consumed
    /\ codes[i].withdrawn => ~codes[i].received

\* The invariant that the proofs rest on: a row is sent by the handler that made it, and
\* those that count a wrong guess make up for what its attempts may still become.
IInv ==
    /\ status \in DeliveryStatuses
    /\ codes \in Seq(Codes)
    /\ Len(codes) <= MaxCodes
    /\ crashes \in 0 .. MaxCrashes
    /\ proc \in [Proc -> Handlers]
    /\ \A p \in Proc : Knows(p)
    /\ \A p, q \in Proc : p # q /\ proc[p].pc \in Sending /\ proc[q].pc \in Sending
                          => proc[p].row # proc[q].row
    /\ \A i \in DOMAIN codes : Sound(i)
    /\ CompletedByCode
    /\ AwaitedWasAccepted

\* The delivery moves along its table, against cancellation too.
FollowsTransitionTable == [][CanTransitionDelivery(status, status')]_status
=============================================================================

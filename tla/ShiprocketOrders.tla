---------------------------- MODULE ShiprocketOrders ----------------------------
(***************************************************************************)
(* ShiprocketBookingService and ShiprocketLifecycleService: one delivery's  *)
(* order at Shiprocket, and the calls that create it, give it a courier     *)
(* (AWB), read it and cancel it. A booking is two POSTs that are not         *)
(* idempotent; what a lost answer did is found out by a lookup. A step is    *)
(* one request: what Shiprocket does with it and what the caller is told.    *)
(* The caller is cancellation or booking, which has one call at a time.      *)
(***************************************************************************)
EXTENDS Naturals

CONSTANTS
    MaxCalls,       \* calls of the adapter (bound)
    MaxFaults       \* answers that are lost or are errors (bound)

OrdersAssumption == MaxCalls \in Nat /\ MaxFaults \in Nat

VARIABLES
    order,          \* the order at Shiprocket
    awb,            \* whether a courier was ever assigned to it
    copies,         \* orders that were created under the delivery's channel id
    late,           \* POSTs that will still be executed
    slow,           \* whether there may be any: it is so for good, or never
    call,           \* the call that runs: operation, next request, what it saw
    result,         \* the answer of the last call
    calls, faults

shiprocket == <<order, awb, copies, late>>
vars == <<shiprocket, slow, call, result, calls, faults>>

NoCall == [op |-> "none", pc |-> "done", awb |-> FALSE, thrown |-> "none"]
NoResult == [op |-> "none", outcome |-> "none", ids |-> FALSE, looked |-> "none"]

Unclear == {"PROVIDER_TIMEOUT", "PROVIDER_SERVICE_UNAVAILABLE", "PROVIDER_RATE_LIMITED",
            "PROVIDER_UNKNOWN_ERROR"}
Clear == {"PROVIDER_VALIDATION_ERROR", "PROVIDER_AUTHENTICATION_ERROR",
          "PROVIDER_AUTHORIZATION_ERROR", "PROVIDER_UNSUPPORTED_OPERATION",
          "PROVIDER_NOT_FOUND"}

\* ProviderHttpClient.request with allowErrorResponseBody: a 4xx is a response,
\* anything else that is no 2xx with JSON is thrown.
Thrown == {"PROVIDER_TIMEOUT", "PROVIDER_SERVICE_UNAVAILABLE", "PROVIDER_UNKNOWN_ERROR"}

\* The errors of a read: after one retry with a new token for a 401, and of the token.
ReadErrors == Unclear \cup {"PROVIDER_AUTHENTICATION_ERROR", "PROVIDER_AUTHORIZATION_ERROR"}

Init ==
    /\ order = "none" /\ awb = FALSE /\ copies = 0 /\ late = {} /\ slow \in BOOLEAN
    /\ call = NoCall /\ result = NoResult
    /\ calls = 0 /\ faults = 0

Finish(outcome, ids, looked) ==
    /\ result' = [op |-> call.op, outcome |-> outcome, ids |-> ids, looked |-> looked]
    /\ call' = NoCall
Goto(pc) == call' = [call EXCEPT !.pc = pc] /\ UNCHANGED result
Fault == faults < MaxFaults /\ faults' = faults + 1
NoFault == UNCHANGED faults
-----------------------------------------------------------------------------
(* What is done with an error.                                             *)

\* classifyProviderAdapterError.
classifyProviderAdapterError(c) == IF c \in Unclear THEN "UNKNOWN" ELSE "FAILED"

\* classifyCancellationError: the executor's error is no ProviderAdapterError any more.
classifyCancellationError(c) == "UNKNOWN"

\* A booking that ends with an error has no ids.
FailBooking(c, looked) == Finish(classifyProviderAdapterError(c), FALSE, looked)
-----------------------------------------------------------------------------
(* Shiprocket.                                                             *)

Created == /\ order' = IF order = "none" THEN "new" ELSE order
           /\ copies' = copies + 1
           /\ UNCHANGED awb
Assigned == /\ order' = IF order = "new" THEN "assigned" ELSE order
            /\ awb' = (awb \/ order = "new")
            /\ UNCHANGED copies
CancelledThere == /\ order' = IF order \in {"new", "assigned"} THEN "cancelled" ELSE order
                  /\ UNCHANGED <<awb, copies>>

Execute(post) ==
    \/ post = "create" /\ Created
    \/ post = "assign" /\ Assigned
    \/ post = "cancel" /\ CancelledThere

\* A POST whose answer is lost: executed, dropped, or executed later.
Lost(post) ==
    \/ Execute(post) /\ UNCHANGED late
    \/ UNCHANGED shiprocket
    \/ slow /\ late' = late \cup {post} /\ UNCHANGED <<order, awb, copies>>

Arrive(post) ==
    /\ post \in late
    /\ late' = late \ {post}
    /\ Execute(post)
    /\ UNCHANGED <<call, result, calls, faults>>

PickUp ==
    /\ order = "assigned"
    /\ order' = "moving"
    /\ UNCHANGED <<awb, copies, late, call, result, calls, faults>>

CancelByHand ==
    /\ order \in {"new", "assigned"}
    /\ order' = "cancelled"
    /\ UNCHANGED <<awb, copies, late, call, result, calls, faults>>
-----------------------------------------------------------------------------
(* createBooking.                                                          *)

Begin(op, pc) ==
    /\ call.op = "none" /\ calls < MaxCalls
    /\ calls' = calls + 1
    /\ call' = [NoCall EXCEPT !.op = op, !.pc = pc]
    /\ result' = NoResult
    /\ UNCHANGED <<shiprocket, faults>>

CreateBooking == Begin("createBooking", "lookup")

\* assertBookingEnabled, requireShiprocketCourierId, getBearerToken.
Refuse ==
    /\ call.op = "createBooking" /\ call.pc = "lookup"
    /\ Fault
    /\ \E c \in {"PROVIDER_UNSUPPORTED_OPERATION", "PROVIDER_VALIDATION_ERROR"} \cup ReadErrors :
          FailBooking(c, "none")
    /\ UNCHANGED <<shiprocket, calls>>

\* fetchExistingOrderSnapshot, resolveOrderShowProbeResult: the order, "404", or (an order
\* that cannot be interpreted included) an error.
Probe(kind) ==
    \/ kind = "found" /\ order # "none" /\ NoFault
    \/ kind = "404" /\ order = "none" /\ NoFault
    \/ kind = "error" /\ Fault

Found == call' = [call EXCEPT !.pc = "assign", !.awb = awb] /\ UNCHANGED result
LookUpError == Probe("error") /\ \E c \in ReadErrors : FailBooking(c, "error")

\* Mutated form: every error status means that there is no order.
LookUp_Lenient ==
    /\ call.op = "createBooking" /\ call.pc = "lookup"
    /\ \/ Probe("found") /\ Found
       \/ Probe("404") /\ Goto("create")
       \/ Probe("error") /\ Goto("create")
    /\ UNCHANGED <<shiprocket, calls>>

LookUp ==
    /\ call.op = "createBooking" /\ call.pc = "lookup"
    /\ \/ Probe("found") /\ Found
       \/ Probe("404") /\ Goto("create")
       \/ LookUpError
    /\ UNCHANGED <<shiprocket, calls>>

\* The lookup after a create that failed.
Recover ==
    /\ call.op = "createBooking" /\ call.pc = "recover"
    /\ \/ Probe("found") /\ Found
       \/ Probe("404") /\ FailBooking(call.thrown, "404")
       \/ LookUpError
    /\ UNCHANGED <<shiprocket, calls>>

ToRecover(c) == call' = [call EXCEPT !.pc = "recover", !.thrown = c] /\ UNCHANGED result

\* createAdhocOrder: the order and its answer.
CreateAdhocOrder ==
    /\ call.op = "createBooking" /\ call.pc = "create"
    /\ Created
    /\ call' = [call EXCEPT !.pc = "assign", !.awb = awb]
    /\ UNCHANGED <<late, result, calls, faults>>

\* It is refused, by Shiprocket or before: the payload is built inside the try.
CreateRefused ==
    /\ call.op = "createBooking" /\ call.pc = "create"
    /\ Fault
    /\ \/ ToRecover("PROVIDER_VALIDATION_ERROR")
       \/ ToRecover("PROVIDER_AUTHENTICATION_ERROR")
       \/ FailBooking("PROVIDER_SERVICE_UNAVAILABLE", "none")         \* 498
    /\ UNCHANGED <<shiprocket, calls>>

\* Mutated form: an answer that is lost means that nothing was created.
CreateLost_Failed ==
    /\ call.op = "createBooking" /\ call.pc = "create"
    /\ Fault
    /\ Lost("create")
    /\ FailBooking("PROVIDER_VALIDATION_ERROR", "404")
    /\ UNCHANGED calls

\* The answer is lost, or no JSON.
CreateLost ==
    /\ call.op = "createBooking" /\ call.pc = "create"
    /\ Fault
    /\ Lost("create")
    /\ \E c \in Thrown : ToRecover(c)
    /\ UNCHANGED calls

\* parseCreateOrderResponse: JSON without the ids.
CreateUnreadable ==
    /\ call.op = "createBooking" /\ call.pc = "create"
    /\ Fault
    /\ Created
    /\ FailBooking("PROVIDER_UNKNOWN_ERROR", "none")
    /\ UNCHANGED <<late, calls>>

\* assignAwbAndFinalize: the snapshot has an AWB.
HasAwb ==
    /\ call.op = "createBooking" /\ call.pc = "assign" /\ call.awb
    /\ Finish("BOOKED", TRUE, "found")
    /\ UNCHANGED <<shiprocket, calls, faults>>

\* A 2xx, with the AWB or without: the courier may be assigned later.
AssignAwb ==
    /\ call.op = "createBooking" /\ call.pc = "assign" /\ ~call.awb
    /\ \/ Assigned /\ awb' /\ UNCHANGED late /\ Finish("BOOKED", TRUE, "none")
       \/ Assigned /\ UNCHANGED late /\ Goto("confirm")
       \/ slow /\ late' = late \cup {"assign"} /\ UNCHANGED <<order, awb, copies>>
          /\ Goto("confirm")
    /\ UNCHANGED <<calls, faults>>

\* The POST throws, is refused, or answers what the schema does not take.
AssignUnclear ==
    /\ call.op = "createBooking" /\ call.pc = "assign" /\ ~call.awb
    /\ Fault
    /\ \/ Lost("assign") /\ Finish("UNKNOWN", TRUE, "none")
       \/ UNCHANGED shiprocket /\ Finish("UNKNOWN", TRUE, "none")
       \/ Assigned /\ UNCHANGED late /\ Finish("UNKNOWN", FALSE, "none")
    /\ UNCHANGED calls

\* The order is read again.
ConfirmAwb ==
    /\ call.op = "createBooking" /\ call.pc = "confirm"
    /\ \/ Probe("found") /\ Finish(IF awb THEN "BOOKED" ELSE "UNKNOWN", TRUE, "found")
       \/ Probe("404") /\ Finish("UNKNOWN", TRUE, "404")
       \/ LookUpError
    /\ UNCHANGED <<shiprocket, calls>>
-----------------------------------------------------------------------------
(* getBooking and cancelBooking: by the order's id.                         *)

GetBooking == Begin("getBooking", "show") /\ order # "none"
CancelBooking == Begin("cancelBooking", "preflight") /\ order # "none"

\* loadOrderShowDetails: the order, of which the status may be missing, or an error.
Show(pc, ok) ==
    /\ call.pc = pc
    /\ IF ok THEN NoFault ELSE Fault
    /\ UNCHANGED <<shiprocket, calls>>
ShowErrors == ReadErrors \cup {"PROVIDER_NOT_FOUND"}

ShowBooking ==
    /\ call.op = "getBooking"
    /\ \/ /\ Show("show", TRUE)
          /\ Finish(IF awb THEN "BOOKED" ELSE "UNKNOWN", TRUE, "found")
       \/ /\ Show("show", FALSE)
          /\ \E c \in ShowErrors : FailBooking(c, "error")

CancelError(c) == Finish(classifyCancellationError(c), FALSE, "error")

\* isShiprocketOrderAlreadyCancelledAtProvider, isShiprocketOrderNonCancellableAtProvider,
\* isShiprocketCancelPreflightIndeterminate.
Preflight ==
    /\ call.op = "cancelBooking"
    /\ \/ /\ Show("preflight", TRUE)
          /\ \/ order = "cancelled" /\ Finish("CANCELLED", TRUE, "found")
             \/ order = "moving" /\ Finish("REJECTED", FALSE, "found")
             \/ Finish("UNKNOWN", FALSE, "found")
             \/ order \in {"new", "assigned"} /\ Goto("post")
       \/ /\ Show("preflight", FALSE)
          /\ \E c \in ShowErrors : CancelError(c)

\* Mutated form: a 2xx of the cancel is the cancellation.
CancelOrders_Trust ==
    /\ call.op = "cancelBooking" /\ call.pc = "post"
    /\ \/ CancelledThere /\ UNCHANGED late
       \/ slow /\ late' = late \cup {"cancel"} /\ UNCHANGED <<order, awb, copies>>
    /\ Finish("CANCELLED", TRUE, "none")
    /\ UNCHANGED <<calls, faults>>

\* A 2xx: done, or to be done.
CancelOrders ==
    /\ call.op = "cancelBooking" /\ call.pc = "post"
    /\ \/ CancelledThere /\ UNCHANGED late
       \/ slow /\ late' = late \cup {"cancel"} /\ UNCHANGED <<order, awb, copies>>
    /\ Goto("verify")
    /\ UNCHANGED <<calls, faults>>

\* 422.
CancelRefused ==
    /\ call.op = "cancelBooking" /\ call.pc = "post"
    /\ order \in {"moving", "cancelled"}
    /\ Finish("REJECTED", FALSE, "none")
    /\ UNCHANGED <<shiprocket, calls, faults>>

CancelLost ==
    /\ call.op = "cancelBooking" /\ call.pc = "post"
    /\ Fault
    /\ Lost("cancel")
    /\ CancelError("PROVIDER_TIMEOUT")
    /\ UNCHANGED calls

\* reconcileShiprocketCancelFromOrderShow.
VerifyCancel ==
    /\ call.op = "cancelBooking"
    /\ \/ /\ Show("verify", TRUE)
          /\ \/ order = "cancelled" /\ Finish("CANCELLED", TRUE, "found")
             \/ order # "cancelled" /\ Finish("REJECTED", FALSE, "found")
             \/ Finish("UNKNOWN", FALSE, "found")
       \/ /\ Show("verify", FALSE)
          /\ \E c \in ShowErrors : CancelError(c)
-----------------------------------------------------------------------------
Booking == \/ CreateBooking \/ Refuse \/ LookUp \/ Recover \/ CreateAdhocOrder
           \/ CreateRefused \/ CreateLost \/ CreateUnreadable \/ HasAwb \/ AssignAwb
           \/ AssignUnclear \/ ConfirmAwb
Cancel == \/ CancelBooking \/ Preflight \/ CancelOrders \/ CancelRefused \/ CancelLost
          \/ VerifyCancel
Next ==
    /\ \/ Booking \/ Cancel \/ GetBooking \/ ShowBooking \/ PickUp \/ CancelByHand
       \/ \E post \in {"create", "assign", "cancel"} : Arrive(post)
    /\ UNCHANGED slow

Spec == Init /\ [][Next]_vars
-----------------------------------------------------------------------------
TypeOK ==
    /\ order \in {"none", "new", "assigned", "moving", "cancelled"}
    /\ awb \in BOOLEAN /\ copies \in 0 .. MaxCalls
    /\ late \subseteq {"create", "assign", "cancel"} /\ slow \in BOOLEAN
    /\ call.op \in {"none", "createBooking", "getBooking", "cancelBooking"}
    /\ call.pc \in {"lookup", "create", "recover", "assign", "confirm", "show",
                    "preflight", "post", "verify", "done"}
    /\ call.thrown \in Unclear \cup Clear \cup {"none"}
    /\ result.outcome \in {"none", "BOOKED", "UNKNOWN", "FAILED", "CANCELLED", "REJECTED"}
    /\ order = "none" => ~awb
    /\ (order = "none") = (copies = 0)
    /\ faults \in 0 .. MaxFaults

\* A booking is reported as made only of an order to which a courier was assigned,
\* however many answers were lost on the way (confirmedShiprocketAwbCode).
BookedIsAssigned == result.outcome = "BOOKED" => awb

\* A cancellation is reported only of an order that is cancelled, however late the POST
\* is executed (cancelBooking reads the order after the POST).
CancelledIsCancelled == result.outcome = "CANCELLED" => order = "cancelled"

\* A booking that failed after the lookup found nothing has left nothing (when a POST that
\* has no answer is not executed later).
FailureIsTrue ==
    ~slow /\ result.outcome = "FAILED" /\ result.looked = "404" => order = "none"

\* Retries of a booking make one order (when a POST that has no answer is not executed
\* later): resolveOrderShowProbeResult, "Only HTTP 404 means no existing order".
OneOrder == ~slow => copies <= 1
-----------------------------------------------------------------------------
(* The inductive invariant.                                                *)

Count(b) == IF b THEN 1 ELSE 0
MayCreate == call.op = "createBooking" /\ call.pc \in {"lookup", "create"}
Outcomes == {"none", "BOOKED", "UNKNOWN", "FAILED", "CANCELLED", "REJECTED"}

IInv ==
    /\ TypeOK
    /\ BookedIsAssigned /\ CancelledIsCancelled /\ FailureIsTrue
    /\ call \in [op : {"none", "createBooking", "getBooking", "cancelBooking"},
                 pc : {"lookup", "create", "recover", "assign", "confirm", "show",
                       "preflight", "post", "verify", "done"},
                 awb : BOOLEAN, thrown : Unclear \cup Clear \cup {"none"}]
    /\ result.outcome \in Outcomes /\ copies \in Nat /\ calls \in 0 .. MaxCalls
    \* While a call runs there is no result yet, and a snapshot with a courier stays true.
    /\ call.op # "none" => result.outcome = "none"
    /\ call.op = "none" => call.pc = "done"
    /\ call.awb => awb
    \* Each call creates one order at most, and without late POSTs only when there is none.
    /\ copies + Count("create" \in late) + Count(MayCreate) <= calls
    /\ ~slow => late = {} /\ copies <= 1
    /\ ~slow /\ call.pc = "create" => order = "none"
=============================================================================

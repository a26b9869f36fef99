------------------------- MODULE DeliveryTransitions -------------------------
(***************************************************************************)
(* The delivery status table of delivery.transitions.ts.                   *)
(***************************************************************************)
EXTENDS Integers

DeliveryStatuses ==
    {"CREATED", "ORCHESTRATING", "OPTION_READY", "BOOKING", "BOOKED",
     "DRIVER_ASSIGNED", "PICKUP_OTP_PENDING", "PICKED_UP", "IN_TRANSIT",
     "DELIVERY_OTP_PENDING", "DELIVERED", "CANCELLED", "FAILED"}

TerminalStatuses == {"DELIVERED", "CANCELLED", "FAILED"}

\* The moves ALLOWED_TRANSITIONS lists.
AllowedTransitions ==
    ({"CREATED"} \X {"ORCHESTRATING", "CANCELLED"})
    \cup ({"ORCHESTRATING"} \X {"OPTION_READY", "FAILED", "CANCELLED"})
    \cup ({"OPTION_READY"} \X {"BOOKING", "CANCELLED"})
    \cup ({"BOOKING"} \X {"BOOKED", "FAILED"})
    \cup ({"BOOKED"} \X {"DRIVER_ASSIGNED", "PICKUP_OTP_PENDING", "CANCELLED"})
    \cup ({"DRIVER_ASSIGNED"} \X {"PICKUP_OTP_PENDING", "CANCELLED"})
    \cup ({"PICKUP_OTP_PENDING"} \X {"PICKED_UP", "CANCELLED"})
    \cup {<<"PICKED_UP", "IN_TRANSIT">>,
          <<"IN_TRANSIT", "DELIVERY_OTP_PENDING">>,
          <<"DELIVERY_OTP_PENDING", "DELIVERED">>}

\* canTransitionDelivery(from, to).
CanTransitionDelivery(from, to) ==
    \/ from = to
    \/ from \notin TerminalStatuses /\ <<from, to>> \in AllowedTransitions

\* STATUS_RANK: the position in DeliveryStatus.
StatusOrder ==
    <<"CREATED", "ORCHESTRATING", "OPTION_READY", "BOOKING", "BOOKED",
      "DRIVER_ASSIGNED", "PICKUP_OTP_PENDING", "PICKED_UP", "IN_TRANSIT",
      "DELIVERY_OTP_PENDING", "DELIVERED", "CANCELLED", "FAILED">>
Rank(status) == CHOOSE i \in DOMAIN StatusOrder : StatusOrder[i] = status

\* isStaleOperationalTransition.
IsStaleTransition(from, to) ==
    IF from \in TerminalStatuses THEN to # from ELSE Rank(to) < Rank(from)

\* DeliveryLifecycleService.transition for a caller that read `from`: ignore
\* (it returns null), refuse (it throws), or attempt the conditional update.
LifecycleVerdict(from, to) ==
    IF IsStaleTransition(from, to) THEN "ignore"
    ELSE IF ~CanTransitionDelivery(from, to) THEN "refuse"
    ELSE "attempt"

\* CANCELLABLE_DELIVERY_STATUSES.
CancellableStatuses ==
    {"CREATED", "ORCHESTRATING", "OPTION_READY", "BOOKED", "DRIVER_ASSIGNED",
     "PICKUP_OTP_PENDING"}
=============================================================================

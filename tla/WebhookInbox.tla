----------------------------- MODULE WebhookInbox -----------------------------
(***************************************************************************)
(* What the webhook inbox promises: an event is settled once, and when it  *)
(* is settled as processed, everything it reports has been recorded. An    *)
(* event may be dismissed instead.                                         *)
(***************************************************************************)
CONSTANTS
    Event,       \* webhook bodies
    Reports      \* the scans each of them reports

VARIABLES
    verdict,     \* of each event: open, processed or dismissed
    recorded     \* the scans recorded so far

Init ==
    /\ verdict = [e \in Event |-> "open"]
    /\ recorded = {}

\* A scan that an open event reports is recorded.
Record(e, scan) ==
    /\ scan \in Reports[e]
    /\ recorded' = recorded \cup {scan}
    /\ UNCHANGED verdict

Process(e) ==
    /\ verdict[e] = "open"
    /\ Reports[e] \subseteq recorded
    /\ verdict' = [verdict EXCEPT ![e] = "processed"]
    /\ UNCHANGED recorded

Dismiss(e) ==
    /\ verdict[e] = "open"
    /\ verdict' = [verdict EXCEPT ![e] = "dismissed"]
    /\ UNCHANGED recorded

Next == \E e \in Event :
    \/ \E scan \in Reports[e] : Record(e, scan)
    \/ Process(e)
    \/ Dismiss(e)

Spec == Init /\ [][Next]_<<verdict, recorded>>
=============================================================================

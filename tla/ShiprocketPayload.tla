--------------------------- MODULE ShiprocketPayload ---------------------------
(***************************************************************************)
(* What a Shiprocket tracking webhook says: normalization of its body      *)
(* (shiprocket-webhook.normalize.ts) and of a tracking status              *)
(* (tracking.normalization.ts).                                            *)
(*                                                                         *)
(* A body is a record; "NONE" stands for a member that is absent, empty or *)
(* not of the type that is read, "BAD" for a time that cannot be parsed. A  *)
(* provider's status is a name; what the code tests of it are the keyword  *)
(* patterns it matches (Matches).                                          *)
(***************************************************************************)
EXTENDS Integers, Sequences, SequencesExt

CONSTANTS
    RawStatus,   \* status names a provider may send
    Matches,     \* the patterns of KEYWORD_MAP each of them matches
    MaxScans     \* MAX_SCANS

\* isPendingOrEmptyStatus.
PendingStatuses == {"NONE", "PENDING", "NA", "N/A", "UNKNOWN", "TRACKING_PENDING"}

\* KEYWORD_MAP; the first pattern that matches decides.
KeywordMap ==
    <<<<"undelivered", "UNKNOWN">>, <<"delivered", "DELIVERED">>,
      <<"cancel", "CANCELLED">>, <<"pickup", "PICKED_UP">>,
      <<"transit", "IN_TRANSIT">>, <<"assigned", "DRIVER_ASSIGNED">>,
      <<"arriving", "NEAR_DESTINATION">>, <<"fail", "FAILED">>>>

NormalizeTrackingStatus(raw) ==
    LET hits == {i \in DOMAIN KeywordMap : KeywordMap[i][1] \in Matches[raw]}
    IN  IF hits = {} THEN "UNKNOWN" ELSE KeywordMap[Min(hits)][2]

OrElse(value, fallback) == IF value = "NONE" THEN fallback ELSE value

\* Mutated form: a scan does not inherit the status of the body.
ScanStatus_OwnOnly(body, scan) == scan.status

\* The status and the time of a scan, those of the body where it has none.
ScanStatus(body, scan) == OrElse(scan.status, body.status)
ScanTime(body, scan) == OrElse(scan.time, body.time)

\* scanToNormalized returns null for the others.
IsTrackable(body, scan) ==
    /\ ScanStatus(body, scan) \notin PendingStatuses
    /\ ScanTime(body, scan) \notin {"NONE", "BAD"}

\* buildScanProviderEventId, the hash of these members.
ScanEventId(body, scan) ==
    <<body.awb, body.srOrderId, body.orderId, ScanTime(body, scan),
      ScanStatus(body, scan)>>

NormalizedScan(body, scan) ==
    [id |-> ScanEventId(body, scan),
     status |-> ScanStatus(body, scan),
     skipForward |-> body.isReturn]

\* The position in a set of positions that has n - 1 of the set before it.
Nth(positions, n) ==
    CHOOSE i \in positions : Cardinality({j \in positions : j < i}) = n - 1

\* The scans of a list that can be tracked, in its order.
NormalizedScans(body, scans) ==
    LET kept == {i \in DOMAIN scans : IsTrackable(body, scans[i])}
    IN  [n \in 1 .. Cardinality(kept) |-> NormalizedScan(body, scans[Nth(kept, n)])]

\* normalizeShiprocketTrackingWebhook. The body itself is a scan when no scan
\* of its list can be tracked.
NormalizeWebhook(body) ==
    LET own == NormalizedScans(body, body.scans)
        scans == IF own = <<>>
                 THEN NormalizedScans(body, <<[status |-> body.status,
                                               time |-> body.time]>>)
                 ELSE own
        Result(action, list) == [action |-> action, scans |-> list]
    IN  IF \/ body.awb = "NONE" /\ body.srOrderId = "NONE" /\ body.orderId = "NONE"
           \/ Len(body.scans) > MaxScans
        THEN Result("reject", <<>>)
        ELSE IF scans = <<>> THEN Result("ignore", <<>>)
        ELSE Result("events", scans)
=============================================================================

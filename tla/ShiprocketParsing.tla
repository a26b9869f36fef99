--------------------------- MODULE ShiprocketParsing ---------------------------
(***************************************************************************)
(* What the Shiprocket adapter reads out of the answers of Shiprocket, and   *)
(* what it decides on it: orders/show, the tracking, the hyperlocal rates;   *)
(* and what it puts into the order it creates. A value is "NONE" when the    *)
(* body does not have it, or has it in another type, or blank.               *)
(***************************************************************************)
EXTENDS Naturals, Integers, Sequences, SequencesExt

CONSTANTS
    ValidAwb,       \* codes that match AWB_PATTERN
    NumericId,      \* ids of digits only
    Matches         \* the kinds of token a status contains: cancelled, moving, preship

\* a ?? b ?? c.
FirstSome(s) == LET some == SelectSeq(s, LAMBDA x : x # "NONE")
                IN  IF some = <<>> THEN "NONE" ELSE Head(some)
-----------------------------------------------------------------------------
(* orders/show.                                                             *)

\* An array, of which what is no object is dropped, or one object.
normalizeShipmentEntries(shipments) ==
    IF shipments.shape = "array" THEN SelectSeq(shipments.entries, LAMBDA e : e.id # "NULL")
    ELSE IF shipments.shape = "object" THEN shipments.entries
    ELSE <<>>

extractShiprocketOrderShowAwb(row) ==
    LET entries == normalizeShipmentEntries(row.shipments)
    IN  FirstSome(<<row.awb>> \o row.awbData
                  \o [i \in DOMAIN entries |-> entries[i].awb])

NoDetails == [orderId |-> "NONE", status |-> "NONE", subStatus |-> "NONE",
              shipmentId |-> "NONE", awbCode |-> "NONE", shipmentStatus |-> "NONE"]

parseShiprocketOrderShowDetails(row) ==
    IF row.id = "NONE" THEN NoDetails ELSE
    LET entries == normalizeShipmentEntries(row.shipments)
        Shipment(f) == IF entries = <<>> THEN "NONE" ELSE entries[1][f]
        awb == extractShiprocketOrderShowAwb(row)
        assumed == IF awb # "NONE" \/ Shipment("id") # "NONE" THEN "NEW" ELSE "UNKNOWN"
    IN  [orderId |-> row.id, subStatus |-> row.subStatus, awbCode |-> awb,
         status |-> FirstSome(<<row.status, Shipment("status"), assumed>>),
         shipmentId |-> Shipment("id"), shipmentStatus |-> Shipment("status")]

confirmedShiprocketAwbCode(awb) == IF awb \in ValidAwb THEN awb ELSE "NONE"

NoSnapshot == [orderId |-> "NONE", shipmentId |-> "NONE", awbCode |-> "NONE"]
toCreatedOrderSnapshot(d) ==
    IF d.shipmentId = "NONE" THEN NoSnapshot
    ELSE [orderId |-> d.orderId, shipmentId |-> d.shipmentId,
          awbCode |-> confirmedShiprocketAwbCode(d.awbCode)]

-----------------------------------------------------------------------------
(* What a cancellation does with it.                                        *)

\* combinedStatusText: the statuses that are there; a token is searched in all.
combinedStatusText(d) == {d.status, d.subStatus, d.shipmentStatus} \ {"NONE"}
matchesAnyToken(text, kind) == \E s \in text : kind \in Matches[s]

\* Mutated form: motion is looked for before cancellation.
reconcileShiprocketCancelFromOrderShow_MovingFirst(d) ==
    LET text == combinedStatusText(d)
    IN  IF matchesAnyToken(text, "moving") \/ matchesAnyToken(text, "preship")
        THEN "STILL_ACTIVE"
        ELSE IF matchesAnyToken(text, "cancelled") THEN "CONFIRMED_CANCELLED"
        ELSE "INCONCLUSIVE"

reconcileShiprocketCancelFromOrderShow(d) ==
    LET text == combinedStatusText(d)
    IN  IF matchesAnyToken(text, "cancelled") THEN "CONFIRMED_CANCELLED"
        ELSE IF matchesAnyToken(text, "moving") \/ matchesAnyToken(text, "preship")
             THEN "STILL_ACTIVE"
        ELSE "INCONCLUSIVE"

isShiprocketOrderNonCancellableAtProvider(d) ==
    LET text == combinedStatusText(d)
    IN  ~matchesAnyToken(text, "cancelled") /\ matchesAnyToken(text, "moving")

isShiprocketCancelPreflightIndeterminate(d) ==
    /\ d.awbCode \in ValidAwb \/ d.shipmentId \in NumericId
    /\ combinedStatusText(d) = {} \/ d.status = "UNKNOWN"

\* The preflight of cancelBooking; an order that cannot be read is UNKNOWN.
CancelPreflight(row) ==
    LET d == parseShiprocketOrderShowDetails(row)
    IN  IF d = NoDetails THEN "UNKNOWN"
        ELSE IF reconcileShiprocketCancelFromOrderShow(d) = "CONFIRMED_CANCELLED"
             THEN "CANCELLED"
        ELSE IF isShiprocketOrderNonCancellableAtProvider(d) THEN "REJECTED"
        ELSE IF isShiprocketCancelPreflightIndeterminate(d) THEN "UNKNOWN"
        ELSE "POST"
-----------------------------------------------------------------------------
(* Tracking.                                                                *)

\* trackingDataRoot has merged tracking_data into the body; track is shipment_track[0].
EventId(activities) ==
    IF activities = <<>> THEN "NONE"
    ELSE IF activities[1] = [date |-> "NONE", status |-> "NONE"] THEN "NONE"
    ELSE activities[1]

parseShiprocketTrackingResponse(row) ==
    LET said == FirstSome(<<row.shipmentStatus, row.current, row.trackStatusText>>)
    IN  [availability |->
            IF row.trackStatus = 0 \/ row.error # "NONE" THEN "PENDING"
            ELSE IF \/ row.shipmentStatus # "NONE" \/ row.current # "NONE"
                    \/ row.activities # <<>>
                 THEN "AVAILABLE" ELSE "UNKNOWN",
         rawStatus |-> IF said # "NONE" THEN said
                       ELSE IF row.trackStatus = 0 THEN "TRACKING_PENDING" ELSE "UNKNOWN",
         eventId |-> EventId(row.activities)]

-----------------------------------------------------------------------------
(* Hyperlocal rates. An amount or a time is a number, or not one, or missing. *)
Missing == -1
NotANumber == -2
FirstNumber(s) == LET n == SelectSeq(s, LAMBDA x : x >= 0)
                  IN  IF n = <<>> THEN Missing ELSE Head(n)

\* rates ?? rate: only what is missing is replaced.
parseAmount(e) == FirstNumber(<<IF e.rates # Missing THEN e.rates ELSE e.rate>>)

\* The first of eta, etd, estimated_delivery_days that has a number.
parseEtaMinutes(e) == FirstNumber(<<e.eta, e.etd, e.days>>)

\* An id that is there and blank ends the search: the name and the place then.
buildQuoteId(e, i) ==
    LET explicit == FirstSome(<<e.rateId, e.id, e.courierId, e.companyId>>)
    IN  IF explicit \notin {"NONE", "BLANK"} THEN <<explicit>> ELSE <<e.name, i>>

Malformed == [success |-> FALSE, candidates |-> <<>>]

\* status is true, false or missing (or something else); data may be missing.
parseShiprocketHyperlocalServiceability(status, data) ==
    LET entries == data.rows
        Candidate(i) == [amount |-> parseAmount(entries[i]), quoteId |-> buildQuoteId(entries[i], i),
                         minutes |-> parseEtaMinutes(entries[i]), raw |-> entries[i]]
        all == [i \in DOMAIN entries |-> Candidate(i)]
    IN  IF status = "false" THEN [success |-> TRUE, candidates |-> <<>>]
        ELSE IF status # "true" /\ ~data.given THEN Malformed
        ELSE [success |-> TRUE, candidates |-> SelectSeq(all, LAMBDA c : c.amount # Missing)]

\* fetchRates: an error's category, or the rates. coords and geocode say whether the
\* places have coordinates and a PIN code.
FetchRates(request, http, status, data) ==
    LET parsed == parseShiprocketHyperlocalServiceability(status, data)
        Error(c) == [error |-> c, rates |-> <<>>]
    IN  IF ~request.coords \/ ~request.geocode THEN Error("INELIGIBLE")
        ELSE IF http = 498 \/ http >= 500 THEN Error("PROVIDER_SERVICE_UNAVAILABLE")
        ELSE IF http \in {401, 403} THEN Error("PROVIDER_AUTHENTICATION_ERROR")
        ELSE IF http >= 400 THEN Error("PROVIDER_VALIDATION_ERROR")
        ELSE IF ~parsed.success THEN Error("PROVIDER_UNKNOWN_ERROR")
        ELSE [error |-> "NONE", rates |-> parsed.candidates]

\* Mutated form: the id of the quote first.
resolveShiprocketCourierId_QuoteFirst(candidate) ==
    LET e == candidate.raw
    IN  IF candidate.quoteId[1] \in NumericId /\ Len(candidate.quoteId) = 1
        THEN candidate.quoteId[1]
        ELSE FirstSome(SelectSeq(<<e.courierId, e.companyId>>, LAMBDA x : x \in NumericId))

\* resolveShiprocketCourierId, from the rate of the quote or else from the quote's id.
resolveShiprocketCourierId(candidate) ==
    LET e == candidate.raw
        named == FirstSome(SelectSeq(<<e.courierId, e.companyId>>, LAMBDA x : x \in NumericId))
    IN  IF named # "NONE" THEN named
        ELSE IF candidate.quoteId[1] \in NumericId /\ Len(candidate.quoteId) = 1
             THEN candidate.quoteId[1]
        ELSE "NONE"
-----------------------------------------------------------------------------
(* The order that is created. Metadata of an address: pin, city, state.      *)

\* resolveShiprocketPostcodePincode.
Pincode(meta, strictLive) ==
    IF meta.pin = "OK" THEN "OK" ELSE IF strictLive THEN "REFUSED" ELSE "FALLBACK"

\* resolveShiprocketCityState: the sandbox never sends the real ones.
CityState(meta, strictLive) ==
    IF ~strictLive THEN "FALLBACK"
    ELSE IF {"NONE", "NA"} \cap {meta.city, meta.state} # {} THEN "REFUSED"
    ELSE meta.city

\* resolveShiprocketBillingEmail.
BillingEmail(email, strictLive) ==
    IF ~strictLive THEN "FALLBACK" ELSE IF email = "OK" THEN "OK" ELSE "REFUSED"

\* requireCoordinates.
Coordinates(place) == IF place.coords THEN "OK" ELSE "REFUSED"

\* resolveSubTotalInr: what the rate says, else by the weight; at least one rupee.
SubTotal(rate, weight) ==
    LET amount == parseAmount(rate)
        rupees == IF amount = Missing THEN weight * 100 ELSE amount
    IN  IF rupees < 1 THEN 1 ELSE rupees

\* buildShiprocketAdhocOrderPayload: refused, or the parts of the order.
AdhocOrder(order, strictLive) ==
    LET parts == <<Pincode(order.pickup, strictLive), Pincode(order.drop, strictLive),
                   CityState(order.pickup, strictLive), CityState(order.drop, strictLive),
                   BillingEmail(order.email, strictLive),
                   Coordinates(order.pickup), Coordinates(order.drop)>>
    IN  IF \E i \in DOMAIN parts : parts[i] = "REFUSED" THEN <<>>
        ELSE Append(parts, SubTotal(order.rate, order.weight))
=============================================================================

--------------------------- MODULE DeliveryCreation ---------------------------
(***************************************************************************)
(* POST /deliveries on concurrent requests of the same and of different     *)
(* customers, and the customer's view of what was made: DeliveryService     *)
(* with its repository. A step is one awaited call; the rows of a           *)
(* transaction are seen by others when it commits, and an insert into       *)
(* DeliveryIdempotencyKey waits for an open transaction that holds the key. *)
(*                                                                          *)
(* What a delivery is made from is createDeliverySchema, the normal form of *)
(* DeliveryService, the row and the detail that is read back from it.       *)
(* A weight is asked for in quarters of a gram, which tell what is rounded, *)
(* and stored in grams. Addresses, contacts and sizes in centimetres are    *)
(* left out; which of them are given is not.                                *)
(***************************************************************************)
EXTENDS Integers, Sequences, FiniteSets, FiniteSetsExt, Functions

CONSTANTS
    Null,
    OwnStorage,     \* OBJECT_STORAGE_PROVIDER
    Customer, Key, Proc,
    Bodies,         \* raw request bodies
    Moves,          \* the status changes other services make
    MaxSeq,         \* bound on delivery_reference_seq
    MaxTime         \* bound on the clock

-----------------------------------------------------------------------------
(* The request and what is stored of it.                                   *)

Dimensions == {"lengthCm", "widthCm", "heightCm"}
Coordinates == {"latitude", "longitude"}

\* Kilograms x 4000.
MAX_WEIGHT == 200000
SMALL_PACKAGE_MAX_WEIGHT == 2000
MEDIUM_PACKAGE_MAX_WEIGHT == 10000
DIMENSIONS_REQUIRED_ABOVE == 12000

deriveSizeTier(weight) ==
    IF weight <= SMALL_PACKAGE_MAX_WEIGHT THEN "SMALL"
    ELSE IF weight <= MEDIUM_PACKAGE_MAX_WEIGHT THEN "MEDIUM" ELSE "LARGE"

optionalTrimmed(text) == IF text \in {Null, "blank"} THEN Null ELSE text

LocationOk(b) == b.coordinates \in {{}, Coordinates}

PackageOk(b) ==
    /\ b.weight \in 1 .. MAX_WEIGHT
    /\ b.packageType = "OTHER" => optionalTrimmed(b.description) # Null
    /\ b.dimensions \in {{}, Dimensions}
    /\ b.weight > DIMENSIONS_REQUIRED_ABOVE => b.dimensions = Dimensions
    /\ b.sizeTier \in {Null, deriveSizeTier(b.weight)}

ScheduleOk(b, at) ==
    IF b.mode = "ASAP" THEN b.windowStart = Null /\ b.windowEnd = Null
    ELSE /\ b.windowStart # Null /\ b.windowEnd # Null
         /\ b.windowStart < b.windowEnd
         /\ b.windowStart > at

\* createDeliverySchema accepts the body at a moment.
Accepted(b, at) == LocationOk(b) /\ PackageOk(b) /\ ScheduleOk(b, at)

\* The position in a set of positions that has n - 1 of the set before it.
Nth(positions, n) ==
    CHOOSE i \in positions : Cardinality({j \in positions : j < i}) = n - 1

\* Without NONE, each requirement once, in the order of the request.
HandlingRequirements(asked) ==
    LET first == {i \in DOMAIN asked :
                     asked[i] # "NONE" /\ \A j \in DOMAIN asked : j < i => asked[j] # asked[i]}
    IN  [n \in 1 .. Cardinality(first) |-> asked[Nth(first, n)]]

\* The body the schema hands on.
Parsed(b) ==
    [packageType |-> b.packageType, description |-> optionalTrimmed(b.description),
     weight |-> b.weight, dimensions |-> b.dimensions, coordinates |-> b.coordinates,
     requirements |-> HandlingRequirements(b.requirements),
     photos |-> [i \in DOMAIN b.photos |->
         [owner |-> b.photos[i].owner,
          storageProvider |-> IF b.photos[i].storageProvider = Null THEN "PENDING"
                              ELSE b.photos[i].storageProvider]],
     sizeTier |-> b.sizeTier, mode |-> b.mode,
     windowStart |-> b.windowStart, windowEnd |-> b.windowEnd]

\* sha256 of the parsed body, told apart by its content alone.
hashDeliveryCreateRequest(body) == body

isCustomerStagingPhotoKey(customer, photo) == photo.owner = customer

\* assertPackagePhotoKeysForCustomer.
PhotosAreOf(customer, photos) ==
    \A i \in DOMAIN photos :
        /\ photos[i].storageProvider = OwnStorage => isCustomerStagingPhotoKey(customer, photos[i])
        /\ photos[i].storageProvider \in {OwnStorage, "PENDING"}

\* What a column Decimal(10, 3) keeps of a number of kilograms: it rounds half up.
Decimal3(weight) == (weight + 2) \div 4

\* normalizeCreateInput, as the columns it fills: the tier is that of the weight asked for.
normalizeCreateInput(b) ==
    [packageType |-> b.packageType, description |-> b.description,
     weight |-> Decimal3(b.weight),
     dimensions |-> b.dimensions, coordinates |-> b.coordinates,
     sizeTier |-> deriveSizeTier(b.weight),
     requirements |-> Range(b.requirements), photos |-> Range(b.photos),
     mode |-> b.mode,
     scheduledAt |-> IF b.mode = "SCHEDULED" THEN b.windowStart ELSE Null,
     windowEnd |-> IF b.mode = "SCHEDULED" THEN b.windowEnd ELSE Null]

\* The row and its relations, as createDelivery inserts them.
Row(customer, reference, b) ==
    [customer |-> customer, reference |-> reference, status |-> "CREATED",
     columns |-> normalizeCreateInput(b), events |-> << <<Null, "CREATED">> >>]

toDeliveryDetailDto(row) ==
    [reference |-> row.reference, status |-> row.status, columns |-> row.columns]
CUSTOMER_VISIBLE_DELIVERY_STATUSES ==
    {"BOOKING", "BOOKED", "DRIVER_ASSIGNED", "PICKUP_OTP_PENDING", "PICKED_UP",
     "IN_TRANSIT", "DELIVERY_OTP_PENDING", "DELIVERED", "CANCELLED"}
DRAFT == {"CREATED", "ORCHESTRATING", "OPTION_READY"}
Statuses == CUSTOMER_VISIBLE_DELIVERY_STATUSES \union DRAFT \union {"FAILED"}
-----------------------------------------------------------------------------
VARIABLES
    rows,           \* committed Delivery rows, by reference
    keys,           \* committed DeliveryIdempotencyKey rows, by customer and key
    seq,            \* delivery_reference_seq
    now,
    proc,           \* the request handlers
    answers         \* 201 answers: [customer, key, body, detail]

vars == <<rows, keys, seq, now, proc, answers>>

Reference == 1 .. MaxSeq
Idle == [pc |-> "idle", customer |-> Null, key |-> Null, body |-> Null, reference |-> 0]
Done(p) == proc' = [proc EXCEPT ![p] = Idle]
Goto(p, pc) == proc' = [proc EXCEPT ![p].pc = pc]
KeyOf(p) == <<proc[p].customer, proc[p].key>>
MyRow(p) == Row(proc[p].customer, proc[p].reference, proc[p].body)
Created(p, detail) ==
    answers' = answers \union {[customer |-> proc[p].customer, key |-> proc[p].key,
                                body |-> proc[p].body, detail |-> detail]}

Init ==
    /\ rows = [r \in Reference |-> Null]
    /\ keys = [k \in Customer \X Key |-> Null]
    /\ seq = 0
    /\ now = 0
    /\ proc = [p \in Proc |-> Idle]
    /\ answers = {}

\* A body has a weight and a list of requirements, whatever they are.
IsBody(b) ==
    /\ b.weight \in Nat
    /\ Len(b.requirements) \in Nat /\ DOMAIN b.requirements = 1 .. Len(b.requirements)

Columns == {normalizeCreateInput(Parsed(b)) : b \in Bodies}
Details == [reference : Reference, status : Statuses, columns : Columns]
Deliveries ==
    [customer : Customer, reference : Reference, status : Statuses, columns : Columns,
     events : Seq((Statuses \cup {Null}) \X Statuses)]
Records ==
    [requestHash : {Parsed(b) : b \in Bodies}, reference : Reference,
     responsePayload : Details]

CreationAssumption ==
    /\ Null \notin Customer \cup Key \cup Deliveries \cup Records
    /\ \A b \in Bodies : IsBody(b)
    /\ \A m \in Moves : m[1] \in Statuses /\ m[2] \in Statuses
    /\ MaxSeq \in Nat /\ MaxTime \in Nat

\* The request passes the schema and the controller.
Receive(p, c, k, b) ==
    /\ proc[p].pc = "idle"
    /\ Accepted(b, now)
    /\ proc' = [proc EXCEPT ![p] = [pc |-> "find", customer |-> c, key |-> k,
                                    body |-> Parsed(b), reference |-> 0]]
    /\ UNCHANGED <<rows, keys, seq, now, answers>>

\* Mutated form: the hash is not compared.
SameRequest_Any(p, record) == TRUE

SameRequest(p, record) ==
    record.requestHash = hashDeliveryCreateRequest(proc[p].body)

\* The stored answer, or 409 when the key was used for another payload.
Replay(p, record) ==
    /\ Done(p)
    /\ IF SameRequest(p, record) THEN Created(p, record.responsePayload) ELSE UNCHANGED answers

\* findIdempotency; then 400 on photos of somebody else, or the transaction.
FindIdempotency(p) ==
    /\ proc[p].pc = "find"
    /\ IF keys[KeyOf(p)] # Null THEN Replay(p, keys[KeyOf(p)])
       ELSE /\ UNCHANGED answers
            /\ IF PhotosAreOf(proc[p].customer, proc[p].body.photos)
               THEN Goto(p, "create") ELSE Done(p)
    /\ UNCHANGED <<rows, keys, seq, now>>

\* nextReference and createDelivery: a reference is never given back.
CreateDelivery(p) ==
    /\ proc[p].pc = "create"
    /\ seq < MaxSeq
    /\ seq' = seq + 1
    /\ proc' = [proc EXCEPT ![p].pc = "save", ![p].reference = seq + 1]
    /\ UNCHANGED <<rows, keys, now, answers>>

\* Another open transaction has inserted the key.
KeyLocked(p) == \E q \in Proc \ {p} : proc[q].pc = "commit" /\ KeyOf(q) = KeyOf(p)

\* Mutated form: an upsert.
SaveIdempotency_Upsert(p) ==
    /\ proc[p].pc = "save"
    /\ ~KeyLocked(p)
    /\ Goto(p, "commit")
    /\ UNCHANGED <<rows, keys, seq, now, answers>>

\* saveIdempotency: P2002 when the key is there, and the transaction is rolled back.
SaveIdempotency(p) ==
    /\ proc[p].pc = "save"
    /\ ~KeyLocked(p)
    /\ Goto(p, IF keys[KeyOf(p)] = Null THEN "commit" ELSE "raced")
    /\ UNCHANGED <<rows, keys, seq, now, answers>>

Commit(p) ==
    /\ proc[p].pc = "commit"
    /\ rows' = [rows EXCEPT ![proc[p].reference] = MyRow(p)]
    /\ keys' = [keys EXCEPT ![KeyOf(p)] =
           [requestHash |-> hashDeliveryCreateRequest(proc[p].body),
            reference |-> proc[p].reference,
            responsePayload |-> toDeliveryDetailDto(MyRow(p))]]
    /\ Created(p, toDeliveryDetailDto(MyRow(p)))
    /\ Done(p)
    /\ UNCHANGED <<seq, now>>

\* isDeliveryIdempotencyUniqueViolation: the record of the winner is read again.
Raced(p) ==
    /\ proc[p].pc = "raced"
    /\ IF keys[KeyOf(p)] # Null THEN Replay(p, keys[KeyOf(p)]) ELSE Done(p) /\ UNCHANGED answers
    /\ UNCHANGED <<rows, keys, seq, now>>

\* The transaction fails, runs into its timeout, or the process dies in it.
Abort(p) ==
    /\ proc[p].pc \in {"create", "save", "commit"}
    /\ Done(p)
    /\ UNCHANGED <<rows, keys, seq, now, answers>>

\* The answer is lost with the process: the delivery stays.
CrashAfterCommit(p) ==
    /\ proc[p].pc = "commit"
    /\ rows' = [rows EXCEPT ![proc[p].reference] = MyRow(p)]
    /\ keys' = [keys EXCEPT ![KeyOf(p)] =
           [requestHash |-> hashDeliveryCreateRequest(proc[p].body),
            reference |-> proc[p].reference,
            responsePayload |-> toDeliveryDetailDto(MyRow(p))]]
    /\ Done(p)
    /\ UNCHANGED <<seq, now, answers>>

Tick == now < MaxTime /\ now' = now + 1 /\ UNCHANGED <<rows, keys, seq, proc, answers>>

Exists(r) == rows[r] # Null

\* transitionStatus, called by the services of the later lifecycle.
TransitionStatus(r, to) ==
    /\ Exists(r)
    /\ <<rows[r].status, to>> \in Moves
    /\ rows' = [rows EXCEPT ![r].status = to, ![r].events = Append(@, <<rows[r].status, to>>)]
    /\ UNCHANGED <<keys, seq, now, proc, answers>>

Handle(p) ==
    \/ FindIdempotency(p) \/ CreateDelivery(p) \/ SaveIdempotency(p)
    \/ Commit(p) \/ Raced(p) \/ Abort(p) \/ CrashAfterCommit(p)

Next ==
    \/ \E p \in Proc : Handle(p)
    \/ \E p \in Proc, c \in Customer, k \in Key, b \in Bodies : Receive(p, c, k, b)
    \/ \E r \in Reference, m \in Moves : TransitionStatus(r, m[2])
    \/ Tick

Spec == Init /\ [][Next]_vars
-----------------------------------------------------------------------------
Of(c, role) == {r \in Reference : Exists(r) /\ (role = "ADMIN" \/ rows[r].customer = c)}

\* The rows of a list with their filter: buildListWhere under listDeliveries.
Matching(c, role, status) ==
    {r \in Of(c, role) :
        /\ status # Null => rows[r].status = status
        /\ role = "CUSTOMER" => rows[r].status \in CUSTOMER_VISIBLE_DELIVERY_STATUSES}

Total(c, role, status) == Cardinality(Matching(c, role, status))

\* A status the customer may not ask for has no pages at all.
TotalPages(c, role, status, limit) ==
    IF role = "CUSTOMER" /\ status # Null /\ status \notin CUSTOMER_VISIBLE_DELIVERY_STATUSES
    THEN 0 ELSE Max({1, (Total(c, role, status) + limit - 1) \div limit})

\* Mutated form: pages counted from 0.
Page_FromZero(c, role, status, page, limit) ==
    LET matching == Matching(c, role, status)
        total == Cardinality(matching)
    IN  [i \in {i \in 1 .. limit : page * limit + i <= total} |->
            Nth(matching, total - page * limit - i + 1)]

\* orderBy createdAt desc, skip (page - 1) * limit, take limit.
Page(c, role, status, page, limit) ==
    LET matching == Matching(c, role, status)
        total == Cardinality(matching)
    IN  [i \in {i \in 1 .. limit : (page - 1) * limit + i <= total} |->
            Nth(matching, total - (page - 1) * limit - i + 1)]

\* findById and findByIdForCustomer: the deliveries the reader can open.
getDelivery(c, role) == Of(c, role)
-----------------------------------------------------------------------------
(* Properties.                                                             *)

\* Type invariant.
TypeOK ==
    /\ \A r \in Reference : Exists(r) =>
        /\ rows[r].customer \in Customer /\ rows[r].reference = r
        /\ rows[r].status \in Statuses
    /\ \A k \in Customer \X Key : keys[k] # Null => keys[k].reference \in Reference
    /\ seq \in 0 .. MaxSeq /\ now \in 0 .. MaxTime
    /\ \A p \in Proc : proc[p].pc \in {"idle", "find", "create", "save", "commit", "raced"}

\* However requests with one key race, fail and are repeated, a delivery exists for
\* each key that is stored and for no other reason: one delivery per customer and key.
OneDeliveryPerKey ==
    /\ \A r \in Reference : Exists(r) =>
        \E k \in Key : keys[<<rows[r].customer, k>>] # Null
                       /\ keys[<<rows[r].customer, k>>].reference = r
    /\ \A k \in Customer \X Key : keys[k] # Null =>
        Exists(keys[k].reference) /\ rows[keys[k].reference].customer = k[1]

\* Every 201 of one customer and key has the same body and names the same delivery.
AnswersAgree ==
    \A a, b \in answers :
        (a.customer = b.customer /\ a.key = b.key) => (a.body = b.body /\ a.detail = b.detail)

\* What a 201 tells is stored, for that customer, as it was asked for.
AnsweredIsStored ==
    \A a \in answers :
        /\ Exists(a.detail.reference)
        /\ rows[a.detail.reference].customer = a.customer
        /\ rows[a.detail.reference].columns = normalizeCreateInput(a.body)

\* The request that lost the race finds the record of the winner: it never ends in the
\* bare unique violation.
LoserFindsWinner == \A p \in Proc : proc[p].pc = "raced" => keys[KeyOf(p)] # Null

\* A weight of half a kilogram, or of two and a half, may be a little more rounded down,
\* and be of the next tier; and less than half a gram is stored as none.
Carriable(d) ==
    /\ d.weight \in Nat
    /\ d.weight < 500 => d.sizeTier = "SMALL"
    /\ d.weight > 500 => d.sizeTier # "SMALL"
    /\ d.weight < 2500 => d.sizeTier # "LARGE"
    /\ d.weight > 2500 => d.sizeTier = "LARGE"
    /\ d.weight > 3000 => Cardinality(d.dimensions) = 3
    /\ Cardinality(d.dimensions) \in {0, 3} /\ Cardinality(d.coordinates) \in {0, 2}
    /\ d.packageType = "OTHER" => d.description \notin {Null, "blank"}
    /\ "NONE" \notin d.requirements
    /\ IF d.mode = "SCHEDULED" THEN d.scheduledAt < d.windowEnd
       ELSE d.scheduledAt = Null /\ d.windowEnd = Null

PhotosAreOwn(customer, d) ==
    \A f \in d.photos :
        \/ f.storageProvider = "PENDING"
        \/ f.storageProvider = OwnStorage /\ f.owner = customer

\* A stored delivery is one the operations can carry: its tier is that of its weight
\* up to the rounding of it, a heavy one has its dimensions, coordinates come in pairs, another thing is described, a
\* scheduled one has a window, and a photo of the storage is the customer's own.
StoredIsSound ==
    \A r \in Reference : Exists(r) =>
        Carriable(rows[r].columns) /\ PhotosAreOwn(rows[r].customer, rows[r].columns)

\* In every state the pages of a list, from the first to the last it announces, hold each
\* matching delivery once, newest first; a customer's pages hold his own, no draft among
\* them, and he can open what they hold.
PagesAreTheList ==
    \A c \in Customer, role \in {"CUSTOMER", "ADMIN"}, limit \in {1, 2},
       status \in {Null, "CREATED", "FAILED", "BOOKED"} :
        LET pages == [i \in 1 .. TotalPages(c, role, status, limit) |->
                          Page(c, role, status, i, limit)]
            list == UNION {Range(pages[i]) : i \in DOMAIN pages}
        IN  /\ \A i, j \in DOMAIN pages : \A m \in DOMAIN pages[i], n \in DOMAIN pages[j] :
                   (i < j \/ (i = j /\ m < n)) => pages[i][m] > pages[j][n]
            /\ \A i \in DOMAIN pages : Len(pages[i]) <= limit
            /\ list = {r \in Reference :
                   /\ Exists(r)
                   /\ status \in {Null, rows[r].status}
                   /\ role = "ADMIN" \/ (/\ rows[r].customer = c
                                         /\ rows[r].status \notin DRAFT \union {"FAILED"})}
            /\ list \subseteq getDelivery(c, role)
-----------------------------------------------------------------------------
(* The inductive invariant.                                                *)

Handlers ==
    [pc : {"idle", "find", "create", "save", "commit", "raced"},
     customer : Customer \cup {Null}, key : Key \cup {Null},
     body : {Parsed(b) : b \in Bodies} \cup {Null}, reference : 0 .. MaxSeq]
Answers ==
    [customer : Customer, key : Key, body : {Parsed(b) : b \in Bodies}, detail : Details]

Typed ==
    /\ rows \in [Reference -> Deliveries \cup {Null}]
    /\ keys \in [Customer \X Key -> Records \cup {Null}]
    /\ seq \in 0 .. MaxSeq /\ now \in 0 .. MaxTime
    /\ proc \in [Proc -> Handlers] /\ answers \subseteq Answers

\* A row has a reference of the past, and the record of a key that tells of it.
RowOk(r) ==
    /\ rows[r].reference = r /\ r <= seq
    /\ Carriable(rows[r].columns) /\ PhotosAreOwn(rows[r].customer, rows[r].columns)
    /\ \E k \in Key : /\ keys[<<rows[r].customer, k>>] # Null
                      /\ keys[<<rows[r].customer, k>>].reference = r

\* A record tells of a row of its customer, as it was asked for.
RecordOk(k) ==
    /\ rows[keys[k].reference] # Null /\ rows[keys[k].reference].customer = k[1]
    /\ rows[keys[k].reference].columns = normalizeCreateInput(keys[k].requestHash)
    /\ keys[k].responsePayload.reference = keys[k].reference

\* What a handler brings has passed the schema, then the check of its photos.
HandlerOk(p) ==
    proc[p].pc # "idle" =>
        /\ proc[p].customer \in Customer /\ proc[p].key \in Key
        /\ proc[p].body \in {Parsed(b) : b \in Bodies}
        /\ Carriable(normalizeCreateInput(proc[p].body))
        /\ proc[p].pc # "find"
           => PhotosAreOwn(proc[p].customer, normalizeCreateInput(proc[p].body))

\* A reference is drawn once and has no row before its transaction commits; the key is
\* free, and locked for others, while one that has inserted it is open; and who met a
\* record finds it.
InTransaction(p) == proc[p].pc \in {"save", "commit"}
TransactionOk(p) ==
    /\ InTransaction(p) => /\ proc[p].reference \in Reference /\ proc[p].reference <= seq
                           /\ rows[proc[p].reference] = Null
    /\ proc[p].pc = "commit" => keys[KeyOf(p)] = Null
    /\ proc[p].pc = "raced" => keys[KeyOf(p)] # Null
Apart(p, q) ==
    /\ InTransaction(p) /\ InTransaction(q) => proc[p].reference # proc[q].reference
    /\ proc[p].pc = "commit" /\ proc[q].pc = "commit" => KeyOf(p) # KeyOf(q)

\* An answer is that of the record of its key.
AnswerOk(a) ==
    /\ keys[<<a.customer, a.key>>] # Null
    /\ a.body = keys[<<a.customer, a.key>>].requestHash
    /\ a.detail = keys[<<a.customer, a.key>>].responsePayload

IInv ==
    /\ Typed
    /\ \A r \in Reference : rows[r] # Null => RowOk(r)
    /\ \A k \in Customer \X Key : keys[k] # Null => RecordOk(k)
    /\ \A p \in Proc : HandlerOk(p) /\ TransactionOk(p)
    /\ \A p, q \in Proc : p # q => Apart(p, q)
    /\ \A a \in answers : AnswerOk(a)
=============================================================================

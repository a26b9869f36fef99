------------------------ MODULE OperationalPollingProofs ------------------------
(***************************************************************************)
(* Proofs about OperationalPolling: what its handlers hold and what its rows *)
(* are, kept by every step, for any number of instances, requests and        *)
(* deliveries. From these follow that two instances that have the lock of a  *)
(* delivery do not poll it at a time, and that a delivery moves along its    *)
(* table.                                                                    *)
(***************************************************************************)
EXTENDS OperationalPolling, CommonLemmas

Participants == Instance \cup Admin
N == Cardinality(Participants)

\* The numbers of the participants and of the deliveries.
LEMMA Numbers ==
    ASSUME PollingAssumption
    PROVE  /\ IsFiniteSet(Participants) /\ N \in Nat
           /\ IsFiniteSet(Delivery) /\ Cardinality(Delivery) \in Nat
           /\ BatchSize \in Nat \ {0} /\ MaxFaults \in Nat
  BY FS_CardinalityType DEF PollingAssumption, Participants, N

\* What a participant is at work on.
LEMMA HandlerIs ==
    ASSUME PollingAssumption, IInv, NEW p \in Participants
    PROVE  /\ proc[p] \in Handlers /\ proc[p].batch \in Seq(Delivery)
           /\ proc[p].pc # "idle" => /\ Current(p) \in Delivery
                                     /\ Len(proc[p].batch) \in 1 .. BatchSize
                                     /\ Current(p) = Head(proc[p].batch)
<1>1. proc[p] \in Handlers
  BY DEF IInv, Participants
<1>2. proc[p].batch \in Seq(Delivery)
  BY <1>1 DEF Handlers
<1>3. proc[p].pc # "idle" => proc[p].batch # <<>> /\ Len(proc[p].batch) <= BatchSize
  BY DEF IInv, TypeOK, Participants
<1>4. Current(p) = Head(proc[p].batch)
  BY DEF Current
<1>5. \A b \in Seq(Delivery) : b # <<>> => Head(b) \in Delivery /\ Len(b) \in Nat /\ Len(b) >= 1
  OBVIOUS
<1> QED
  BY <1>1, <1>2, <1>3, <1>4, <1>5, Numbers

\* The deliveries can be ordered.
LEMMA OrdersExist ==
    ASSUME PollingAssumption
    PROVE  (CHOOSE o \in Orders : TRUE) \in Orders
<1> DEFINE n == Cardinality(Delivery)
<1>1. IsFiniteSet(Delivery) /\ n \in Nat
  BY Numbers
<1>2. IsFiniteSet(1 .. n) /\ Cardinality(1 .. n) = n
  BY <1>1, UnitsOfOneRow
<1>3. ExistsBijection(Delivery, 1 .. n)
  BY <1>1, <1>2, FS_SameCardinalityBij
<1>4. PICK o \in [Delivery -> 1 .. n] : \A d, e \in Delivery : o[d] = o[e] => d = e
  BY <1>3 DEF ExistsBijection, Bijection, IsInjective, Injection
<1>5. o \in Orders
  BY <1>4 DEF Orders
<1> QED
  BY <1>5

\* A delivery whose status is written is the last of the order; nothing else changes.
LEMMA TransitionKeeps ==
    ASSUME PollingAssumption, TypeOK, NEW d \in Delivery, NEW to \in DeliveryStatuses,
           NEW expected, TransitionStatus(d, expected, to)
    PROVE  /\ status' \in [Delivery -> DeliveryStatuses] /\ order' \in Orders
           /\ \/ UNCHANGED status
              \/ status[d] \in expected /\ status' = [status EXCEPT ![d] = to]
<1>1. CASE status[d] \notin expected
  BY <1>1 DEF TransitionStatus, TypeOK
<1>2. CASE status[d] \in expected
  <2> DEFINE n == Cardinality(Delivery)
  <2>1. /\ order \in [Delivery -> 1 .. n] /\ n \in Nat
        /\ \A e, f \in Delivery : order[e] = order[f] => e = f
    BY Numbers DEF TypeOK, Orders
  <2>2. order' = [e \in Delivery |-> CASE e = d -> n
                                       [] order[e] > order[d] -> order[e] - 1
                                       [] OTHER -> order[e]]
    BY <1>2 DEF TransitionStatus
  <2>3. ASSUME NEW e \in Delivery
        PROVE  /\ order'[e] \in 1 .. n
               /\ e = d => order'[e] = n
               /\ e # d /\ order[e] > order[d] => order'[e] = order[e] - 1
               /\ e # d /\ ~(order[e] > order[d])
                     => order'[e] = order[e] /\ order[e] < order[d] /\ order[e] < n
    <3>1. /\ order[e] \in 1 .. n /\ order[d] \in 1 .. n
          /\ e # d => order[e] # order[d]
      BY <2>1
    <3>2. order'[e] = CASE e = d -> n [] order[e] > order[d] -> order[e] - 1 [] OTHER -> order[e]
      BY <2>2
    <3> HIDE DEF n
    <3>3. CASE e = d
      BY <3>1, <3>2, <3>3, <2>1
    <3>4. CASE e # d /\ order[e] > order[d]
      BY <3>1, <3>2, <3>4, <2>1
    <3>5. CASE e # d /\ ~(order[e] > order[d])
      BY <3>1, <3>2, <3>5, <2>1
    <3> QED
      BY <3>3, <3>4, <3>5
  <2>4. ASSUME NEW e \in Delivery, NEW f \in Delivery, order'[e] = order'[f]
        PROVE  e = f
    <3>1. /\ order[e] \in 1 .. n /\ order[f] \in 1 .. n /\ order[d] \in 1 .. n
          /\ order[e] = order[f] => e = f
      BY <2>1
    <3> HIDE DEF n
    <3> QED
      BY <2>1, <2>3, <2>4, <3>1
  <2>5. order' \in Orders
    BY <2>2, <2>3, <2>4 DEF Orders
  <2>6. status' = [status EXCEPT ![d] = to] /\ status \in [Delivery -> DeliveryStatuses]
    BY <1>2 DEF TransitionStatus, TypeOK
  <2> QED
    BY <1>2, <2>5, <2>6
<1> QED
  BY <1>1, <1>2

\* The rows that are in use are numbered within the number of participants.
LEMMA RowsInUse ==
    ASSUME PollingAssumption, IInv, NEW d \in Delivery
    PROVE  /\ InUse(d) \in SUBSET (1 .. N) /\ drivers[d] \subseteq InUse(d)
           /\ IsFiniteSet(InUse(d)) /\ Cardinality(InUse(d)) \in Nat
           /\ Inserting(d) \in SUBSET Participants
           /\ IsFiniteSet(Inserting(d)) /\ Cardinality(Inserting(d)) \in Nat
           /\ Cardinality(InUse(d)) + Cardinality(Inserting(d)) <= N
<1>1. ASSUME NEW q \in Participants, proc[q].pc = "update" PROVE proc[q].row \in 1 .. N
  <2>1. proc[q].row # 0 /\ proc[q].row \in 0 .. N
    BY <1>1, HandlerIs DEF IInv, Handlers, N, Participants
  <2> QED
    BY <2>1, Numbers
<1>2. drivers[d] \subseteq 1 .. N
  BY DEF IInv, TypeOK, N, Participants
<1>3. InUse(d) \in SUBSET (1 .. N) /\ drivers[d] \subseteq InUse(d)
  BY <1>1, <1>2 DEF InUse, Participants
<1>4. IsFiniteSet(1 .. N)
  BY Numbers, FS_Interval
<1>5. Inserting(d) \in SUBSET Participants
  BY DEF Inserting, Participants
<1> QED
  BY <1>3, <1>4, <1>5, Numbers, FS_Subset, FS_CardinalityType, PartsCounted
     DEF IInv, N, Participants

\* There is a number for a row that is to be inserted.
LEMMA RowIsNew ==
    ASSUME PollingAssumption, IInv, NEW d \in Delivery, Inserting(d) # {}
    PROVE  NewRow(d) \in 1 .. N /\ NewRow(d) \notin InUse(d)
<1> DEFINE k == Cardinality(InUse(d)) + 1
<1>1. /\ k \in Nat /\ k <= N /\ IsFiniteSet(InUse(d))
  <2>1. Cardinality(Inserting(d)) # 0
    BY RowsInUse, FS_EmptySet
  <2> QED
    BY <2>1, RowsInUse, Numbers
<1>2. \E m \in 1 .. k : m \notin InUse(d)
  <2> SUFFICES ASSUME 1 .. k \subseteq InUse(d) PROVE FALSE
    OBVIOUS
  <2>1. Cardinality(1 .. k) = k /\ Cardinality(1 .. k) <= Cardinality(InUse(d))
    BY <1>1, UnitsOfOneRow, FS_Subset
  <2> QED
    BY <2>1, RowsInUse
<1>3. NewRow(d) \in 1 .. k /\ NewRow(d) \notin InUse(d)
  BY <1>2 DEF NewRow
<1> QED
  BY <1>1, <1>3, Numbers
-----------------------------------------------------------------------------
(* Steps of one participant.                                               *)

\* A participant that rests is a handler.
LEMMA IdleIs ==
    ASSUME PollingAssumption
    PROVE  Idle \in Handlers /\ NoReport \in Reports \cup {NoReport}
<1>1. 0 \in 0 .. N /\ <<>> \in Seq(Delivery) /\ "CREATED" \in DeliveryStatuses
  BY Numbers DEF DeliveryStatuses
<1> QED
  BY <1>1 DEF Idle, Handlers, N, Participants

\* When one participant moves the invariant is kept, if it is kept of what the participant
\* holds, if no lock of another goes, and if the rows are counted.
LEMMA Moves ==
    ASSUME PollingAssumption, IInv, NEW p \in Participants, NEW new \in Handlers,
           proc' = [proc EXCEPT ![p] = new],
           status' \in [Delivery -> DeliveryStatuses], booked' \subseteq Delivery, order' \in Orders,
           faults' \in 0 .. MaxFaults,
           drivers' \in [Delivery -> SUBSET (1 .. N)],
           held' \subseteq [delivery : Delivery, owner : Instance \X Connection],
           \A g, h \in held' : g.delivery = h.delivery => g = h,
           \A h \in held : h.owner[1] # p => h \in held',
           new.pc # "idle" => new.batch # <<>> /\ Len(new.batch) <= BatchSize,
           new.pc = "update" => new.row # 0,
           p \in Instance /\ new.lock # "none" =>
               /\ new.pc \notin {"idle", "next"}
               /\ \E c \in Connection : [delivery |-> Head(new.batch), owner |-> <<p, c>>] \in held',
           \A d \in Delivery : Cardinality(InUse(d)') + Cardinality(Inserting(d)') <= N
    PROVE  IInv'
<1>1. /\ proc' \in [Participants -> Handlers] /\ proc'[p] = new
      /\ \A q \in Participants : q # p => proc'[q] = proc[q]
  BY DEF IInv, Participants
<1>2. TypeOK'
  <2>1. ASSUME NEW q \in Participants, proc'[q].pc # "idle"
        PROVE  proc'[q].batch # <<>> /\ Len(proc'[q].batch) <= BatchSize
    BY <1>1, <2>1 DEF IInv, TypeOK, Participants
  <2> QED
    BY <2>1 DEF TypeOK, Participants, N
<1>3. ASSUME NEW q \in Participants, proc'[q].pc = "update" PROVE proc'[q].row # 0
  BY <1>1, <1>3 DEF IInv, Participants
<1>4. ASSUME NEW i \in Instance PROVE HasLock(i)'
  <2>1. i \in Participants
    BY DEF Participants
  <2>2. CASE i = p
    BY <1>1, <2>2 DEF HasLock, Current
  <2>3. CASE i # p
    <3>1. proc'[i] = proc[i] /\ HasLock(i)
      BY <1>1, <2>1, <2>3 DEF IInv
    <3>2. ASSUME NEW c \in Connection, [delivery |-> Current(i), owner |-> <<i, c>>] \in held
          PROVE  [delivery |-> Current(i), owner |-> <<i, c>>] \in held'
      BY <2>3, <3>2
    <3> QED
      BY <3>1, <3>2 DEF HasLock, Current
  <2> QED
    BY <2>2, <2>3
<1>5. \A d \in Delivery : Cardinality(InUse(d)') + Cardinality(Inserting(d)')
                            <= Cardinality(Participants)
  BY DEF N
<1> QED
  BY <1>1, <1>2, <1>3, <1>4, <1>5 DEF IInv, Participants

\* A participant that writes and inserts no row takes none into use.
LEMMA CountsKept ==
    ASSUME PollingAssumption, IInv, NEW p \in Participants, NEW new \in Handlers,
           proc' = [proc EXCEPT ![p] = new], UNCHANGED drivers,
           new.pc \notin {"update", "insert"}
    PROVE  \A d \in Delivery : Cardinality(InUse(d)') + Cardinality(Inserting(d)') <= N
<1> TAKE d \in Delivery
<1>1. /\ proc'[p] = new
      /\ \A q \in Participants : q # p => proc'[q] = proc[q]
  BY DEF IInv, Participants
<1>2. InUse(d)' \in SUBSET InUse(d)
  <2>1. ASSUME NEW q \in Participants, proc'[q].pc = "update"
        PROVE  q # p /\ proc'[q] = proc[q]
    BY <1>1, <2>1
  <2> QED
    BY <2>1 DEF InUse, Participants, Current
<1>3. Inserting(d)' \in SUBSET Inserting(d)
  <2>1. ASSUME NEW q \in Participants, proc'[q].pc = "insert"
        PROVE  q # p /\ proc'[q] = proc[q]
    BY <1>1, <2>1
  <2> QED
    BY <2>1 DEF Inserting, Participants, Current
<1>4. /\ Cardinality(InUse(d)') \in Nat /\ Cardinality(InUse(d)') <= Cardinality(InUse(d))
      /\ Cardinality(Inserting(d)') \in Nat
      /\ Cardinality(Inserting(d)') <= Cardinality(Inserting(d))
  BY <1>2, <1>3, RowsInUse, PartsCounted
<1> QED
  BY <1>4, RowsInUse, Numbers

\* What a participant may become that stays with its delivery or is done with all.
Rests(p, new) ==
    /\ new \in Handlers /\ new.pc \notin {"next", "update", "insert"}
    /\ new.pc # "idle" => new.batch = proc[p].batch
    /\ new.lock # "none" => new.pc # "idle" /\ new.lock = proc[p].lock

\* Such a step keeps the invariant.
LEMMA RestsKeep ==
    ASSUME PollingAssumption, IInv, NEW p \in Participants, NEW new, Rests(p, new),
           proc[p].pc # "idle", proc' = [proc EXCEPT ![p] = new], UNCHANGED <<drivers, held>>,
           status' \in [Delivery -> DeliveryStatuses], booked' \subseteq Delivery, order' \in Orders,
           faults' \in 0 .. MaxFaults
    PROVE  IInv'
<1>1. \A d \in Delivery : Cardinality(InUse(d)') + Cardinality(Inserting(d)') <= N
  BY CountsKept DEF Rests
<1>2. new.pc # "idle" => new.batch # <<>> /\ Len(new.batch) <= BatchSize
  BY DEF IInv, TypeOK, Participants, Rests
<1>3. ASSUME p \in Instance, new.lock # "none"
      PROVE  /\ new.pc \notin {"idle", "next"}
             /\ \E c \in Connection : [delivery |-> Head(new.batch), owner |-> <<p, c>>] \in held'
  <2>1. HasLock(p) /\ new.pc \notin {"idle", "next"} /\ new.batch = proc[p].batch
        /\ proc[p].lock # "none"
    BY <1>3 DEF IInv, Rests
  <2> QED
    BY <2>1 DEF HasLock, Current
<1>4. /\ drivers' \in [Delivery -> SUBSET (1 .. N)]
      /\ held' \subseteq [delivery : Delivery, owner : Instance \X Connection]
      /\ \A g, h \in held' : g.delivery = h.delivery => g = h
      /\ \A h \in held : h.owner[1] # p => h \in held'
  BY DEF IInv, TypeOK, N, Participants
<1>5. new \in Handlers /\ (new.pc = "update" => new.row # 0)
  BY DEF Rests
<1> QED
  BY <1>1, <1>2, <1>3, <1>4, <1>5, Moves

\* A participant that leaves its delivery rests.
LEMMA LeaveRests ==
    ASSUME PollingAssumption, IInv, NEW p \in Participants, NEW pc \in {"release", "abort"},
           Leave(p, pc)
    PROVE  \E new : Rests(p, new) /\ proc' = [proc EXCEPT ![p] = new]
<1>1. CASE p \in Admin
  BY <1>1, IdleIs DEF Leave, Rests, Idle
<1>2. CASE p \notin Admin
  <2> DEFINE new == [Idle EXCEPT !.pc = pc, !.batch = proc[p].batch, !.lock = proc[p].lock]
  <2>1. proc[p].batch \in Seq(Delivery) /\ proc[p].lock \in {"none", "fresh", "again"}
    BY HandlerIs DEF Handlers
  <2>2. new \in Handlers /\ new.pc = pc /\ new.batch = proc[p].batch /\ new.lock = proc[p].lock
    BY <2>1, IdleIs DEF Handlers, Idle
  <2>3. proc' = [proc EXCEPT ![p] = new]
    BY <1>2 DEF Leave
  <2> HIDE DEF new
  <2> QED
    BY <2>2, <2>3 DEF Rests
<1> QED
  BY <1>1, <1>2

\* The types of what a step leaves alone.
LEMMA Typed ==
    ASSUME PollingAssumption, IInv
    PROVE  /\ status \in [Delivery -> DeliveryStatuses] /\ booked \subseteq Delivery
           /\ order \in Orders /\ drivers \in [Delivery -> SUBSET (1 .. N)]
           /\ held \subseteq [delivery : Delivery, owner : Instance \X Connection]
           /\ \A g, h \in held : g.delivery = h.delivery => g = h
           /\ faults \in 0 .. MaxFaults
           /\ \A f \in 0 .. MaxFaults : f < MaxFaults => f + 1 \in 0 .. MaxFaults
<1>1. \A f \in 0 .. MaxFaults : f < MaxFaults => f + 1 \in 0 .. MaxFaults
  BY Numbers
<1> QED
  BY <1>1 DEF IInv, TypeOK, N, Participants
-----------------------------------------------------------------------------
(* A cycle.                                                                *)

\* The handler that is at the start of a delivery, with a batch.
LEMMA NextIs ==
    ASSUME PollingAssumption, NEW b \in Seq(Delivery)
    PROVE  /\ [Idle EXCEPT !.pc = "next", !.batch = b] \in Handlers
           /\ [Idle EXCEPT !.pc = "next", !.batch = b].pc = "next"
           /\ [Idle EXCEPT !.pc = "next", !.batch = b].batch = b
           /\ [Idle EXCEPT !.pc = "next", !.batch = b].lock = "none"
  BY IdleIs DEF Idle, Handlers

\* A cycle goes on to the rest of its batch and holds nothing.
LEMMA ProceedIs ==
    ASSUME PollingAssumption, IInv, NEW p \in Participants, proc[p].pc # "idle"
    PROVE  /\ Proceed(p) \in Handlers /\ Proceed(p).pc \in {"idle", "next"}
           /\ Proceed(p).lock = "none"
           /\ Proceed(p).pc # "idle" => /\ Proceed(p).batch # <<>>
                                        /\ Len(Proceed(p).batch) <= BatchSize
<1>1. proc[p].batch \in Seq(Delivery) /\ Len(proc[p].batch) \in 1 .. BatchSize
  BY HandlerIs
<1>2. CASE Len(proc[p].batch) > 1
  <2>1. /\ Tail(proc[p].batch) \in Seq(Delivery) /\ Tail(proc[p].batch) # <<>>
        /\ Len(Tail(proc[p].batch)) <= BatchSize
    <3>1. \A b \in Seq(Delivery) : Len(b) > 1 =>
              Tail(b) \in Seq(Delivery) /\ Len(Tail(b)) = Len(b) - 1 /\ Tail(b) # <<>>
      <4> TAKE b \in Seq(Delivery)
      <4> HAVE Len(b) > 1
      <4>1. b # <<>> /\ Len(b) \in Nat
        OBVIOUS
      <4>2. Tail(b) \in Seq(Delivery) /\ Len(Tail(b)) = Len(b) - 1
        BY <4>1, HeadTailProperties
      <4>3. Len(Tail(b)) # 0
        BY SMTT(30), <4>1, <4>2
      <4> QED
        BY <4>2, <4>3
    <3>2. \A n \in 1 .. BatchSize : n - 1 <= BatchSize
      BY Numbers
    <3> QED
      BY <1>1, <1>2, <3>1, <3>2
  <2> QED
    BY <1>2, <2>1, NextIs DEF Proceed
<1>3. CASE ~(Len(proc[p].batch) > 1)
  BY <1>3, IdleIs DEF Proceed, Idle
<1> QED
  BY <1>2, <1>3

\* A batch has deliveries, and not more than its size.
LEMMA BatchIs ==
    ASSUME PollingAssumption, IInv, NEW b \in Batches
    PROVE  b \in Seq(Delivery) /\ b # <<>> /\ Len(b) <= BatchSize
<1>1. PICK n \in 1 .. BatchSize : b \in [1 .. n -> Wanted]
  BY DEF Batches
<1>2. n \in Nat /\ n >= 1 /\ n <= BatchSize
  BY Numbers
<1>3. Wanted \subseteq Delivery
  BY Typed DEF Wanted
<1>4. b \in [1 .. n -> Delivery]
  BY <1>1, <1>3
<1>5. b \in Seq(Delivery) /\ Len(b) = n
  BY <1>2, <1>4, SequenceOf
<1> QED
  BY <1>2, <1>5

\* Participants that hold no lock: a step of theirs keeps the invariant.
LEMMA WithoutLock ==
    ASSUME PollingAssumption, IInv, NEW p \in Participants, NEW new \in Handlers,
           proc' = [proc EXCEPT ![p] = new], new.pc \notin {"update", "insert"},
           new.lock = "none", UNCHANGED rows, faults' \in 0 .. MaxFaults,
           new.pc # "idle" => new.batch # <<>> /\ Len(new.batch) <= BatchSize,
           held' \subseteq held, \A h \in held : h.owner[1] # p => h \in held'
    PROVE  IInv'
<1>1. UNCHANGED <<status, booked, order, drivers, points>>
  BY DEF rows
<1>2. \A d \in Delivery : Cardinality(InUse(d)') + Cardinality(Inserting(d)') <= N
  BY <1>1, CountsKept
<1>3. /\ status' \in [Delivery -> DeliveryStatuses] /\ booked' \subseteq Delivery
      /\ order' \in Orders /\ drivers' \in [Delivery -> SUBSET (1 .. N)]
      /\ held' \subseteq [delivery : Delivery, owner : Instance \X Connection]
      /\ \A g, h \in held' : g.delivery = h.delivery => g = h
  BY <1>1, Typed
<1> QED
  BY <1>2, <1>3, Moves

\* A cycle of an instance starts.
LEMMA StartCycleKeeps ==
    ASSUME PollingAssumption, IInv, NEW i \in Instance, StartCycle(i) PROVE IInv'
<1>1. i \in Participants
  BY DEF Participants
<1>2. PICK b \in Batches : proc' = [proc EXCEPT ![i].pc = "next", ![i].batch = b]
  BY DEF StartCycle
<1>3. b \in Seq(Delivery) /\ b # <<>> /\ Len(b) <= BatchSize
  BY BatchIs
<1> DEFINE new == [proc[i] EXCEPT !.pc = "next", !.batch = b]
<1>4. proc' = [proc EXCEPT ![i] = new]
  BY <1>2
<1>5. proc[i] \in Handlers /\ proc[i].lock = "none"
  BY <1>1, HandlerIs DEF IInv, HasLock, StartCycle
<1>6. new \in Handlers /\ new.pc = "next" /\ new.batch = b /\ new.lock = "none"
  BY <1>3, <1>5 DEF Handlers
<1> HIDE DEF new
<1>7. UNCHANGED <<rows, held, faults>>
  BY DEF StartCycle
<1> QED
  BY <1>1, <1>3, <1>4, <1>6, <1>7, WithoutLock, Typed

\* An instance takes the lock of its delivery, or does without, or leaves it to another,
\* or gives up its cycle.
LEMMA TryAcquireKeeps ==
    ASSUME PollingAssumption, IInv, NEW i \in Instance, TryAcquire(i) PROVE IInv'
<1> DEFINE d == Current(i)
           holders == {h.owner : h \in {g \in held : g.delivery = d}}
<1>1. /\ i \in Participants /\ proc[i].pc = "next" /\ proc[i] \in Handlers
      /\ proc[i].lock = "none" /\ d \in Delivery
      /\ proc[i].batch # <<>> /\ Len(proc[i].batch) <= BatchSize
      /\ UNCHANGED rows
  <2>1. i \in Participants /\ proc[i].pc = "next" /\ UNCHANGED rows
    BY DEF Participants, TryAcquire
  <2>2. proc[i] \in Handlers /\ d \in Delivery
    BY <2>1, HandlerIs
  <2>3. proc[i].lock = "none"
    BY <2>1 DEF IInv, HasLock
  <2>4. proc[i].batch # <<>> /\ Len(proc[i].batch) <= BatchSize
    BY <2>1 DEF IInv, TypeOK, Participants
  <2> QED
    BY <2>1, <2>2, <2>3, <2>4
<1>2. CASE proc' = [proc EXCEPT ![i] = Proceed(i)] /\ UNCHANGED <<held, faults>>
  BY <1>1, <1>2, ProceedIs, WithoutLock, Typed
<1>3. CASE /\ faults < MaxFaults /\ faults' = faults + 1 /\ UNCHANGED held
           /\ proc' = [proc EXCEPT ![i].pc = "read"]
  <2> DEFINE new == [proc[i] EXCEPT !.pc = "read"]
  <2>1. /\ proc' = [proc EXCEPT ![i] = new] /\ new \in Handlers /\ new.pc = "read"
        /\ new.lock = "none" /\ new.batch = proc[i].batch
    BY <1>1, <1>3 DEF Handlers
  <2> HIDE DEF new
  <2>2. faults' \in 0 .. MaxFaults
    BY <1>3, Typed
  <2> QED
    BY <1>1, <1>3, <2>1, <2>2, WithoutLock
<1>4. ASSUME NEW c \in Connection, holders \ {<<i, c>>} = {}, UNCHANGED faults,
             held' = held \cup {[delivery |-> d, owner |-> <<i, c>>]},
             proc' = [proc EXCEPT ![i].pc = "read", ![i].lock =
                                      IF holders = {} THEN "fresh" ELSE "again"]
      PROVE  IInv'
  <2> DEFINE mine == [delivery |-> d, owner |-> <<i, c>>]
             lock == IF holders = {} THEN "fresh" ELSE "again"
             new == [proc[i] EXCEPT !.pc = "read", !.lock = lock]
  <2>1. /\ proc' = [proc EXCEPT ![i] = new] /\ new \in Handlers /\ new.pc = "read"
        /\ new.batch = proc[i].batch /\ Head(new.batch) = d
    BY <1>1, <1>4 DEF Handlers, Current
  <2>2. /\ mine \in [delivery : Delivery, owner : Instance \X Connection]
        /\ mine.delivery = d /\ mine.owner = <<i, c>>
    BY <1>1
  <2>3. ASSUME NEW h \in held, h.delivery = d PROVE h = mine
    <3>1. h.owner \in holders
      BY <2>3
    <3>2. h.owner = <<i, c>>
      BY <1>4, <3>1
    <3>3. h \in [delivery : Delivery, owner : Instance \X Connection]
      BY Typed
    <3> HIDE DEF d, holders
    <3> QED
      BY <2>3, <3>2, <3>3
  <2>4. held' = held \cup {mine}
    BY <1>4
  <2>5. \A d1 \in Delivery : Cardinality(InUse(d1)') + Cardinality(Inserting(d1)') <= N
    <3> HIDE DEF new
    <3> QED
      BY <1>1, <2>1, CountsKept DEF rows
  <2> HIDE DEF new, mine, holders
  <2>6. \A g, h \in held' : g.delivery = h.delivery => g = h
    BY <2>2, <2>3, <2>4, Typed
  <2>7. held' \subseteq [delivery : Delivery, owner : Instance \X Connection]
    BY <2>2, <2>4, Typed
  <2>8. /\ status' \in [Delivery -> DeliveryStatuses] /\ booked' \subseteq Delivery
        /\ order' \in Orders /\ drivers' \in [Delivery -> SUBSET (1 .. N)]
        /\ faults' \in 0 .. MaxFaults
    BY <1>1, <1>4, Typed DEF rows
  <2>9. \E c1 \in Connection : [delivery |-> Head(new.batch), owner |-> <<i, c1>>] \in held'
    BY <2>1, <2>4 DEF mine
  <2>10. \A h \in held : h.owner[1] # i => h \in held'
    BY <2>4
  <2> QED
    BY <1>1, <2>1, <2>5, <2>6, <2>7, <2>8, <2>9, <2>10, Moves
<1>5. \/ \E c \in Connection :
            CASE d \notin Eligible \/ holders \ {<<i, c>>} # {} ->
                   proc' = [proc EXCEPT ![i] = Proceed(i)] /\ UNCHANGED <<held, faults>>
              [] OTHER ->
                   /\ held' = held \cup {[delivery |-> d, owner |-> <<i, c>>]}
                   /\ proc' = [proc EXCEPT ![i].pc = "read", ![i].lock =
                                   IF holders = {} THEN "fresh" ELSE "again"]
                   /\ UNCHANGED faults
      \/ /\ faults < MaxFaults /\ faults' = faults + 1 /\ UNCHANGED held
         /\ proc' = [proc EXCEPT ![i].pc = "read"]
      \/ /\ faults < MaxFaults /\ faults' = faults + 1 /\ UNCHANGED held
         /\ proc' = [proc EXCEPT ![i] = Idle]
  BY DEF TryAcquire
<1>6. CASE /\ faults < MaxFaults /\ faults' = faults + 1 /\ UNCHANGED held
           /\ proc' = [proc EXCEPT ![i] = Idle]
  <2>1. Idle \in Handlers /\ Idle.pc = "idle" /\ Idle.lock = "none"
    BY IdleIs DEF Idle
  <2>2. faults' \in 0 .. MaxFaults
    BY <1>6, Typed
  <2> QED
    BY <1>1, <1>6, <2>1, <2>2, WithoutLock
<1> HIDE DEF d, holders
<1> QED
  BY <1>2, <1>3, <1>4, <1>5, <1>6

\* An instance gives back the lock, on the right connection or in vain.
LEMMA ReleaseKeeps ==
    ASSUME PollingAssumption, IInv, NEW i \in Instance, Release(i) PROVE IInv'
<1>1. /\ i \in Participants /\ proc[i].pc \in {"release", "abort"}
      /\ UNCHANGED <<rows, faults>>
  BY DEF Release, Participants
<1>2. PICK c \in Connection :
          held' = IF proc[i].lock = "fresh" THEN held \ {[delivery |-> Current(i), owner |-> <<i, c>>]}
                  ELSE held
  BY DEF Release
<1>3. held' \subseteq held /\ \A h \in held : h.owner[1] # i => h \in held'
  BY <1>2
<1>4. proc' = [proc EXCEPT ![i] = IF proc[i].pc = "release" THEN Proceed(i) ELSE Idle]
  BY DEF Release
<1>5. Idle \in Handlers /\ Idle.pc = "idle" /\ Idle.lock = "none"
  BY IdleIs DEF Idle
<1>6. CASE proc[i].pc = "release"
  BY <1>1, <1>3, <1>4, <1>6, ProceedIs, WithoutLock, Typed
<1>7. CASE proc[i].pc # "release"
  BY <1>1, <1>3, <1>4, <1>5, <1>7, WithoutLock, Typed
<1> QED
  BY <1>6, <1>7

\* An instance dies, and its locks go.
LEMMA PollingCrashKeeps ==
    ASSUME PollingAssumption, IInv, NEW i \in Instance, Crash(i) PROVE IInv'
<1>1. /\ i \in Participants /\ UNCHANGED rows
      /\ proc' = [proc EXCEPT ![i] = Idle]
      /\ held' \subseteq held /\ \A h \in held : h.owner[1] # i => h \in held'
  BY DEF Crash, Participants
<1>2. Idle \in Handlers /\ Idle.pc = "idle" /\ Idle.lock = "none"
  BY IdleIs DEF Idle
<1>3. faults' \in 0 .. MaxFaults
  BY Typed DEF Crash
<1> QED
  BY <1>1, <1>2, <1>3, WithoutLock
-----------------------------------------------------------------------------
(* A refresh.                                                              *)

\* A participant at a step of a refresh that goes on to another one.
LEMMA GoesOn ==
    ASSUME PollingAssumption, IInv, NEW p \in Participants, proc[p].pc # "idle", NEW new,
           new \in Handlers, new.pc \notin {"idle", "next", "update", "insert"},
           new.batch = proc[p].batch, new.lock = proc[p].lock,
           proc' = [proc EXCEPT ![p] = new], UNCHANGED <<drivers, held>>,
           status' \in [Delivery -> DeliveryStatuses], booked' \subseteq Delivery, order' \in Orders,
           faults' \in 0 .. MaxFaults
    PROVE  IInv'
<1>1. Rests(p, new)
  BY DEF Rests
<1> QED
  BY <1>1, RestsKeep

\* A participant that leaves its delivery.
LEMMA Leaves ==
    ASSUME PollingAssumption, IInv, NEW p \in Participants, proc[p].pc # "idle",
           NEW pc \in {"release", "abort"}, Leave(p, pc), UNCHANGED <<drivers, held>>,
           status' \in [Delivery -> DeliveryStatuses], booked' \subseteq Delivery, order' \in Orders,
           faults' \in 0 .. MaxFaults
    PROVE  IInv'
<1>1. PICK new : Rests(p, new) /\ proc' = [proc EXCEPT ![p] = new]
  BY LeaveRests
<1> QED
  BY <1>1, RestsKeep

\* An administrator asks for a refresh.
LEMMA AdminRefreshKeeps ==
    ASSUME PollingAssumption, IInv, NEW a \in Admin, NEW d \in Delivery, AdminRefresh(a, d)
    PROVE  IInv'
<1> DEFINE new == [proc[a] EXCEPT !.pc = "read", !.batch = <<d>>]
<1>1. a \in Participants /\ a \notin Instance
  BY DEF Participants, PollingAssumption
<1>2. proc[a] \in Handlers /\ <<d>> \in Seq(Delivery) /\ <<d>> # <<>> /\ Len(<<d>>) <= BatchSize
  BY <1>1, HandlerIs, Numbers
<1>3. new \in Handlers /\ new.pc = "read" /\ new.batch = <<d>>
  BY <1>2 DEF Handlers
<1>4. proc' = [proc EXCEPT ![a] = new]
  BY DEF AdminRefresh
<1> HIDE DEF new
<1>5. UNCHANGED <<status, booked, order, drivers, points, held, faults>>
  BY DEF AdminRefresh, rows
<1>6. \A e \in Delivery : Cardinality(InUse(e)') + Cardinality(Inserting(e)') <= N
  BY <1>1, <1>3, <1>4, <1>5, CountsKept
<1> QED
  BY <1>1, <1>2, <1>3, <1>4, <1>5, <1>6, Typed, Moves

\* A refresh reads the delivery and its booking.
LEMMA ReadDeliveryKeeps ==
    ASSUME PollingAssumption, IInv, NEW p \in Participants, ReadDelivery(p) PROVE IInv'
<1> DEFINE new == [proc[p] EXCEPT !.pc = "poll", !.from = status[Current(p)]]
<1>1. /\ proc[p].pc # "idle" /\ proc[p] \in Handlers /\ Current(p) \in Delivery
      /\ UNCHANGED <<status, booked, order, drivers, held, faults>>
  BY HandlerIs DEF ReadDelivery, rows
<1>2. CASE Current(p) \in booked
  <2>1. new \in Handlers /\ new.pc = "poll" /\ new.batch = proc[p].batch /\ new.lock = proc[p].lock
    BY <1>1, Typed DEF Handlers
  <2>2. proc' = [proc EXCEPT ![p] = new]
    BY <1>2 DEF ReadDelivery
  <2> HIDE DEF new
  <2> QED
    BY <1>1, <2>1, <2>2, GoesOn, Typed
<1>3. CASE Current(p) \notin booked
  BY <1>1, <1>3, Leaves, Typed DEF ReadDelivery
<1> QED
  BY <1>2, <1>3

\* It asks the provider.
LEMMA GetTrackingKeeps ==
    ASSUME PollingAssumption, IInv, NEW p \in Participants, GetTracking(p) PROVE IInv'
<1>1. /\ proc[p].pc # "idle" /\ proc[p] \in Handlers
      /\ UNCHANGED <<status, booked, order, drivers, held>>
  <2>1. proc[p].pc # "idle"
    BY DEF GetTracking
  <2>2. Current(p) \in Delivery /\ proc[p] \in Handlers
    BY <2>1, HandlerIs
  <2>3. UNCHANGED <<rows, held>>
    BY DEF GetTracking
  <2> QED
    BY <2>1, <2>2, <2>3, Typed DEF rows
<1>2. ASSUME NEW report \in Reports,
             proc' = [proc EXCEPT ![p].pc = "driver", ![p].report = report], UNCHANGED faults
      PROVE  IInv'
  <2> DEFINE new == [proc[p] EXCEPT !.pc = "driver", !.report = report]
  <2>1. new \in Handlers /\ new.pc = "driver" /\ new.batch = proc[p].batch /\ new.lock = proc[p].lock
    BY <1>1 DEF Handlers
  <2>2. proc' = [proc EXCEPT ![p] = new]
    BY <1>2
  <2> HIDE DEF new
  <2> QED
    BY <1>1, <1>2, <2>1, <2>2, GoesOn, Typed
<1>3. CASE faults < MaxFaults /\ faults' = faults + 1 /\ Leave(p, "release")
  BY <1>1, <1>3, Leaves, Typed
<1> QED
  BY <1>2, <1>3 DEF GetTracking

\* It looks for a driver a first time.
LEMMA FindDriverKeeps ==
    ASSUME PollingAssumption, IInv, NEW p \in Participants, FindDriver(p) PROVE IInv'
<1> DEFINE found == drivers[Current(p)] # {}
           new == [proc[p] EXCEPT !.pc = "upsert", !.found = found]
<1>1. /\ proc[p].pc # "idle" /\ proc[p] \in Handlers /\ proc' = [proc EXCEPT ![p] = new]
      /\ UNCHANGED <<status, booked, order, drivers, held, faults>>
  BY HandlerIs DEF FindDriver, rows
<1>2. found \in BOOLEAN
  OBVIOUS
<1> HIDE DEF found
<1>3. new \in Handlers /\ new.pc = "upsert" /\ new.batch = proc[p].batch /\ new.lock = proc[p].lock
  BY <1>1, <1>2 DEF Handlers
<1> HIDE DEF new
<1> QED
  BY <1>1, <1>3, GoesOn, Typed

\* The driver is assigned to the delivery.
LEMMA AssignDriverKeeps ==
    ASSUME PollingAssumption, IInv, NEW p \in Participants, AssignDriver(p) PROVE IInv'
<1> DEFINE new == [proc[p] EXCEPT !.pc = "reread"]
<1>1. /\ proc[p].pc # "idle" /\ proc[p] \in Handlers /\ proc' = [proc EXCEPT ![p] = new]
      /\ Current(p) \in Delivery
      /\ UNCHANGED <<booked, drivers, held, faults>>
  BY HandlerIs DEF AssignDriver, Goto
<1>2. new \in Handlers /\ new.pc = "reread" /\ new.batch = proc[p].batch /\ new.lock = proc[p].lock
  BY <1>1 DEF Handlers
<1>3. status' \in [Delivery -> DeliveryStatuses] /\ order' \in Orders
  <2>1. TransitionStatus(Current(p), {"BOOKED", "DRIVER_ASSIGNED"}, "DRIVER_ASSIGNED")
    BY DEF AssignDriver
  <2>2. "DRIVER_ASSIGNED" \in DeliveryStatuses /\ TypeOK
    BY DEF DeliveryStatuses, IInv
  <2> QED
    BY <1>1, <2>1, <2>2, TransitionKeeps
<1> HIDE DEF new
<1> QED
  BY <1>1, <1>2, <1>3, GoesOn, Typed

\* The status is read again.
LEMMA RereadDeliveryKeeps ==
    ASSUME PollingAssumption, IInv, NEW p \in Participants, RereadDelivery(p) PROVE IInv'
<1> DEFINE new == [proc[p] EXCEPT !.pc = "track", !.from = status[Current(p)]]
<1>1. /\ proc[p].pc # "idle" /\ proc[p] \in Handlers /\ Current(p) \in Delivery
      /\ UNCHANGED <<status, booked, order, drivers, held, faults>>
  BY HandlerIs DEF RereadDelivery, rows
<1>2. CASE proc[p].report.status = "PENDING"
  BY <1>1, <1>2, Leaves, Typed DEF RereadDelivery
<1>3. CASE proc[p].report.status # "PENDING"
  <2>1. new \in Handlers /\ new.pc = "track" /\ new.batch = proc[p].batch /\ new.lock = proc[p].lock
    BY <1>1, Typed DEF Handlers
  <2>2. proc' = [proc EXCEPT ![p] = new]
    BY <1>3 DEF RereadDelivery
  <2> HIDE DEF new
  <2> QED
    BY <1>1, <2>1, <2>2, GoesOn, Typed
<1> QED
  BY <1>2, <1>3

\* The point of an event is looked for.
LEMMA FindEventKeeps ==
    ASSUME PollingAssumption, IInv, NEW p \in Participants, FindEvent(p) PROVE IInv'
<1> DEFINE new == [proc[p] EXCEPT !.pc = "point"]
<1>1. /\ proc[p].pc # "idle" /\ proc[p] \in Handlers
      /\ UNCHANGED <<status, booked, order, drivers, held, faults>>
  BY HandlerIs DEF FindEvent, rows
<1>2. CASE Leave(p, "release")
  BY <1>1, <1>2, Leaves, Typed
<1>3. CASE Goto(p, "point")
  <2>1. new \in Handlers /\ new.pc = "point" /\ new.batch = proc[p].batch /\ new.lock = proc[p].lock
    BY <1>1 DEF Handlers
  <2>2. proc' = [proc EXCEPT ![p] = new]
    BY <1>3 DEF Goto
  <2> HIDE DEF new
  <2> QED
    BY <1>1, <2>1, <2>2, GoesOn, Typed
<1> QED
  BY <1>2, <1>3 DEF FindEvent

\* The point of an event is created.
LEMMA CreatePointKeeps ==
    ASSUME PollingAssumption, IInv, NEW p \in Participants, CreatePoint(p) PROVE IInv'
<1> DEFINE new == [proc[p] EXCEPT !.pc = "transit"]
<1>1. /\ proc[p].pc # "idle" /\ proc[p] \in Handlers
      /\ UNCHANGED <<status, booked, order, drivers, held, faults>>
  BY HandlerIs DEF CreatePoint
<1>2. CASE Leave(p, "abort")
  BY <1>1, <1>2, Leaves, Typed
<1>3. CASE Goto(p, "transit")
  <2>1. new \in Handlers /\ new.pc = "transit" /\ new.batch = proc[p].batch /\ new.lock = proc[p].lock
    BY <1>1 DEF Handlers
  <2>2. proc' = [proc EXCEPT ![p] = new]
    BY <1>3 DEF Goto
  <2> HIDE DEF new
  <2> QED
    BY <1>1, <2>1, <2>2, GoesOn, Typed
<1> QED
  BY <1>2, <1>3 DEF CreatePoint

\* A report moves the delivery.
LEMMA TransitionFromTrackingKeeps ==
    ASSUME PollingAssumption, IInv, NEW p \in Participants, TransitionFromTracking(p) PROVE IInv'
<1>1. /\ proc[p].pc # "idle" /\ Current(p) \in Delivery
      /\ UNCHANGED <<booked, drivers, held, faults>>
  BY HandlerIs DEF TransitionFromTracking
<1>2. \E pc \in {"release", "abort"} : Leave(p, pc)
  BY DEF TransitionFromTracking
<1>3. status' \in [Delivery -> DeliveryStatuses] /\ order' \in Orders
  <2>1. \/ TransitionStatus(Current(p), {"PICKED_UP"}, "IN_TRANSIT")
        \/ UNCHANGED <<status, order>>
    BY DEF TransitionFromTracking
  <2>2. "IN_TRANSIT" \in DeliveryStatuses /\ TypeOK
    BY DEF DeliveryStatuses, IInv
  <2> QED
    BY <1>1, <2>1, <2>2, TransitionKeeps, Typed
<1> QED
  BY <1>1, <1>2, <1>3, Leaves, Typed

\* A statement fails.
LEMMA PollingFailKeeps ==
    ASSUME PollingAssumption, IInv, NEW p \in Participants, Fail(p) PROVE IInv'
<1>1. /\ proc[p].pc # "idle" /\ Leave(p, "abort")
      /\ faults < MaxFaults /\ faults' = faults + 1
      /\ UNCHANGED <<status, booked, order, drivers, held>>
  BY DEF Fail, rows
<1> QED
  BY <1>1, Leaves, Typed
-----------------------------------------------------------------------------
(* The rows of a delivery's drivers.                                       *)

\* A participant takes no row into use for a delivery it is not at work on.
LEMMA OtherRows ==
    ASSUME PollingAssumption, IInv, NEW p \in Participants, NEW new \in Handlers,
           proc' = [proc EXCEPT ![p] = new], Head(new.batch) = Current(p),
           NEW d \in Delivery, d # Current(p), drivers'[d] = drivers[d]
    PROVE  Cardinality(InUse(d)') + Cardinality(Inserting(d)') <= N
<1>1. /\ proc'[p] = new
      /\ \A q \in Participants : q # p => proc'[q] = proc[q]
  BY DEF IInv, Participants
<1>2. ASSUME NEW q \in Participants, Head(proc'[q].batch) = d
      PROVE  q # p /\ proc'[q] = proc[q] /\ Head(proc[q].batch) = d
  BY <1>1, <1>2
<1>3. InUse(d)' \in SUBSET InUse(d) /\ Inserting(d)' \in SUBSET Inserting(d)
  BY <1>2 DEF InUse, Inserting, Participants, Current
<1>4. /\ Cardinality(InUse(d)') \in Nat /\ Cardinality(InUse(d)') <= Cardinality(InUse(d))
      /\ Cardinality(Inserting(d)') \in Nat
      /\ Cardinality(Inserting(d)') <= Cardinality(Inserting(d))
  BY <1>3, RowsInUse, PartsCounted
<1> QED
  BY <1>4, RowsInUse, Numbers

\* The lock of a participant stays its own when it stays with its delivery.
LEMMA LockStays ==
    ASSUME PollingAssumption, IInv, NEW p \in Participants, NEW new \in Handlers,
           proc[p].pc # "idle", new.pc \notin {"idle", "next"},
           new.batch = proc[p].batch, new.lock = proc[p].lock, UNCHANGED held
    PROVE  /\ new.batch # <<>> /\ Len(new.batch) <= BatchSize
           /\ p \in Instance /\ new.lock # "none" =>
                 /\ new.pc \notin {"idle", "next"}
                 /\ \E c \in Connection : [delivery |-> Head(new.batch), owner |-> <<p, c>>] \in held'
<1>1. proc[p].batch # <<>> /\ Len(proc[p].batch) <= BatchSize
  BY DEF IInv, TypeOK, Participants
<1>2. p \in Instance => HasLock(p)
  BY DEF IInv
<1> QED
  BY <1>1, <1>2 DEF HasLock, Current

\* A row that was found is in use already; when there is none, only those that write one
\* have rows in use, and each of them is not about to insert one.
LEMMA FindExistingKeeps ==
    ASSUME PollingAssumption, IInv, NEW p \in Participants, FindExisting(p) PROVE IInv'
<1>d. PICK d \in Delivery : d = Current(p)
  BY HandlerIs DEF FindExisting
<1>1. /\ proc[p].pc = "upsert" /\ proc[p] \in Handlers /\ d \in Delivery
      /\ UNCHANGED <<status, booked, order, drivers, points, held, faults>>
  BY HandlerIs DEF FindExisting, rows
<1>2. ASSUME NEW r \in drivers[d], proc' = [proc EXCEPT ![p].pc = "update", ![p].row = r]
      PROVE  IInv'
  <2> DEFINE new == [proc[p] EXCEPT !.pc = "update", !.row = r]
  <2>1. r \in 1 .. N /\ r \in InUse(d)
    BY <1>1, RowsInUse
  <2>2. r \in 0 .. Cardinality(Instance \cup Admin) /\ r # 0
    BY <2>1, Numbers DEF N, Participants
  <2>3. /\ proc' = [proc EXCEPT ![p] = new] /\ new \in Handlers /\ new.pc = "update"
        /\ new.batch = proc[p].batch /\ new.lock = proc[p].lock /\ new.row = r
    BY <1>1, <1>2, <2>2 DEF Handlers
  <2> HIDE DEF new
  <2>4. /\ proc'[p] = new
        /\ \A q \in Participants : q # p => proc'[q] = proc[q]
    BY <2>3 DEF IInv, Participants
  <2>5. InUse(d)' \in SUBSET InUse(d)
    <3> SUFFICES ASSUME NEW x \in InUse(d)', x \notin drivers'[d] PROVE x \in InUse(d)
      BY <1>1 DEF InUse
    <3>1. PICK q \in Participants : proc'[q].pc = "update" /\ Head(proc'[q].batch) = d /\ x = proc'[q].row
      BY DEF InUse, Participants, Current
    <3>2. CASE q = p
      BY <2>1, <2>3, <2>4, <3>1, <3>2
    <3>3. CASE q # p
      BY <2>4, <3>1, <3>3 DEF InUse, Participants, Current
    <3> QED
      BY <3>2, <3>3
  <2>6. Inserting(d)' \in SUBSET Inserting(d)
    <3>1. ASSUME NEW q \in Participants, proc'[q].pc = "insert" PROVE q # p /\ proc'[q] = proc[q]
      BY <2>3, <2>4, <3>1
    <3> QED
      BY <3>1 DEF Inserting, Participants, Current
  <2>7. /\ Cardinality(InUse(d)') \in Nat /\ Cardinality(InUse(d)') <= Cardinality(InUse(d))
        /\ Cardinality(Inserting(d)') \in Nat
        /\ Cardinality(Inserting(d)') <= Cardinality(Inserting(d))
    BY <1>1, <2>5, <2>6, RowsInUse, PartsCounted
  <2>8. Cardinality(InUse(d)') + Cardinality(Inserting(d)') <= N
    BY <1>1, <2>7, RowsInUse, Numbers
  <2>9. Head(new.batch) = Current(p)
    BY <2>3 DEF Current
  <2>10. \A e \in Delivery : Cardinality(InUse(e)') + Cardinality(Inserting(e)') <= N
    BY <1>d, <1>1, <2>3, <2>8, <2>9, OtherRows
  <2>11. /\ new.batch # <<>> /\ Len(new.batch) <= BatchSize
         /\ p \in Instance /\ new.lock # "none" =>
               /\ new.pc \notin {"idle", "next"}
               /\ \E c \in Connection : [delivery |-> Head(new.batch), owner |-> <<p, c>>] \in held'
    BY <1>1, <2>3, LockStays
  <2> QED
    BY <1>1, <2>2, <2>3, <2>10, <2>11, Typed, Moves
<1>3. ASSUME drivers[d] = {}, Goto(p, "insert") PROVE IInv'
  <2> DEFINE new == [proc[p] EXCEPT !.pc = "insert"]
             writers == {q \in Participants : proc'[q].pc = "update" /\ Head(proc'[q].batch) = d}
  <2>1. /\ proc' = [proc EXCEPT ![p] = new] /\ new \in Handlers /\ new.pc = "insert"
        /\ new.batch = proc[p].batch /\ new.lock = proc[p].lock
    BY <1>1, <1>3 DEF Handlers, Goto
  <2> HIDE DEF new
  <2>2. drivers'[d] = {}
    BY <1>1, <1>3
  <2>3. InUse(d)' = {proc'[q].row : q \in writers}
    BY <2>2 DEF InUse, Participants, Current
  <2>4. writers \in SUBSET Participants /\ Inserting(d)' \in SUBSET Participants
        /\ writers \cap Inserting(d)' = {}
    BY DEF Inserting, Participants
  <2>5. IsFiniteSet(writers) /\ IsFiniteSet(Inserting(d)')
        /\ IsFiniteSet(writers \cup Inserting(d)')
        /\ Cardinality(writers \cup Inserting(d)') <= N
        /\ Cardinality(writers) \in Nat /\ Cardinality(Inserting(d)') \in Nat
        /\ Cardinality(writers \cup Inserting(d)') \in Nat
    <3> HIDE DEF writers
    <3>1. writers \cup Inserting(d)' \in SUBSET Participants
      BY <2>4
    <3> QED
      BY <2>4, <3>1, Numbers, PartsCounted DEF N
  <2>6. Cardinality(writers) + Cardinality(Inserting(d)') <= N
    <3> HIDE DEF writers
    <3>1. Cardinality(writers \cup Inserting(d)')
            = Cardinality(writers) + Cardinality(Inserting(d)') - Cardinality(writers \cap Inserting(d)')
      BY <2>5, FS_Union
    <3>2. Cardinality(writers \cap Inserting(d)') = 0
      BY <2>4, FS_EmptySet
    <3> QED
      BY <2>5, <3>1, <3>2
  <2>7. IsFiniteSet(InUse(d)') /\ Cardinality(InUse(d)') <= Cardinality(writers)
    <3> DEFINE f == [q \in writers |-> proc'[q].row]
    <3>1. f \in Surjection(writers, InUse(d)')
      BY <2>3 DEF Surjection
    <3> HIDE DEF writers, f
    <3> QED
      BY <2>5, <3>1, FS_Surjection
  <2>8. Cardinality(InUse(d)') + Cardinality(Inserting(d)') <= N
    <3> HIDE DEF writers
    <3>1. Cardinality(InUse(d)') \in Nat
      BY <2>7, FS_CardinalityType
    <3> QED
      BY <2>5, <2>6, <2>7, <3>1, Numbers
  <2>9. Head(new.batch) = Current(p)
    BY <2>1 DEF Current
  <2>10. \A e \in Delivery : Cardinality(InUse(e)') + Cardinality(Inserting(e)') <= N
    BY <1>d, <1>1, <2>1, <2>8, <2>9, OtherRows
  <2>11. /\ new.batch # <<>> /\ Len(new.batch) <= BatchSize
         /\ p \in Instance /\ new.lock # "none" =>
               /\ new.pc \notin {"idle", "next"}
               /\ \E c \in Connection : [delivery |-> Head(new.batch), owner |-> <<p, c>>] \in held'
    BY <1>1, <2>1, LockStays
  <2>12. new.pc # "update"
    BY <2>1
  <2> QED
    BY <1>1, <2>1, <2>10, <2>11, <2>12, Typed, Moves
<1>4. \/ \E r \in drivers[d] : proc' = [proc EXCEPT ![p].pc = "update", ![p].row = r]
      \/ drivers[d] = {} /\ Goto(p, "insert")
  BY <1>d DEF FindExisting
<1> QED
  BY <1>2, <1>3, <1>4

\* A row is written, or inserted with a number of its own.
LEMMA UpsertDriverKeeps ==
    ASSUME PollingAssumption, IInv, NEW p \in Participants, UpsertDriver(p) PROVE IInv'
<1>d. PICK d \in Delivery : d = Current(p)
  BY HandlerIs DEF UpsertDriver
<1> DEFINE row == IF proc[p].pc = "update" THEN proc[p].row ELSE NewRow(d)
           assigned == proc[p].report.driver \/ proc[p].found
           next == IF proc[p].report.driver /\ proc[p].from \in {"BOOKED", "DRIVER_ASSIGNED"}
                   THEN "assign" ELSE "reread"
           new == [proc[p] EXCEPT !.row = 0, !.pc = next]
<1>1. /\ proc[p].pc \in {"update", "insert"} /\ proc[p] \in Handlers /\ d \in Delivery
      /\ UNCHANGED <<status, booked, order, points, held, faults>>
      /\ p \in Participants
  BY HandlerIs DEF UpsertDriver
<1>2. /\ drivers' = [drivers EXCEPT ![d] = IF assigned THEN @ \cup {row} ELSE @ \ {row}]
      /\ proc' = [proc EXCEPT ![p] = new]
  BY <1>d DEF UpsertDriver
<1>3. /\ new \in Handlers /\ new.pc = next /\ next \in {"assign", "reread"}
      /\ new.batch = proc[p].batch /\ new.lock = proc[p].lock
  <2>1. 0 \in 0 .. Cardinality(Instance \cup Admin)
    BY Numbers DEF N, Participants
  <2>2. next \in {"assign", "reread"}
    OBVIOUS
  <2> HIDE DEF next
  <2> QED
    BY <1>1, <2>1, <2>2 DEF Handlers
<1>4. row \in 1 .. N /\ (proc[p].pc = "update" => row \in InUse(d))
  <2>1. CASE proc[p].pc = "update"
    <3>1. row = proc[p].row
      BY <2>1
    <3>2. row \in InUse(d)
      BY <1>d, <2>1, <3>1 DEF InUse, Participants
    <3> QED
      BY <1>1, <3>2, RowsInUse
  <2>2. CASE proc[p].pc = "insert"
    <3>1. p \in Inserting(d)
      BY <1>d, <2>2 DEF Inserting, Participants
    <3>2. NewRow(d) \in 1 .. N
      BY <1>1, <3>1, RowIsNew
    <3> QED
      BY <2>2, <3>2
  <2> QED
    BY <1>1, <2>1, <2>2
<1>5. /\ drivers' \in [Delivery -> SUBSET (1 .. N)] /\ drivers'[d] \subseteq drivers[d] \cup {row}
      /\ \A e \in Delivery : e # d => drivers'[e] = drivers[e]
  <2> HIDE DEF row, assigned
  <2>1. drivers \in [Delivery -> SUBSET (1 .. N)]
    BY Typed
  <2> QED
    BY <1>1, <1>2, <1>4, <2>1
<1> HIDE DEF new, next
<1>6. /\ proc'[p] = new
      /\ \A q \in Participants : q # p => proc'[q] = proc[q]
  BY <1>2 DEF IInv, Participants
<1>7. InUse(d)' \in SUBSET (InUse(d) \cup {row}) /\ Inserting(d)' \in SUBSET (Inserting(d) \ {p})
  <2> HIDE DEF row
  <2>1. ASSUME NEW q \in Participants, proc'[q].pc \in {"update", "insert"}
        PROVE  q # p /\ proc'[q] = proc[q]
    BY <1>3, <1>6, <2>1
  <2> QED
    BY <1>5, <2>1 DEF InUse, Inserting, Participants, Current
<1>8. Cardinality(InUse(d)') + Cardinality(Inserting(d)') <= N
  <2> HIDE DEF row
  <2>1. /\ InUse(d) \in SUBSET (1 .. N) /\ IsFiniteSet(InUse(d)) /\ Cardinality(InUse(d)) \in Nat
        /\ IsFiniteSet(Inserting(d)) /\ Cardinality(Inserting(d)) \in Nat
        /\ Cardinality(InUse(d)) + Cardinality(Inserting(d)) <= N
    BY <1>1, RowsInUse
  <2>2. CASE proc[p].pc = "update"
    <3>1. InUse(d)' \in SUBSET InUse(d) /\ Inserting(d)' \in SUBSET Inserting(d)
      BY <1>4, <1>7, <2>2
    <3>2. /\ Cardinality(InUse(d)') \in Nat /\ Cardinality(InUse(d)') <= Cardinality(InUse(d))
          /\ Cardinality(Inserting(d)') \in Nat
          /\ Cardinality(Inserting(d)') <= Cardinality(Inserting(d))
      BY <2>1, <3>1, PartsCounted
    <3> QED
      BY <2>1, <3>2, Numbers
  <2>3. CASE proc[p].pc = "insert"
    <3>1. p \in Inserting(d)
      BY <1>d, <2>3 DEF Inserting, Participants
    <3>2. /\ Cardinality(Inserting(d) \ {p}) = Cardinality(Inserting(d)) - 1
          /\ IsFiniteSet(Inserting(d) \ {p})
      BY <2>1, <3>1, FS_RemoveElement
    <3>3. /\ Cardinality(Inserting(d)') \in Nat
          /\ Cardinality(Inserting(d)') <= Cardinality(Inserting(d)) - 1
      BY <1>7, <3>2, PartsCounted
    <3>4. /\ IsFiniteSet(InUse(d) \cup {row})
          /\ Cardinality(InUse(d) \cup {row}) <= Cardinality(InUse(d)) + 1
      <4>1. /\ IsFiniteSet(InUse(d) \cup {row})
            /\ Cardinality(InUse(d) \cup {row}) =
                 IF row \in InUse(d) THEN Cardinality(InUse(d)) ELSE Cardinality(InUse(d)) + 1
        BY <2>1, FS_AddElement
      <4> QED
        BY <2>1, <4>1
    <3>5. /\ Cardinality(InUse(d)') \in Nat /\ Cardinality(InUse(d) \cup {row}) \in Nat
          /\ Cardinality(InUse(d)') <= Cardinality(InUse(d) \cup {row})
      BY <1>7, <3>4, PartsCounted
    <3> QED
      BY <2>1, <3>3, <3>4, <3>5, Numbers
  <2> QED
    BY <1>1, <2>2, <2>3
<1>9. Head(new.batch) = Current(p)
  BY <1>3 DEF Current
<1>10. \A e \in Delivery : Cardinality(InUse(e)') + Cardinality(Inserting(e)') <= N
  BY <1>d, <1>1, <1>2, <1>3, <1>5, <1>8, <1>9, OtherRows
<1>11. new.pc \notin {"idle", "next", "update"}
  BY <1>3
<1>12. /\ new.batch # <<>> /\ Len(new.batch) <= BatchSize
       /\ p \in Instance /\ new.lock # "none" =>
             /\ new.pc \notin {"idle", "next"}
             /\ \E c \in Connection : [delivery |-> Head(new.batch), owner |-> <<p, c>>] \in held'
  BY <1>1, <1>3, <1>11, LockStays
<1> HIDE DEF row, assigned
<1> QED
  BY <1>1, <1>2, <1>3, <1>5, <1>10, <1>11, <1>12, Typed, Moves
-----------------------------------------------------------------------------
(* Every step.                                                             *)

\* What leaves the participants, the rows and the locks alone.
LEMMA AloneKeeps ==
    ASSUME PollingAssumption, IInv, UNCHANGED <<drivers, held, proc>>,
           status' \in [Delivery -> DeliveryStatuses], booked' \subseteq Delivery, order' \in Orders,
           faults' \in 0 .. MaxFaults
    PROVE  IInv'
<1>1. TypeOK'
  BY DEF IInv, TypeOK
<1>2. \A i \in Instance : HasLock(i)'
  BY DEF IInv, HasLock, Current
<1>3. ASSUME NEW d \in Delivery PROVE InUse(d)' = InUse(d) /\ Inserting(d)' = Inserting(d)
  BY DEF InUse, Inserting, Current
<1>4. \A d \in Delivery : Cardinality(InUse(d)') + Cardinality(Inserting(d)')
                            <= Cardinality(Instance \cup Admin)
  BY <1>3 DEF IInv
<1> QED
  BY <1>1, <1>2, <1>4 DEF IInv

\* The rest of the system moves a delivery on or cancels it.
LEMMA OperateKeeps ==
    ASSUME PollingAssumption, IInv, NEW d \in Delivery, Operate(d) PROVE IInv'
<1>1. PICK to \in DeliveryStatuses : TransitionStatus(d, {status[d]}, to)
  BY DEF Operate, DeliveryStatuses
<1>2. status' \in [Delivery -> DeliveryStatuses] /\ order' \in Orders
  BY <1>1, TransitionKeeps DEF IInv
<1>3. /\ UNCHANGED <<drivers, held, proc, faults>>
      /\ booked' \subseteq booked
  BY DEF Operate
<1> QED
  BY <1>2, <1>3, Typed, AloneKeeps

\* The steps of a refresh.
LEMMA RefreshKeeps ==
    ASSUME PollingAssumption, IInv, NEW p \in Participants, Refresh(p) PROVE IInv'
  BY ReadDeliveryKeeps, GetTrackingKeeps, FindDriverKeeps, FindExistingKeeps, UpsertDriverKeeps,
     AssignDriverKeeps, RereadDeliveryKeeps, FindEventKeeps, CreatePointKeeps,
     TransitionFromTrackingKeeps
     DEF Refresh

\* The invariant holds at the start.
LEMMA PollingInit ==
    ASSUME PollingAssumption, Init PROVE IInv
<1>1. proc \in [Participants -> Handlers] /\ \A p \in Participants : proc[p] = Idle
  BY IdleIs DEF Init, Participants
<1>2. TypeOK
  <2>1. status \in [Delivery -> DeliveryStatuses] /\ order \in Orders
    BY OrdersExist DEF Init, PollingAssumption
  <2>2. 0 \in 0 .. MaxFaults
    BY Numbers
  <2>3. \A p \in Participants : proc[p].pc = "idle"
    BY <1>1 DEF Idle
  <2> QED
    BY <2>1, <2>2, <2>3 DEF Init, TypeOK, Participants
<1>3. \A i \in Instance : HasLock(i)
  BY <1>1 DEF HasLock, Idle, Participants
<1>4. ASSUME NEW d \in Delivery
      PROVE  Cardinality(InUse(d)) + Cardinality(Inserting(d)) <= Cardinality(Participants)
  <2>1. InUse(d) = {} /\ Inserting(d) = {}
    BY <1>1 DEF Init, InUse, Inserting, Idle, Participants
  <2> QED
    BY <2>1, FS_EmptySet, Numbers DEF N
<1>5. \A p \in Participants : proc[p].pc # "update"
  BY <1>1 DEF Idle
<1>6. held = {}
  BY DEF Init
<1> QED
  BY <1>1, <1>2, <1>3, <1>4, <1>5, <1>6 DEF IInv, Participants

\* It is inductive: whoever polls, asks, fails or dies, a lock is held once, an instance
\* that believes to have one has it, and the rows of a delivery stay counted.
THEOREM PollingInductive ==
    ASSUME PollingAssumption
    PROVE  (Init => IInv) /\ (IInv /\ [Next]_vars => IInv')
<1>1. ASSUME IInv, [Next]_vars PROVE IInv'
  <2>1. ASSUME NEW i \in Instance, StartCycle(i) \/ Poll(i) \/ Fail(i) \/ Crash(i) PROVE IInv'
    <3>1. i \in Participants
      BY DEF Participants
    <3> QED
      BY <1>1, <2>1, <3>1, StartCycleKeeps, TryAcquireKeeps, ReleaseKeeps, RefreshKeeps,
         PollingFailKeeps, PollingCrashKeeps DEF Poll
  <2>2. ASSUME NEW a \in Admin, NEW d \in Delivery, AdminRefresh(a, d) PROVE IInv'
    BY <1>1, <2>2, AdminRefreshKeeps
  <2>3. ASSUME NEW a \in Admin, Refresh(a) \/ Fail(a) PROVE IInv'
    <3>1. a \in Participants
      BY DEF Participants
    <3> QED
      BY <1>1, <2>3, <3>1, RefreshKeeps, PollingFailKeeps
  <2>4. ASSUME NEW d \in Delivery, Operate(d) PROVE IInv'
    BY <1>1, <2>4, OperateKeeps
  <2>5. CASE UNCHANGED vars
    BY <1>1, <2>5, Typed, AloneKeeps DEF vars
  <2> QED
    BY <1>1, <2>1, <2>2, <2>3, <2>4, <2>5 DEF Next
<1> QED
  BY <1>1, PollingInit

\* Two instances that both have the lock of their delivery are at work on two deliveries:
\* a lock is held once, and names the instance.
THEOREM PollsHaveOneHolder ==
    ASSUME PollingAssumption, IInv PROVE TypeOK /\ NoConcurrentPolls
<1>1. ASSUME NEW i \in Instance, NEW j \in Instance, i # j,
             proc[i].lock # "none", proc[j].lock # "none", Current(i) = Current(j)
      PROVE  FALSE
  <2>1. PICK c \in Connection : [delivery |-> Current(i), owner |-> <<i, c>>] \in held
    BY <1>1 DEF IInv, HasLock
  <2>2. PICK k \in Connection : [delivery |-> Current(j), owner |-> <<j, k>>] \in held
    BY <1>1 DEF IInv, HasLock
  <2> DEFINE g == [delivery |-> Current(i), owner |-> <<i, c>>]
             h == [delivery |-> Current(j), owner |-> <<j, k>>]
  <2>3. g.delivery = Current(i) /\ h.delivery = Current(j) /\ g.owner = <<i, c>> /\ h.owner = <<j, k>>
    OBVIOUS
  <2>4. g \in held /\ h \in held
    BY <2>1, <2>2
  <2> HIDE DEF g, h
  <2>5. g = h
    BY <1>1, <2>3, <2>4 DEF IInv
  <2> QED
    BY <1>1, <2>3, <2>5
<1> QED
  BY <1>1 DEF NoConcurrentPolls, IInv

\* A delivery moves along its table, whatever status a poll or a refresh started from: a
\* report assigns a driver or moves to IN_TRANSIT where the table does.
THEOREM PollingFollowsTable ==
    ASSUME PollingAssumption, IInv, [Next]_vars
    PROVE  \A d \in DOMAIN status : CanTransitionDelivery(status[d], status'[d])
<1>1. DOMAIN status = Delivery
  BY DEF IInv, TypeOK
<1>2. ASSUME UNCHANGED status
      PROVE  \A d \in Delivery : CanTransitionDelivery(status[d], status'[d])
  BY <1>2 DEF CanTransitionDelivery
<1>3. ASSUME NEW p \in Delivery, NEW expected, NEW to \in DeliveryStatuses,
             TransitionStatus(p, expected, to),
             \A from \in expected : CanTransitionDelivery(from, to)
      PROVE  \A d \in Delivery : CanTransitionDelivery(status[d], status'[d])
  <2>1. TypeOK
    BY DEF IInv
  <2>2. \/ UNCHANGED status
        \/ status[p] \in expected /\ status' = [status EXCEPT ![p] = to]
    BY <1>3, <2>1, TransitionKeeps
  <2>3. \A d \in Delivery : status'[d] = status[d] \/ CanTransitionDelivery(status[d], status'[d])
    BY <1>3, <2>2, Typed
  <2> QED
    BY <2>3 DEF CanTransitionDelivery
<1>4. ASSUME NEW p \in Participants, Refresh(p)
      PROVE  \A d \in Delivery : CanTransitionDelivery(status[d], status'[d])
  <2>1. CASE AssignDriver(p)
    <3>1. Current(p) \in Delivery
      BY <2>1, HandlerIs DEF AssignDriver
    <3>2. "DRIVER_ASSIGNED" \in DeliveryStatuses
      BY DEF DeliveryStatuses
    <3>3. \A from \in {"BOOKED", "DRIVER_ASSIGNED"} : CanTransitionDelivery(from, "DRIVER_ASSIGNED")
      BY DEF CanTransitionDelivery, AllowedTransitions, TerminalStatuses
    <3>4. TransitionStatus(Current(p), {"BOOKED", "DRIVER_ASSIGNED"}, "DRIVER_ASSIGNED")
      BY <2>1 DEF AssignDriver
    <3> QED
      BY <1>3, <3>1, <3>2, <3>3, <3>4
  <2>2. CASE TransitionFromTracking(p)
    <3>1. Current(p) \in Delivery
      BY <2>2, HandlerIs DEF TransitionFromTracking
    <3>2. "IN_TRANSIT" \in DeliveryStatuses
      BY DEF DeliveryStatuses
    <3>3. \A from \in {"PICKED_UP"} : CanTransitionDelivery(from, "IN_TRANSIT")
      BY DEF CanTransitionDelivery, AllowedTransitions, TerminalStatuses
    <3>4. \/ TransitionStatus(Current(p), {"PICKED_UP"}, "IN_TRANSIT")
          \/ UNCHANGED status
      BY <2>2 DEF TransitionFromTracking
    <3> QED
      BY <1>2, <1>3, <3>1, <3>2, <3>3, <3>4
  <2> QED
    BY <1>2, <1>4, <2>1, <2>2
       DEF Refresh, ReadDelivery, GetTracking, FindDriver, FindExisting, UpsertDriver,
           RereadDelivery, FindEvent, CreatePoint, rows
<1>5. ASSUME NEW d \in Delivery, Operate(d)
      PROVE  \A e \in Delivery : CanTransitionDelivery(status[e], status'[e])
  <2>1. \E to \in DeliveryStatuses : /\ TransitionStatus(d, {status[d]}, to)
                                     /\ CanTransitionDelivery(status[d], to)
    <3>1. CASE status[d] \in CancellableStatuses /\ TransitionStatus(d, {status[d]}, "CANCELLED")
      <4>1. CanTransitionDelivery(status[d], "CANCELLED")
        BY <3>1 DEF CanTransitionDelivery, AllowedTransitions, TerminalStatuses, CancellableStatuses
      <4> QED
        BY <3>1, <4>1 DEF DeliveryStatuses
    <3>2. CASE \E to \in {"PICKUP_OTP_PENDING", "PICKED_UP", "DELIVERY_OTP_PENDING", "DELIVERED"} :
                  /\ <<status[d], to>> \in AllowedTransitions
                  /\ TransitionStatus(d, {status[d]}, to)
      <4>1. PICK to \in {"PICKUP_OTP_PENDING", "PICKED_UP", "DELIVERY_OTP_PENDING", "DELIVERED"} :
                /\ <<status[d], to>> \in AllowedTransitions
                /\ TransitionStatus(d, {status[d]}, to)
        BY <3>2
      <4>2. status[d] \notin TerminalStatuses
        BY <4>1 DEF AllowedTransitions, TerminalStatuses
      <4> QED
        BY <4>1, <4>2 DEF CanTransitionDelivery, DeliveryStatuses
    <3> QED
      BY <1>5, <3>1, <3>2 DEF Operate
  <2>2. PICK to \in DeliveryStatuses : /\ TransitionStatus(d, {status[d]}, to)
                                       /\ CanTransitionDelivery(status[d], to)
    BY <2>1
  <2>3. \A from \in {status[d]} : CanTransitionDelivery(from, to)
    BY <2>2
  <2> QED
    BY <1>3, <2>2, <2>3
<1>6. CASE Next
  <2>1. ASSUME NEW i \in Instance, StartCycle(i) \/ Poll(i) \/ Fail(i) \/ Crash(i)
        PROVE  \A d \in Delivery : CanTransitionDelivery(status[d], status'[d])
    <3>1. CASE Refresh(i)
      BY <1>4, <3>1 DEF Participants
    <3>2. CASE ~Refresh(i)
      BY <1>2, <2>1, <3>2 DEF Poll, StartCycle, TryAcquire, Release, Fail, Crash, rows
    <3> QED
      BY <3>1, <3>2
  <2>2. ASSUME NEW a \in Admin, \/ \E d \in Delivery : AdminRefresh(a, d)
                                \/ Refresh(a) \/ Fail(a)
        PROVE  \A d \in Delivery : CanTransitionDelivery(status[d], status'[d])
    <3>1. CASE Refresh(a)
      BY <1>4, <3>1 DEF Participants
    <3>2. CASE ~Refresh(a)
      BY <1>2, <2>2, <3>2 DEF AdminRefresh, Fail, rows
    <3> QED
      BY <3>1, <3>2
  <2> QED
    BY <1>1, <1>5, <1>6, <2>1, <2>2 DEF Next
<1>7. CASE UNCHANGED vars
  BY <1>1, <1>2, <1>7 DEF vars
<1> QED
  BY <1>1, <1>6, <1>7
=============================================================================

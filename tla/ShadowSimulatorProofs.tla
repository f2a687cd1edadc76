----------------------- MODULE ShadowSimulatorProofs -----------------------
(***************************************************************************)
(* Theorems about the shadow simulator, for every feed, book, latency, risk  *)
(* limit and queue model, and for any number of symbols unless one is asked  *)
(* for.                                                                      *)
(***************************************************************************)
EXTENDS ShadowSimulator, QueueLemmas

----------------------------------------------------------------------------
(* Orders and the agenda of local events *)

Tracked == UNION {[refs -> Quantity] : refs \in SUBSET OrderReference}
ShadowOrder ==
  [symbol : Symbol, side : Side, limit : Price, original : {config.quantity},
   remaining : 0..config.quantity, state : Terminal \cup is_open_state, active_at : Nat,
   ahead : Tracked, joined : Nat]

Phases == {"MarketHours", "MarketHoursEnded"}
Market ==
  [symbol : Symbol, exchange_timestamp : Nat, session_phase : Phases,
   trading_state : {"T", "H"}, bids : SUBSET Price, asks : SUBSET Price]

Confirmations == {"Activate", "CancelConfirm", "ReplaceConfirm"}
Instant ==
  [timestamp : Nat, factual_sequence : Nat,
   kind : {"Observation", "Decision"} \cup Confirmations]
LocalEvent ==
  [at : Instant, market : Market] \cup [at : Instant, order_id : Nat]
    \cup [at : Instant, order_id : Nat, price : Price]

Confirms(e) == e.at.kind \in Confirmations

\* The confirmation that an order of this state waits for.
Awaited(state) ==
  IF state = "PendingAck" THEN "Activate"
  ELSE IF state = "PendingCancel" THEN "CancelConfirm"
  ELSE IF state = "PendingReplace" THEN "ReplaceConfirm" ELSE "none"

EventOK(e, n) ==
  /\ ~Confirms(e) => e.market \in Market
  /\ Confirms(e) => e.order_id \in 1..n
  /\ e.at.kind = "ReplaceConfirm" => e.price \in Price

OnePerSide(ords) ==
  \A id, other \in OpenIds(ords) :
    ords[id].symbol = ords[other].symbol /\ ords[id].side = ords[other].side => id = other

\* A confirmation for an open order is the one it waits for, and the only one; an order
\* that waits has one.
Confirmed(ords, sched) ==
  /\ \A i \in 1..Len(sched) : Confirms(sched[i]) /\ IsOpen(ords[sched[i].order_id]) =>
       sched[i].at.kind = Awaited(ords[sched[i].order_id].state)
  /\ \A i, j \in 1..Len(sched) :
       /\ Confirms(sched[i]) /\ Confirms(sched[j]) /\ sched[i].order_id = sched[j].order_id
       /\ IsOpen(ords[sched[i].order_id])
       => i = j
  /\ \A id \in 1..Len(ords) : IsOpen(ords[id]) /\ Awaited(ords[id].state) # "none" =>
       \E i \in 1..Len(sched) : Confirms(sched[i]) /\ sched[i].order_id = id

Settled(ords, sched) ==
  /\ ords \in Seq(ShadowOrder) /\ sched \in Seq(LocalEvent)
  /\ \A i \in 1..Len(sched) : EventOK(sched[i], Len(ords))
  /\ OnePerSide(ords)
  /\ Confirmed(ords, sched)

----------------------------------------------------------------------------
(* How orders and agenda change *)

\* What may become of an order when it is not asked for anything new.
Ages(old, new) ==
  /\ new.symbol = old.symbol /\ new.side = old.side
  /\ IsOpen(new) => IsOpen(old)

\* Some orders end or move on; none waits for something else than before, unless it is
\* order done, which waits for nothing any more.
Age(ords, ords2, done) ==
  /\ ords2 \in Seq(ShadowOrder) /\ Len(ords2) = Len(ords)
  /\ \A id \in 1..Len(ords) :
       /\ Ages(ords[id], ords2[id])
       /\ IsOpen(ords2[id]) =>
            IF id = done THEN Awaited(ords2[id].state) = "none"
            ELSE Awaited(ords2[id].state) = Awaited(ords[id].state)

LEMMA OrderTypes ==
  ASSUME NEW ords \in Seq(ShadowOrder)
  PROVE  /\ Len(ords) \in Nat /\ DOMAIN ords = 1..Len(ords)
         /\ \A id \in 1..Len(ords) : ords[id] \in ShadowOrder
         /\ OpenIds(ords) \subseteq 1..Len(ords)
         /\ \A id \in 1..Len(ords) : id \in OpenIds(ords) <=> IsOpen(ords[id])
         /\ IsFiniteSet(OpenIds(ords))
<1>1. /\ Len(ords) \in Nat /\ DOMAIN ords = 1..Len(ords)
      /\ \A id \in 1..Len(ords) : ords[id] \in ShadowOrder
  BY LenProperties, ElementOfSeq
<1>2. OpenIds(ords) \in SUBSET (1..Len(ords))
  BY <1>1 DEF OpenIds
<1>3. IsFiniteSet(1..Len(ords))
  BY <1>1, FS_Interval
<1>4. IsFiniteSet(OpenIds(ords))
  BY <1>2, <1>3, FS_Subset
<1> QED BY <1>1, <1>2, <1>4 DEF OpenIds

LEMMA AgedOnePerSide ==
  ASSUME NEW ords \in Seq(ShadowOrder), OnePerSide(ords), NEW ords2, NEW done,
         Age(ords, ords2, done)
  PROVE  OnePerSide(ords2) /\ OpenIds(ords2) \subseteq OpenIds(ords)
<1>1. ords2 \in Seq(ShadowOrder) /\ Len(ords2) = Len(ords)
  BY DEF Age
<1>2. \A id \in OpenIds(ords2) :
        /\ id \in OpenIds(ords)
        /\ ords2[id].symbol = ords[id].symbol /\ ords2[id].side = ords[id].side
  BY <1>1, OrderTypes DEF Age, Ages
<1> QED BY <1>2 DEF OnePerSide

\* A message, a stop or the close: no event is taken.
LEMMA AgedSettled ==
  ASSUME NEW ords, NEW sched, Settled(ords, sched), NEW ords2, Age(ords, ords2, 0)
  PROVE  Settled(ords2, sched)
<1>1. /\ ords \in Seq(ShadowOrder) /\ sched \in Seq(LocalEvent) /\ OnePerSide(ords)
      /\ ords2 \in Seq(ShadowOrder) /\ Len(ords2) = Len(ords) /\ Len(ords) \in Nat
      /\ \A i \in 1..Len(sched) : EventOK(sched[i], Len(ords))
  BY LenProperties DEF Settled, Age
<1>2. \A id \in 1..Len(ords) : IsOpen(ords2[id]) =>
        IsOpen(ords[id]) /\ Awaited(ords2[id].state) = Awaited(ords[id].state)
  BY <1>1 DEF Age, Ages
<1>3. \A i \in 1..Len(sched) : Confirms(sched[i]) => sched[i].order_id \in 1..Len(ords)
  BY <1>1 DEF EventOK
<1>4. Confirmed(ords2, sched)
  BY <1>1, <1>2, <1>3 DEF Settled, Confirmed
<1> QED BY <1>1, <1>4, AgedOnePerSide DEF Settled

\* The order a taken event is about, if any.
Subject(e) == IF Confirms(e) THEN e.order_id ELSE 0

\* An event is taken from the agenda and what it confirms is over.
LEMMA TakenSettled ==
  ASSUME NEW ords, NEW sched, Settled(ords, sched), NEW k \in 1..Len(sched), NEW ords2,
         Age(ords, ords2, Subject(sched[k]))
  PROVE  Settled(ords2, RemoveAt(sched, k))
<1> DEFINE rest == RemoveAt(sched, k)
           n == Len(ords)
           m == Len(sched)
           from(i) == IF i < k THEN i ELSE i + 1
<1>1. /\ ords \in Seq(ShadowOrder) /\ sched \in Seq(LocalEvent) /\ OnePerSide(ords)
      /\ ords2 \in Seq(ShadowOrder) /\ Len(ords2) = n /\ n \in Nat /\ m \in Nat
      /\ \A i \in 1..m : EventOK(sched[i], n)
  BY LenProperties DEF Settled, Age
<1>2. /\ rest \in Seq(LocalEvent) /\ Len(rest) = m - 1
      /\ \A i \in 1..(m - 1) : rest[i] = IF i < k THEN sched[i] ELSE sched[i + 1]
  BY <1>1, RemoveAtProperties
<1> HIDE DEF rest
<1>3. \A i \in 1..(m - 1) : from(i) \in 1..m /\ from(i) # k /\ rest[i] = sched[from(i)]
  BY <1>1, <1>2
<1>4. \A i, j \in 1..(m - 1) : from(i) = from(j) => i = j
  BY <1>1
<1>5. \A i \in 1..m : i # k => \E j \in 1..(m - 1) : from(j) = i
  <2> SUFFICES ASSUME NEW i \in 1..m, i # k PROVE \E j \in 1..(m - 1) : from(j) = i
    OBVIOUS
  <2>1. CASE i < k
    BY <1>1, <2>1
  <2>2. CASE i > k
    <3>1. i - 1 \in 1..(m - 1) /\ from(i - 1) = i
      BY <1>1, <2>2
    <3> QED BY <3>1
  <2> QED BY <1>1, <2>1, <2>2
<1> HIDE DEF from
<1>6. \A i \in 1..m : Confirms(sched[i]) => sched[i].order_id \in 1..n
  BY <1>1 DEF EventOK
<1>7. \A id \in 1..n : IsOpen(ords2[id]) =>
        /\ IsOpen(ords[id])
        /\ IF id = Subject(sched[k]) THEN Awaited(ords2[id].state) = "none"
           ELSE Awaited(ords2[id].state) = Awaited(ords[id].state)
  BY <1>1 DEF Age, Ages
<1>8. \A i \in 1..m : \A j \in 1..m :
        (/\ Confirms(sched[i]) /\ Confirms(sched[j]) /\ sched[i].order_id = sched[j].order_id
         /\ IsOpen(ords[sched[i].order_id])) => i = j
  BY DEF Settled, Confirmed
<1>9. ASSUME NEW i \in 1..(m - 1), Confirms(rest[i]), IsOpen(ords2[rest[i].order_id])
      PROVE  rest[i].at.kind = Awaited(ords2[rest[i].order_id].state)
  <2> DEFINE id == rest[i].order_id
             o == from(i)
  <2>1. o \in 1..m /\ o # k /\ rest[i] = sched[o]
    BY <1>3
  <2> HIDE DEF o
  <2>2. id \in 1..n /\ IsOpen(ords[id]) /\ Confirms(sched[o])
    BY <1>6, <1>7, <1>9, <2>1
  <2>3. id # Subject(sched[k])
    BY <1>1, <1>8, <2>1, <2>2 DEF Subject
  <2>4. sched[o].at.kind = Awaited(ords[id].state)
    BY <2>1, <2>2 DEF Settled, Confirmed
  <2> QED BY <1>7, <1>9, <2>1, <2>2, <2>3, <2>4
<1>10. ASSUME NEW i \in 1..(m - 1), NEW j \in 1..(m - 1), Confirms(rest[i]), Confirms(rest[j]),
              rest[i].order_id = rest[j].order_id, IsOpen(ords2[rest[i].order_id])
       PROVE  i = j
  <2>1. from(i) \in 1..m /\ from(j) \in 1..m /\ rest[i] = sched[from(i)] /\ rest[j] = sched[from(j)]
    BY <1>3
  <2>2. IsOpen(ords[rest[i].order_id])
    BY <1>6, <1>7, <1>10, <2>1
  <2>3. from(i) = from(j)
    BY <1>8, <1>10, <2>1, <2>2
  <2> QED BY <1>4, <2>3
<1>11. ASSUME NEW id \in 1..n, IsOpen(ords2[id]), Awaited(ords2[id].state) # "none"
       PROVE  \E i \in 1..(m - 1) : Confirms(rest[i]) /\ rest[i].order_id = id
  <2>1. IsOpen(ords[id]) /\ Awaited(ords[id].state) # "none" /\ id # Subject(sched[k])
    BY <1>7, <1>11
  <2>2. PICK i \in 1..m : Confirms(sched[i]) /\ sched[i].order_id = id
    BY <1>1, <2>1 DEF Settled, Confirmed
  <2>3. i # k
    BY <2>1, <2>2 DEF Subject
  <2>4. PICK j \in 1..(m - 1) : from(j) = i
    BY <1>5, <2>3
  <2> QED BY <1>3, <2>2, <2>4
<1>12. Confirmed(ords2, rest)
  BY <1>1, <1>2, <1>9, <1>10, <1>11 DEF Confirmed
<1>13. \A i \in 1..Len(rest) : EventOK(rest[i], Len(ords2))
  BY <1>1, <1>2, <1>3
<1> QED BY <1>1, <1>2, <1>12, <1>13, AgedOnePerSide DEF Settled, rest

\* A snapshot or a decision is put on the agenda.
LEMMA PlannedSettled ==
  ASSUME NEW ords, NEW sched, Settled(ords, sched), NEW e \in LocalEvent, ~Confirms(e),
         e.market \in Market
  PROVE  Settled(ords, Append(sched, e))
<1> DEFINE more == Append(sched, e)
           m == Len(sched)
<1>1. /\ ords \in Seq(ShadowOrder) /\ sched \in Seq(LocalEvent) /\ m \in Nat
      /\ more \in Seq(LocalEvent) /\ Len(more) = m + 1 /\ more[m + 1] = e
      /\ \A i \in 1..m : more[i] = sched[i]
  BY AppendProperties, LenProperties DEF Settled
<1> HIDE DEF more
<1>2. \A i \in 1..(m + 1) : i = m + 1 \/ (i \in 1..m /\ more[i] = sched[i])
  BY <1>1
<1>3. \A i \in 1..(m + 1) : Confirms(more[i]) => i \in 1..m /\ more[i] = sched[i]
  BY <1>1, <1>2
<1>4. \A i \in 1..(m + 1) : EventOK(more[i], Len(ords))
  <2>1. EventOK(e, Len(ords))
    BY DEF EventOK, Confirms, Confirmations
  <2> QED BY <1>1, <1>2, <2>1 DEF Settled
<1>5. Confirmed(ords, more)
  <2>1. \A id \in 1..Len(ords) : IsOpen(ords[id]) /\ Awaited(ords[id].state) # "none" =>
          \E i \in 1..(m + 1) : Confirms(more[i]) /\ more[i].order_id = id
    <3> SUFFICES ASSUME NEW id \in 1..Len(ords), IsOpen(ords[id]), Awaited(ords[id].state) # "none"
                 PROVE  \E i \in 1..(m + 1) : Confirms(more[i]) /\ more[i].order_id = id
      OBVIOUS
    <3>1. PICK i \in 1..m : Confirms(sched[i]) /\ sched[i].order_id = id
      BY DEF Settled, Confirmed
    <3>2. i \in 1..(m + 1) /\ more[i] = sched[i]
      BY <1>1
    <3> QED BY <3>1, <3>2
  <2> QED BY <1>1, <1>3, <2>1 DEF Settled, Confirmed
<1> QED BY <1>1, <1>4, <1>5 DEF Settled, more

\* A new order enters, with its activation on the agenda.
LEMMA EnteredSettled ==
  ASSUME NEW ords, NEW sched, Settled(ords, sched), NEW o \in ShadowOrder, NEW e \in LocalEvent,
         o.state = "PendingAck", e.at.kind = "Activate", e.order_id = Len(ords) + 1,
         \A id \in OpenIds(ords) : ~(ords[id].symbol = o.symbol /\ ords[id].side = o.side)
  PROVE  Settled(Append(ords, o), Append(sched, e))
<1> DEFINE more == Append(sched, e)
           ords2 == Append(ords, o)
           n == Len(ords)
           m == Len(sched)
<1>1. /\ ords \in Seq(ShadowOrder) /\ sched \in Seq(LocalEvent) /\ n \in Nat /\ m \in Nat
      /\ more \in Seq(LocalEvent) /\ Len(more) = m + 1 /\ more[m + 1] = e
      /\ \A i \in 1..m : more[i] = sched[i]
      /\ ords2 \in Seq(ShadowOrder) /\ Len(ords2) = n + 1 /\ ords2[n + 1] = o
      /\ \A id \in 1..n : ords2[id] = ords[id]
  BY AppendProperties, LenProperties DEF Settled
<1> HIDE DEF more, ords2
<1>2. \A i \in 1..(m + 1) : i = m + 1 \/ (i \in 1..m /\ more[i] = sched[i])
  BY <1>1
<1>3. \A id \in 1..(n + 1) : id = n + 1 \/ (id \in 1..n /\ ords2[id] = ords[id])
  BY <1>1
<1>4. Confirms(e) /\ e.order_id = n + 1 /\ IsOpen(o) /\ Awaited(o.state) = "Activate"
  BY DEF Confirms, Confirmations, IsOpen, is_open_state, Awaited
<1>5. \A i \in 1..m : Confirms(sched[i]) =>
        sched[i].order_id \in 1..n /\ sched[i].order_id # n + 1
  BY <1>1 DEF Settled, EventOK
<1>6. \A i \in 1..(m + 1) : EventOK(more[i], n + 1)
  <2>1. EventOK(e, n + 1)
    BY <1>1, <1>4 DEF EventOK
  <2>2. \A i \in 1..m : EventOK(sched[i], n) => EventOK(sched[i], n + 1)
    BY <1>1 DEF EventOK
  <2> QED BY <1>1, <1>2, <2>1, <2>2 DEF Settled
<1>7. \A i \in 1..(m + 1) : Confirms(more[i]) /\ IsOpen(ords2[more[i].order_id]) =>
        more[i].at.kind = Awaited(ords2[more[i].order_id].state)
  <2> SUFFICES ASSUME NEW i \in 1..(m + 1), Confirms(more[i]), IsOpen(ords2[more[i].order_id])
               PROVE  more[i].at.kind = Awaited(ords2[more[i].order_id].state)
    OBVIOUS
  <2>1. CASE i = m + 1
    BY <1>1, <1>4, <2>1
  <2>2. CASE i \in 1..m /\ more[i] = sched[i]
    <3>1. sched[i].order_id \in 1..n /\ ords2[sched[i].order_id] = ords[sched[i].order_id]
      BY <1>1, <1>5, <2>2
    <3> QED BY <2>2, <3>1 DEF Settled, Confirmed
  <2> QED BY <1>2, <2>1, <2>2
<1>8. ASSUME NEW i \in 1..(m + 1), NEW j \in 1..(m + 1), Confirms(more[i]), Confirms(more[j]),
             more[i].order_id = more[j].order_id, IsOpen(ords2[more[i].order_id])
      PROVE  i = j
  <2>1. CASE i = m + 1
    BY <1>1, <1>2, <1>4, <1>5, <1>8, <2>1
  <2>2. CASE j = m + 1
    BY <1>1, <1>2, <1>4, <1>5, <1>8, <2>2
  <2>3. CASE i \in 1..m /\ j \in 1..m
    <3>1. more[i] = sched[i] /\ more[j] = sched[j]
      BY <1>1, <2>3
    <3>2. sched[i].order_id \in 1..n /\ ords2[sched[i].order_id] = ords[sched[i].order_id]
      BY <1>1, <1>5, <1>8, <2>3, <3>1
    <3> QED BY <1>8, <2>3, <3>1, <3>2 DEF Settled, Confirmed
  <2> QED BY <1>2, <2>1, <2>2, <2>3
<1>9. ASSUME NEW id \in 1..(n + 1), IsOpen(ords2[id]), Awaited(ords2[id].state) # "none"
      PROVE  \E i \in 1..(m + 1) : Confirms(more[i]) /\ more[i].order_id = id
  <2>1. CASE id = n + 1
    <3>1. m + 1 \in 1..(m + 1)
      BY <1>1
    <3> QED BY <1>1, <1>4, <2>1, <3>1
  <2>2. CASE id \in 1..n /\ ords2[id] = ords[id]
    <3>1. PICK i \in 1..m : Confirms(sched[i]) /\ sched[i].order_id = id
      BY <1>9, <2>2 DEF Settled, Confirmed
    <3>2. i \in 1..(m + 1) /\ more[i] = sched[i]
      BY <1>1
    <3> QED BY <3>1, <3>2
  <2> QED BY <1>3, <2>1, <2>2
<1>10. Confirmed(ords2, more)
  BY <1>1, <1>7, <1>8, <1>9 DEF Confirmed
<1>11. OnePerSide(ords2)
  <2>1. \A id \in OpenIds(ords2) : id = n + 1 \/ (id \in OpenIds(ords) /\ ords2[id] = ords[id])
    BY <1>1, <1>3, OrderTypes
  <2>2. ASSUME NEW id \in OpenIds(ords2), NEW other \in OpenIds(ords2),
               ords2[id].symbol = ords2[other].symbol, ords2[id].side = ords2[other].side
        PROVE  id = other
    <3>1. CASE id = n + 1
      <4>1. other \in OpenIds(ords) /\ ords2[other] = ords[other] => FALSE
        BY <1>1, <2>2, <3>1
      <4> QED BY <2>1, <3>1, <4>1
    <3>2. CASE other = n + 1
      <4>1. id \in OpenIds(ords) /\ ords2[id] = ords[id] => FALSE
        BY <1>1, <2>2, <3>2
      <4> QED BY <2>1, <3>2, <4>1
    <3>3. CASE id \in OpenIds(ords) /\ ords2[id] = ords[id]
               /\ other \in OpenIds(ords) /\ ords2[other] = ords[other]
      BY <2>2, <3>3 DEF Settled, OnePerSide
    <3> QED BY <2>1, <3>1, <3>2, <3>3
  <2> QED BY <2>2 DEF OnePerSide
<1> QED BY <1>1, <1>6, <1>10, <1>11 DEF Settled, more, ords2

\* A resting order is asked to be cancelled or replaced.
LEMMA AskedSettled ==
  ASSUME NEW ords, NEW sched, Settled(ords, sched), NEW id \in 1..Len(ords),
         ords[id].state \in Resting, NEW state \in {"PendingCancel", "PendingReplace"},
         NEW e \in LocalEvent, e.at.kind = Awaited(state), e.order_id = id,
         e.at.kind = "ReplaceConfirm" => e.price \in Price
  PROVE  Settled([ords EXCEPT ![id].state = state], Append(sched, e))
<1> DEFINE more == Append(sched, e)
           o == [ords[id] EXCEPT !.state = state]
           ords2 == [ords EXCEPT ![id] = o]
           n == Len(ords)
           m == Len(sched)
<1>0. [ords EXCEPT ![id].state = state] = ords2
  OBVIOUS
<1>1. /\ ords \in Seq(ShadowOrder) /\ sched \in Seq(LocalEvent) /\ n \in Nat /\ m \in Nat
      /\ ords[id] \in ShadowOrder /\ DOMAIN ords = 1..n
  BY OrderTypes, LenProperties DEF Settled
<1>2. /\ more \in Seq(LocalEvent) /\ Len(more) = m + 1 /\ more[m + 1] = e
      /\ \A i \in 1..m : more[i] = sched[i]
  BY <1>1, AppendProperties
<1>3. /\ o \in ShadowOrder /\ IsOpen(o) /\ IsOpen(ords[id])
      /\ o.symbol = ords[id].symbol /\ o.side = ords[id].side
      /\ Awaited(o.state) = e.at.kind /\ Awaited(ords[id].state) = "none"
      /\ Awaited(o.state) \in Confirmations
  BY <1>1 DEF ShadowOrder, IsOpen, is_open_state, Exposed, Resting, Awaited, Confirmations
<1> HIDE DEF o
<1>4. /\ ords2 \in Seq(ShadowOrder) /\ Len(ords2) = n /\ ords2[id] = o
      /\ \A x \in 1..n : x # id => ords2[x] = ords[x]
  BY <1>1, <1>3
<1> HIDE DEF more, ords2
<1>5. Confirms(e)
  BY <1>3 DEF Confirms
<1>6. \A i \in 1..(m + 1) : i = m + 1 \/ (i \in 1..m /\ more[i] = sched[i])
  BY <1>1, <1>2
<1>7. \A i \in 1..m : Confirms(sched[i]) => sched[i].order_id \in 1..n /\ sched[i].order_id # id
  <2> SUFFICES ASSUME NEW i \in 1..m, Confirms(sched[i])
               PROVE  sched[i].order_id \in 1..n /\ sched[i].order_id # id
    OBVIOUS
  <2>1. sched[i].order_id \in 1..n
    BY <1>1 DEF Settled, EventOK
  <2>2. sched[i].order_id = id => sched[i].at.kind = "none"
    BY <1>3 DEF Settled, Confirmed
  <2> QED BY <2>1, <2>2 DEF Confirms, Confirmations
<1>8. \A i \in 1..(m + 1) : EventOK(more[i], n)
  <2>1. EventOK(e, n)
    BY <1>1, <1>5 DEF EventOK
  <2> QED BY <1>1, <1>2, <1>6, <2>1 DEF Settled
<1>9. \A i \in 1..(m + 1) : Confirms(more[i]) /\ IsOpen(ords2[more[i].order_id]) =>
        more[i].at.kind = Awaited(ords2[more[i].order_id].state)
  <2> SUFFICES ASSUME NEW i \in 1..(m + 1), Confirms(more[i]), IsOpen(ords2[more[i].order_id])
               PROVE  more[i].at.kind = Awaited(ords2[more[i].order_id].state)
    OBVIOUS
  <2>1. CASE i = m + 1
    BY <1>2, <1>3, <1>4, <2>1
  <2>2. CASE i \in 1..m /\ more[i] = sched[i]
    <3>1. ords2[sched[i].order_id] = ords[sched[i].order_id]
      BY <1>4, <1>7, <2>2
    <3> QED BY <2>2, <3>1 DEF Settled, Confirmed
  <2> QED BY <1>6, <2>1, <2>2
<1>10. ASSUME NEW i \in 1..(m + 1), NEW j \in 1..(m + 1), Confirms(more[i]), Confirms(more[j]),
              more[i].order_id = more[j].order_id, IsOpen(ords2[more[i].order_id])
       PROVE  i = j
  <2>1. CASE i = m + 1
    BY <1>2, <1>6, <1>7, <1>10, <2>1
  <2>2. CASE j = m + 1
    BY <1>2, <1>6, <1>7, <1>10, <2>2
  <2>3. CASE i \in 1..m /\ j \in 1..m
    <3>1. more[i] = sched[i] /\ more[j] = sched[j]
      BY <1>2, <2>3
    <3>2. ords2[sched[i].order_id] = ords[sched[i].order_id]
      BY <1>4, <1>7, <1>10, <2>3, <3>1
    <3> QED BY <1>10, <2>3, <3>1, <3>2 DEF Settled, Confirmed
  <2> QED BY <1>6, <2>1, <2>2, <2>3
<1>11. ASSUME NEW x \in 1..n, IsOpen(ords2[x]), Awaited(ords2[x].state) # "none"
       PROVE  \E i \in 1..(m + 1) : Confirms(more[i]) /\ more[i].order_id = x
  <2>1. CASE x = id
    <3>1. m + 1 \in 1..(m + 1)
      BY <1>1
    <3> QED BY <1>2, <1>5, <2>1, <3>1
  <2>2. CASE x # id
    <3>1. PICK i \in 1..m : Confirms(sched[i]) /\ sched[i].order_id = x
      BY <1>4, <1>11, <2>2 DEF Settled, Confirmed
    <3>2. i \in 1..(m + 1) /\ more[i] = sched[i]
      BY <1>1, <1>2
    <3> QED BY <3>1, <3>2
  <2> QED BY <2>1, <2>2
<1>12. Confirmed(ords2, more)
  BY <1>1, <1>2, <1>4, <1>9, <1>10, <1>11 DEF Confirmed
<1>13. OnePerSide(ords2)
  <2>1. \A x \in OpenIds(ords2) : x \in OpenIds(ords) /\ ords2[x].symbol = ords[x].symbol
                                  /\ ords2[x].side = ords[x].side
    BY <1>1, <1>3, <1>4, OrderTypes
  <2> QED BY <2>1 DEF Settled, OnePerSide
<1> QED BY <1>0, <1>1, <1>2, <1>4, <1>8, <1>12, <1>13 DEF Settled, more, ords2

----------------------------------------------------------------------------
(* The scheduler *)

Rank ==
  [Observation |-> 0, Decision |-> 1, Activate |-> 2, CancelConfirm |-> 3, ReplaceConfirm |-> 4]

\* The order of the scheduler is one of three numbers after each other.
Before(t, f, r, t2, f2, r2) == t < t2 \/ (t = t2 /\ f < f2) \/ (t = t2 /\ f = f2 /\ r < r2)

LEMMA EarlierIsBefore ==
  ASSUME NEW e \in LocalEvent, NEW f \in LocalEvent
  PROVE  /\ Earlier(e, f) <=> Before(e.at.timestamp, e.at.factual_sequence, Rank[e.at.kind],
                                     f.at.timestamp, f.at.factual_sequence, Rank[f.at.kind])
         /\ e.at.timestamp \in Nat /\ e.at.factual_sequence \in Nat /\ Rank[e.at.kind] \in Nat
<1>1. e.at \in Instant /\ f.at \in Instant
  BY DEF LocalEvent
<1>2. \A kind \in {"Observation", "Decision"} \cup Confirmations : Rank[kind] \in Nat
  BY DEF Rank, Confirmations
<1>3. e.at.timestamp \in Nat /\ e.at.factual_sequence \in Nat /\ Rank[e.at.kind] \in Nat
  BY <1>1, <1>2 DEF Instant
<1>4. Earlier(e, f) <=> Before(e.at.timestamp, e.at.factual_sequence, Rank[e.at.kind],
                               f.at.timestamp, f.at.factual_sequence, Rank[f.at.kind])
  BY DEF Earlier, Before, Rank
<1> QED BY <1>3, <1>4

LEMMA EarlierOrders ==
  ASSUME NEW e \in LocalEvent, NEW f \in LocalEvent, NEW g \in LocalEvent, Earlier(e, f)
  PROVE  ~Earlier(f, e) /\ (Earlier(e, g) \/ Earlier(g, f))
BY EarlierIsBefore DEF Before

\* The scheduler has a first event: scheduled_.begin() is there.
LEMMA NextUpIsThere ==
  ASSUME scheduled \in Seq(LocalEvent), scheduled # <<>>
  PROVE  NextUp \in 1..Len(scheduled)
<1> DEFINE N == Len(scheduled)
           First(i, j) == \/ Earlier(scheduled[i], scheduled[j])
                          \/ i < j /\ ~Earlier(scheduled[j], scheduled[i])
           Best(i, m) == i \in 1..m /\ \A j \in 1..m : j # i => First(i, j)
           T == {m \in Nat : m > 0 /\ m <= N => \E i : Best(i, m)}
<1>1. N \in Nat /\ N > 0 /\ DOMAIN scheduled = 1..N /\ \A i \in 1..N : scheduled[i] \in LocalEvent
  BY LenProperties, ElementOfSeq, EmptySeq
<1>2. 0 \in T
  OBVIOUS
<1>3. ASSUME NEW m \in Nat, m \in T
      PROVE  m + 1 \in T
  <2> SUFFICES ASSUME m + 1 <= N PROVE \E i : Best(i, m + 1)
    OBVIOUS
  <2>1. CASE m = 0
    <3>1. Best(1, m + 1)
      BY <2>1
    <3> QED BY <3>1
  <2>2. CASE m > 0
    <3>1. PICK i : Best(i, m)
      BY <1>1, <1>3, <2>2
    <3>2. i \in 1..m /\ i \in 1..N /\ m + 1 \in 1..N /\ i < m + 1 /\ \A j \in 1..m : j \in 1..N
      BY <1>1, <3>1
    <3>3. \A j \in 1..(m + 1) : j = m + 1 \/ j \in 1..m
      OBVIOUS
    <3>4. CASE Earlier(scheduled[m + 1], scheduled[i])
      <4>1. ASSUME NEW j \in 1..m PROVE Earlier(scheduled[m + 1], scheduled[j])
        <5>1. CASE j = i
          BY <3>4, <5>1
        <5>2. CASE j # i
          <6>1. \/ Earlier(scheduled[i], scheduled[j])
                \/ ~Earlier(scheduled[j], scheduled[i])
            BY <3>1, <5>2
          <6>2. \/ Earlier(scheduled[m + 1], scheduled[j])
                \/ Earlier(scheduled[j], scheduled[i])
            BY <1>1, <3>2, <3>4, EarlierOrders
          <6>3. Earlier(scheduled[i], scheduled[j]) => ~Earlier(scheduled[j], scheduled[i])
            BY <1>1, <3>2, EarlierOrders
          <6> QED BY <6>1, <6>2, <6>3
        <5> QED BY <5>1, <5>2
      <4>2. Best(m + 1, m + 1)
        BY <3>3, <4>1
      <4> QED BY <4>2
    <3>5. CASE ~Earlier(scheduled[m + 1], scheduled[i])
      <4>1. Best(i, m + 1)
        BY <3>1, <3>2, <3>3, <3>5
      <4> QED BY <4>1
    <3> QED BY <3>4, <3>5
  <2> QED BY <2>1, <2>2
<1>4. N \in T
  <2> HIDE DEF T
  <2> QED BY <1>1, <1>2, <1>3, SetInduction
<1>5. PICK i : Best(i, N)
  BY <1>1, <1>4
<1>6. \E k \in DOMAIN scheduled : \A j \in DOMAIN scheduled \ {k} : First(k, j)
  BY <1>1, <1>5
<1>7. NextUp \in DOMAIN scheduled
  BY <1>6 DEF NextUp
<1> QED BY <1>1, <1>7

----------------------------------------------------------------------------
(* A decision *)

LEMMA MinIsIn ==
  ASSUME NEW S \in SUBSET Nat, S # {}
  PROVE  Min(S) \in S /\ \A k \in S : Min(S) <= k
<1> DEFINE R == OpToRel(<, Nat)
<1>1. IsWellFoundedOn(R, Nat)
  BY NatLessThanWellFounded
<1>2. PICK m \in S : \A k \in S : ~ (<<k, m>> \in R)
  <2> HIDE DEF R
  <2> QED BY <1>1, WFMin
<1>3. \A k \in S : m <= k
  <2> SUFFICES ASSUME NEW k \in S, k < m PROVE FALSE
    OBVIOUS
  <2>1. <<k, m>> \in R
    BY DEF OpToRel
  <2> QED BY <1>2, <2>1
<1> QED BY <1>3 DEF Min

\* How many orders have ended.
Over(ords) == Len(ords) - Cardinality(OpenIds(ords))

LEMMA NoneTracked == <<>> \in Tracked
<1>1. {} \in SUBSET OrderReference
  OBVIOUS
<1>2. <<>> \in [{} -> Quantity]
  OBVIOUS
<1> QED BY <1>1, <1>2 DEF Tracked

----------------------------------------------------------------------------
(* Orders that end or move on *)

LEMMA AgesNothing == ASSUME NEW ords \in Seq(ShadowOrder) PROVE Age(ords, ords, 0)
<1>1. \A id \in 1..Len(ords) : id # 0
  BY LenProperties
<1> QED BY <1>1 DEF Age, Ages

LEMMA AgesOne ==
  ASSUME NEW ords \in Seq(ShadowOrder), NEW id \in 1..Len(ords), NEW o \in ShadowOrder,
         Ages(ords[id], o), IsOpen(o) => Awaited(o.state) = "none"
  PROVE  Age(ords, [ords EXCEPT ![id] = o], id)
<1> DEFINE ords2 == [ords EXCEPT ![id] = o]
<1>1. /\ ords2 \in Seq(ShadowOrder) /\ Len(ords2) = Len(ords) /\ ords2[id] = o
      /\ \A x \in 1..Len(ords) : x # id => ords2[x] = ords[x]
  BY ExceptSeq
<1> HIDE DEF ords2
<1>2. ASSUME NEW x \in 1..Len(ords)
      PROVE  /\ Ages(ords[x], ords2[x])
             /\ IsOpen(ords2[x]) =>
                  IF x = id THEN Awaited(ords2[x].state) = "none"
                  ELSE Awaited(ords2[x].state) = Awaited(ords[x].state)
  <2>1. CASE x = id
    BY <1>1, <2>1
  <2>2. CASE x # id
    BY <1>1, <2>2 DEF Ages
  <2> QED BY <2>1, <2>2
<1>3. Age(ords, ords2, id)
  BY <1>1, <1>2 DEF Age
<1> QED BY <1>3 DEF ords2

\* The orders that end are those that were open and no longer are.
LEMMA OverGrows ==
  ASSUME NEW ords \in Seq(ShadowOrder), NEW ords2 \in Seq(ShadowOrder), Len(ords2) = Len(ords),
         OpenIds(ords2) \subseteq OpenIds(ords), NEW ended, NEW kept,
         OpenIds(ords2) = kept, OpenIds(ords) \ kept = ended
  PROVE  /\ Over(ords2) = Over(ords) + Cardinality(ended) /\ Cardinality(ended) \in Nat
         /\ Over(ords) \in Nat
<1> DEFINE all == OpenIds(ords)
<1>1. IsFiniteSet(all) /\ IsFiniteSet(kept) /\ Len(ords) \in Nat /\ all \subseteq 1..Len(ords)
  BY OrderTypes
<1>2. kept = all \cap kept /\ ended = all \ kept
  OBVIOUS
<1> HIDE DEF all
<1>3. Cardinality(all \ kept) = Cardinality(all) - Cardinality(all \cap kept)
  BY <1>1, FS_Difference
<1>4. Cardinality(all) \in Nat /\ Cardinality(kept) \in Nat /\ IsFiniteSet(ended)
  BY <1>1, <1>2, FS_CardinalityType, FS_Subset
<1>5. Cardinality(ended) \in Nat
  BY <1>4, FS_CardinalityType
<1>6. Cardinality(all) <= Len(ords)
  <2>1. IsFiniteSet(1..Len(ords)) /\ Cardinality(1..Len(ords)) = Len(ords)
    <3> DEFINE n == Len(ords)
    <3>1. n \in Int /\ 1 \in Int /\ n >= 0
      BY <1>1
    <3> HIDE DEF n
    <3>2. IsFiniteSet(1..n) /\ Cardinality(1..n) = IF 1 > n THEN 0 ELSE n - 1 + 1
      BY ONLY <3>1, FS_Interval
    <3>3. Cardinality(1..n) = n
      BY <3>1, <3>2
    <3> QED BY <3>2, <3>3 DEF n
  <2> QED BY <1>1, <2>1, FS_Subset
<1>7. Cardinality(ended) = Cardinality(all) - Cardinality(kept)
  BY <1>2, <1>3
<1> QED BY <1>1, <1>4, <1>5, <1>6, <1>7 DEF Over, all

----------------------------------------------------------------------------
(* What becomes of an order *)

LEMMA EndedOrder ==
  ASSUME NEW o \in ShadowOrder, NEW state \in Terminal
  PROVE  /\ Ended(o, state) \in ShadowOrder /\ ~IsOpen(Ended(o, state))
         /\ Ages(o, Ended(o, state)) /\ Ended(o, state).state = state
         /\ Ended(o, state).remaining = o.remaining /\ Ended(o, state).active_at = o.active_at
BY NoneTracked DEF Ended, ShadowOrder, IsOpen, is_open_state, Exposed, Resting, Terminal, Ages

\* The displayed orders, each of which arrived before those to come.
Shown ==
  [symbol : Symbol, side : Side, price : Price, shares : Quantity, arrival : Nat]
Displays(shown, next) ==
  /\ next \in Nat /\ IsFiniteSet(DOMAIN shown) /\ DOMAIN shown \subseteq OrderReference
  /\ shown = [ref \in DOMAIN shown |-> shown[ref]]
  /\ \A ref \in DOMAIN shown : shown[ref] \in Shown /\ shown[ref].arrival < next

LEMMA ActivatedOrder ==
  ASSUME NEW o \in ShadowOrder, IsOpen(o), NEW at \in Nat, Displays(displayed, arrivals)
  PROVE  /\ Activated(o, at) \in ShadowOrder /\ IsOpen(Activated(o, at))
         /\ Ages(o, Activated(o, at)) /\ Awaited(Activated(o, at).state) = "none"
         /\ Activated(o, at).state = "Active" /\ Activated(o, at).active_at = at
         /\ Activated(o, at).remaining = o.remaining
<1>1. Snapshot(o) \in Tracked
  <2> DEFINE level == {r \in DOMAIN displayed :
                         /\ displayed[r].symbol = o.symbol /\ displayed[r].side = o.side
                         /\ displayed[r].price = o.limit}
  <2>1. level \in SUBSET OrderReference /\ level \subseteq DOMAIN displayed
    BY DEF Displays
  <2>2. \A ref \in level : displayed[ref].shares \in Quantity
    BY DEF Displays, Shown
  <2>3. Snapshot(o) = <<>> \/ Snapshot(o) = [ref \in level |-> displayed[ref].shares]
    BY DEF Snapshot
  <2> HIDE DEF level
  <2>4. [ref \in level |-> displayed[ref].shares] \in [level -> Quantity]
    BY <2>2
  <2> QED BY <2>1, <2>3, <2>4, NoneTracked DEF Tracked
<1> QED BY <1>1 DEF Activated, Displays, ShadowOrder, IsOpen, is_open_state, Exposed, Resting,
                    Ages, Awaited

----------------------------------------------------------------------------
(* A mutation meets an order *)

Concerns(o, m) == m # None /\ o.state \in Exposed /\ o.symbol = m.symbol

LEMMA AheadTracked ==
  ASSUME NEW o \in ShadowOrder, NEW m \in BookMutation
  PROVE  Ahead(o, m) \in Tracked
<1>1. PICK refs \in SUBSET OrderReference : o.ahead \in [refs -> Quantity]
  BY DEF ShadowOrder, Tracked
<1> DEFINE r == m.order_reference
           less == [ref \in refs \ {r} |-> o.ahead[ref]]
<1>2. less \in Tracked
  <2>1. less \in [refs \ {r} -> Quantity] /\ refs \ {r} \in SUBSET OrderReference
    BY <1>1
  <2> QED BY <2>1 DEF Tracked
<1>3. CASE r \in refs /\ ~(m.event_quantity >= o.ahead[r])
  <2> DEFINE q == o.ahead[r] - m.event_quantity
  <2>1. q \in Quantity
    <3>1. o.ahead[r] \in Quantity /\ m.event_quantity \in Quantity /\ Quantity \subseteq Nat
      BY <1>1, <1>3, OpeningAssumption DEF BookMutation, OpeningAssumption
    <3>2. o.ahead[r] \in Nat /\ m.event_quantity \in Nat
      BY <3>1
    <3>3. m.event_quantity < o.ahead[r]
      <4> DEFINE a == o.ahead[r]
                 b == m.event_quantity
      <4>1. a \in Nat /\ b \in Nat /\ ~(b >= a)
        BY <1>3, <3>2
      <4> HIDE DEF a, b
      <4>2. b < a
        BY <4>1
      <4> QED BY <4>2 DEF a, b
    <3> QED BY <3>1, <3>3, OpeningAssumption DEF OpeningAssumption
  <2> HIDE DEF q
  <2>2. [o.ahead EXCEPT ![r] = q] \in [refs -> Quantity]
    BY <1>1, <1>3, <2>1
  <2>3. [o.ahead EXCEPT ![r] = q] \in Tracked
    BY <2>2 DEF Tracked
  <2>4. [o.ahead EXCEPT ![r] = @ - m.event_quantity] = [o.ahead EXCEPT ![r] = q]
    BY DEF q
  <2> HIDE DEF less
  <2>5. DOMAIN o.ahead = refs
    BY <1>1
  <2>6. Ahead(o, m) \in {o.ahead, [ref \in DOMAIN o.ahead \ {r} |-> o.ahead[ref]],
                         [o.ahead EXCEPT ![r] = @ - m.event_quantity]}
    BY DEF Ahead
  <2> QED BY <1>2, <2>3, <2>4, <2>5, <2>6 DEF less, ShadowOrder
<1>4. CASE ~(r \in refs /\ ~(m.event_quantity >= o.ahead[r]))
  <2>1. DOMAIN o.ahead = refs
    BY <1>1
  <2>2. Ahead(o, m) = o.ahead \/ Ahead(o, m) = less
    BY <1>4, <2>1 DEF Ahead
  <2> QED BY <1>2, <2>2 DEF ShadowOrder
<1> QED BY <1>3, <1>4

LEMMA HitBounds ==
  ASSUME NEW o \in ShadowOrder, mutation' \in BookMutation \cup {None}, queue_model \in QueueModels
  PROVE  /\ Hit(o) \in 0..o.remaining
         /\ Hit(o) # 0 => /\ Concerns(o, mutation') /\ o.side = (mutation').side
                          /\ mutation' \in BookMutation /\ IsExecution(mutation')
                          /\ Hit(o) <= (mutation').event_quantity
<1> DEFINE m == mutation'
           e == Evidence(o, m)
<1>1. o.remaining \in Nat
  BY ConfigAssumption DEF ShadowOrder, ConfigAssumption
<1>2. CASE Concerns(o, m)
  <2>1. m \in BookMutation /\ m.event_quantity \in Nat
    BY <1>2, OpeningAssumption DEF Concerns, BookMutation, OpeningAssumption
  <2>2. /\ e = 0 \/ e = m.event_quantity
        /\ e # 0 => o.side = m.side /\ IsExecution(m)
    BY ConfigAssumption DEF ConfigAssumption, Evidence
  <2>3. Hit(o) = Min({e, o.remaining})
    BY <1>2 DEF Concerns, Hit
  <2> DEFINE S == {e, o.remaining}
  <2> HIDE DEF e
  <2>4. S \in SUBSET Nat /\ S # {} /\ e \in S /\ o.remaining \in S
    BY <1>1, <2>1, <2>2
  <2>5. Min(S) \in S /\ Min(S) <= e /\ Min(S) <= o.remaining
    BY <2>4, MinIsIn
  <2>6. Min(S) = e \/ Min(S) = o.remaining
    BY <2>5
  <2>7. Min(S) \in Nat /\ e \in Nat
    BY <2>4, <2>5
  <2>8. Hit(o) = Min(S)
    BY <2>3
  <2> HIDE DEF S
  <2> QED BY <1>1, <1>2, <2>1, <2>2, <2>5, <2>7, <2>8
<1>3. CASE ~Concerns(o, m)
  BY <1>1, <1>3 DEF Concerns, Hit
<1> QED BY <1>2, <1>3

LEMMA FilledOrder ==
  ASSUME NEW o \in ShadowOrder, o.state \in Exposed, NEW q \in 1..o.remaining
  PROVE  LET n == Filled(o, q)
         IN  /\ n \in ShadowOrder /\ Ages(o, n) /\ n.active_at = o.active_at
             /\ n.remaining = o.remaining - q /\ n.original = o.original
             /\ n.limit = o.limit /\ n.joined = o.joined
             /\ IsOpen(n) => /\ n.state \in Exposed /\ Awaited(n.state) = Awaited(o.state)
                             /\ n.ahead = o.ahead
             /\ ~IsOpen(n) <=> n.state = "Filled"
<1>1. config.quantity \in Nat /\ o.remaining \in 0..config.quantity
  BY ConfigAssumption DEF ConfigAssumption, ShadowOrder
<1>2. CASE q = o.remaining
  <2>1. Filled(o, q) = [Ended(o, "Filled") EXCEPT !.remaining = 0]
    BY <1>2 DEF Filled
  <2>2. Ended(o, "Filled") \in ShadowOrder /\ Ended(o, "Filled").state = "Filled"
    BY EndedOrder DEF Terminal
  <2>3. /\ Ended(o, "Filled").symbol = o.symbol /\ Ended(o, "Filled").side = o.side
        /\ Ended(o, "Filled").active_at = o.active_at /\ Ended(o, "Filled").original = o.original
        /\ Ended(o, "Filled").limit = o.limit /\ Ended(o, "Filled").joined = o.joined
    BY DEF Ended, ShadowOrder
  <2> DEFINE d == Ended(o, "Filled")
  <2>4. d \in ShadowOrder /\ d.state = "Filled"
    BY <2>2
  <2>5. 0 \in 0..config.quantity
    BY <1>1
  <2> HIDE DEF d
  <2> DEFINE n == [d EXCEPT !.remaining = 0]
  <2>6. /\ n \in ShadowOrder /\ n.state = "Filled" /\ n.remaining = 0 /\ n.symbol = d.symbol
        /\ n.side = d.side /\ n.active_at = d.active_at /\ n.original = d.original
        /\ n.limit = d.limit /\ n.joined = d.joined
    BY <2>4, <2>5 DEF ShadowOrder
  <2> HIDE DEF n
  <2>7. Filled(o, q) = n /\ o.remaining - q = 0
    BY <1>1, <1>2, <2>1 DEF n, d
  <2>8. ~IsOpen(n)
    BY <2>6 DEF IsOpen, is_open_state, Exposed, Resting
  <2> QED BY <2>3, <2>6, <2>7, <2>8 DEF d, Ages
<1>3. CASE q # o.remaining
  <2> DEFINE s == IF o.state \in Resting THEN "PartiallyFilled" ELSE o.state
             n == [o EXCEPT !.remaining = o.remaining - q, !.state = s]
  <2>1. Filled(o, q) = n
    BY <1>3 DEF Filled
  <2>2. o.remaining - q \in 0..config.quantity
    BY <1>1
  <2>3. s \in Exposed /\ s \in is_open_state /\ s # "Filled" /\ Awaited(s) = Awaited(o.state)
    BY DEF Exposed, Resting, is_open_state, Awaited
  <2> HIDE DEF s
  <2>4. /\ n \in ShadowOrder /\ n.state = s /\ n.symbol = o.symbol /\ n.side = o.side
        /\ n.active_at = o.active_at /\ n.remaining = o.remaining - q /\ n.original = o.original
        /\ n.limit = o.limit /\ n.joined = o.joined /\ n.ahead = o.ahead
    BY <2>2, <2>3 DEF ShadowOrder
  <2> HIDE DEF n
  <2> QED BY <2>1, <2>3, <2>4 DEF Ages, IsOpen, is_open_state
<1> QED BY <1>2, <1>3

\* The order with the queue ahead of it moved on.
Moved(o) ==
  IF mutation' # None /\ o.state \in Exposed /\ o.symbol = mutation'.symbol
  THEN [o EXCEPT !.ahead = Ahead(o, mutation')] ELSE o

LEMMA MovedOrder ==
  ASSUME NEW o \in ShadowOrder, mutation' \in BookMutation \cup {None}
  PROVE  /\ Moved(o) \in ShadowOrder
         /\ Moved(o).symbol = o.symbol /\ Moved(o).side = o.side /\ Moved(o).limit = o.limit
         /\ Moved(o).original = o.original /\ Moved(o).remaining = o.remaining
         /\ Moved(o).state = o.state /\ Moved(o).active_at = o.active_at
         /\ Moved(o).joined = o.joined
<1>1. CASE mutation' # None /\ o.state \in Exposed /\ o.symbol = (mutation').symbol
  <2> DEFINE a == Ahead(o, mutation')
  <2>1. a \in Tracked
    BY <1>1, AheadTracked
  <2>2. Moved(o) = [o EXCEPT !.ahead = a]
    BY <1>1 DEF Moved
  <2> HIDE DEF a
  <2> QED BY <2>1, <2>2 DEF ShadowOrder
<1>2. CASE ~(mutation' # None /\ o.state \in Exposed /\ o.symbol = (mutation').symbol)
  BY <1>2 DEF Moved
<1> QED BY <1>1, <1>2

LEMMA MetOrder ==
  ASSUME NEW o \in ShadowOrder, mutation' \in BookMutation \cup {None}, queue_model \in QueueModels,
         NEW accounted \in BOOLEAN
  PROVE  LET n == Met(o, accounted)
             q == IF accounted THEN Hit(o) ELSE 0
         IN  /\ n \in ShadowOrder /\ Ages(o, n) /\ n.active_at = o.active_at
             /\ n.remaining = o.remaining - q /\ n.original = o.original
             /\ n.limit = o.limit /\ n.joined = o.joined
             /\ IsOpen(n) => /\ n.state \in Exposed <=> o.state \in Exposed
                             /\ Awaited(n.state) = Awaited(o.state)
                             /\ n.ahead = Moved(o).ahead
             /\ IsOpen(o) /\ ~IsOpen(n) => accounted /\ Hit(o) # 0 /\ n.state = "Filled"
<1> DEFINE n == Met(o, accounted)
           p == Moved(o)
<1>1. n = IF accounted /\ Hit(o) # 0 THEN Filled(p, Hit(o)) ELSE p
  BY DEF Met, Moved
<1>2. /\ p \in ShadowOrder /\ p.symbol = o.symbol /\ p.side = o.side /\ p.limit = o.limit
      /\ p.original = o.original /\ p.remaining = o.remaining /\ p.state = o.state
      /\ p.active_at = o.active_at /\ p.joined = o.joined
  BY MovedOrder
<1>3. Hit(o) \in 0..o.remaining /\ (Hit(o) # 0 => o.state \in Exposed) /\ o.remaining \in Nat
  BY HitBounds, ConfigAssumption DEF Concerns, ConfigAssumption, ShadowOrder
<1> HIDE DEF p, n
<1>4. CASE accounted /\ Hit(o) # 0
  <2>1. Hit(o) \in 1..p.remaining /\ p.state \in Exposed /\ n = Filled(p, Hit(o))
    BY <1>1, <1>2, <1>3, <1>4
  <2>2. /\ n \in ShadowOrder /\ Ages(p, n) /\ n.active_at = p.active_at
        /\ n.remaining = p.remaining - Hit(o) /\ n.original = p.original
        /\ n.limit = p.limit /\ n.joined = p.joined
        /\ IsOpen(n) => /\ n.state \in Exposed /\ Awaited(n.state) = Awaited(p.state)
                        /\ n.ahead = p.ahead
        /\ ~IsOpen(n) <=> n.state = "Filled"
    BY <1>2, <2>1, FilledOrder
  <2>3. Ages(o, n) /\ o.state \in Exposed
    BY <1>2, <1>3, <1>4, <2>2 DEF Ages, IsOpen
  <2> QED BY <1>2, <1>4, <2>2, <2>3 DEF p, n
<1>5. CASE ~(accounted /\ Hit(o) # 0)
  <2>1. n = p /\ (IF accounted THEN Hit(o) ELSE 0) = 0
    BY <1>1, <1>5
  <2>2. Ages(o, n)
    BY <1>2, <2>1 DEF Ages, IsOpen
  <2> QED BY <1>2, <1>3, <1>5, <2>1, <2>2 DEF p, n, IsOpen
<1> QED BY <1>4, <1>5

----------------------------------------------------------------------------
(* The stop, the close and the end *)

LEMMA ForcedOrders ==
  ASSUME NEW ords \in Seq(ShadowOrder), NEW state \in Terminal, NEW ords2,
         ords2 = force_cancel_all(ords, state)
  PROVE  /\ Age(ords, ords2, 0) /\ OpenIds(ords2) = {} /\ ~AnyExposed(ords2)
         /\ Over(ords2) = Over(ords) + Cardinality(OpenIds(ords))
         /\ Cardinality(OpenIds(ords)) \in Nat /\ Over(ords) \in Nat
         /\ \A id \in 1..Len(ords) :
              /\ ords2[id].active_at = ords[id].active_at
              /\ ords2[id].remaining = ords[id].remaining
              /\ ords2[id].original = ords[id].original
              /\ ords2[id].joined = ords[id].joined
<1> DEFINE n == Len(ords)
<1>1. n \in Nat /\ DOMAIN ords = 1..n /\ \A id \in 1..n : ords[id] \in ShadowOrder
  BY OrderTypes
<1>2. /\ DOMAIN ords2 = 1..n
      /\ \A id \in 1..n : ords2[id] = IF IsOpen(ords[id]) THEN Ended(ords[id], state) ELSE ords[id]
      /\ ords2 = [id \in 1..n |-> ords2[id]]
  BY <1>1 DEF force_cancel_all
<1>3. ASSUME NEW id \in 1..n
      PROVE  /\ ords2[id] \in ShadowOrder /\ ~IsOpen(ords2[id]) /\ Ages(ords[id], ords2[id])
             /\ ords2[id].active_at = ords[id].active_at
             /\ ords2[id].remaining = ords[id].remaining
             /\ ords2[id].original = ords[id].original
             /\ ords2[id].joined = ords[id].joined
  <2>1. CASE IsOpen(ords[id])
    <3>1. ords2[id] = Ended(ords[id], state) /\ ords[id] \in ShadowOrder
      BY <1>1, <1>2, <2>1
    <3>2. Ended(ords[id], state).original = ords[id].original
          /\ Ended(ords[id], state).joined = ords[id].joined
      BY <3>1 DEF Ended, ShadowOrder
    <3> QED BY <3>1, <3>2, EndedOrder
  <2>2. CASE ~IsOpen(ords[id])
    BY <1>1, <1>2, <2>2 DEF Ages
  <2> QED BY <2>1, <2>2
<1>4. ords2 \in Seq(ShadowOrder) /\ Len(ords2) = n
  BY <1>1, <1>2, <1>3
<1>5. Age(ords, ords2, 0)
  BY <1>3, <1>4 DEF Age
<1>6. OpenIds(ords2) = {}
  BY <1>2, <1>3 DEF OpenIds
<1>7. ~AnyExposed(ords2)
  BY <1>2, <1>3 DEF AnyExposed, IsOpen, is_open_state
<1>8. /\ Over(ords2) = Over(ords) + Cardinality(OpenIds(ords))
      /\ Cardinality(OpenIds(ords)) \in Nat /\ Over(ords) \in Nat
  <2>1. OpenIds(ords2) \subseteq OpenIds(ords) /\ OpenIds(ords) \ {} = OpenIds(ords)
    BY <1>6
  <2> QED BY <1>4, <1>6, <2>1, OverGrows
<1> QED BY <1>3, <1>5, <1>6, <1>7, <1>8

----------------------------------------------------------------------------
(* What a decision asks for *)

\* Orders are entered, asked to be cancelled or replaced, or ended by a stop: what is
\* exposed was so before and has changed in its state alone, and no new order is.
Asks(ords, ords2) ==
  /\ ords2 \in Seq(ShadowOrder) /\ Len(ords) <= Len(ords2)
  /\ \A id \in 1..Len(ords) :
       /\ ords2[id].active_at = ords[id].active_at /\ ords2[id].joined = ords[id].joined
       /\ ords2[id].remaining = ords[id].remaining
       /\ ords2[id].state \in Exposed =>
            /\ ords[id].state \in Exposed
            /\ ords2[id] = [ords[id] EXCEPT !.state = ords2[id].state]
  /\ \A id \in (Len(ords) + 1)..Len(ords2) :
       ords2[id].state \notin Exposed /\ ords2[id].active_at = 0 /\ ords2[id].joined = 0

Sim == [orders : Seq(ShadowOrder), scheduled : Seq(LocalEvent), recorded : BOOLEAN,
        submitted : 0..kMaxSubmitted, stop : BOOLEAN, cancelled : Nat]

\* Nothing is exposed once the decision, or one before it, has stopped.
Barred(sim) == sim.stop => ~AnyExposed(sim.orders)

Plans(sim, sim2) ==
  /\ sim2 \in Sim
  /\ Settled(sim2.orders, sim2.scheduled)
  /\ Asks(sim.orders, sim2.orders)
  /\ Over(sim2.orders) - sim2.cancelled = Over(sim.orders) - sim.cancelled
  /\ Barred(sim) => Barred(sim2)

LEMMA OverType == ASSUME NEW ords \in Seq(ShadowOrder) PROVE Over(ords) \in Int
<1>1. IsFiniteSet(OpenIds(ords)) /\ Len(ords) \in Nat
  BY OrderTypes
<1>2. Cardinality(OpenIds(ords)) \in Nat
  BY <1>1, FS_CardinalityType
<1> QED BY <1>1, <1>2 DEF Over

LEMMA AskedOrders ==
  ASSUME NEW ords \in Seq(ShadowOrder), NEW ords2, Asks(ords, ords2)
  PROVE  /\ AnyExposed(ords2) => AnyExposed(ords)
         /\ \A id \in 1..Len(ords2) : ords2[id].state \in Exposed =>
              /\ id \in 1..Len(ords) /\ ords[id].state \in Exposed
              /\ ords2[id] = [ords[id] EXCEPT !.state = ords2[id].state]
<1>1. /\ ords2 \in Seq(ShadowOrder) /\ Len(ords) \in Nat /\ Len(ords2) \in Nat
      /\ DOMAIN ords = 1..Len(ords) /\ DOMAIN ords2 = 1..Len(ords2) /\ Len(ords) <= Len(ords2)
  BY OrderTypes DEF Asks
<1>2. ASSUME NEW id \in 1..Len(ords2), ords2[id].state \in Exposed
      PROVE  /\ id \in 1..Len(ords) /\ ords[id].state \in Exposed
             /\ ords2[id] = [ords[id] EXCEPT !.state = ords2[id].state]
  <2>1. CASE id \in (Len(ords) + 1)..Len(ords2)
    BY <1>2, <2>1 DEF Asks
  <2>2. CASE id \in 1..Len(ords)
    BY <1>2, <2>2 DEF Asks
  <2> QED BY <1>1, <2>1, <2>2
<1> QED BY <1>1, <1>2 DEF AnyExposed

LEMMA AsksNothing == ASSUME NEW ords \in Seq(ShadowOrder) PROVE Asks(ords, ords)
<1>1. \A id \in 1..Len(ords) : ords[id] = [ords[id] EXCEPT !.state = ords[id].state]
  <2> TAKE id \in 1..Len(ords)
  <2>1. ords[id] \in ShadowOrder
    BY ElementOfSeq
  <2> QED BY <2>1 DEF ShadowOrder
<1>2. \A n \in Nat : (n + 1)..n = {}
  OBVIOUS
<1> QED BY <1>1, <1>2, LenProperties DEF Asks

LEMMA AsksTwice ==
  ASSUME NEW a \in Seq(ShadowOrder), NEW b, NEW c, Asks(a, b), Asks(b, c)
  PROVE  Asks(a, c)
<1>1. /\ b \in Seq(ShadowOrder) /\ c \in Seq(ShadowOrder) /\ Len(a) \in Nat /\ Len(b) \in Nat
      /\ Len(c) \in Nat /\ Len(a) <= Len(b) /\ Len(b) <= Len(c)
  BY LenProperties DEF Asks
<1>2. ASSUME NEW id \in 1..Len(a)
      PROVE  /\ c[id].active_at = a[id].active_at /\ c[id].joined = a[id].joined
             /\ c[id].remaining = a[id].remaining
             /\ c[id].state \in Exposed =>
                  a[id].state \in Exposed /\ c[id] = [a[id] EXCEPT !.state = c[id].state]
  <2>1. id \in 1..Len(b) /\ a[id] \in ShadowOrder
    BY <1>1, ElementOfSeq
  <2>2. /\ b[id].active_at = a[id].active_at /\ b[id].joined = a[id].joined
        /\ b[id].remaining = a[id].remaining
        /\ b[id].state \in Exposed =>
             a[id].state \in Exposed /\ b[id] = [a[id] EXCEPT !.state = b[id].state]
    BY DEF Asks
  <2>3. /\ c[id].active_at = b[id].active_at /\ c[id].joined = b[id].joined
        /\ c[id].remaining = b[id].remaining
        /\ c[id].state \in Exposed =>
             b[id].state \in Exposed /\ c[id] = [b[id] EXCEPT !.state = c[id].state]
    BY <2>1 DEF Asks
  <2>4. \A s, t : [[a[id] EXCEPT !.state = s] EXCEPT !.state = t] = [a[id] EXCEPT !.state = t]
    BY <2>1 DEF ShadowOrder
  <2> QED BY <2>2, <2>3, <2>4
<1>3. ASSUME NEW id \in (Len(a) + 1)..Len(c)
      PROVE  c[id].state \notin Exposed /\ c[id].active_at = 0 /\ c[id].joined = 0
  <2>1. CASE id \in (Len(b) + 1)..Len(c)
    BY <2>1 DEF Asks
  <2>2. CASE id \in 1..Len(b)
    <3>1. id \in (Len(a) + 1)..Len(b)
      BY <1>1, <1>3, <2>2
    <3> QED BY <2>2, <3>1 DEF Asks
  <2> QED BY <1>1, <1>3, <2>1, <2>2
<1> QED BY <1>1, <1>2, <1>3 DEF Asks

LEMMA PlansTwice ==
  ASSUME NEW a \in Sim, NEW b, NEW c, Plans(a, b), Plans(b, c)
  PROVE  Plans(a, c)
<1>1. a.orders \in Seq(ShadowOrder) /\ Asks(a.orders, b.orders) /\ Asks(b.orders, c.orders)
  BY DEF Sim, Plans
<1>2. Asks(a.orders, c.orders)
  BY <1>1, AsksTwice
<1> QED BY <1>2 DEF Plans

\* Orders and agenda change, and nothing ends.
LEMMA PlansIf ==
  ASSUME NEW sim \in Sim, NEW ords, NEW sched, Settled(ords, sched), Asks(sim.orders, ords),
         Over(ords) = Over(sim.orders), NEW sim2,
         sim2 = [sim EXCEPT !.orders = ords, !.scheduled = sched, !.recorded = TRUE]
  PROVE  Plans(sim, sim2)
<1>1. ords \in Seq(ShadowOrder) /\ sched \in Seq(LocalEvent) /\ sim.orders \in Seq(ShadowOrder)
  BY DEF Settled, Sim
<1>2. /\ sim2 \in Sim /\ sim2.orders = ords /\ sim2.scheduled = sched
      /\ sim2.stop = sim.stop /\ sim2.cancelled = sim.cancelled
  BY <1>1 DEF Sim
<1>3. AnyExposed(ords) => AnyExposed(sim.orders)
  BY <1>1, AskedOrders
<1> QED BY <1>2, <1>3 DEF Plans, Barred

\* An order is entered.
LEMMA EnterPlans ==
  ASSUME NEW sim \in Sim, Settled(sim.orders, sim.scheduled), factual_sequence \in Nat,
         NEW symbol \in Symbol, NEW side \in Side, NEW price \in Price, NEW at \in Nat,
         \A id \in OpenIds(sim.orders) :
           ~(sim.orders[id].symbol = symbol /\ sim.orders[id].side = side)
  PROVE  Plans(sim, [sim EXCEPT
           !.orders = Append(@,
             [symbol |-> symbol, side |-> side, limit |-> price, original |-> config.quantity,
              remaining |-> config.quantity, state |-> "PendingAck", active_at |-> 0,
              ahead |-> <<>>, joined |-> 0]),
           !.scheduled = Append(@,
             [at |-> ScheduledAt(at + config.order_entry_ns, factual_sequence, "Activate"),
              order_id |-> Len(sim.orders) + 1]),
           !.recorded = TRUE])
<1> DEFINE o == [symbol |-> symbol, side |-> side, limit |-> price, original |-> config.quantity,
                 remaining |-> config.quantity, state |-> "PendingAck", active_at |-> 0,
                 ahead |-> <<>>, joined |-> 0]
           e == [at |-> ScheduledAt(at + config.order_entry_ns, factual_sequence, "Activate"),
                 order_id |-> Len(sim.orders) + 1]
           ords == sim.orders
           ords2 == Append(ords, o)
           n == Len(ords)
<1>1. ords \in Seq(ShadowOrder) /\ n \in Nat
  BY LenProperties DEF Settled
<1>2. /\ o \in ShadowOrder /\ o.state = "PendingAck" /\ o.symbol = symbol /\ o.side = side
      /\ IsOpen(o) /\ o.active_at = 0 /\ o.joined = 0
  BY NoneTracked, ConfigAssumption
     DEF ConfigAssumption, ShadowOrder, IsOpen, is_open_state
<1>3. at + config.order_entry_ns \in Nat
  BY ConfigAssumption DEF ConfigAssumption
<1>4. e \in LocalEvent /\ e.at.kind = "Activate" /\ e.order_id = n + 1
  BY <1>1, <1>3 DEF LocalEvent, Instant, ScheduledAt, Confirmations
<1> DEFINE sim2 == [sim EXCEPT !.orders = Append(@, o), !.scheduled = Append(@, e), !.recorded = TRUE]
<1>5. sim2 = [sim EXCEPT !.orders = ords2, !.scheduled = Append(sim.scheduled, e), !.recorded = TRUE]
  OBVIOUS
<1> SUFFICES Plans(sim, sim2)
  OBVIOUS
<1> HIDE DEF o, e, sim2
<1>6. Settled(ords2, Append(sim.scheduled, e))
  BY <1>2, <1>4, EnteredSettled
<1>7. /\ ords2 \in Seq(ShadowOrder) /\ Len(ords2) = n + 1 /\ ords2[n + 1] = o
      /\ \A id \in 1..n : ords2[id] = ords[id]
  BY <1>1, <1>2, AppendProperties
<1> HIDE DEF ords2
<1>8. Over(ords2) = Over(ords)
  <2>1. IsFiniteSet(OpenIds(ords)) /\ n + 1 \notin OpenIds(ords)
    BY <1>1, OrderTypes
  <2>2. OpenIds(ords2) = OpenIds(ords) \cup {n + 1}
    <3>1. \A id \in 1..(n + 1) : id = n + 1 \/ id \in 1..n
      BY <1>1
    <3>2. n + 1 \in 1..(n + 1)
      BY <1>1
    <3>3. \A id : id \in OpenIds(ords2) <=> id \in 1..(n + 1) /\ IsOpen(ords2[id])
      BY <1>7, OrderTypes
    <3>4. \A id : id \in OpenIds(ords) <=> id \in 1..n /\ IsOpen(ords[id])
      BY <1>1, OrderTypes
    <3>5. \A id \in 1..n : id \in 1..(n + 1)
      BY <1>1
    <3> QED BY <1>2, <1>7, <3>1, <3>2, <3>3, <3>4, <3>5
  <2>3. Cardinality(OpenIds(ords2)) = Cardinality(OpenIds(ords)) + 1
    BY <2>1, <2>2, FS_AddElement
  <2>4. Cardinality(OpenIds(ords)) \in Nat
    BY <2>1, FS_CardinalityType
  <2> QED BY <1>1, <1>7, <2>3, <2>4 DEF Over
<1>9. Asks(ords, ords2)
  <2>1. \A id \in 1..n : ords2[id] = ords[id] /\ ords[id] = [ords[id] EXCEPT !.state = ords[id].state]
    <3> TAKE id \in 1..n
    <3>1. ords[id] \in ShadowOrder /\ ords2[id] = ords[id]
      BY <1>1, <1>7, ElementOfSeq
    <3> QED BY <3>1 DEF ShadowOrder
  <2>2. \A id \in (n + 1)..(n + 1) : id = n + 1
    BY <1>1
  <2>3. o.state \notin Exposed
    BY <1>2 DEF Exposed, Resting
  <2> QED BY <1>1, <1>2, <1>7, <2>1, <2>2, <2>3 DEF Asks
<1> QED BY <1>5, <1>6, <1>8, <1>9, PlansIf

\* The stop ends what is open.
LEMMA StopPlans ==
  ASSUME NEW sim \in Sim, Settled(sim.orders, sim.scheduled)
  PROVE  /\ Plans(sim, trigger_stop(sim))
         /\ OpenIds(trigger_stop(sim).orders) \subseteq OpenIds(sim.orders)
         /\ \A id \in OpenIds(trigger_stop(sim).orders) :
              trigger_stop(sim).orders[id] = sim.orders[id]
         /\ Len(trigger_stop(sim).orders) = Len(sim.orders)
<1> DEFINE sim2 == trigger_stop(sim)
           ords == sim.orders
           ords2 == force_cancel_all(ords, "RiskCancelled")
           c == Cardinality(OpenIds(ords))
<1>1. ords \in Seq(ShadowOrder) /\ sim.cancelled \in Nat
  BY DEF Sim
<1>2. CASE sim.stop
  <2>1. sim2 = sim
    BY <1>2 DEF trigger_stop
  <2>2. Asks(ords, ords)
    BY <1>1, AsksNothing
  <2> QED BY <2>1, <2>2 DEF Plans
<1>3. CASE ~sim.stop
  <2>1. "RiskCancelled" \in Terminal
    BY DEF Terminal
  <2>2. sim2 = [sim EXCEPT !.stop = TRUE, !.orders = ords2, !.cancelled = sim.cancelled + c]
    BY <1>3 DEF trigger_stop
  <2>3. /\ Age(ords, ords2, 0) /\ OpenIds(ords2) = {} /\ ~AnyExposed(ords2)
        /\ Over(ords2) = Over(ords) + c /\ c \in Nat /\ Over(ords) \in Nat
        /\ \A id \in 1..Len(ords) :
             /\ ords2[id].active_at = ords[id].active_at
             /\ ords2[id].remaining = ords[id].remaining
             /\ ords2[id].joined = ords[id].joined
    BY <1>1, <2>1, ForcedOrders
  <2>4. ords2 \in Seq(ShadowOrder) /\ Len(ords2) = Len(ords)
    BY <2>3 DEF Age
  <2> HIDE DEF ords2, c
  <2>5. Settled(ords2, sim.scheduled)
    BY <2>3, AgedSettled
  <2>6. /\ sim2 \in Sim /\ sim2.orders = ords2 /\ sim2.scheduled = sim.scheduled
        /\ sim2.cancelled = sim.cancelled + c
    <3>1. sim.cancelled + c \in Nat
      BY <1>1, <2>3
    <3> QED BY <2>2, <2>4, <3>1 DEF Sim
  <2>7. Asks(ords, ords2)
    <3>1. \A id \in 1..Len(ords) : ords2[id].state \notin Exposed
      BY <2>3, <2>4, OrderTypes DEF AnyExposed
    <3>2. (Len(ords) + 1)..Len(ords2) = {} /\ Len(ords) <= Len(ords2)
      BY <1>1, <2>4, OrderTypes
    <3> QED BY <2>3, <2>4, <3>1, <3>2 DEF Asks
  <2>8. Over(ords2) - sim2.cancelled = Over(ords) - sim.cancelled
    BY <1>1, <2>3, <2>6
  <2> HIDE DEF sim2
  <2>9. Plans(sim, sim2)
    BY <2>3, <2>5, <2>6, <2>7, <2>8 DEF Plans, Barred
  <2> QED BY <2>3, <2>4, <2>6, <2>9 DEF sim2
<1> QED BY <1>2, <1>3

LEMMA SubmitPlans ==
  ASSUME NEW sim \in Sim, Settled(sim.orders, sim.scheduled), factual_sequence \in Nat,
         NEW symbol \in Symbol, NEW side \in Side, NEW price \in Price, NEW at \in Nat,
         \A id \in OpenIds(sim.orders) :
           ~(sim.orders[id].symbol = symbol /\ sim.orders[id].side = side)
  PROVE  Plans(sim, manual_submit(sim, symbol, side, price, at))
<1> DEFINE total == sim.submitted + config.quantity
           added == IF total <= kMaxSubmitted THEN [sim EXCEPT !.submitted = total]
                    ELSE trigger_stop(sim)
<1>1. /\ Plans(sim, added) /\ Len(added.orders) = Len(sim.orders)
      /\ \A id \in OpenIds(added.orders) :
           id \in OpenIds(sim.orders) /\ added.orders[id] = sim.orders[id]
  <2>1. CASE total <= kMaxSubmitted
    <3>1. total \in 0..kMaxSubmitted
      <4>1. sim.submitted \in Nat
        BY ConfigAssumption DEF ConfigAssumption, Sim
      <4>2. config.quantity \in Nat /\ kMaxSubmitted \in Nat
        BY ConfigAssumption DEF ConfigAssumption
      <4> QED BY <2>1, <4>1, <4>2
    <3> HIDE DEF total
    <3>2. added = [sim EXCEPT !.submitted = total]
      BY <2>1
    <3>3. /\ added \in Sim /\ added.orders = sim.orders /\ added.scheduled = sim.scheduled
          /\ added.stop = sim.stop /\ added.cancelled = sim.cancelled
      BY <3>1, <3>2 DEF Sim
    <3> HIDE DEF added
    <3>4. Asks(sim.orders, sim.orders)
      BY AsksNothing DEF Sim
    <3> QED BY <3>3, <3>4 DEF Plans, Barred
  <2>2. CASE ~(total <= kMaxSubmitted)
    BY <2>2, StopPlans
  <2> QED BY <2>1, <2>2
<1> DEFINE sim2 == [added EXCEPT
             !.orders = Append(@,
               [symbol |-> symbol, side |-> side, limit |-> price, original |-> config.quantity,
                remaining |-> config.quantity, state |-> "PendingAck", active_at |-> 0,
                ahead |-> <<>>, joined |-> 0]),
             !.scheduled = Append(@,
               [at |-> ScheduledAt(at + config.order_entry_ns, factual_sequence, "Activate"),
                order_id |-> Len(added.orders) + 1]),
             !.recorded = TRUE]
<1>2. manual_submit(sim, symbol, side, price, at) = sim2
  BY <1>1 DEF manual_submit
<1> HIDE DEF added
<1>3. Plans(added, sim2)
  <2>1. added \in Sim /\ Settled(added.orders, added.scheduled)
    BY <1>1 DEF Plans
  <2>2. \A id \in OpenIds(added.orders) :
          ~(added.orders[id].symbol = symbol /\ added.orders[id].side = side)
    BY <1>1
  <2> HIDE DEF sim2
  <2> QED BY <2>1, <2>2, EnterPlans DEF sim2
<1> HIDE DEF sim2
<1> QED BY <1>1, <1>2, <1>3, PlansTwice

\* An order that rests is asked for something.
LEMMA AskedPlans ==
  ASSUME NEW ords, NEW sched, Settled(ords, sched), NEW id \in 1..Len(ords),
         ords[id].state \in Resting, NEW state \in {"PendingCancel", "PendingReplace"},
         NEW e \in LocalEvent, e.at.kind = Awaited(state), e.order_id = id,
         e.at.kind = "ReplaceConfirm" => e.price \in Price
  PROVE  /\ Settled([ords EXCEPT ![id].state = state], Append(sched, e))
         /\ Asks(ords, [ords EXCEPT ![id].state = state])
         /\ Over([ords EXCEPT ![id].state = state]) = Over(ords)
<1> DEFINE o == [ords[id] EXCEPT !.state = state]
           ords2 == [ords EXCEPT ![id] = o]
           n == Len(ords)
<1>0. [ords EXCEPT ![id].state = state] = ords2
  OBVIOUS
<1>1. ords \in Seq(ShadowOrder) /\ n \in Nat /\ ords[id] \in ShadowOrder
  BY LenProperties, ElementOfSeq DEF Settled
<1>2. /\ o \in ShadowOrder /\ IsOpen(o) /\ IsOpen(ords[id]) /\ o.state = state
      /\ o = [ords[id] EXCEPT !.state = o.state] /\ ords[id].state \in Exposed
      /\ o.active_at = ords[id].active_at /\ o.joined = ords[id].joined
      /\ o.remaining = ords[id].remaining
  BY <1>1 DEF ShadowOrder, IsOpen, is_open_state, Exposed, Resting
<1>3. Settled(ords2, Append(sched, e))
  BY <1>0, AskedSettled
<1> HIDE DEF o
<1>4. /\ ords2 \in Seq(ShadowOrder) /\ Len(ords2) = n /\ ords2[id] = o
      /\ \A x \in 1..n : x # id => ords2[x] = ords[x]
  BY <1>1, <1>2
<1> HIDE DEF ords2
<1>5. OpenIds(ords2) = OpenIds(ords)
  <2>1. \A x : x \in OpenIds(ords2) <=> x \in 1..n /\ IsOpen(ords2[x])
    BY <1>4, OrderTypes
  <2>2. \A x : x \in OpenIds(ords) <=> x \in 1..n /\ IsOpen(ords[x])
    BY <1>1, OrderTypes
  <2> QED BY <1>2, <1>4, <2>1, <2>2
<1>6. \A x \in 1..n : ords[x] = [ords[x] EXCEPT !.state = ords[x].state]
  <2> TAKE x \in 1..n
  <2>1. ords[x] \in ShadowOrder
    BY <1>1, ElementOfSeq
  <2> QED BY <2>1 DEF ShadowOrder
<1>7. (n + 1)..n = {}
  BY <1>1
<1>8. Asks(ords, ords2)
  BY <1>1, <1>2, <1>4, <1>6, <1>7 DEF Asks
<1>9. Over(ords2) = Over(ords)
  BY <1>4, <1>5 DEF Over
<1> QED BY <1>0, <1>3, <1>8, <1>9

LEMMA ManagePlans ==
  ASSUME NEW sim \in Sim, Settled(sim.orders, sim.scheduled),
         factual_sequence \in Nat, NEW market \in Market, NEW side \in Side,
         NEW desired \in {None} \cup Price, NEW at \in Nat
  PROVE  Plans(sim, manage_quote(sim, market, side, desired, at))
<1> DEFINE existing == open_order(sim.orders, market.symbol, side)
           id == Min(existing)
           order == sim.orders[id]
           ords == sim.orders
<1>1. ords \in Seq(ShadowOrder) /\ market.symbol \in Symbol
  BY DEF Settled, Market
<1>2. Plans(sim, sim) /\ Plans(sim, [sim EXCEPT !.recorded = TRUE])
  <2>1. Asks(ords, ords)
    BY <1>1, AsksNothing
  <2>2. Plans(sim, sim)
    BY <2>1 DEF Plans
  <2> DEFINE sim2 == [sim EXCEPT !.recorded = TRUE]
  <2>3. /\ sim2 \in Sim /\ sim2.orders = sim.orders /\ sim2.scheduled = sim.scheduled
        /\ sim2.stop = sim.stop /\ sim2.cancelled = sim.cancelled
    BY DEF Sim
  <2> HIDE DEF sim2
  <2>4. Plans(sim, sim2)
    BY <2>1, <2>3 DEF Plans, Barred
  <2> QED BY <2>2, <2>4 DEF sim2
<1>3. existing = {} => \A x \in OpenIds(ords) :
        ~(ords[x].symbol = market.symbol /\ ords[x].side = side)
  BY DEF open_order
<1>4. existing # {} => id \in 1..Len(ords)
  <2>1. existing \subseteq OpenIds(ords) /\ OpenIds(ords) \subseteq 1..Len(ords)
    BY <1>1, OrderTypes DEF open_order
  <2>2. existing \in SUBSET Nat
    BY <2>1
  <2> QED BY <2>1, <2>2, MinIsIn
<1>5. CASE existing = {} /\ desired = None
  BY <1>2, <1>5 DEF manage_quote
<1>6. CASE existing = {} /\ desired # None
  <2>1. manage_quote(sim, market, side, desired, at)
          = manual_submit(sim, market.symbol, side, desired, at)
    BY <1>6 DEF manage_quote
  <2> QED BY <1>1, <1>3, <1>6, <2>1, SubmitPlans
<1>7. CASE existing # {} /\ desired = None
  <2>1. manage_quote(sim, market, side, desired, at) = manual_cancel(sim, id, at)
    BY <1>7 DEF manage_quote
  <2> HIDE DEF id
  <2>2. CASE ords[id].state \in Resting
    <3> DEFINE e == [at |-> ScheduledAt(at + config.cancel_ns, factual_sequence, "CancelConfirm"),
                     order_id |-> id]
               ords2 == [ords EXCEPT ![id].state = "PendingCancel"]
    <3>0. id \in 1..Len(ords)
      BY <1>4, <1>7
    <3>1. id \in Nat /\ at + config.cancel_ns \in Nat
      BY <3>0, ConfigAssumption DEF ConfigAssumption
    <3>2. e \in LocalEvent /\ e.at.kind = "CancelConfirm" /\ e.order_id = id
      BY <3>1 DEF LocalEvent, Instant, ScheduledAt, Confirmations
    <3>3. manual_cancel(sim, id, at)
            = [sim EXCEPT !.orders = ords2, !.scheduled = Append(sim.scheduled, e),
                          !.recorded = TRUE]
      BY <2>2 DEF manual_cancel
    <3> HIDE DEF e
    <3>4. /\ Settled(ords2, Append(sim.scheduled, e)) /\ Asks(ords, ords2)
          /\ Over(ords2) = Over(ords)
      BY <2>2, <3>0, <3>2, AskedPlans DEF Awaited
    <3> HIDE DEF ords2
    <3> QED BY <2>1, <3>3, <3>4, PlansIf
  <2>3. CASE ords[id].state \notin Resting
    BY <1>2, <2>1, <2>3 DEF manual_cancel
  <2> QED BY <2>2, <2>3
<1>8. CASE existing # {} /\ desired # None
  <2> DEFINE e == [at |-> ScheduledAt(at + config.replace_ns, factual_sequence, "ReplaceConfirm"),
                   order_id |-> id, price |-> desired]
             ords2 == [ords EXCEPT ![id].state = "PendingReplace"]
  <2>1. \/ manage_quote(sim, market, side, desired, at) \in {sim, [sim EXCEPT !.recorded = TRUE]}
        \/ /\ ords[id].state \in Resting
           /\ manage_quote(sim, market, side, desired, at) = manual_replace(sim, id, desired, at)
    BY <1>8 DEF manage_quote
  <2> HIDE DEF id
  <2>2. CASE ords[id].state \in Resting
    <3>0. id \in 1..Len(ords)
      BY <1>4, <1>8
    <3>1. id \in Nat /\ at + config.replace_ns \in Nat /\ desired \in Price
      BY <1>8, <3>0, ConfigAssumption DEF ConfigAssumption
    <3>2. e \in LocalEvent /\ e.at.kind = "ReplaceConfirm" /\ e.order_id = id /\ e.price \in Price
      BY <3>1 DEF LocalEvent, Instant, ScheduledAt, Confirmations
    <3>3. manual_replace(sim, id, desired, at)
            = [sim EXCEPT !.orders = ords2, !.scheduled = Append(sim.scheduled, e),
                          !.recorded = TRUE]
      BY DEF manual_replace
    <3> HIDE DEF e
    <3>4. /\ Settled(ords2, Append(sim.scheduled, e)) /\ Asks(ords, ords2)
          /\ Over(ords2) = Over(ords)
      BY <2>2, <3>0, <3>2, AskedPlans DEF Awaited
    <3> HIDE DEF ords2
    <3>5. Plans(sim, manual_replace(sim, id, desired, at))
      BY <3>3, <3>4, PlansIf
    <3> QED BY <1>2, <2>1, <3>5
  <2> QED BY <1>2, <2>1, <2>2
<1> QED BY <1>5, <1>6, <1>7, <1>8

LEMMA QuotesAreLevels ==
  ASSUME NEW market \in Market, NEW side \in Side
  PROVE  Quotes(market, side) \subseteq {None} \cup Price
BY DEF Quotes, Market

\* A decision: what is asked for one side and then for the other.
LEMMA DecisionPlans ==
  ASSUME NEW before \in Sim, Settled(before.orders, before.scheduled), factual_sequence \in Nat,
         NEW market \in Market, NEW at \in Nat,
         NEW bid \in {None} \cup Price, NEW ask \in {None} \cup Price
  PROVE  LET bidden == manage_quote(before, market, "Buy", bid, at)
             quoted == manage_quote(bidden, market, "Sell", ask, at)
         IN  Plans(before, quoted)
<1> DEFINE bidden == manage_quote(before, market, "Buy", bid, at)
           quoted == manage_quote(bidden, market, "Sell", ask, at)
<1>1. "Buy" \in Side /\ "Sell" \in Side
  BY DEF Side
<1>2. Plans(before, bidden)
  BY <1>1, ManagePlans
<1> HIDE DEF bidden
<1>3. Plans(bidden, quoted)
  BY <1>1, <1>2, ManagePlans DEF Plans
<1> HIDE DEF quoted
<1>4. Plans(before, quoted)
  BY <1>2, <1>3, PlansTwice
<1> QED BY <1>4 DEF quoted, bidden

----------------------------------------------------------------------------
(* The book *)

LEMMA LargestGap == Max(Gaps) \in Nat /\ \A gap \in Gaps : gap <= Max(Gaps)
<1> DEFINE T == {n \in Nat : \A S \in SUBSET Nat : IsFiniteSet(S) /\ S # {} /\ Cardinality(S) <= n =>
                   \E m \in S : \A k \in S : k <= m}
<1>1. 0 \in T
  <2> SUFFICES ASSUME NEW S \in SUBSET Nat, IsFiniteSet(S), S # {}, Cardinality(S) <= 0 PROVE FALSE
    OBVIOUS
  <2> QED BY FS_CardinalityType, FS_EmptySet
<1>2. ASSUME NEW n \in Nat, n \in T PROVE n + 1 \in T
  <2> SUFFICES ASSUME NEW S \in SUBSET Nat, IsFiniteSet(S), S # {}, Cardinality(S) <= n + 1
               PROVE  \E m \in S : \A k \in S : k <= m
    OBVIOUS
  <2>1. PICK x \in S : TRUE
    OBVIOUS
  <2> DEFINE R == S \ {x}
  <2>2. R \in SUBSET Nat /\ IsFiniteSet(R) /\ Cardinality(R) <= n
    <3>1. IsFiniteSet(R) /\ Cardinality(R) = Cardinality(S) - 1 /\ Cardinality(S) \in Nat
      BY FS_RemoveElement, FS_CardinalityType
    <3> QED BY <3>1
  <2>3. \A k \in S : k = x \/ k \in R
    OBVIOUS
  <2>4. CASE R = {}
    BY <2>1, <2>3, <2>4
  <2>5. CASE R # {}
    <3>0. R \subseteq S
      OBVIOUS
    <3> HIDE DEF R
    <3>1. PICK m \in R : \A k \in R : k <= m
      BY <1>2, <2>2, <2>5
    <3>2. m \in S /\ m \in Nat /\ x \in Nat
      BY <2>1, <3>0, <3>1
    <3>3. CASE m <= x
      <4>1. \A k \in S : k <= x
        BY <2>2, <2>3, <3>1, <3>2, <3>3
      <4> QED BY <2>1, <4>1
    <3>4. CASE x <= m
      BY <2>3, <3>1, <3>2, <3>4
    <3> QED BY <3>2, <3>3, <3>4
  <2> QED BY <2>4, <2>5
<1>3. Nat \subseteq T
  <2> HIDE DEF T
  <2> QED BY <1>1, <1>2, SetInduction
<1>4. Gaps \in SUBSET Nat /\ IsFiniteSet(Gaps) /\ Gaps # {} /\ Cardinality(Gaps) \in Nat
  BY ConfigAssumption, FS_CardinalityType DEF ConfigAssumption
<1>5. PICK m \in Gaps : \A k \in Gaps : k <= m
  BY <1>3, <1>4
<1>6. \E x \in Gaps : \A y \in Gaps : x >= y
  BY <1>4, <1>5
<1> QED BY <1>4, <1>6 DEF Max

----------------------------------------------------------------------------
(* The displayed orders *)

LEMMA ArriveDisplays ==
  ASSUME NEW shown, NEW next, Displays(shown, next), NEW ref \in OrderReference,
         NEW symbol \in Symbol, NEW side \in Side, NEW price \in Price, NEW shares \in Quantity,
         NEW o, o \in Shown, o.arrival = next
  PROVE  Displays(With(shown, ref, o), next + 1)
<1> DEFINE more == With(shown, ref, o)
           D == DOMAIN shown
<1>1. DOMAIN more = D \cup {ref}
  BY DEF With
<1>2. \A r \in D \cup {ref} : more[r] = IF r = ref THEN o ELSE shown[r]
  BY DEF With
<1>3. more = [r \in D \cup {ref} |-> more[r]]
  BY DEF With
<1>4. IsFiniteSet(D \cup {ref})
  BY FS_AddElement DEF Displays
<1>5. next \in Nat /\ next + 1 \in Nat /\ next < next + 1
  BY DEF Displays
<1> HIDE DEF more
<1>6. \A r \in D \cup {ref} : more[r] \in Shown /\ more[r].arrival < next + 1
  <2> TAKE r \in D \cup {ref}
  <2>1. CASE r = ref
    BY <1>2, <1>5, <2>1
  <2>2. CASE r # ref
    <3>1. more[r] = shown[r] /\ r \in D
      BY <1>2, <2>2
    <3>2. shown[r] \in Shown /\ shown[r].arrival < next
      BY <3>1 DEF Displays
    <3>3. shown[r].arrival \in Nat
      BY <3>2 DEF Shown
    <3>4. shown[r].arrival < next + 1
      BY <1>5, <3>2, <3>3
    <3> QED BY <3>1, <3>2, <3>4
  <2> QED BY <2>1, <2>2
<1>7. Displays(more, next + 1)
  BY <1>1, <1>3, <1>4, <1>5, <1>6 DEF Displays
<1> QED BY <1>7 DEF more

\* Some orders go, others change their shares.
LEMMA FewerDisplays ==
  ASSUME NEW shown, NEW next, Displays(shown, next), NEW fewer,
         fewer = [r \in DOMAIN fewer |-> fewer[r]], DOMAIN fewer \subseteq DOMAIN shown,
         \A r \in DOMAIN fewer : /\ fewer[r] \in Shown
                                 /\ fewer[r].arrival = shown[r].arrival
  PROVE  Displays(fewer, next)
<1>1. IsFiniteSet(DOMAIN fewer)
  BY FS_Subset DEF Displays
<1> QED BY <1>1 DEF Displays

LEMMA BookMoves ==
  ASSUME Displays(displayed, arrivals), BookMessage
  PROVE  /\ Displays(displayed', arrivals') /\ mutation' \in BookMutation
         /\ (mutation').symbol \in Symbol /\ (mutation').symbol # None
<1>0. Side = {"Buy", "Sell"}
  BY DEF Side
<1>1. ASSUME NEW ref \in OrderReference, NEW symbol \in Symbol, NEW side \in Side,
             NEW price \in Price, NEW shares \in Quantity,
             Arrive("A", ref, symbol, side, price, shares)
      PROVE  Displays(displayed', arrivals') /\ mutation' \in BookMutation
  <2> DEFINE o == [symbol |-> symbol, side |-> side, price |-> price, shares |-> shares,
                   arrival |-> arrivals]
  <2>1. displayed' = With(displayed, ref, o) /\ arrivals' = arrivals + 1
    BY <1>1 DEF Arrive
  <2>2. o \in Shown /\ o.arrival = arrivals
    BY DEF Shown, Displays
  <2>3. mutation' \in BookMutation
    BY <1>1 DEF Arrive, Report, BookMutation, Side
  <2> HIDE DEF o
  <2> QED BY <2>1, <2>2, <2>3, ArriveDisplays
<1>2. ASSUME NEW ref \in DOMAIN displayed
      PROVE  /\ Displays(Without(ref), arrivals) /\ displayed[ref] \in Shown
             /\ ref \in OrderReference
  <2> DEFINE fewer == Without(ref)
  <2>1. /\ fewer = [r \in DOMAIN fewer |-> fewer[r]] /\ DOMAIN fewer \subseteq DOMAIN displayed
        /\ \A r \in DOMAIN fewer : fewer[r] = displayed[r]
    BY DEF Without
  <2> HIDE DEF fewer
  <2>2. \A r \in DOMAIN fewer : fewer[r] \in Shown /\ fewer[r].arrival = displayed[r].arrival
    BY <2>1 DEF Displays
  <2>3. Displays(fewer, arrivals)
    BY <2>1, <2>2, FewerDisplays
  <2> QED BY <2>3 DEF fewer, Displays
<1>3. ASSUME NEW type \in {"E", "X"}, NEW ref \in OrderReference, NEW shares \in Quantity,
             Shrink(type, ref, shares)
      PROVE  Displays(displayed', arrivals') /\ mutation' \in BookMutation
  <2>1. /\ ref \in DOMAIN displayed /\ arrivals' = arrivals /\ shares <= displayed[ref].shares
        /\ displayed' = IF shares = displayed[ref].shares THEN Without(ref)
                        ELSE [displayed EXCEPT ![ref].shares = @ - shares]
    BY <1>3 DEF Shrink
  <2>2. displayed[ref] \in Shown
    BY <1>2, <2>1
  <2>3. mutation' \in BookMutation
    BY <1>3, <2>2 DEF Shrink, Report, BookMutation, Shown, Side
  <2>4. CASE shares = displayed[ref].shares
    BY <1>2, <2>1, <2>3, <2>4
  <2>5. CASE shares # displayed[ref].shares
    <3> DEFINE q == displayed[ref].shares - shares
               o == [displayed[ref] EXCEPT !.shares = q]
               fewer == [displayed EXCEPT ![ref] = o]
    <3>1. q \in Quantity
      <4>1. displayed[ref].shares \in Quantity /\ displayed[ref].shares \in Nat /\ shares \in Nat
        BY <2>2, OpeningAssumption DEF Shown, OpeningAssumption
      <4>2. shares < displayed[ref].shares
        BY <2>1, <2>5, <4>1
      <4> QED BY <4>1, <4>2, OpeningAssumption DEF OpeningAssumption
    <3>2. displayed' = fewer
      BY <2>1, <2>5
    <3> HIDE DEF q
    <3>3. o \in Shown /\ o.arrival = displayed[ref].arrival
      BY <2>2, <3>1 DEF Shown
    <3> HIDE DEF o
    <3>4. DOMAIN fewer = DOMAIN displayed /\ fewer = [r \in DOMAIN fewer |-> fewer[r]]
      OBVIOUS
    <3>5. \A r \in DOMAIN fewer : fewer[r] = IF r = ref THEN o ELSE displayed[r]
      BY <2>1
    <3> HIDE DEF fewer
    <3>6. \A r \in DOMAIN fewer : fewer[r] \in Shown /\ fewer[r].arrival = displayed[r].arrival
      BY <3>3, <3>4, <3>5 DEF Displays
    <3>7. Displays(fewer, arrivals)
      BY <3>4, <3>6, FewerDisplays
    <3> QED BY <2>1, <2>3, <3>2, <3>7
  <2> QED BY <2>4, <2>5
<1>4. ASSUME NEW ref \in OrderReference, Leave(ref)
      PROVE  Displays(displayed', arrivals') /\ mutation' \in BookMutation
  <2>1. ref \in DOMAIN displayed /\ arrivals' = arrivals /\ displayed' = Without(ref)
    BY <1>4 DEF Leave
  <2>2. displayed[ref] \in Shown
    BY <1>2, <2>1
  <2>3. mutation' \in BookMutation
    BY <1>4, <2>2 DEF Leave, Report, BookMutation, Shown, Side
  <2> QED BY <1>2, <2>1, <2>3
<1>5. ASSUME NEW ref \in OrderReference, NEW new_ref \in OrderReference, NEW price \in Price,
             NEW shares \in Quantity, Replace(ref, new_ref, price, shares)
      PROVE  Displays(displayed', arrivals') /\ mutation' \in BookMutation
  <2> DEFINE o == [displayed[ref] EXCEPT !.price = price, !.shares = shares, !.arrival = arrivals]
  <2>1. /\ ref \in DOMAIN displayed /\ arrivals' = arrivals + 1
        /\ displayed' = With(Without(ref), new_ref, o)
    BY <1>5 DEF Replace
  <2>2. displayed[ref] \in Shown /\ Displays(Without(ref), arrivals)
    BY <1>2, <2>1
  <2>3. /\ o \in Shown /\ o.arrival = arrivals /\ o.symbol = displayed[ref].symbol
        /\ o.side = displayed[ref].side /\ o.price = price
    BY <2>2 DEF Shown, Displays
  <2>4. Report("U", o, ref, new_ref, shares)
    BY <1>5 DEF Replace
  <2> HIDE DEF o
  <2>5. mutation' \in BookMutation
    BY <2>3, <2>4 DEF Report, BookMutation, Shown, Side
  <2>6. o.symbol \in Symbol /\ o.side \in Side
    BY <2>3 DEF Shown
  <2> QED BY <2>1, <2>2, <2>3, <2>5, <2>6, ArriveDisplays
<1>6. Displays(displayed', arrivals') /\ mutation' \in BookMutation
  BY <1>0, <1>1, <1>3, <1>4, <1>5 DEF BookMessage
<1> QED BY <1>6, OpeningAssumption DEF OpeningAssumption, BookMutation

----------------------------------------------------------------------------
(* The inductive invariant *)

ShadowTypes ==
  /\ queue_model \in QueueModels
  /\ driver \in {"idle", "message", "finishing", "finished"}
  /\ session_phase \in Phases /\ trading_state \in [Symbol -> {"T", "H"}]
  /\ timestamp \in Nat /\ factual_sequence \in Nat /\ horizon \in Nat
  /\ latest_markets \in [Symbol -> Market]
  /\ inventory \in -kMaxLedger..kMaxLedger /\ submitted_quantity \in 0..kMaxSubmitted
  /\ stop_switch \in BOOLEAN /\ last_market_quoted \in BOOLEAN
  /\ counts \in [rejected : Nat, cancelled : Nat, filled : Nat]
  /\ Displays(displayed, arrivals)

Counted(ords, c) == Over(ords) = c.rejected + c.cancelled + c.filled

\* An order became active before the horizon, or before a fact that is past; it joined
\* its price before the displayed orders to come.
Since(ords, fact, limit, next) ==
  \A id \in 1..Len(ords) :
    /\ ords[id].active_at <= fact \/ ords[id].active_at < limit
    /\ ords[id].state \in Exposed => ords[id].active_at < fact \/ ords[id].active_at < limit
    /\ ords[id].joined <= next

Clock ==
  /\ driver \in {"idle", "finished"} => horizon = 0
  /\ driver = "message" => horizon \in timestamp..(timestamp + Max(Gaps))
  /\ driver = "finishing" => horizon = timestamp + 1
  /\ Since(orders, timestamp, horizon, arrivals)

ShadowInv ==
  /\ ShadowTypes
  /\ Settled(orders, scheduled)
  /\ Counted(orders, counts)
  /\ BarredNotExposed
  /\ Clock

LEMMA NotOpenNotExposed ==
  ASSUME NEW ords, OpenIds(ords) = {} PROVE ~AnyExposed(ords)
BY DEF OpenIds, AnyExposed, IsOpen, is_open_state

\* The event that is due.
LEMMA TakenEvent ==
  ASSUME ShadowInv, Due
  PROVE  /\ NextUp \in 1..Len(scheduled) /\ scheduled[NextUp] \in LocalEvent
         /\ EventOK(scheduled[NextUp], Len(orders))
         /\ scheduled[NextUp].at \in Instant /\ scheduled[NextUp].at.timestamp \in Nat
         /\ scheduled[NextUp].at.timestamp < horizon
<1>1. scheduled \in Seq(LocalEvent) /\ scheduled # <<>>
  BY DEF ShadowInv, Settled, Due
<1>2. NextUp \in 1..Len(scheduled)
  BY <1>1, NextUpIsThere
<1>3. scheduled[NextUp] \in LocalEvent /\ EventOK(scheduled[NextUp], Len(orders))
  BY <1>1, <1>2, ElementOfSeq DEF ShadowInv, Settled
<1>4. scheduled[NextUp].at \in Instant
  BY <1>3 DEF LocalEvent
<1> QED BY <1>2, <1>3, <1>4 DEF Instant, Due

LEMMA ObservationStep ==
  ASSUME ShadowInv, Due, UNCHANGED <<facts, driver, horizon, queue_model>>,
         execute_observation(scheduled[NextUp], RemoveAt(scheduled, NextUp))
  PROVE  ShadowInv'
<1> DEFINE event == scheduled[NextUp]
           rest == RemoveAt(scheduled, NextUp)
           then == event.at.timestamp + config.strategy_compute_ns
           at2 == [event.at EXCEPT !.timestamp = then, !.kind = "Decision"]
           e == [at |-> at2, market |-> event.market]
<1>1. /\ NextUp \in 1..Len(scheduled) /\ EventOK(event, Len(orders)) /\ event.at \in Instant
      /\ event.at.kind = "Observation" /\ scheduled' = Append(rest, e)
      /\ UNCHANGED simulator
  BY TakenEvent DEF execute_observation
<1>2. ~Confirms(event) /\ event.market \in Market
  BY <1>1 DEF EventOK, Confirms, Confirmations
<1>3. then \in Nat
  <2>1. event.at.timestamp \in Nat
    BY <1>1 DEF Instant
  <2>2. config.strategy_compute_ns \in Nat
    BY ConfigAssumption DEF ConfigAssumption
  <2> QED BY <2>1, <2>2
<1> HIDE DEF then
<1>4. at2 \in Instant /\ at2.kind = "Decision"
  BY <1>1, <1>3 DEF Instant
<1> HIDE DEF at2
<1>5. e \in LocalEvent /\ e.at.kind = "Decision" /\ e.market \in Market /\ ~Confirms(e)
  BY <1>2, <1>4 DEF LocalEvent, Confirms, Confirmations
<1> HIDE DEF e
<1>6. Settled(orders, rest)
  <2>1. orders \in Seq(ShadowOrder) /\ Subject(event) = 0
    BY <1>2 DEF ShadowInv, Settled, Subject
  <2>2. Age(orders, orders, 0)
    BY <2>1, AgesNothing
  <2> QED BY <1>1, <2>1, <2>2, TakenSettled DEF ShadowInv
<1> HIDE DEF rest, event
<1>7. Settled(orders, Append(rest, e))
  BY <1>5, <1>6, PlannedSettled
<1>8. Settled(orders', scheduled')
  BY <1>1, <1>7 DEF simulator
<1> QED BY <1>1, <1>8 DEF ShadowInv, ShadowTypes, Counted, BarredNotExposed, StopEndsExposure,
                         ClosedNotExposed, Clock, simulator, facts, book

LEMMA AskedSince ==
  ASSUME NEW ords \in Seq(ShadowOrder), NEW ords2, Asks(ords, ords2), NEW fact \in Nat,
         NEW limit \in Nat, NEW next \in Nat, Since(ords, fact, limit, next)
  PROVE  Since(ords2, fact, limit, next)
<1>1. /\ ords2 \in Seq(ShadowOrder) /\ Len(ords) \in Nat /\ Len(ords2) \in Nat
      /\ Len(ords) <= Len(ords2)
  BY OrderTypes DEF Asks
<1>2. ASSUME NEW id \in 1..Len(ords2)
      PROVE  /\ ords2[id].active_at <= fact \/ ords2[id].active_at < limit
             /\ ords2[id].state \in Exposed =>
                  ords2[id].active_at < fact \/ ords2[id].active_at < limit
             /\ ords2[id].joined <= next
  <2>1. CASE id \in (Len(ords) + 1)..Len(ords2)
    <3>1. ords2[id].active_at = 0 /\ ords2[id].joined = 0 /\ ords2[id].state \notin Exposed
      BY <2>1 DEF Asks
    <3> QED BY <3>1
  <2>2. CASE id \in 1..Len(ords)
    <3>1. /\ ords2[id].active_at = ords[id].active_at /\ ords2[id].joined = ords[id].joined
          /\ ords2[id].state \in Exposed => ords[id].state \in Exposed
      BY <2>2 DEF Asks
    <3> QED BY <2>2, <3>1 DEF Since
  <2> QED BY <1>1, <2>1, <2>2
<1> QED BY <1>2 DEF Since

LEMMA DecisionStep ==
  ASSUME ShadowInv, Due, UNCHANGED <<facts, driver, horizon, queue_model>>,
         execute_decision(scheduled[NextUp], RemoveAt(scheduled, NextUp))
  PROVE  ShadowInv' /\ Asks(orders, orders')
<1> DEFINE event == scheduled[NextUp]
           rest == RemoveAt(scheduled, NextUp)
           at == event.at.timestamp
           before == [orders |-> orders, scheduled |-> rest, recorded |-> FALSE,
                      submitted |-> submitted_quantity, stop |-> stop_switch,
                      cancelled |-> counts.cancelled]
           bidden(bid) == manage_quote(before, event.market, "Buy", bid, at)
           quoted(bid, ask) == manage_quote(bidden(bid), event.market, "Sell", ask, at)
<1>1. /\ NextUp \in 1..Len(scheduled) /\ EventOK(event, Len(orders)) /\ at \in Nat
      /\ event.at.kind = "Decision" /\ UNCHANGED <<latest_markets, inventory>>
  BY TakenEvent DEF execute_decision
<1>2. ~Confirms(event) /\ event.market \in Market
  BY <1>1 DEF EventOK, Confirms, Confirmations
<1>3. orders \in Seq(ShadowOrder) /\ counts \in [rejected : Nat, cancelled : Nat, filled : Nat]
  BY DEF ShadowInv, ShadowTypes, Settled
<1>4. Settled(orders, rest)
  <2>1. Subject(event) = 0 /\ Age(orders, orders, 0)
    BY <1>2, <1>3, AgesNothing DEF Subject
  <2> QED BY <1>1, <1>3, <2>1, TakenSettled DEF ShadowInv
<1>5. PICK bid \in Quotes(event.market, "Buy"), ask \in Quotes(event.market, "Sell") :
        LET sim == IF stop_switch THEN before ELSE quoted(bid, ask)
        IN  /\ orders' = sim.orders
            /\ scheduled' = sim.scheduled
            /\ submitted_quantity' = sim.submitted
            /\ stop_switch' = sim.stop
            /\ counts' = [counts EXCEPT !.cancelled = sim.cancelled]
            /\ last_market_quoted' =
                 IF sim.recorded THEN AnyExposed(sim.orders) ELSE last_market_quoted
  BY DEF execute_decision
<1>6. bid \in {None} \cup Price /\ ask \in {None} \cup Price
  BY <1>2, QuotesAreLevels DEF Side
<1>7. /\ before \in Sim /\ before.orders = orders /\ before.scheduled = rest
      /\ before.stop = stop_switch /\ before.cancelled = counts.cancelled
  <2>1. rest \in Seq(LocalEvent)
    BY <1>4 DEF Settled
  <2> HIDE DEF rest
  <2> QED BY <1>3, <2>1 DEF Sim, ShadowInv, ShadowTypes
<1> HIDE DEF before
<1>8. Plans(before, quoted(bid, ask))
  <2>1. factual_sequence \in Nat
    BY DEF ShadowInv, ShadowTypes
  <2> HIDE DEF rest, event, at
  <2>2. Plans(before, manage_quote(manage_quote(before, event.market, "Buy", bid, at),
                                   event.market, "Sell", ask, at))
    BY <1>1, <1>2, <1>4, <1>6, <1>7, <2>1, DecisionPlans
  <2> QED BY <2>2
<1> DEFINE sim == IF stop_switch THEN before ELSE quoted(bid, ask)
<1>9. /\ orders' = sim.orders /\ scheduled' = sim.scheduled
      /\ submitted_quantity' = sim.submitted /\ stop_switch' = sim.stop
      /\ counts' = [counts EXCEPT !.cancelled = sim.cancelled]
      /\ last_market_quoted' = IF sim.recorded THEN AnyExposed(sim.orders) ELSE last_market_quoted
  BY <1>5
<1> HIDE DEF quoted, bidden, rest
<1>10. Plans(before, sim)
  <2>1. Plans(before, before)
    BY <1>3, <1>4, <1>7, AsksNothing DEF Plans
  <2> QED BY <1>8, <2>1
<1> HIDE DEF sim, event, at
<1>11. /\ Settled(orders', scheduled') /\ Asks(orders, orders') /\ orders' \in Seq(ShadowOrder)
       /\ Over(orders') - sim.cancelled = Over(orders) - counts.cancelled
       /\ (stop_switch => ~AnyExposed(orders)) => (stop_switch' => ~AnyExposed(orders'))
       /\ sim \in Sim
  BY <1>7, <1>9, <1>10 DEF Plans, Barred, Sim
<1>12. /\ last_market_quoted' \in BOOLEAN /\ stop_switch' \in BOOLEAN
       /\ submitted_quantity' \in 0..kMaxSubmitted
       /\ counts' \in [rejected : Nat, cancelled : Nat, filled : Nat]
  <2>1. AnyExposed(sim.orders) \in BOOLEAN
    BY DEF AnyExposed
  <2>2. sim.cancelled \in Nat /\ sim.stop \in BOOLEAN /\ sim.submitted \in 0..kMaxSubmitted
    BY <1>11 DEF Sim
  <2>3. counts' \in [rejected : Nat, cancelled : Nat, filled : Nat]
    BY <1>3, <1>9, <2>2
  <2> QED BY <1>9, <2>1, <2>2, <2>3 DEF ShadowInv, ShadowTypes
<1>13. ShadowTypes'
  BY <1>1, <1>12 DEF ShadowInv, ShadowTypes, facts, book
<1>14. Counted(orders', counts')
  <2>1. /\ counts'.rejected = counts.rejected /\ counts'.filled = counts.filled
        /\ counts'.cancelled = sim.cancelled
        /\ counts.rejected \in Nat /\ counts.filled \in Nat /\ counts.cancelled \in Nat
        /\ sim.cancelled \in Nat
    BY <1>3, <1>9, <1>11 DEF Sim
  <2>2. Over(orders) \in Int /\ Over(orders') \in Int
    BY <1>3, <1>11, OverType
  <2>3. Over(orders) = counts.rejected + counts.cancelled + counts.filled
    BY DEF ShadowInv, Counted
  <2>4. Over(orders') - sim.cancelled = Over(orders) - counts.cancelled
    BY <1>11
  <2>5. Over(orders') = counts.rejected + sim.cancelled + counts.filled
    BY ONLY <2>1, <2>2, <2>3, <2>4
  <2> QED BY <2>1, <2>5 DEF Counted
<1>15. BarredNotExposed'
  <2>1. AnyExposed(orders') => AnyExposed(orders)
    BY <1>3, <1>11, AskedOrders
  <2> QED BY <1>1, <1>11, <2>1
          DEF ShadowInv, BarredNotExposed, StopEndsExposure, ClosedNotExposed, facts
<1>16. Clock'
  <2>1. /\ timestamp \in Nat /\ horizon \in Nat /\ arrivals \in Nat
        /\ Since(orders, timestamp, horizon, arrivals)
    BY DEF ShadowInv, ShadowTypes, Clock, Displays
  <2>2. Since(orders', timestamp, horizon, arrivals)
    BY <1>3, <1>11, <2>1, AskedSince
  <2> QED BY <2>2 DEF ShadowInv, Clock, facts, book
<1> QED BY <1>11, <1>13, <1>14, <1>15, <1>16 DEF ShadowInv

\* The order that a confirmation is about.
LEMMA ConfirmedOrder ==
  ASSUME ShadowInv, Due, Confirms(scheduled[NextUp])
  PROVE  LET event == scheduled[NextUp]
             id == event.order_id
         IN  /\ id \in 1..Len(orders) /\ orders[id] \in ShadowOrder
             /\ Subject(event) = id
             /\ IsOpen(orders[id]) => event.at.kind = Awaited(orders[id].state)
<1>1. /\ NextUp \in 1..Len(scheduled) /\ EventOK(scheduled[NextUp], Len(orders))
      /\ orders \in Seq(ShadowOrder)
  BY TakenEvent DEF ShadowInv, Settled
<1>2. scheduled[NextUp].order_id \in 1..Len(orders)
  BY <1>1 DEF EventOK
<1>3. orders[scheduled[NextUp].order_id] \in ShadowOrder
  BY <1>1, <1>2, ElementOfSeq
<1>4. IsOpen(orders[scheduled[NextUp].order_id]) =>
        scheduled[NextUp].at.kind = Awaited(orders[scheduled[NextUp].order_id].state)
  BY <1>1 DEF ShadowInv, Settled, Confirmed
<1> QED BY <1>2, <1>3, <1>4 DEF Subject

\* A confirmation that lost its race: the order is over.
LEMMA LateStep ==
  ASSUME ShadowInv, Due, UNCHANGED <<facts, driver, horizon, queue_model>>,
         Confirms(scheduled[NextUp]), ~IsOpen(orders[scheduled[NextUp].order_id]),
         scheduled' = RemoveAt(scheduled, NextUp), UNCHANGED simulator
  PROVE  ShadowInv'
<1> DEFINE event == scheduled[NextUp]
           id == event.order_id
<1>1. id \in 1..Len(orders) /\ orders[id] \in ShadowOrder /\ Subject(event) = id
  BY ConfirmedOrder
<1>2. NextUp \in 1..Len(scheduled) /\ orders \in Seq(ShadowOrder)
  BY TakenEvent DEF ShadowInv, Settled
<1>3. Age(orders, orders, Subject(event))
  <2>1. ~IsOpen(orders[id])
    OBVIOUS
  <2> HIDE DEF id, event
  <2> QED BY <1>1, <1>2, <2>1 DEF Age, Ages
<1>4. Settled(orders, RemoveAt(scheduled, NextUp))
  BY <1>2, <1>3, TakenSettled DEF ShadowInv
<1>5. Settled(orders', scheduled')
  BY <1>4 DEF simulator
<1> QED BY <1>5 DEF ShadowInv, ShadowTypes, Counted, BarredNotExposed, StopEndsExposure,
                    ClosedNotExposed, Clock, simulator, facts, book

\* A confirmation in time: the order becomes o, which waits for nothing.
LEMMA TimelyStep ==
  ASSUME ShadowInv, Due, UNCHANGED <<facts, driver, horizon, queue_model>>,
         UNCHANGED <<latest_markets, inventory, submitted_quantity, stop_switch>>,
         Confirms(scheduled[NextUp]), scheduled' = RemoveAt(scheduled, NextUp),
         NEW id, id = scheduled[NextUp].order_id, IsOpen(orders[id]),
         NEW o \in ShadowOrder, orders' = [orders EXCEPT ![id] = o], Ages(orders[id], o),
         \/ /\ o.state = "Active" /\ o.active_at = scheduled[NextUp].at.timestamp
            /\ o.joined = arrivals /\ counts' = counts
            /\ session_phase = "MarketHours" /\ ~stop_switch
         \/ /\ ~IsOpen(o) /\ o.active_at = orders[id].active_at /\ o.joined = orders[id].joined
            /\ \/ counts' = [counts EXCEPT !.rejected = @ + 1]
               \/ counts' = [counts EXCEPT !.cancelled = @ + 1],
         last_market_quoted' = AnyExposed(orders')
  PROVE  ShadowInv'
<1> DEFINE event == scheduled[NextUp]
<1>1. id \in 1..Len(orders) /\ orders[id] \in ShadowOrder /\ Subject(event) = id
  BY ConfirmedOrder
<1>2. NextUp \in 1..Len(scheduled) /\ orders \in Seq(ShadowOrder) /\ event.at.timestamp < horizon
  BY TakenEvent DEF ShadowInv, Settled
<1>3. /\ orders' \in Seq(ShadowOrder) /\ Len(orders') = Len(orders) /\ orders'[id] = o
      /\ \A x \in 1..Len(orders) : x # id => orders'[x] = orders[x]
  BY <1>1, <1>2, ExceptSeq
<1>4. IsOpen(o) => Awaited(o.state) = "none"
  BY DEF Awaited
<1>5. Age(orders, orders', id)
  BY <1>1, <1>2, <1>4, AgesOne
<1>6. Settled(orders', scheduled')
  <2>1. Settled(orders, scheduled)
    BY DEF ShadowInv
  <2> QED BY <1>1, <1>2, <1>5, <2>1, TakenSettled
<1>7. DOMAIN orders = 1..Len(orders) /\ DOMAIN orders' = 1..Len(orders)
  BY <1>2, <1>3, OrderTypes
<1>8. OpenIds(orders') = IF IsOpen(o) THEN OpenIds(orders) ELSE OpenIds(orders) \ {id}
  <2>1. id \in OpenIds(orders)
    BY <1>1, <1>7 DEF OpenIds
  <2>2. \A x : x \in OpenIds(orders') <=> x \in 1..Len(orders) /\ IsOpen(orders'[x])
    BY <1>7 DEF OpenIds
  <2>3. \A x : x \in OpenIds(orders) <=> x \in 1..Len(orders) /\ IsOpen(orders[x])
    BY <1>7 DEF OpenIds
  <2> DEFINE before == OpenIds(orders)
             after == OpenIds(orders')
  <2>4. id \in 1..Len(orders)
    BY <1>1
  <2> HIDE DEF before, after
  <2>5. CASE IsOpen(o)
    <3>1. \A x : x \in after <=> x \in before
      <4> TAKE x
      <4>1. CASE x = id
        BY <1>3, <2>1, <2>2, <2>4, <2>5, <4>1 DEF before, after
      <4>2. CASE x # id
        BY <1>3, <2>2, <2>3, <4>2, ZenonT(40) DEF before, after
      <4> QED BY <4>1, <4>2
    <3>2. after = before
      BY ONLY <3>1
    <3> QED BY <2>5, <3>2 DEF before, after
  <2>6. CASE ~IsOpen(o)
    <3>1. \A x : x \in after <=> x \in before /\ x # id
      <4> TAKE x
      <4>1. CASE x = id
        <5>1. id \in after <=> id \in 1..Len(orders) /\ IsOpen(orders'[id])
          BY <2>2 DEF after
        <5>2. orders'[id] = o
          BY <1>3
        <5>3. id \notin after
          BY <2>6, <5>1, <5>2
        <5> QED BY <4>1, <5>3
      <4>2. CASE x # id
        BY <1>3, <2>2, <2>3, <4>2, ZenonT(40) DEF before, after
      <4> QED BY <4>1, <4>2
    <3>2. after = before \ {id}
      BY ONLY <3>1
    <3> QED BY <2>6, <3>2 DEF before, after
  <2> QED BY <2>5, <2>6
<1>9. IsOpen(o) <=> o.state = "Active"
  BY DEF IsOpen, is_open_state, Exposed, Resting
<1>10. counts' \in [rejected : Nat, cancelled : Nat, filled : Nat] /\ Counted(orders', counts')
  <2>1. counts \in [rejected : Nat, cancelled : Nat, filled : Nat] /\ Counted(orders, counts)
    BY DEF ShadowInv, ShadowTypes
  <2>2. id \in OpenIds(orders) /\ OpenIds(orders) \ (OpenIds(orders) \ {id}) = {id}
        /\ OpenIds(orders) \ OpenIds(orders) = {}
    BY <1>1, <1>7 DEF OpenIds
  <2>3. CASE IsOpen(o)
    <3>1. Over(orders') = Over(orders) + Cardinality({}) /\ Over(orders) \in Nat
      <4> DEFINE kept == OpenIds(orders)
      <4>1. /\ OpenIds(orders') \subseteq OpenIds(orders) /\ OpenIds(orders') = kept
            /\ OpenIds(orders) \ kept = {}
        BY <1>8, <2>3
      <4> HIDE DEF kept
      <4>2. orders \in Seq(ShadowOrder) /\ orders' \in Seq(ShadowOrder) /\ Len(orders') = Len(orders)
        BY <1>2, <1>3
      <4> QED BY ONLY <4>1, <4>2, OverGrows
    <3>2. Cardinality({}) = 0
      BY FS_EmptySet
    <3> QED BY <1>9, <2>1, <2>3, <3>1, <3>2 DEF Counted
  <2>4. CASE ~IsOpen(o)
    <3>1. Over(orders') = Over(orders) + Cardinality({id}) /\ Over(orders) \in Nat
      <4> DEFINE kept == OpenIds(orders) \ {id}
      <4>1. /\ OpenIds(orders') \subseteq OpenIds(orders) /\ OpenIds(orders') = kept
            /\ OpenIds(orders) \ kept = {id}
        BY <1>8, <2>2, <2>4
      <4> HIDE DEF kept
      <4>2. orders \in Seq(ShadowOrder) /\ orders' \in Seq(ShadowOrder) /\ Len(orders') = Len(orders)
        BY <1>2, <1>3
      <4> QED BY ONLY <4>1, <4>2, OverGrows
    <3>2. Cardinality({id}) = 1
      BY FS_Singleton
    <3>3. \/ counts' = [counts EXCEPT !.rejected = counts.rejected + 1]
          \/ counts' = [counts EXCEPT !.cancelled = counts.cancelled + 1]
      BY <1>9, <2>4
    <3>4. /\ counts' \in [rejected : Nat, cancelled : Nat, filled : Nat]
          /\ counts'.rejected + counts'.cancelled + counts'.filled
               = counts.rejected + counts.cancelled + counts.filled + 1
      BY <2>1, <3>3
    <3> QED BY <2>1, <3>1, <3>2, <3>4 DEF Counted
  <2> QED BY <2>3, <2>4
<1>11. ShadowTypes'
  BY <1>10 DEF ShadowInv, ShadowTypes, AnyExposed, facts, book
<1>12. BarredNotExposed'
  <2>1. AnyExposed(orders') => AnyExposed(orders) \/ o.state \in Exposed
    BY <1>3, <1>7 DEF AnyExposed
  <2>2. o.state \in Exposed => o.state = "Active"
    BY <1>9 DEF IsOpen, is_open_state
  <2>3. stop_switch => ~AnyExposed(orders')
    BY <1>9, <2>1, <2>2 DEF ShadowInv, BarredNotExposed, StopEndsExposure
  <2>4. session_phase # "MarketHours" => ~AnyExposed(orders')
    BY <1>9, <2>1, <2>2 DEF ShadowInv, BarredNotExposed, ClosedNotExposed
  <2> QED BY <2>3, <2>4 DEF BarredNotExposed, StopEndsExposure, ClosedNotExposed, facts
<1>13. Clock'
  <2>1. /\ timestamp \in Nat /\ horizon \in Nat /\ arrivals \in Nat
        /\ Since(orders, timestamp, horizon, arrivals)
    BY DEF ShadowInv, ShadowTypes, Clock, Displays
  <2>2. /\ o.active_at <= timestamp \/ o.active_at < horizon
        /\ o.state \in Exposed => o.active_at < timestamp \/ o.active_at < horizon
        /\ o.joined <= arrivals
    <3>1. CASE o.state = "Active"
      <4>1. o.active_at < horizon /\ o.joined = arrivals
        BY <1>2, <1>9, <3>1
      <4> QED BY <2>1, <4>1
    <3>2. CASE o.state # "Active"
      <4>1. o.active_at = orders[id].active_at /\ o.joined = orders[id].joined
        BY <3>2
      <4>2. o.state \notin Exposed
        BY <1>9, <3>2 DEF IsOpen, is_open_state
      <4> QED BY <1>1, <2>1, <4>1, <4>2 DEF Since
    <3> QED BY <3>1, <3>2
  <2>3. Since(orders', timestamp, horizon, arrivals)
    <3> SUFFICES ASSUME NEW x \in 1..Len(orders)
                 PROVE  /\ orders'[x].active_at <= timestamp \/ orders'[x].active_at < horizon
                        /\ orders'[x].state \in Exposed =>
                             orders'[x].active_at < timestamp \/ orders'[x].active_at < horizon
                        /\ orders'[x].joined <= arrivals
      BY <1>3 DEF Since
    <3>1. CASE x = id
      BY <1>3, <2>2, <3>1
    <3>2. CASE x # id
      BY <1>3, <2>1, <3>2 DEF Since
    <3> QED BY <3>1, <3>2
  <2> QED BY <2>3 DEF ShadowInv, Clock, facts, book
<1> QED BY <1>6, <1>10, <1>11, <1>12, <1>13 DEF ShadowInv

LEMMA AllowedOpens ==
  ASSUME NEW id, NEW o, NEW at, Allowed(id, o, at)
  PROVE  /\ ~stop_switch /\ session_phase = "MarketHours" /\ InventoryAllows(o)
         /\ Cardinality(OpenIds(orders) \ {id}) < config.max_open_orders
BY DEF Allowed, SessionOpen

LEMMA ActivateStep ==
  ASSUME ShadowInv, Due, UNCHANGED <<facts, driver, horizon, queue_model>>,
         activate(scheduled[NextUp], RemoveAt(scheduled, NextUp))
  PROVE  ShadowInv'
<1> DEFINE event == scheduled[NextUp]
           id == event.order_id
           at == event.at.timestamp
           allowed == Allowed(id, orders[id], at)
           o == IF allowed THEN Activated(orders[id], at) ELSE Ended(orders[id], "Rejected")
<1>1. /\ event.at.kind = "Activate" /\ scheduled' = RemoveAt(scheduled, NextUp)
      /\ UNCHANGED <<latest_markets, inventory, submitted_quantity, stop_switch>> /\ Confirms(event)
      /\ \/ orders[id].state # "PendingAck" /\ UNCHANGED <<orders, counts, last_market_quoted>>
         \/ /\ orders[id].state = "PendingAck" /\ orders' = [orders EXCEPT ![id] = o]
            /\ counts' = IF allowed THEN counts ELSE [counts EXCEPT !.rejected = @ + 1]
            /\ last_market_quoted' = AnyExposed(orders')
  BY DEF activate, Confirms, Confirmations
<1>2. /\ id \in 1..Len(orders) /\ orders[id] \in ShadowOrder
      /\ IsOpen(orders[id]) => Awaited(orders[id].state) = "Activate"
  BY <1>1, ConfirmedOrder
<1>3. CASE orders[id].state # "PendingAck"
  <2>1. ~IsOpen(orders[id])
    BY <1>2, <1>3 DEF Awaited
  <2>2. UNCHANGED simulator
    BY <1>1, <1>3 DEF simulator
  <2> QED BY <1>1, <2>1, <2>2, LateStep
<1>4. CASE orders[id].state = "PendingAck"
  <2>1. IsOpen(orders[id])
    BY <1>4 DEF IsOpen, is_open_state
  <2>2. at \in Nat /\ Displays(displayed, arrivals)
    BY TakenEvent DEF ShadowInv, ShadowTypes
  <2>3. CASE allowed
    <3>1. o = Activated(orders[id], at) /\ o.joined = arrivals
      BY <1>2, <2>3 DEF Activated, ShadowOrder
    <3>2. /\ o \in ShadowOrder /\ Ages(orders[id], o) /\ o.state = "Active" /\ o.active_at = at
      <4>1. orders[id] \in ShadowOrder /\ IsOpen(orders[id])
        BY <1>2, <2>1
      <4> HIDE DEF o, at, allowed
      <4> QED BY <2>2, <3>1, <4>1, ActivatedOrder
    <3>3. counts' = counts /\ orders' = [orders EXCEPT ![id] = o]
          /\ last_market_quoted' = AnyExposed(orders')
      BY <1>1, <1>4, <2>3
    <3>4. ~stop_switch /\ session_phase = "MarketHours"
      BY <2>3, AllowedOpens
    <3> HIDE DEF allowed, o
    <3> QED BY <1>1, <2>1, <3>1, <3>2, <3>3, <3>4, TimelyStep
  <2>4. CASE ~allowed
    <3>1. o = Ended(orders[id], "Rejected") /\ o.joined = orders[id].joined
      BY <1>2, <2>4 DEF Ended, ShadowOrder
    <3>2. /\ o \in ShadowOrder /\ Ages(orders[id], o) /\ ~IsOpen(o)
          /\ o.active_at = orders[id].active_at
      BY <1>2, <3>1, EndedOrder DEF Terminal
    <3>3. /\ counts' = [counts EXCEPT !.rejected = @ + 1] /\ orders' = [orders EXCEPT ![id] = o]
          /\ last_market_quoted' = AnyExposed(orders')
      BY <1>1, <1>4, <2>4
    <3> HIDE DEF allowed, o
    <3> QED BY <1>1, <2>1, <3>1, <3>2, <3>3, TimelyStep
  <2> QED BY <2>3, <2>4
<1> QED BY <1>3, <1>4

LEMMA CancelStep ==
  ASSUME ShadowInv, Due, UNCHANGED <<facts, driver, horizon, queue_model>>,
         confirm_cancel(scheduled[NextUp], RemoveAt(scheduled, NextUp))
  PROVE  ShadowInv'
<1> DEFINE event == scheduled[NextUp]
           id == event.order_id
           o == Ended(orders[id], "Cancelled")
<1>1. /\ event.at.kind = "CancelConfirm" /\ scheduled' = RemoveAt(scheduled, NextUp)
      /\ UNCHANGED <<latest_markets, inventory, submitted_quantity, stop_switch>> /\ Confirms(event)
      /\ \/ orders[id].state # "PendingCancel" /\ UNCHANGED <<orders, counts, last_market_quoted>>
         \/ /\ orders[id].state = "PendingCancel" /\ orders' = [orders EXCEPT ![id] = o]
            /\ counts' = [counts EXCEPT !.cancelled = @ + 1]
            /\ last_market_quoted' = AnyExposed(orders')
  BY DEF confirm_cancel, Confirms, Confirmations
<1>2. /\ id \in 1..Len(orders) /\ orders[id] \in ShadowOrder
      /\ IsOpen(orders[id]) => Awaited(orders[id].state) = "CancelConfirm"
  BY <1>1, ConfirmedOrder
<1>3. CASE orders[id].state # "PendingCancel"
  <2>1. ~IsOpen(orders[id])
    BY <1>2, <1>3 DEF Awaited
  <2>2. UNCHANGED simulator
    BY <1>1, <1>3 DEF simulator
  <2> QED BY <1>1, <2>1, <2>2, LateStep
<1>4. CASE orders[id].state = "PendingCancel"
  <2>1. IsOpen(orders[id])
    BY <1>4 DEF IsOpen, is_open_state, Exposed
  <2>2. /\ o \in ShadowOrder /\ Ages(orders[id], o) /\ ~IsOpen(o)
        /\ o.active_at = orders[id].active_at
    BY <1>2, EndedOrder DEF Terminal
  <2>3. o.joined = orders[id].joined
    BY <1>2 DEF Ended, ShadowOrder
  <2>4. /\ counts' = [counts EXCEPT !.cancelled = @ + 1] /\ orders' = [orders EXCEPT ![id] = o]
        /\ last_market_quoted' = AnyExposed(orders')
    BY <1>1, <1>4
  <2> HIDE DEF o
  <2> QED BY <1>1, <2>1, <2>2, <2>3, <2>4, TimelyStep
<1> QED BY <1>3, <1>4

LEMMA ReplaceStep ==
  ASSUME ShadowInv, Due, UNCHANGED <<facts, driver, horizon, queue_model>>,
         confirm_replace(scheduled[NextUp], RemoveAt(scheduled, NextUp))
  PROVE  ShadowInv'
<1> DEFINE event == scheduled[NextUp]
           id == event.order_id
           at == event.at.timestamp
           order == [orders[id] EXCEPT !.limit = event.price, !.original = config.quantity,
                                       !.remaining = config.quantity]
           allowed == Allowed(id, order, at)
           o == IF allowed THEN Activated(order, at) ELSE Ended(order, "RiskCancelled")
<1>1. /\ event.at.kind = "ReplaceConfirm" /\ scheduled' = RemoveAt(scheduled, NextUp)
      /\ UNCHANGED <<latest_markets, inventory, submitted_quantity, stop_switch>> /\ Confirms(event)
      /\ \/ orders[id].state # "PendingReplace" /\ UNCHANGED <<orders, counts, last_market_quoted>>
         \/ /\ orders[id].state = "PendingReplace" /\ orders' = [orders EXCEPT ![id] = o]
            /\ counts' = IF allowed THEN counts ELSE [counts EXCEPT !.rejected = @ + 1]
            /\ last_market_quoted' = AnyExposed(orders')
  BY DEF confirm_replace, Confirms, Confirmations
<1>2. /\ id \in 1..Len(orders) /\ orders[id] \in ShadowOrder
      /\ IsOpen(orders[id]) => Awaited(orders[id].state) = "ReplaceConfirm"
  BY <1>1, ConfirmedOrder
<1>3. CASE orders[id].state # "PendingReplace"
  <2>1. ~IsOpen(orders[id])
    BY <1>2, <1>3 DEF Awaited
  <2>2. UNCHANGED simulator
    BY <1>1, <1>3 DEF simulator
  <2> QED BY <1>1, <2>1, <2>2, LateStep
<1>4. CASE orders[id].state = "PendingReplace"
  <2>1. event.price \in Price
    BY <1>1, TakenEvent DEF EventOK
  <2>2. /\ order \in ShadowOrder /\ order.state = "PendingReplace"
        /\ order.symbol = orders[id].symbol /\ order.side = orders[id].side
        /\ order.active_at = orders[id].active_at /\ order.joined = orders[id].joined
    <3>1. config.quantity \in {config.quantity} /\ config.quantity \in 0..config.quantity
      BY ConfigAssumption DEF ConfigAssumption
    <3> HIDE DEF id, event
    <3> QED BY <1>2, <1>4, <2>1, <3>1 DEF ShadowOrder
  <2>3. IsOpen(order) /\ IsOpen(orders[id])
    BY <1>4, <2>2 DEF IsOpen, is_open_state, Exposed
  <2>4. at \in Nat /\ Displays(displayed, arrivals)
    BY TakenEvent DEF ShadowInv, ShadowTypes
  <2>5. \A n \in ShadowOrder : Ages(order, n) => Ages(orders[id], n)
    BY <2>2, <2>3 DEF Ages
  <2> HIDE DEF order
  <2>6. CASE allowed
    <3>1. o = Activated(order, at) /\ o.joined = arrivals
      BY <2>2, <2>6 DEF Activated, ShadowOrder
    <3>2. /\ o \in ShadowOrder /\ Ages(order, o) /\ o.state = "Active" /\ o.active_at = at
      BY <2>2, <2>3, <2>4, <3>1, ActivatedOrder
    <3>3. counts' = counts /\ orders' = [orders EXCEPT ![id] = o]
          /\ last_market_quoted' = AnyExposed(orders')
      BY <1>1, <1>4, <2>6
    <3>4. ~stop_switch /\ session_phase = "MarketHours"
      BY <2>6, AllowedOpens
    <3>5. Ages(orders[id], o)
      BY <2>5, <3>2
    <3> HIDE DEF allowed, o
    <3> QED BY <1>1, <2>3, <3>1, <3>2, <3>3, <3>4, <3>5, TimelyStep
  <2>7. CASE ~allowed
    <3>1. o = Ended(order, "RiskCancelled") /\ o.joined = order.joined
      BY <2>2, <2>7 DEF Ended, ShadowOrder
    <3>2. /\ o \in ShadowOrder /\ Ages(order, o) /\ ~IsOpen(o) /\ o.active_at = order.active_at
      BY <2>2, <3>1, EndedOrder DEF Terminal
    <3>3. /\ counts' = [counts EXCEPT !.rejected = @ + 1] /\ orders' = [orders EXCEPT ![id] = o]
          /\ last_market_quoted' = AnyExposed(orders')
      BY <1>1, <1>4, <2>7
    <3>4. Ages(orders[id], o) /\ o.active_at = orders[id].active_at /\ o.joined = orders[id].joined
      BY <2>2, <2>5, <3>1, <3>2
    <3> HIDE DEF allowed, o
    <3> QED BY <1>1, <2>3, <3>1, <3>2, <3>3, <3>4, TimelyStep
  <2> QED BY <2>6, <2>7
<1> QED BY <1>3, <1>4

\* Every open order ends.
LEMMA ForcedStep ==
  ASSUME ShadowInv, NEW state \in Terminal, orders' = force_cancel_all(orders, state),
         counts' = [counts EXCEPT !.cancelled = @ + Cardinality(OpenIds(orders))],
         scheduled' \in {scheduled, <<>>},
         UNCHANGED <<facts, latest_markets, inventory, submitted_quantity, queue_model>>,
         last_market_quoted' = (OpenIds(orders) = {} /\ last_market_quoted),
         stop_switch' \in BOOLEAN,
         \/ UNCHANGED <<driver, horizon>>
         \/ driver = "finishing" /\ driver' = "finished" /\ horizon' = 0
  PROVE  ShadowInv'
<1>1. orders \in Seq(ShadowOrder)
  BY DEF ShadowInv, Settled
<1>2. /\ Age(orders, orders', 0) /\ OpenIds(orders') = {} /\ ~AnyExposed(orders')
      /\ Over(orders') = Over(orders) + Cardinality(OpenIds(orders))
      /\ Cardinality(OpenIds(orders)) \in Nat /\ Over(orders) \in Nat
      /\ \A id \in 1..Len(orders) :
           /\ orders'[id].active_at = orders[id].active_at
           /\ orders'[id].joined = orders[id].joined
  BY <1>1, ForcedOrders
<1>3. Len(orders') = Len(orders) /\ orders' \in Seq(ShadowOrder)
  BY <1>2 DEF Age
<1>4. Settled(orders', scheduled')
  <2>1. Settled(orders', scheduled)
    BY <1>2, AgedSettled DEF ShadowInv
  <2>2. CASE scheduled' = <<>>
    <3>1. <<>> \in Seq(LocalEvent) /\ 1..Len(<<>>) = {}
      BY EmptySeq
    <3>2. \A id \in 1..Len(orders') : ~IsOpen(orders'[id])
      BY <1>2, <1>3, OrderTypes
    <3>3. Confirmed(orders', <<>>)
      BY <3>1, <3>2 DEF Confirmed
    <3> QED BY <2>1, <2>2, <3>1, <3>3 DEF Settled
  <2> QED BY <2>1, <2>2
<1>5. Counted(orders', counts') /\ counts' \in [rejected : Nat, cancelled : Nat, filled : Nat]
  <2> DEFINE c == Cardinality(OpenIds(orders))
  <2>1. c \in Nat /\ Over(orders') = Over(orders) + c
        /\ counts' = [counts EXCEPT !.cancelled = counts.cancelled + c]
    BY <1>2
  <2>2. counts \in [rejected : Nat, cancelled : Nat, filled : Nat] /\ Counted(orders, counts)
    BY DEF ShadowInv, ShadowTypes
  <2> HIDE DEF c
  <2>3. /\ counts' \in [rejected : Nat, cancelled : Nat, filled : Nat]
        /\ counts'.rejected + counts'.cancelled + counts'.filled
             = counts.rejected + counts.cancelled + counts.filled + c
    BY <2>1, <2>2
  <2> QED BY <1>2, <2>1, <2>2, <2>3 DEF Counted
<1>6. ShadowTypes'
  <2>1. horizon' \in Nat /\ driver' \in {"idle", "message", "finishing", "finished"}
    BY DEF ShadowInv, ShadowTypes
  <2> QED BY <1>5, <2>1 DEF ShadowInv, ShadowTypes, facts, book
<1>7. Clock'
  <2>1. /\ timestamp \in Nat /\ horizon \in Nat /\ arrivals \in Nat
        /\ Since(orders, timestamp, horizon, arrivals)
        /\ driver = "finishing" => horizon = timestamp + 1
    BY DEF ShadowInv, ShadowTypes, Clock, Displays
  <2>2. \A id \in 1..Len(orders) : orders'[id].state \notin Exposed
    BY <1>2, <1>3, OrderTypes DEF AnyExposed
  <2>3. Since(orders', timestamp', horizon', arrivals')
    <3> SUFFICES ASSUME NEW id \in 1..Len(orders)
                 PROVE  /\ orders'[id].active_at <= timestamp \/ orders'[id].active_at < horizon'
                        /\ orders'[id].joined <= arrivals
      BY <1>3, <2>2 DEF Since, facts, book
    <3>1. orders[id] \in ShadowOrder
      BY <1>1, ElementOfSeq
    <3>2. orders[id].active_at \in Nat
      BY <3>1 DEF ShadowOrder
    <3>3. /\ orders[id].active_at <= timestamp \/ orders[id].active_at < horizon
          /\ orders[id].joined <= arrivals
      BY <2>1 DEF Since
    <3>4. orders'[id].active_at = orders[id].active_at /\ orders'[id].joined = orders[id].joined
      BY <1>2
    <3>5. CASE UNCHANGED <<driver, horizon>>
      BY <3>3, <3>4, <3>5
    <3>6. CASE driver = "finishing"
      <4>1. orders[id].active_at <= timestamp
        BY <2>1, <3>2, <3>3, <3>6
      <4> QED BY <3>3, <3>4, <4>1
    <3> QED BY <3>5, <3>6
  <2> QED BY <2>1, <2>3 DEF ShadowInv, Clock, facts, book
<1>8. BarredNotExposed'
  BY <1>2 DEF BarredNotExposed, StopEndsExposure, ClosedNotExposed
<1> QED BY <1>4, <1>5, <1>6, <1>7, <1>8 DEF ShadowInv

----------------------------------------------------------------------------
(* A message *)

HitIds == {id \in DOMAIN orders : Hit(orders[id]) # 0}
MetOrders(accounted) == [id \in DOMAIN orders |-> Met(orders[id], accounted)]
FilledIds(accounted) ==
  IF accounted THEN {id \in HitIds : MetOrders(accounted)[id].state = "Filled"} ELSE {}

LEMMA MessageMeets ==
  ASSUME ShadowInv, mutation' \in BookMutation \cup {None}, NEW accounted \in BOOLEAN
  PROVE  LET met == MetOrders(accounted)
         IN  /\ met \in Seq(ShadowOrder) /\ Len(met) = Len(orders) /\ Age(orders, met, 0)
             /\ OpenIds(met) \subseteq OpenIds(orders)
             /\ OpenIds(orders) \ OpenIds(met) = FilledIds(accounted)
             /\ \A id \in 1..Len(orders) : /\ met[id] = Met(orders[id], accounted)
                                           /\ met[id].active_at = orders[id].active_at
                                           /\ met[id].joined = orders[id].joined
                                           /\ met[id].state \in Exposed => orders[id].state \in Exposed
<1> DEFINE met == MetOrders(accounted)
           n == Len(orders)
<1>1. /\ n \in Nat /\ DOMAIN orders = 1..n /\ \A id \in 1..n : orders[id] \in ShadowOrder
      /\ queue_model \in QueueModels /\ orders \in Seq(ShadowOrder)
  BY OrderTypes DEF ShadowInv, ShadowTypes, Settled
<1>2. /\ met = [id \in 1..n |-> Met(orders[id], accounted)]
      /\ \A id \in 1..n : met[id] = Met(orders[id], accounted)
  BY <1>1 DEF MetOrders
<1>3. ASSUME NEW id \in 1..n
      PROVE  /\ met[id] \in ShadowOrder /\ Ages(orders[id], met[id])
             /\ met[id].active_at = orders[id].active_at /\ met[id].joined = orders[id].joined
             /\ IsOpen(met[id]) => /\ met[id].state \in Exposed <=> orders[id].state \in Exposed
                                   /\ Awaited(met[id].state) = Awaited(orders[id].state)
             /\ IsOpen(orders[id]) /\ ~IsOpen(met[id]) =>
                  accounted /\ Hit(orders[id]) # 0 /\ met[id].state = "Filled"
  BY <1>1, <1>2, MetOrder
<1>4. met \in Seq(ShadowOrder) /\ Len(met) = n
  <2> HIDE DEF met
  <2>1. met \in [1..n -> ShadowOrder]
    BY <1>2, <1>3
  <2> QED BY <1>1, <2>1
<1> HIDE DEF met
<1>5. Age(orders, met, 0)
  BY <1>3, <1>4 DEF Age
<1>6. \A id : id \in OpenIds(met) <=> id \in 1..n /\ IsOpen(met[id])
  BY <1>4, OrderTypes
<1>7. \A id : id \in OpenIds(orders) <=> id \in 1..n /\ IsOpen(orders[id])
  BY <1>1, OrderTypes
<1>8. OpenIds(met) \subseteq OpenIds(orders)
  BY <1>3, <1>6, <1>7 DEF Ages
<1>9. OpenIds(orders) \ OpenIds(met) = FilledIds(accounted)
  <2>1. ASSUME NEW id, id \in OpenIds(orders), id \notin OpenIds(met)
        PROVE  id \in FilledIds(accounted)
    BY <1>1, <1>3, <1>6, <1>7, <2>1 DEF FilledIds, HitIds, met
  <2>2. ASSUME NEW id \in FilledIds(accounted)
        PROVE  id \in OpenIds(orders) /\ id \notin OpenIds(met)
    <3>1. id \in 1..n /\ Hit(orders[id]) # 0 /\ met[id].state = "Filled"
      BY <1>1, <2>2 DEF FilledIds, HitIds, met
    <3>2. orders[id].state \in Exposed
      BY <1>1, <3>1, HitBounds DEF Concerns
    <3>3. IsOpen(orders[id]) /\ ~IsOpen(met[id])
      BY <3>1, <3>2 DEF IsOpen, is_open_state, Exposed, Resting
    <3> QED BY <1>6, <1>7, <3>1, <3>3
  <2> QED BY <2>1, <2>2
<1>10. \A id \in 1..n : met[id].state \in Exposed => orders[id].state \in Exposed
  BY <1>3 DEF IsOpen, is_open_state
<1> QED BY <1>2, <1>3, <1>4, <1>5, <1>8, <1>9, <1>10 DEF met

LEMMA SnapshotIsMarket ==
  ASSUME NEW symbol \in Symbol, NEW at \in Nat, NEW shown, NEW next, Displays(shown, next),
         NEW phase \in Phases, NEW trading \in [Symbol -> {"T", "H"}]
  PROVE  snapshot_for(symbol, at, shown, phase, trading) \in Market
<1>1. \A side \in {"Buy", "Sell"} : Prices(shown, symbol, side) \subseteq Price
  BY DEF Displays, Shown, Prices
<1> QED BY <1>1 DEF snapshot_for, Market

LEMMA ObserveIsEvent ==
  ASSUME NEW market \in Market, NEW seq \in Nat
  PROVE  /\ Observe(market, seq) \in LocalEvent /\ ~Confirms(Observe(market, seq))
         /\ Observe(market, seq).market = market
<1> DEFINE then == market.exchange_timestamp + config.market_data_ns
<1>1. then \in Nat
  BY ConfigAssumption DEF ConfigAssumption, Market
<1> HIDE DEF then
<1>2. Observe(market, seq) = [at |-> ScheduledAt(then, seq, "Observation"), market |-> market]
  BY DEF Observe, then
<1> QED BY <1>1, <1>2 DEF LocalEvent, Instant, ScheduledAt, Confirms, Confirmations

\* What a message does to orders and inventory, for a choice of breach and of accounted.
Outcome(breach, accounted) ==
  LET met == MetOrders(accounted)
      closed == session_phase' # "MarketHours"
      stopping == ~stop_switch /\ (breach \/ ~accounted)
      traded == inventory + SumFunction([id \in HitIds |-> Signed(orders[id])])
  IN  /\ accounted = (traded \in -kMaxLedger..kMaxLedger)
      /\ inventory' = IF accounted THEN traded ELSE inventory
      /\ stop_switch' = (stop_switch \/ stopping)
      /\ orders' = IF stopping THEN force_cancel_all(met, "RiskCancelled")
                   ELSE IF closed THEN force_cancel_all(met, "SessionEnded") ELSE met
      /\ counts' = [counts EXCEPT
                      !.filled = @ + Cardinality(FilledIds(accounted)),
                      !.cancelled = @ + Cardinality(IF stopping \/ closed THEN OpenIds(met) ELSE {})]
      /\ last_market_quoted' \in BOOLEAN

LEMMA MessageOutcome ==
  ASSUME NEW symbol, after_market(symbol), last_market_quoted \in BOOLEAN
  PROVE  \E breach, accounted \in BOOLEAN : Outcome(breach, accounted)
<1> DEFINE hit == {id \in DOMAIN orders : Hit(orders[id]) # 0}
           traded == inventory + SumFunction([id \in hit |-> Signed(orders[id])])
           accounted == traded \in -kMaxLedger..kMaxLedger
           met == [id \in DOMAIN orders |-> Met(orders[id], accounted)]
           closed == session_phase' # "MarketHours"
           filled == IF accounted THEN {id \in hit : met[id].state = "Filled"} ELSE {}
           stopping(breach) == ~stop_switch /\ (breach \/ ~accounted)
           forced(breach) == IF stopping(breach) \/ closed THEN OpenIds(met) ELSE {}
<1>1. /\ inventory' = IF accounted THEN traded ELSE inventory
      /\ \E breach \in BOOLEAN :
           /\ stop_switch' = (stop_switch \/ stopping(breach))
           /\ orders' = IF stopping(breach) THEN force_cancel_all(met, "RiskCancelled")
                        ELSE IF closed THEN force_cancel_all(met, "SessionEnded") ELSE met
           /\ counts' = [counts EXCEPT !.filled = @ + Cardinality(filled),
                                       !.cancelled = @ + Cardinality(forced(breach))]
           /\ last_market_quoted' =
                IF forced(breach) # {} THEN AnyExposed(orders')
                ELSE IF symbol # None
                THEN \E side \in Side : open_order(met, symbol, side) # {}
                ELSE last_market_quoted
  BY DEF after_market
<1>2. PICK breach \in BOOLEAN :
           /\ stop_switch' = (stop_switch \/ stopping(breach))
           /\ orders' = IF stopping(breach) THEN force_cancel_all(met, "RiskCancelled")
                        ELSE IF closed THEN force_cancel_all(met, "SessionEnded") ELSE met
           /\ counts' = [counts EXCEPT !.filled = @ + Cardinality(filled),
                                       !.cancelled = @ + Cardinality(forced(breach))]
           /\ last_market_quoted' =
                IF forced(breach) # {} THEN AnyExposed(orders')
                ELSE IF symbol # None
                THEN \E side \in Side : open_order(met, symbol, side) # {}
                ELSE last_market_quoted
  BY <1>1
<1>3. accounted \in BOOLEAN
  OBVIOUS
<1>4. hit = HitIds /\ met = MetOrders(accounted) /\ filled = FilledIds(accounted)
  BY DEF HitIds, MetOrders, FilledIds
<1>5. last_market_quoted' \in BOOLEAN
  <2>1. AnyExposed(orders') \in BOOLEAN
    BY DEF AnyExposed
  <2>2. (\E side \in Side : open_order(met, symbol, side) # {}) \in BOOLEAN
    OBVIOUS
  <2> HIDE DEF forced, met
  <2> QED BY <1>2, <2>1, <2>2
<1>6. Outcome(breach, accounted)
  BY <1>1, <1>2, <1>4, <1>5 DEF Outcome
<1> QED BY <1>3, <1>6

LEMMA OutcomeStep ==
  ASSUME ShadowInv, Message, NEW breach \in BOOLEAN, NEW accounted \in BOOLEAN,
         Outcome(breach, accounted), UNCHANGED queue_model,
         Displays(displayed', arrivals'), arrivals <= arrivals',
         mutation' \in BookMutation \cup {None}, session_phase' \in Phases,
         session_phase # "MarketHours" => session_phase' # "MarketHours",
         trading_state' \in [Symbol -> {"T", "H"}],
         latest_markets' \in [Symbol -> Market],
         \/ scheduled' = scheduled
         \/ \E e \in LocalEvent : ~Confirms(e) /\ e.market \in Market
                                  /\ scheduled' = Append(scheduled, e)
  PROVE  ShadowInv'
<1> DEFINE met == MetOrders(accounted)
           closed == session_phase' # "MarketHours"
           stopping == ~stop_switch /\ (breach \/ ~accounted)
           forced == IF stopping \/ closed THEN OpenIds(met) ELSE {}
           k == Cardinality(FilledIds(accounted))
           c == Cardinality(forced)
<1>1. /\ met \in Seq(ShadowOrder) /\ Len(met) = Len(orders) /\ Age(orders, met, 0)
      /\ OpenIds(met) \subseteq OpenIds(orders)
      /\ OpenIds(orders) \ OpenIds(met) = FilledIds(accounted)
      /\ \A id \in 1..Len(orders) : /\ met[id].active_at = orders[id].active_at
                                    /\ met[id].joined = orders[id].joined
                                    /\ met[id].state \in Exposed => orders[id].state \in Exposed
  BY MessageMeets
<1>2. /\ stop_switch' = (stop_switch \/ stopping) /\ last_market_quoted' \in BOOLEAN
      /\ orders' = IF stopping THEN force_cancel_all(met, "RiskCancelled")
                   ELSE IF closed THEN force_cancel_all(met, "SessionEnded") ELSE met
      /\ counts' = [counts EXCEPT !.filled = counts.filled + k, !.cancelled = counts.cancelled + c]
      /\ inventory' \in -kMaxLedger..kMaxLedger
  BY DEF Outcome, ShadowInv, ShadowTypes
<1>3. orders \in Seq(ShadowOrder) /\ Settled(orders, scheduled)
  BY DEF ShadowInv, Settled
<1> HIDE DEF met
<1>4. Over(met) = Over(orders) + k /\ k \in Nat
  <2> DEFINE kept == OpenIds(met)
             ended == FilledIds(accounted)
  <2>1. OpenIds(met) \subseteq OpenIds(orders) /\ OpenIds(met) = kept /\ OpenIds(orders) \ kept = ended
    BY <1>1
  <2> HIDE DEF kept, ended
  <2>2. Over(met) = Over(orders) + Cardinality(ended) /\ Cardinality(ended) \in Nat
    BY ONLY <1>1, <1>3, <2>1, OverGrows
  <2> QED BY <2>2 DEF ended
\* What the message ends, and what a stop or the close ends after it.
<1>5. /\ orders' \in Seq(ShadowOrder) /\ Len(orders') = Len(orders)
      /\ Settled(orders', scheduled)
      /\ Over(orders') = Over(met) + c /\ c \in Nat
      /\ IF stopping \/ closed THEN OpenIds(orders') = {} ELSE orders' = met
      /\ \A id \in 1..Len(orders) :
           /\ orders'[id].active_at = orders[id].active_at
           /\ orders'[id].joined = orders[id].joined
           /\ orders'[id].state \in Exposed => orders[id].state \in Exposed
  <2>1. Settled(met, scheduled)
    BY <1>1, <1>3, AgedSettled
  <2>2. CASE stopping \/ closed
    <3>1. PICK state \in Terminal : orders' = force_cancel_all(met, state)
      BY <1>2, <2>2 DEF Terminal
    <3>2. /\ Age(met, orders', 0) /\ OpenIds(orders') = {}
          /\ Over(orders') = Over(met) + Cardinality(OpenIds(met))
          /\ Cardinality(OpenIds(met)) \in Nat
          /\ \A id \in 1..Len(met) :
               /\ orders'[id].active_at = met[id].active_at
               /\ orders'[id].joined = met[id].joined
      BY <1>1, <3>1, ForcedOrders
    <3>3. orders' \in Seq(ShadowOrder) /\ Len(orders') = Len(met)
      BY <3>2 DEF Age
    <3>4. Settled(orders', scheduled)
      BY <2>1, <3>2, AgedSettled
    <3>5. \A id \in 1..Len(orders) : orders'[id].state \notin Exposed
      BY <1>1, <3>2, <3>3, OrderTypes DEF IsOpen, is_open_state
    <3>6. c = Cardinality(OpenIds(met))
      BY <2>2
    <3> QED BY <1>1, <2>2, <3>2, <3>3, <3>4, <3>5, <3>6
  <2>3. CASE ~(stopping \/ closed)
    <3>1. orders' = met /\ c = 0
      BY <1>2, <2>3, FS_EmptySet
    <3>2. Over(met) + c = Over(met)
      <4>1. Over(orders) \in Nat
        BY DEF ShadowInv, ShadowTypes, Counted
      <4> QED BY <1>4, <3>1, <4>1
    <3> QED BY <1>1, <2>1, <2>3, <3>1, <3>2
  <2> QED BY <2>2, <2>3
<1>6. Settled(orders', scheduled')
  BY <1>5, PlannedSettled
<1> HIDE DEF forced, k, c
<1>7. Counted(orders', counts') /\ counts' \in [rejected : Nat, cancelled : Nat, filled : Nat]
  <2>1. counts \in [rejected : Nat, cancelled : Nat, filled : Nat] /\ Counted(orders, counts)
    BY DEF ShadowInv, ShadowTypes
  <2>2. /\ counts' \in [rejected : Nat, cancelled : Nat, filled : Nat]
        /\ counts'.rejected + counts'.cancelled + counts'.filled
             = counts.rejected + counts.cancelled + counts.filled + k + c
    <3>1. counts' = [counts EXCEPT !.filled = counts.filled + k, !.cancelled = counts.cancelled + c]
      BY <1>2
    <3>2. /\ counts.filled + k \in Nat /\ counts.cancelled + c \in Nat
          /\ counts.rejected \in Nat /\ counts.filled \in Nat /\ counts.cancelled \in Nat
          /\ k \in Nat /\ c \in Nat
      BY <1>4, <1>5, <2>1
    <3> DEFINE f == counts.filled + k
               g == counts.cancelled + c
    <3>3. f \in Nat /\ g \in Nat /\ counts' = [counts EXCEPT !.filled = f, !.cancelled = g]
      BY <3>1, <3>2
    <3> HIDE DEF f, g
    <3>4. /\ counts' \in [rejected : Nat, cancelled : Nat, filled : Nat]
          /\ counts'.rejected = counts.rejected /\ counts'.cancelled = g /\ counts'.filled = f
      BY <2>1, <3>3
    <3>5. counts'.rejected + counts'.cancelled + counts'.filled
            = counts.rejected + (counts.cancelled + c) + (counts.filled + k)
      BY <3>4 DEF f, g
    <3>6. \A r0, c0, f0, k0, n0 \in Nat : r0 + (c0 + n0) + (f0 + k0) = r0 + c0 + f0 + k0 + n0
      OBVIOUS
    <3>7. counts.rejected + (counts.cancelled + c) + (counts.filled + k)
            = counts.rejected + counts.cancelled + counts.filled + k + c
      BY <3>2, <3>6, SMTT(30)
    <3> QED BY <3>4, <3>5, <3>7
  <2>3. Over(orders') = Over(orders) + k + c
    BY <1>4, <1>5
  <2> QED BY <2>1, <2>2, <2>3 DEF Counted
<1>8. /\ timestamp \in Nat /\ horizon \in Nat /\ arrivals \in Nat /\ arrivals' \in Nat
      /\ factual_sequence \in Nat /\ driver = "message" /\ horizon \in timestamp..(timestamp + Max(Gaps))
      /\ timestamp' = horizon /\ factual_sequence' = factual_sequence + 1
      /\ driver' = "idle" /\ horizon' = 0
      /\ Since(orders, timestamp, horizon, arrivals)
  BY DEF ShadowInv, ShadowTypes, Clock, Displays, Message
<1>9. ShadowTypes'
  <2>1. stop_switch' \in BOOLEAN /\ submitted_quantity' \in 0..kMaxSubmitted
    BY <1>2 DEF ShadowInv, ShadowTypes, Message
  <2> QED BY <1>2, <1>7, <1>8, <2>1, SMTT(30) DEF ShadowInv, ShadowTypes
<1>10. Clock'
  <2>1. Since(orders', horizon, 0, arrivals')
    <3> SUFFICES ASSUME NEW id \in 1..Len(orders)
                 PROVE  /\ orders'[id].active_at <= horizon
                        /\ orders'[id].state \in Exposed => orders'[id].active_at < horizon
                        /\ orders'[id].joined <= arrivals'
      BY <1>5 DEF Since
    <3>1. orders[id] \in ShadowOrder
      BY <1>3, ElementOfSeq
    <3>2. orders[id].active_at \in Nat /\ orders[id].joined \in Nat
      BY <3>1 DEF ShadowOrder
    <3>3. /\ orders[id].active_at <= timestamp \/ orders[id].active_at < horizon
          /\ orders[id].state \in Exposed =>
               orders[id].active_at < timestamp \/ orders[id].active_at < horizon
          /\ orders[id].joined <= arrivals
      BY <1>8 DEF Since
    <3>4. /\ orders[id].active_at <= horizon /\ orders[id].joined <= arrivals'
          /\ orders[id].state \in Exposed => orders[id].active_at < horizon
      BY <1>8, <3>2, <3>3
    <3>5. /\ orders'[id].active_at = orders[id].active_at
          /\ orders'[id].joined = orders[id].joined
          /\ orders'[id].state \in Exposed => orders[id].state \in Exposed
      BY <1>5
    <3> QED BY <3>4, <3>5
  <2> QED BY <1>8, <2>1 DEF Clock
<1>11. BarredNotExposed'
  <2>1. stop_switch => ~AnyExposed(orders')
    <3>1. DOMAIN orders = 1..Len(orders) /\ DOMAIN orders' = 1..Len(orders)
      BY <1>3, <1>5, OrderTypes
    <3>2. AnyExposed(orders') => AnyExposed(orders)
      BY <1>5, <3>1 DEF AnyExposed
    <3> QED BY <3>2 DEF ShadowInv, BarredNotExposed, StopEndsExposure
  <2>2. OpenIds(orders') = {} => ~AnyExposed(orders')
    BY NotOpenNotExposed
  <2> QED BY <1>2, <1>5, <2>1, <2>2 DEF BarredNotExposed, StopEndsExposure, ClosedNotExposed
<1> QED BY <1>6, <1>7, <1>9, <1>10, <1>11 DEF ShadowInv

\* The events and markets of a message.
LEMMA MarketStep ==
  ASSUME ShadowInv, Message, NEW symbol \in Symbol \cup {None}, after_market(symbol),
         Displays(displayed', arrivals'), session_phase' \in Phases,
         trading_state' \in [Symbol -> {"T", "H"}]
  PROVE  /\ latest_markets' \in [Symbol -> Market]
         /\ \/ scheduled' = scheduled
            \/ \E e \in LocalEvent : ~Confirms(e) /\ e.market \in Market
                                     /\ scheduled' = Append(scheduled, e)
<1> DEFINE market == snapshot_for(symbol, horizon, displayed', session_phase', trading_state')
           e == Observe(market, factual_sequence')
<1>1. /\ latest_markets' = IF symbol = None THEN latest_markets
                           ELSE [latest_markets EXCEPT ![symbol] = market]
      /\ scheduled' = IF symbol = None THEN scheduled ELSE Append(scheduled, e)
  BY DEF after_market
<1>2. /\ horizon \in Nat /\ factual_sequence' \in Nat /\ latest_markets \in [Symbol -> Market]
  BY DEF ShadowInv, ShadowTypes, Message
<1>3. CASE symbol = None
  BY <1>1, <1>2, <1>3
<1>4. CASE symbol # None
  <2>1. symbol \in Symbol
    BY <1>4
  <2>2. market \in Market
    BY <1>2, <2>1, SnapshotIsMarket
  <2> HIDE DEF market
  <2>3. e \in LocalEvent /\ ~Confirms(e) /\ e.market \in Market
    BY <1>2, <2>2, ObserveIsEvent
  <2> QED BY <1>1, <1>2, <1>4, <2>1, <2>2, <2>3
<1> QED BY <1>3, <1>4

\* What is true of every message.
Heard(symbol) ==
  /\ Message /\ after_market(symbol) /\ symbol \in Symbol \cup {None}
  /\ Displays(displayed', arrivals') /\ arrivals <= arrivals'
  /\ mutation' \in BookMutation \cup {None} /\ session_phase' \in Phases
  /\ session_phase # "MarketHours" => session_phase' # "MarketHours"
  /\ trading_state' \in [Symbol -> {"T", "H"}]

LEMMA MessagesAreHeard ==
  ASSUME ShadowInv, BookMessage \/ TradingMessage \/ SessionMessage
  PROVE  \E symbol : Heard(symbol)
<1>0. /\ Displays(displayed, arrivals) /\ arrivals \in Nat /\ session_phase \in Phases
      /\ trading_state \in [Symbol -> {"T", "H"}]
  BY DEF ShadowInv, ShadowTypes, Displays
<1>1. CASE BookMessage
  <2>1. Displays(displayed', arrivals') /\ mutation' \in BookMutation /\ (mutation').symbol \in Symbol
    BY <1>0, <1>1, BookMoves
  <2>2. arrivals' = arrivals \/ arrivals' = arrivals + 1
    BY <1>1 DEF BookMessage, Arrive, Shrink, Leave, Replace
  <2>3. /\ Message /\ after_market((mutation').symbol) /\ session_phase' = session_phase
        /\ trading_state' = trading_state
    BY <1>1 DEF BookMessage
  <2>4. Heard((mutation').symbol)
    BY <1>0, <2>1, <2>2, <2>3 DEF Heard
  <2> QED BY <2>4
<1>2. CASE TradingMessage
  <2>1. /\ Message /\ displayed' = displayed /\ arrivals' = arrivals /\ mutation' = None
    BY <1>2 DEF TradingMessage, Quiet
  <2>2. PICK symbol \in Symbol, state \in {"T", "H"} :
          /\ trading_state' = [trading_state EXCEPT ![symbol] = state]
          /\ session_phase' = session_phase /\ after_market(symbol)
    BY <1>2 DEF TradingMessage
  <2>3. Heard(symbol)
    BY <1>0, <2>1, <2>2 DEF Heard
  <2> QED BY <2>3
<1>3. CASE SessionMessage
  <2>1. Heard(None)
    BY <1>0, <1>3 DEF SessionMessage, Quiet, Heard, Phases
  <2> QED BY <2>1
<1> QED BY <1>1, <1>2, <1>3

----------------------------------------------------------------------------
(* The opening, and every step *)

LEMMA SeqOfSet ==
  ASSUME NEW S, IsFiniteSet(S)
  PROVE  SetToSeq(S) \in Seq(S)
<1> DEFINE n == Cardinality(S)
<1>1. n \in Nat /\ ExistsBijection(1..n, S)
  BY FS_CardinalityType
<1> HIDE DEF n
<1>2. \E f \in [1..n -> S] : IsInjective(f)
  BY <1>1 DEF ExistsBijection, Bijection, Injection, IsInjective
<1>3. SetToSeq(S) \in [1..n -> S]
  BY <1>2 DEF SetToSeq, n
<1> QED BY <1>1, <1>3, SeqDef

LEMMA ShadowInit == SimulatorInit => ShadowInv
<1> SUFFICES ASSUME SimulatorInit PROVE ShadowInv
  OBVIOUS
<1> DEFINE n == Cardinality(DOMAIN Opening)
           S == {Observe(OpeningMarket(s), 0) : s \in Symbol}
<1>1. n \in Nat /\ IsFiniteSet(DOMAIN Opening)
  BY OpeningAssumption, FS_CardinalityType DEF OpeningAssumption
<1>2. Displays(Opening, 1 + n)
  <2>1. \A ref \in DOMAIN Opening :
          Opening[ref] \in [symbol : Symbol, side : {"Buy", "Sell"}, price : Price,
                            shares : Quantity, arrival : 1..n]
    BY OpeningAssumption DEF OpeningAssumption
  <2>2. Opening = [ref \in DOMAIN Opening |-> Opening[ref]]
    BY OpeningAssumption DEF OpeningAssumption
  <2> HIDE DEF n
  <2>3. \A ref \in DOMAIN Opening : Opening[ref] \in Shown /\ Opening[ref].arrival < 1 + n
    BY <1>1, <2>1 DEF Shown, Side
  <2>4. DOMAIN Opening \subseteq OrderReference
    BY OpeningAssumption DEF OpeningAssumption
  <2> QED BY <1>1, <2>2, <2>3, <2>4 DEF Displays
<1>3. \A s \in Symbol : OpeningMarket(s) \in Market
  <2> TAKE s \in Symbol
  <2>1. [x \in Symbol |-> "T"] \in [Symbol -> {"T", "H"}] /\ "MarketHours" \in Phases
    BY DEF Phases
  <2> QED BY <1>2, <2>1, SnapshotIsMarket DEF OpeningMarket
<1>4. \A e \in S : e \in LocalEvent /\ ~Confirms(e) /\ e.market \in Market
  <2> TAKE e \in S
  <2>1. PICK s \in Symbol : e = Observe(OpeningMarket(s), 0)
    OBVIOUS
  <2> QED BY <1>3, <2>1, ObserveIsEvent
<1>5. IsFiniteSet(S)
  <2> DEFINE f == [s \in Symbol |-> Observe(OpeningMarket(s), 0)]
  <2>1. f \in Surjection(Symbol, S)
    BY DEF Surjection
  <2>3. IsFiniteSet(Symbol)
    BY OpeningAssumption DEF OpeningAssumption
  <2> HIDE DEF S, f
  <2> QED BY <2>1, <2>3, FS_Surjection
<1>6. scheduled = SetToSeq(S) /\ orders = <<>>
  BY DEF SimulatorInit
<1> HIDE DEF S
<1>7. scheduled \in Seq(S)
  BY <1>5, <1>6, SeqOfSet
<1>8. \A i \in 1..Len(scheduled) : scheduled[i] \in S
  BY <1>7, ElementOfSeq
<1>9. scheduled \in Seq(LocalEvent)
  <2>1. Len(scheduled) \in Nat /\ scheduled \in [1..Len(scheduled) -> S]
    BY <1>7, LenProperties
  <2>2. scheduled \in [1..Len(scheduled) -> LocalEvent]
    BY <1>4, <2>1
  <2> QED BY <2>1, <2>2, SeqDef
<1>10. orders \in Seq(ShadowOrder) /\ Len(orders) = 0 /\ OpenIds(orders) = {} /\ 1..0 = {}
  BY <1>6, EmptySeq DEF OpenIds
<1>11. Settled(orders, scheduled)
  <2>1. \A i \in 1..Len(scheduled) : EventOK(scheduled[i], Len(orders)) /\ ~Confirms(scheduled[i])
    BY <1>4, <1>8 DEF EventOK, Confirms, Confirmations
  <2>2. Confirmed(orders, scheduled)
    BY <1>10, <2>1 DEF Confirmed
  <2> QED BY <1>9, <1>10, <2>1, <2>2 DEF Settled, OnePerSide
<1>12. ShadowTypes
  <2>1. /\ -kMaxLedger <= 0 /\ 0 <= kMaxLedger /\ 0 \in -kMaxLedger..kMaxLedger
        /\ 0 \in 0..kMaxSubmitted
    BY ConfigAssumption DEF ConfigAssumption
  <2>2. trading_state \in [Symbol -> {"T", "H"}] /\ latest_markets \in [Symbol -> Market]
    BY <1>3 DEF SimulatorInit
  <2>3. counts \in [rejected : Nat, cancelled : Nat, filled : Nat]
    BY DEF SimulatorInit
  <2>4. Displays(displayed, arrivals)
    BY <1>2 DEF SimulatorInit
  <2> HIDE DEF n
  <2> QED BY <2>1, <2>2, <2>3, <2>4 DEF SimulatorInit, ShadowTypes, Phases
<1>13. Counted(orders, counts)
  <2>1. Cardinality({}) = 0
    BY FS_EmptySet
  <2>2. counts.rejected = 0 /\ counts.cancelled = 0 /\ counts.filled = 0
    BY DEF SimulatorInit
  <2> QED BY <1>10, <2>1, <2>2 DEF Counted, Over
<1>14. BarredNotExposed
  BY <1>10, NotOpenNotExposed DEF SimulatorInit, BarredNotExposed, StopEndsExposure, ClosedNotExposed
<1>15. Clock
  BY <1>10 DEF SimulatorInit, Clock, Since
<1> QED BY <1>11, <1>12, <1>13, <1>14, <1>15 DEF ShadowInv

LEMMA ShadowStep == ShadowInv /\ [SimulatorNext]_vars => ShadowInv'
<1> SUFFICES ASSUME ShadowInv, [SimulatorNext]_vars PROVE ShadowInv'
  OBVIOUS
<1>1. ASSUME UNCHANGED vars PROVE ShadowInv'
  BY <1>1 DEF ShadowInv, ShadowTypes, Counted, BarredNotExposed, StopEndsExposure,
              ClosedNotExposed, Clock, vars, simulator, facts, book
<1>2. ASSUME NEW gap \in Gaps, before_market(timestamp + gap), UNCHANGED queue_model
      PROVE  ShadowInv'
  <2>1. gap \in Nat /\ gap <= Max(Gaps) /\ Max(Gaps) \in Nat /\ timestamp \in Nat
    BY LargestGap, ConfigAssumption DEF ConfigAssumption, ShadowInv, ShadowTypes
  <2>2. /\ driver = "idle" /\ driver' = "message" /\ horizon' = timestamp + gap
        /\ UNCHANGED <<facts, scheduled, simulator>>
    BY <1>2 DEF before_market
  <2>3. Since(orders', timestamp', horizon', arrivals')
    <3>1. /\ Since(orders, timestamp, horizon, arrivals) /\ orders \in Seq(ShadowOrder)
          /\ horizon \in Nat
      BY DEF ShadowInv, ShadowTypes, Clock, Settled
    <3>2. \A id \in 1..Len(orders) : orders[id].active_at \in Nat
      BY <3>1, OrderTypes DEF ShadowOrder
    <3>3. horizon = 0
      BY <2>2 DEF ShadowInv, Clock
    <3>4. Since(orders, timestamp, timestamp + gap, arrivals)
      BY <2>1, <3>1, <3>2, <3>3 DEF Since
    <3> QED BY <2>2, <3>4 DEF simulator, facts, book
  <2>4. horizon' \in timestamp..(timestamp + Max(Gaps)) /\ horizon' \in Nat
    BY <2>1, <2>2
  <2> QED BY <1>2, <2>2, <2>3, <2>4
          DEF ShadowInv, ShadowTypes, Counted, BarredNotExposed, StopEndsExposure,
              ClosedNotExposed, Clock, simulator, facts, book
<1>3. ASSUME execute_scheduled, UNCHANGED queue_model PROVE ShadowInv'
  <2>1. Due /\ UNCHANGED <<facts, driver, horizon, queue_model>>
    BY <1>3 DEF execute_scheduled
  <2> QED BY <1>3, <2>1, ObservationStep, DecisionStep, ActivateStep, CancelStep, ReplaceStep
          DEF execute_scheduled
<1>4. ASSUME sequence_gap, UNCHANGED queue_model PROVE ShadowInv'
  BY <1>4, ForcedStep DEF sequence_gap, Terminal
<1>5. ASSUME BookMessage \/ TradingMessage \/ SessionMessage, UNCHANGED queue_model
      PROVE  ShadowInv'
  <2>1. PICK symbol : Heard(symbol)
    BY <1>5, MessagesAreHeard
  <2>2. /\ latest_markets' \in [Symbol -> Market]
        /\ \/ scheduled' = scheduled
           \/ \E e \in LocalEvent : ~Confirms(e) /\ e.market \in Market
                                    /\ scheduled' = Append(scheduled, e)
    BY <2>1, MarketStep DEF Heard
  <2>3. PICK breach \in BOOLEAN, accounted \in BOOLEAN : Outcome(breach, accounted)
    BY <2>1, MessageOutcome DEF Heard, ShadowInv, ShadowTypes
  <2> QED BY <1>5, <2>1, <2>2, <2>3, OutcomeStep DEF Heard
<1>6. ASSUME begin_finish, UNCHANGED queue_model PROVE ShadowInv'
  <2>1. /\ driver = "idle" /\ driver' = "finishing" /\ horizon' = timestamp + 1
        /\ UNCHANGED <<facts, scheduled, simulator>> /\ timestamp \in Nat /\ horizon' \in Nat
    BY <1>6 DEF begin_finish, ShadowInv, ShadowTypes
  <2>2. Since(orders', timestamp', horizon', arrivals')
    <3>1. /\ Since(orders, timestamp, horizon, arrivals) /\ orders \in Seq(ShadowOrder)
          /\ horizon = 0
      BY <2>1 DEF ShadowInv, Clock, Settled
    <3>2. \A id \in 1..Len(orders) : orders[id].active_at \in Nat
      BY <3>1, OrderTypes DEF ShadowOrder
    <3>3. Since(orders, timestamp, timestamp + 1, arrivals)
      BY <2>1, <3>1, <3>2 DEF Since
    <3> QED BY <2>1, <3>3 DEF simulator, facts, book
  <2> QED BY <1>6, <2>1, <2>2
          DEF ShadowInv, ShadowTypes, Counted, BarredNotExposed, StopEndsExposure,
              ClosedNotExposed, Clock, simulator, facts, book
<1>7. ASSUME finish, UNCHANGED queue_model PROVE ShadowInv'
  BY <1>7, ForcedStep DEF finish, Terminal, ShadowInv, ShadowTypes
<1> QED BY <1>1, <1>2, <1>3, <1>4, <1>5, <1>6, <1>7 DEF SimulatorNext, Terminated

----------------------------------------------------------------------------
(* What follows *)

LEMMA AlwaysShadowInv == SimulatorSpec => []ShadowInv
<1>1. SimulatorInit => ShadowInv
  BY ShadowInit
<1>2. ShadowInv /\ [SimulatorNext]_vars => ShadowInv'
  BY ShadowStep
<1> QED BY <1>1, <1>2, PTL DEF SimulatorSpec

\* OneQuotePerSide: manage_quote looks up the open order of its symbol and side before it
\* submits, and an order is open from the submission to its end; so decisions, late
\* confirmations, fills and stops in any order leave one open order to a side.
THEOREM SimulatorOneQuotePerSide == SimulatorSpec => []OneQuotePerSide
<1>1. ShadowInv => OneQuotePerSide
  BY DEF ShadowInv, Settled, OnePerSide, OneQuotePerSide
<1> QED BY <1>1, AlwaysShadowInv, PTL

\* BarredNotExposed: after trigger_stop, and after market hours, no order is exposed and
\* none becomes so again, whatever confirmations are still scheduled; also after the stop
\* of a manual_submit whose own order, and the next of the same decision, stay open.
THEOREM SimulatorBarredNotExposed == SimulatorSpec => []BarredNotExposed
<1>1. ShadowInv => BarredNotExposed
  BY DEF ShadowInv
<1> QED BY <1>1, AlwaysShadowInv, PTL

LEMMA SettledCounts == ShadowInv => EveryOrderCounted
<1> SUFFICES ASSUME ShadowInv PROVE EveryOrderCounted
  OBVIOUS
<1>1. orders \in Seq(ShadowOrder) /\ counts \in [rejected : Nat, cancelled : Nat, filled : Nat]
  BY DEF ShadowInv, Settled, ShadowTypes
<1>2. Len(orders) \in Nat /\ Cardinality(OpenIds(orders)) \in Nat
  BY <1>1, OrderTypes, FS_CardinalityType
<1>3. Len(orders) - Cardinality(OpenIds(orders))
        = counts.rejected + counts.cancelled + counts.filled
  BY DEF ShadowInv, Counted, Over
<1> QED BY <1>1, <1>2, <1>3 DEF EveryOrderCounted

LEMMA SettledConfirms == ShadowInv => PendingIsConfirmed
<1> SUFFICES ASSUME ShadowInv,
             NEW id \in OpenIds(orders) \ {i \in DOMAIN orders : orders[i].state \in Resting}
             PROVE  LET kind == CASE orders[id].state = "PendingAck" -> "Activate"
                                  [] orders[id].state = "PendingCancel" -> "CancelConfirm"
                                  [] orders[id].state = "PendingReplace" -> "ReplaceConfirm"
                    IN  Cardinality({i \in DOMAIN scheduled :
                          scheduled[i].at.kind = kind /\ scheduled[i].order_id = id}) = 1
  BY DEF PendingIsConfirmed
<1> DEFINE kind == CASE orders[id].state = "PendingAck" -> "Activate"
                     [] orders[id].state = "PendingCancel" -> "CancelConfirm"
                     [] orders[id].state = "PendingReplace" -> "ReplaceConfirm"
           S == {i \in DOMAIN scheduled : scheduled[i].at.kind = kind /\ scheduled[i].order_id = id}
<1>1. /\ orders \in Seq(ShadowOrder) /\ scheduled \in Seq(LocalEvent)
      /\ Confirmed(orders, scheduled) /\ DOMAIN scheduled = 1..Len(scheduled)
      /\ id \in 1..Len(orders) /\ IsOpen(orders[id])
      /\ orders[id].state \in {"PendingAck", "PendingCancel", "PendingReplace"}
  <2>1. /\ orders \in Seq(ShadowOrder) /\ scheduled \in Seq(LocalEvent)
        /\ Confirmed(orders, scheduled)
    BY DEF ShadowInv, Settled
  <2>2. id \in 1..Len(orders) /\ IsOpen(orders[id])
    BY <2>1, OrderTypes
  <2>3. orders[id].state \notin Resting
    BY <2>1, <2>2, OrderTypes
  <2> QED BY <2>1, <2>2, <2>3, LenProperties DEF IsOpen, is_open_state, Exposed
<1>2. kind = Awaited(orders[id].state) /\ kind \in Confirmations /\ kind # "none"
  BY <1>1 DEF Awaited, Confirmations
<1> HIDE DEF kind
<1>3. PICK i \in 1..Len(scheduled) : Confirms(scheduled[i]) /\ scheduled[i].order_id = id
  BY <1>1, <1>2 DEF Confirmed
<1>4. i \in S
  BY <1>1, <1>2, <1>3 DEF Confirmed
<1>5. ASSUME NEW j \in S PROVE j = i
  <2>1. j \in 1..Len(scheduled) /\ Confirms(scheduled[j]) /\ scheduled[j].order_id = id
    BY <1>1, <1>2 DEF Confirms
  <2> QED BY <1>1, <1>3, <2>1 DEF Confirmed
<1>6. S = {i}
  BY <1>4, <1>5
<1> HIDE DEF S
<1>7. Cardinality(S) = 1
  BY <1>6, FS_Singleton
<1> QED BY <1>7 DEF S, kind

\* ConfirmationsSettle: an order that waits has exactly one confirmation scheduled, and
\* what is not open was counted once as rejected, cancelled or filled, also when a fill,
\* a stop or the close ended the order before its confirmation came.
THEOREM SimulatorConfirmationsSettle == SimulatorSpec => []ConfirmationsSettle
<1>1. ShadowInv => ConfirmationsSettle
  BY SettledCounts, SettledConfirms DEF ConfirmationsSettle
<1> QED BY <1>1, AlwaysShadowInv, PTL

LEMMA ShadowTypeOK == ShadowInv => TypeOK
<1> SUFFICES ASSUME ShadowInv PROVE TypeOK
  OBVIOUS
<1>1. /\ orders \in Seq(ShadowOrder) /\ scheduled \in Seq(LocalEvent)
      /\ \A i \in 1..Len(scheduled) : EventOK(scheduled[i], Len(orders))
      /\ timestamp \in Nat /\ horizon \in Nat
  BY DEF ShadowInv, Settled, ShadowTypes
<1>2. DOMAIN orders = 1..Len(orders) /\ DOMAIN scheduled = 1..Len(scheduled)
  BY <1>1, LenProperties
<1>3. ASSUME NEW id \in DOMAIN orders PROVE orders[id] \in Order
  <2>1. orders[id] \in ShadowOrder
    BY <1>1, <1>2, <1>3, ElementOfSeq
  <2>2. orders[id].active_at \in Nat
    BY <2>1 DEF ShadowOrder
  <2>3. Max(Gaps) \in Nat
    BY LargestGap
  <2>4. /\ orders[id].active_at <= timestamp \/ orders[id].active_at < horizon
        /\ driver = "idle" => horizon = 0
        /\ driver = "message" => horizon \in timestamp..(timestamp + Max(Gaps))
        /\ driver = "finishing" => horizon = timestamp + 1
        /\ driver = "finished" => horizon = 0
        /\ driver \in {"idle", "message", "finishing", "finished"}
    BY <1>2, <1>3 DEF ShadowInv, ShadowTypes, Clock, Since
  <2>5. orders[id].active_at \in 0..(timestamp + Max(Gaps))
    BY <1>1, <2>2, <2>3, <2>4
  <2> QED BY <2>1, <2>5 DEF ShadowOrder, Tracked, Order
<1>4. ASSUME NEW i \in DOMAIN scheduled
      PROVE  IF scheduled[i].at.kind \in {"Observation", "Decision"}
             THEN scheduled[i].market.symbol \in Symbol
             ELSE scheduled[i].order_id \in DOMAIN orders
  <2>1. scheduled[i] \in LocalEvent /\ EventOK(scheduled[i], Len(orders))
    BY <1>1, <1>2, <1>4, ElementOfSeq
  <2>2. scheduled[i].at.kind \in {"Observation", "Decision"} \cup Confirmations
    BY <2>1 DEF LocalEvent, Instant
  <2> QED BY <1>2, <2>1, <2>2 DEF EventOK, Confirms, Confirmations, Market
<1>5. counts \in [rejected : Nat, cancelled : Nat, filled : Nat]
  BY DEF ShadowInv, ShadowTypes
<1>6. \A count \in {"rejected", "cancelled", "filled"} : counts[count] \in Nat
  BY <1>5
<1> QED BY <1>3, <1>4, <1>6 DEF ShadowInv, ShadowTypes, TypeOK

\* FactsWinTies: drain_before runs local events of earlier timestamps only, so an order
\* that a message finds exposed was active strictly before the message's time.
THEOREM SimulatorFactsWinTies == SimulatorSpec => FactsWinTies
<1>1. ShadowInv /\ [SimulatorNext]_vars =>
        [driver = "message" /\ driver' = "idle" =>
           \A id \in DOMAIN orders : orders[id].state \in Exposed =>
             orders[id].active_at < timestamp']_vars
  <2> SUFFICES ASSUME ShadowInv, SimulatorNext, driver = "message", driver' = "idle",
                      NEW id \in DOMAIN orders, orders[id].state \in Exposed
               PROVE  orders[id].active_at < timestamp'
    BY DEF vars
  <2>1. Message
    <3>1. ~UNCHANGED driver
      OBVIOUS
    <3> QED BY <3>1 DEF SimulatorNext, before_market, execute_scheduled, sequence_gap, BookMessage,
                        TradingMessage, SessionMessage, begin_finish, finish, Terminated
  <2>2. /\ timestamp \in Nat /\ horizon \in Nat /\ timestamp' = horizon /\ timestamp <= horizon
        /\ orders \in Seq(ShadowOrder) /\ Since(orders, timestamp, horizon, arrivals)
    BY <2>1 DEF ShadowInv, ShadowTypes, Settled, Clock, Message
  <2>3. id \in 1..Len(orders) /\ orders[id] \in ShadowOrder
    BY <2>2, OrderTypes
  <2>4. orders[id].active_at \in Nat
    BY <2>3 DEF ShadowOrder
  <2>5. orders[id].active_at < timestamp \/ orders[id].active_at < horizon
    BY <2>2, <2>3 DEF Since
  <2> QED BY <2>2, <2>4, <2>5
<1> QED BY <1>1, AlwaysShadowInv, PTL DEF SimulatorSpec, FactsWinTies

----------------------------------------------------------------------------
(* The queue ahead of an order *)

\* StandingBefore and the shares of those orders, in a book given.
Stands(o, shown) ==
  {ref \in DOMAIN shown :
     /\ shown[ref].symbol = o.symbol /\ shown[ref].side = o.side
     /\ shown[ref].price = o.limit /\ shown[ref].arrival < o.joined}
Queue(o, shown) == [ref \in Stands(o, shown) |-> shown[ref].shares]

LEMMA SameQueue ==
  ASSUME NEW o, NEW shown, NEW shown2,
         \A ref : ref \in Stands(o, shown2) <=> ref \in Stands(o, shown),
         \A ref \in Stands(o, shown) : shown2[ref].shares = shown[ref].shares
  PROVE  Queue(o, shown2) = Queue(o, shown)
<1>1. Stands(o, shown2) = Stands(o, shown)
  OBVIOUS
<1> QED BY <1>1 DEF Queue

\* An order arrives: it stands behind every order that joined before.
LEMMA ArrivedQueue ==
  ASSUME NEW o \in ShadowOrder, NEW shown, NEW next, Displays(shown, next), o.joined <= next,
         NEW ref, ref \notin DOMAIN shown, NEW new \in Shown, new.arrival = next
  PROVE  Queue(o, With(shown, ref, new)) = Queue(o, shown)
<1> DEFINE more == With(shown, ref, new)
<1>1. DOMAIN more = DOMAIN shown \cup {ref}
  BY DEF With
<1>2. more[ref] = new /\ \A r \in DOMAIN shown : more[r] = shown[r]
  BY DEF With
<1>3. ~(new.arrival < o.joined)
  BY DEF Displays, ShadowOrder
<1> HIDE DEF more
<1>4. ref \notin Stands(o, more)
  BY <1>2, <1>3 DEF Stands
<1>5. \A r : r \in Stands(o, more) <=> r \in Stands(o, shown)
  <2> TAKE r
  <2>1. CASE r = ref
    BY <1>4, <2>1 DEF Stands
  <2>2. CASE r # ref
    BY <1>1, <1>2, <2>2 DEF Stands
  <2> QED BY <2>1, <2>2
<1>6. \A r \in Stands(o, shown) : more[r].shares = shown[r].shares
  BY <1>2 DEF Stands
<1>7. Queue(o, more) = Queue(o, shown)
  BY <1>5, <1>6, SameQueue
<1> QED BY <1>7 DEF more

\* An order goes.
LEMMA LeftQueue ==
  ASSUME NEW o, NEW ref \in DOMAIN displayed
  PROVE  /\ Stands(o, Without(ref)) = Stands(o, displayed) \ {ref}
         /\ Queue(o, Without(ref)) = [r \in Stands(o, displayed) \ {ref} |-> displayed[r].shares]
         /\ ref \notin Stands(o, displayed) => Queue(o, Without(ref)) = Queue(o, displayed)
<1> DEFINE fewer == Without(ref)
<1>1. DOMAIN fewer = DOMAIN displayed \ {ref} /\ \A r \in DOMAIN fewer : fewer[r] = displayed[r]
  BY DEF Without
<1> HIDE DEF fewer
<1>2. Stands(o, fewer) = Stands(o, displayed) \ {ref}
  BY <1>1 DEF Stands
<1>3. \A r \in Stands(o, fewer) : fewer[r] = displayed[r]
  BY <1>1 DEF Stands
<1>4. Queue(o, fewer) = [r \in Stands(o, displayed) \ {ref} |-> displayed[r].shares]
  BY <1>2, <1>3 DEF Queue
<1>5. ref \notin Stands(o, displayed) => Queue(o, fewer) = Queue(o, displayed)
  BY <1>4 DEF Queue
<1> QED BY <1>2, <1>4, <1>5 DEF fewer

\* An order shrinks.
Shrunk(queue, ref, q) == [queue EXCEPT ![ref] = q]
LEMMA ShrunkQueue ==
  ASSUME NEW o, NEW ref \in DOMAIN displayed, NEW q, NEW shown2,
         DOMAIN shown2 = DOMAIN displayed,
         shown2[ref].symbol = displayed[ref].symbol, shown2[ref].side = displayed[ref].side,
         shown2[ref].price = displayed[ref].price, shown2[ref].arrival = displayed[ref].arrival,
         shown2[ref].shares = q,
         \A r \in DOMAIN displayed : r # ref => shown2[r] = displayed[r]
  PROVE  /\ ref \notin Stands(o, displayed) => Queue(o, shown2) = Queue(o, displayed)
         /\ ref \in Stands(o, displayed) => Queue(o, shown2) = Shrunk(Queue(o, displayed), ref, q)
<1>1. \A r : r \in Stands(o, shown2) <=> r \in Stands(o, displayed)
  <2> TAKE r
  <2>1. CASE r = ref
    BY <2>1 DEF Stands
  <2>2. CASE r # ref
    BY <2>2 DEF Stands
  <2> QED BY <2>1, <2>2
<1>2. \A r \in Stands(o, displayed) : shown2[r].shares = IF r = ref THEN q ELSE displayed[r].shares
  <2> TAKE r \in Stands(o, displayed)
  <2>1. CASE r = ref
    BY <2>1
  <2>2. CASE r # ref
    BY <2>2 DEF Stands
  <2> QED BY <2>1, <2>2
<1>3. CASE ref \notin Stands(o, displayed)
  <2>1. \A r \in Stands(o, displayed) : shown2[r].shares = displayed[r].shares
    BY <1>2, <1>3
  <2> QED BY <1>1, <1>3, <2>1, SameQueue
<1>4. CASE ref \in Stands(o, displayed)
  <2>1. Stands(o, shown2) = Stands(o, displayed)
    BY <1>1
  <2>2. Queue(o, shown2) = [r \in Stands(o, displayed) |->
                              IF r = ref THEN q ELSE displayed[r].shares]
    BY <1>2, <2>1 DEF Queue
  <2>3. [Queue(o, displayed) EXCEPT ![ref] = q]
          = [r \in Stands(o, displayed) |-> IF r = ref THEN q ELSE displayed[r].shares]
    BY <1>4 DEF Queue
  <2> QED BY <1>4, <2>2, <2>3 DEF Shrunk
<1> QED BY <1>3, <1>4

\* What an order is moved by, when it is concerned.
LEMMA MovedAhead ==
  ASSUME NEW o \in ShadowOrder, NEW m, mutation' = m, m \in BookMutation, o.state \in Exposed
  PROVE  Moved(o).ahead = IF o.symbol = m.symbol THEN Ahead(o, m) ELSE o.ahead
<1>1. m # None
  BY OpeningAssumption DEF OpeningAssumption
<1>2. CASE o.symbol = m.symbol
  <2>1. Moved(o) = [o EXCEPT !.ahead = Ahead(o, m)]
    BY <1>1, <1>2 DEF Moved
  <2> DEFINE a == Ahead(o, m)
  <2> HIDE DEF a
  <2>2. [o EXCEPT !.ahead = a].ahead = a
    BY DEF ShadowOrder
  <2> QED BY <1>2, <2>1, <2>2 DEF a
<1>3. CASE o.symbol # m.symbol
  BY <1>3 DEF Moved
<1> QED BY <1>2, <1>3

\* The mutation takes shares from an order that stands ahead, or all of them.
LEMMA TakesAhead ==
  ASSUME NEW o \in ShadowOrder, NEW m, mutation' = m, m \in BookMutation, o.state \in Exposed,
         Displays(displayed, arrivals), o.ahead = Queue(o, displayed),
         NEW ref \in DOMAIN displayed, m.order_reference = ref,
         m.symbol = displayed[ref].symbol, m.side = displayed[ref].side,
         m.display_price = displayed[ref].price \/ m.message_type = "U",
         m.event_quantity <= displayed[ref].shares \/ m.message_type = "U"
  PROVE  Moved(o).ahead =
           IF ref \notin Stands(o, displayed) THEN Queue(o, displayed)
           ELSE IF m.message_type \in {"U", "D"} \/ m.event_quantity = displayed[ref].shares
           THEN Queue(o, Without(ref))
           ELSE [Queue(o, displayed) EXCEPT ![ref] = displayed[ref].shares - m.event_quantity]
<1>1. DOMAIN o.ahead = Stands(o, displayed)
  BY DEF Queue
<1>2. CASE ref \notin Stands(o, displayed)
  <2>1. Ahead(o, m) = o.ahead
    BY <1>1, <1>2 DEF Ahead
  <2> QED BY <1>2, <2>1, MovedAhead
<1>3. CASE ref \in Stands(o, displayed)
  <2>1. /\ o.symbol = m.symbol /\ o.side = m.side /\ ref \in DOMAIN o.ahead
        /\ m.display_price = o.limit \/ m.message_type = "U"
        /\ o.ahead[ref] = displayed[ref].shares
    BY <1>1, <1>3 DEF Stands, Queue
  <2>2. displayed[ref].shares \in Nat /\ m.event_quantity \in Nat
    BY OpeningAssumption DEF OpeningAssumption, Displays, Shown, BookMutation
  <2>3. CASE m.message_type \in {"U", "D"} \/ m.event_quantity = displayed[ref].shares
    <3>1. Ahead(o, m) = [r \in DOMAIN o.ahead \ {ref} |-> o.ahead[r]]
      BY <2>1, <2>2, <2>3 DEF Ahead
    <3>2. [r \in DOMAIN o.ahead \ {ref} |-> o.ahead[r]]
            = [r \in Stands(o, displayed) \ {ref} |-> displayed[r].shares]
      BY <1>1 DEF Queue
    <3>3. Ahead(o, m) = Queue(o, Without(ref))
      BY <3>1, <3>2, LeftQueue
    <3> QED BY <1>3, <2>1, <2>3, <3>3, MovedAhead
  <2>4. CASE ~(m.message_type \in {"U", "D"} \/ m.event_quantity = displayed[ref].shares)
    <3>1. ~(m.event_quantity >= o.ahead[ref])
      BY <2>1, <2>2, <2>4
    <3>2. Ahead(o, m) = [o.ahead EXCEPT ![ref] = o.ahead[ref] - m.event_quantity]
      BY <2>1, <2>4, <3>1 DEF Ahead
    <3> QED BY <1>3, <2>1, <2>4, <3>2, MovedAhead
  <2> QED BY <2>3, <2>4
<1> QED BY <1>2, <1>3

\* The queue tracker follows the book through any message.
LEMMA MovedQueue ==
  ASSUME ShadowInv, BookMessage, NEW o \in ShadowOrder, o.state \in Exposed,
         o.joined <= arrivals, o.ahead = Queue(o, displayed)
  PROVE  Moved(o).ahead = Queue(o, displayed')
<1> DEFINE m == mutation'
<1>0. /\ Displays(displayed, arrivals) /\ Displays(displayed', arrivals') /\ m \in BookMutation
      /\ Side = {"Buy", "Sell"} /\ DOMAIN o.ahead = Stands(o, displayed)
      /\ \A ref \in DOMAIN displayed : displayed[ref] \in Shown
  BY BookMoves DEF ShadowInv, ShadowTypes, Side, Queue, Displays
<1>1. ASSUME NEW ref \in OrderReference, NEW symbol \in Symbol, NEW side \in Side,
             NEW price \in Price, NEW shares \in Quantity,
             Arrive("A", ref, symbol, side, price, shares)
      PROVE  Moved(o).ahead = Queue(o, displayed')
  <2> DEFINE new == [symbol |-> symbol, side |-> side, price |-> price, shares |-> shares,
                     arrival |-> arrivals]
  <2>1. displayed' = With(displayed, ref, new) /\ ref \notin DOMAIN displayed
    BY <1>1 DEF Arrive
  <2>2. new \in Shown /\ new.arrival = arrivals
    BY <1>0 DEF Shown, Displays
  <2>3. m.order_reference = ref
    BY <1>1 DEF Arrive, Report
  <2> HIDE DEF new
  <2>4. Queue(o, displayed') = Queue(o, displayed)
    BY <1>0, <2>1, <2>2, ArrivedQueue
  <2>5. ref \notin DOMAIN o.ahead
    BY <1>0, <2>1 DEF Stands
  <2>6. Ahead(o, m) = o.ahead
    BY <2>3, <2>5 DEF Ahead
  <2> QED BY <1>0, <2>4, <2>6, MovedAhead
<1>2. ASSUME NEW type \in {"E", "X"}, NEW ref \in OrderReference, NEW shares \in Quantity,
             Shrink(type, ref, shares)
      PROVE  Moved(o).ahead = Queue(o, displayed')
  <2>1. /\ ref \in DOMAIN displayed /\ shares <= displayed[ref].shares
        /\ displayed' = IF shares = displayed[ref].shares THEN Without(ref)
                        ELSE [displayed EXCEPT ![ref].shares = displayed[ref].shares - shares]
        /\ m.order_reference = ref /\ m.symbol = displayed[ref].symbol
        /\ m.side = displayed[ref].side /\ m.display_price = displayed[ref].price
        /\ m.event_quantity = shares /\ m.message_type = type
    BY <1>2 DEF Shrink, Report
  <2>2. Moved(o).ahead =
          IF ref \notin Stands(o, displayed) THEN Queue(o, displayed)
          ELSE IF m.message_type \in {"U", "D"} \/ m.event_quantity = displayed[ref].shares
          THEN Queue(o, Without(ref))
          ELSE [Queue(o, displayed) EXCEPT ![ref] = displayed[ref].shares - m.event_quantity]
    BY <1>0, <2>1, TakesAhead
  <2>3. CASE shares = displayed[ref].shares
    BY <2>1, <2>2, <2>3, LeftQueue
  <2>4. CASE shares # displayed[ref].shares
    <3> DEFINE q == displayed[ref].shares - shares
               new == [displayed[ref] EXCEPT !.shares = q]
    <3>0. /\ displayed' = [displayed EXCEPT ![ref] = new] /\ displayed[ref] \in Shown
      BY <1>0, <2>1, <2>4
    <3>1. /\ new.symbol = displayed[ref].symbol /\ new.side = displayed[ref].side
          /\ new.price = displayed[ref].price /\ new.arrival = displayed[ref].arrival
          /\ new.shares = q
      BY <3>0 DEF Shown
    <3> HIDE DEF q, new
    <3>2. /\ DOMAIN displayed' = DOMAIN displayed /\ displayed'[ref] = new
          /\ \A r \in DOMAIN displayed : r # ref => displayed'[r] = displayed[r]
      BY <2>1, <3>0
    <3>3. /\ ref \notin Stands(o, displayed) => Queue(o, displayed') = Queue(o, displayed)
          /\ ref \in Stands(o, displayed) => Queue(o, displayed') = Shrunk(Queue(o, displayed), ref, q)
      BY <2>1, <3>1, <3>2, ShrunkQueue
    <3>4. m.message_type \notin {"U", "D"}
      BY <2>1
    <3> QED BY <2>1, <2>2, <2>4, <3>3, <3>4 DEF Shrunk, q
  <2> QED BY <2>3, <2>4
<1>3. ASSUME NEW ref \in OrderReference, Leave(ref)
      PROVE  Moved(o).ahead = Queue(o, displayed')
  <2>1. /\ ref \in DOMAIN displayed /\ displayed' = Without(ref)
        /\ m.order_reference = ref /\ m.symbol = displayed[ref].symbol
        /\ m.side = displayed[ref].side /\ m.display_price = displayed[ref].price
        /\ m.event_quantity = displayed[ref].shares /\ m.message_type = "D"
    BY <1>3 DEF Leave, Report
  <2>2. displayed[ref].shares \in Nat
    BY <1>0, <2>1, OpeningAssumption DEF OpeningAssumption, Shown
  <2>3. m.event_quantity <= displayed[ref].shares
    BY <2>1, <2>2
  <2>4. Moved(o).ahead = IF ref \notin Stands(o, displayed) THEN Queue(o, displayed)
                         ELSE Queue(o, Without(ref))
    BY <1>0, <2>1, <2>3, TakesAhead
  <2> QED BY <2>1, <2>4, LeftQueue
<1>4. ASSUME NEW ref \in OrderReference, NEW new_ref \in OrderReference, NEW price \in Price,
             NEW shares \in Quantity, Replace(ref, new_ref, price, shares)
      PROVE  Moved(o).ahead = Queue(o, displayed')
  <2> DEFINE new == [displayed[ref] EXCEPT !.price = price, !.shares = shares, !.arrival = arrivals]
             fewer == Without(ref)
  <2>1. /\ ref \in DOMAIN displayed /\ new_ref \notin DOMAIN displayed
        /\ displayed' = With(fewer, new_ref, new) /\ Report("U", new, ref, new_ref, shares)
    BY <1>4 DEF Replace
  <2>2. displayed[ref] \in Shown /\ arrivals \in Nat
    BY <1>0, <2>1 DEF Displays
  <2>3. /\ new \in Shown /\ new.arrival = arrivals /\ new.symbol = displayed[ref].symbol
        /\ new.side = displayed[ref].side
    BY <2>2 DEF Shown
  <2> HIDE DEF new
  <2>4. /\ m.order_reference = ref /\ m.symbol = displayed[ref].symbol
        /\ m.side = displayed[ref].side /\ m.message_type = "U"
    BY <2>1, <2>3 DEF Report
  <2>5. Moved(o).ahead = IF ref \notin Stands(o, displayed) THEN Queue(o, displayed)
                         ELSE Queue(o, fewer)
    BY <1>0, <2>1, <2>4, TakesAhead
  <2>6. Moved(o).ahead = Queue(o, fewer)
    BY <2>1, <2>5, LeftQueue
  <2>7. Displays(fewer, arrivals) /\ DOMAIN fewer \subseteq DOMAIN displayed
    <3>1. /\ fewer = [r \in DOMAIN fewer |-> fewer[r]] /\ DOMAIN fewer \subseteq DOMAIN displayed
          /\ \A r \in DOMAIN fewer : fewer[r] = displayed[r]
      BY DEF Without
    <3> HIDE DEF fewer
    <3>2. \A r \in DOMAIN fewer : fewer[r] \in Shown /\ fewer[r].arrival = displayed[r].arrival
      BY <1>0, <3>1
    <3> QED BY <1>0, <3>1, <3>2, FewerDisplays
  <2>8. new_ref \notin DOMAIN fewer
    BY <2>1, <2>7
  <2> HIDE DEF fewer
  <2>9. Queue(o, displayed') = Queue(o, fewer)
    BY <2>1, <2>3, <2>7, <2>8, ArrivedQueue
  <2> QED BY <2>6, <2>9
<1> QED BY <1>0, <1>1, <1>2, <1>3, <1>4 DEF BookMessage

----------------------------------------------------------------------------
(* What a step does to an order *)

LEMMA Remains ==
  ASSUME NEW ords \in Seq(ShadowOrder)
  PROVE  \A id \in 1..Len(ords) : ords[id].remaining \in Nat /\ ords[id].remaining <= config.quantity
<1> TAKE id \in 1..Len(ords)
<1>1. ords[id] \in ShadowOrder
  BY ElementOfSeq
<1>2. ords[id].remaining \in 0..config.quantity /\ config.quantity \in Nat
  BY <1>1, ConfigAssumption DEF ConfigAssumption, ShadowOrder
<1> QED BY <1>2

\* The order waits for something else, at most.
Stays(o, n) ==
  /\ n.symbol = o.symbol /\ n.side = o.side /\ n.limit = o.limit /\ n.joined = o.joined
  /\ n.ahead = o.ahead /\ n.remaining = o.remaining

\* What activation_risk leaves of o, which order id may become.
MayStand(ords, id, o) ==
  /\ IsOpen(o) /\ InventoryAllows(o)
  /\ id \in OpenIds(ords) /\ Cardinality(OpenIds(ords) \ {id}) < config.max_open_orders

\* An exposed order was so before, or it has just passed activation_risk.
Local(ords, ords2) ==
  /\ Len(ords) <= Len(ords2)
  /\ \A id \in 1..Len(ords) : ords2[id].remaining >= ords[id].remaining
  /\ \A id \in 1..Len(ords2) : ords2[id].state \in Exposed =>
       \/ /\ id \in 1..Len(ords) /\ ords[id].state \in Exposed
          /\ Stays(ords[id], ords2[id])
       \/ \E o \in ShadowOrder, at \in Nat :
            MayStand(ords, id, o) /\ ords2[id] = Activated(o, at)

LEMMA LocalNothing ==
  ASSUME NEW ords \in Seq(ShadowOrder)
  PROVE  Local(ords, ords)
<1>1. \A id \in 1..Len(ords) : ords[id].remaining \in Nat
  BY Remains
<1> QED BY <1>1, OrderTypes DEF Local, Stays

LEMMA LocalAsked ==
  ASSUME NEW ords \in Seq(ShadowOrder), NEW ords2, Asks(ords, ords2)
  PROVE  Local(ords, ords2)
<1>1. ASSUME NEW id \in 1..Len(ords) PROVE ords2[id].remaining >= ords[id].remaining
  <2>1. ords[id].remaining \in Nat /\ ords2[id].remaining = ords[id].remaining
    BY Remains DEF Asks
  <2> QED BY ONLY <2>1
<1>2. ASSUME NEW id \in 1..Len(ords2), ords2[id].state \in Exposed
      PROVE  id \in 1..Len(ords) /\ ords[id].state \in Exposed /\ Stays(ords[id], ords2[id])
  <2>1. /\ id \in 1..Len(ords) /\ ords[id].state \in Exposed
        /\ ords2[id] = [ords[id] EXCEPT !.state = ords2[id].state]
    BY <1>2, AskedOrders
  <2>2. ords[id] \in ShadowOrder
    BY <2>1, ElementOfSeq
  <2>3. \A state : Stays(ords[id], [ords[id] EXCEPT !.state = state])
    BY <2>2, SMTT(30) DEF Stays, ShadowOrder
  <2> QED BY ONLY <2>1, <2>3
<1> QED BY <1>1, <1>2 DEF Asks, Local

LEMMA LocalForced ==
  ASSUME NEW ords \in Seq(ShadowOrder), NEW state \in Terminal, NEW ords2,
         ords2 = force_cancel_all(ords, state)
  PROVE  Local(ords, ords2)
<1>1. /\ Age(ords, ords2, 0) /\ ~AnyExposed(ords2)
      /\ \A id \in 1..Len(ords) : ords2[id].remaining = ords[id].remaining
  BY ForcedOrders
<1>2. ords2 \in Seq(ShadowOrder) /\ Len(ords2) = Len(ords)
  BY <1>1 DEF Age
<1>3. \A id \in 1..Len(ords2) : ords2[id].state \notin Exposed
  BY <1>1, <1>2, OrderTypes DEF AnyExposed
<1>4. \A id \in 1..Len(ords) : ords[id].remaining \in Nat
  BY Remains
<1> QED BY <1>1, <1>2, <1>3, <1>4, OrderTypes DEF Local

\* A confirmation makes o of its order.
LEMMA LocalConfirmed ==
  ASSUME NEW ords \in Seq(ShadowOrder), NEW id \in 1..Len(ords), NEW o, NEW ords2,
         ords2 = [ords EXCEPT ![id] = o], o \in ShadowOrder, o.remaining >= ords[id].remaining,
         \/ o.state \notin Exposed
         \/ \E old \in ShadowOrder, at \in Nat :
              MayStand(ords, id, old) /\ o = Activated(old, at)
  PROVE  Local(ords, ords2)
<1>1. /\ ords2 \in Seq(ShadowOrder) /\ Len(ords2) = Len(ords) /\ ords2[id] = o
      /\ \A x \in 1..Len(ords) : x # id => ords2[x] = ords[x]
  BY ExceptSeq
<1>2. \A x \in 1..Len(ords) : ords[x].remaining \in Nat
  BY Remains
<1>3. ASSUME NEW x \in 1..Len(ords)
      PROVE  /\ ords2[x].remaining >= ords[x].remaining
             /\ ords2[x].state \in Exposed =>
                  \/ ords[x].state \in Exposed /\ Stays(ords[x], ords2[x])
                  \/ \E old \in ShadowOrder, at \in Nat :
                       MayStand(ords, x, old) /\ ords2[x] = Activated(old, at)
  <2>1. CASE x = id
    BY <1>1, <2>1
  <2>2. CASE x # id
    <3>1. ords2[x] = ords[x]
      BY <1>1, <2>2
    <3>2. Stays(ords[x], ords2[x])
      BY <3>1 DEF Stays
    <3>3. ords2[x].remaining >= ords[x].remaining
      <4>1. \A n \in Nat : n >= n
        OBVIOUS
      <4> QED BY ONLY <1>2, <3>1, <4>1, x \in 1..Len(ords)
    <3> QED BY <3>1, <3>2, <3>3
  <2> QED BY <2>1, <2>2
<1> QED BY <1>1, <1>3, OrderTypes DEF Local

LEMMA LocalEvents ==
  ASSUME ShadowInv, Due, UNCHANGED <<facts, driver, horizon, queue_model>>, execute_scheduled
  PROVE  Local(orders, orders') /\ inventory' = inventory
<1> DEFINE event == scheduled[NextUp]
           rest == RemoveAt(scheduled, NextUp)
           id == event.order_id
           at == event.at.timestamp
<1>0. orders \in Seq(ShadowOrder) /\ at \in Nat /\ Displays(displayed, arrivals)
  BY TakenEvent DEF ShadowInv, ShadowTypes, Settled
<1>1. CASE execute_observation(event, rest)
  BY <1>0, <1>1, LocalNothing DEF execute_observation, simulator
<1>2. CASE execute_decision(event, rest)
  <2>1. Asks(orders, orders')
    BY <1>2, DecisionStep
  <2> QED BY <1>0, <1>2, <2>1, LocalAsked DEF execute_decision
<1>3. ASSUME Confirms(event)
      PROVE  id \in 1..Len(orders) /\ orders[id] \in ShadowOrder /\ orders[id].remaining \in Nat
             /\ orders[id].remaining <= config.quantity
  BY <1>0, <1>3, ConfirmedOrder, Remains
<1>4. CASE activate(event, rest)
  <2> DEFINE allowed == Allowed(id, orders[id], at)
             o == IF allowed THEN Activated(orders[id], at) ELSE Ended(orders[id], "Rejected")
  <2>1. /\ Confirms(event) /\ inventory' = inventory
        /\ \/ orders[id].state # "PendingAck" /\ UNCHANGED <<orders, counts, last_market_quoted>>
           \/ /\ orders[id].state = "PendingAck" /\ orders' = [orders EXCEPT ![id] = o]
              /\ counts' = IF allowed THEN counts ELSE [counts EXCEPT !.rejected = @ + 1]
              /\ last_market_quoted' = AnyExposed(orders')
    BY <1>4 DEF activate, Confirms, Confirmations
  <2>2. id \in 1..Len(orders) /\ orders[id] \in ShadowOrder /\ orders[id].remaining \in Nat
    BY <1>3, <2>1
  <2>3. CASE orders[id].state = "PendingAck" /\ orders' = [orders EXCEPT ![id] = o]
    <3>1. IsOpen(orders[id])
      BY <2>3 DEF IsOpen, is_open_state
    <3>2. CASE allowed
      <4>1. o = Activated(orders[id], at) /\ MayStand(orders, id, orders[id])
        BY <2>2, <3>1, <3>2, AllowedOpens, OrderTypes, <1>0 DEF MayStand
      <4> HIDE DEF o, id, at, allowed
      <4>2. o \in ShadowOrder /\ o.remaining = orders[id].remaining
        BY <1>0, <2>2, <3>1, <4>1, ActivatedOrder
      <4>3. o.remaining >= orders[id].remaining
        BY <2>2, <4>2
      <4>4. \E old \in ShadowOrder, t \in Nat :
              MayStand(orders, id, old) /\ o = Activated(old, t)
        BY <1>0, <2>2, <3>1, <4>1
      <4>5. Local(orders, orders')
        BY <1>0, <2>2, <2>3, <4>2, <4>3, <4>4, LocalConfirmed
      <4> QED BY <2>1, <4>5
    <3>3. CASE ~allowed
      <4>1. o = Ended(orders[id], "Rejected")
        BY <3>3
      <4> HIDE DEF o, id, at, allowed
      <4>2. o \in ShadowOrder /\ o.remaining = orders[id].remaining /\ ~IsOpen(o)
        BY <2>2, <4>1, EndedOrder DEF Terminal
      <4>3. o.remaining >= orders[id].remaining /\ o.state \notin Exposed
        BY <2>2, <4>2 DEF IsOpen, is_open_state
      <4>4. Local(orders, orders')
        BY <1>0, <2>2, <2>3, <4>2, <4>3, LocalConfirmed
      <4> QED BY <2>1, <4>4
    <3> QED BY <3>2, <3>3
  <2> QED BY <1>0, <2>1, <2>3, LocalNothing
<1>5. CASE confirm_cancel(event, rest)
  <2> DEFINE o == Ended(orders[id], "Cancelled")
  <2>1. /\ Confirms(event) /\ inventory' = inventory
        /\ orders' = orders \/ orders' = [orders EXCEPT ![id] = o]
    BY <1>5 DEF confirm_cancel, Confirms, Confirmations
  <2>2. id \in 1..Len(orders) /\ orders[id] \in ShadowOrder /\ orders[id].remaining \in Nat
    BY <1>3, <2>1
  <2> HIDE DEF id
  <2>3. o \in ShadowOrder /\ o.remaining = orders[id].remaining /\ ~IsOpen(o)
    BY <2>2, EndedOrder DEF Terminal
  <2> HIDE DEF o
  <2>4. o.remaining >= orders[id].remaining /\ o.state \notin Exposed
    BY <2>2, <2>3 DEF IsOpen, is_open_state
  <2>5. Local(orders, orders')
    BY <1>0, <2>1, <2>2, <2>3, <2>4, LocalConfirmed, LocalNothing
  <2> QED BY <2>1, <2>5
<1>6. CASE confirm_replace(event, rest)
  <2> DEFINE order == [orders[id] EXCEPT !.limit = event.price, !.original = config.quantity,
                                         !.remaining = config.quantity]
             allowed == Allowed(id, order, at)
             o == IF allowed THEN Activated(order, at) ELSE Ended(order, "RiskCancelled")
  <2>1. /\ Confirms(event) /\ inventory' = inventory /\ event.at.kind = "ReplaceConfirm"
        /\ \/ orders' = orders
           \/ orders[id].state = "PendingReplace" /\ orders' = [orders EXCEPT ![id] = o]
    BY <1>6 DEF confirm_replace, Confirms, Confirmations
  <2>2. /\ id \in 1..Len(orders) /\ orders[id] \in ShadowOrder /\ orders[id].remaining \in Nat
        /\ orders[id].remaining <= config.quantity
    BY <1>3, <2>1
  <2>3. event.price \in Price
    BY <2>1, TakenEvent DEF EventOK
  <2>4. order \in ShadowOrder /\ order.state = orders[id].state /\ order.remaining = config.quantity
    <3>1. config.quantity \in {config.quantity} /\ config.quantity \in 0..config.quantity
      BY ConfigAssumption DEF ConfigAssumption
    <3> HIDE DEF id, event
    <3> QED BY <2>2, <2>3, <3>1 DEF ShadowOrder
  <2> HIDE DEF order
  <2>5. CASE orders[id].state = "PendingReplace" /\ orders' = [orders EXCEPT ![id] = o]
    <3>1. IsOpen(order)
      BY <2>4, <2>5 DEF IsOpen, is_open_state, Exposed
    <3>2. CASE allowed
      <4>1. o = Activated(order, at) /\ MayStand(orders, id, order)
        <5>1. IsOpen(orders[id])
          BY <2>5 DEF IsOpen, is_open_state, Exposed
        <5> QED BY <1>0, <2>2, <3>1, <3>2, <5>1, AllowedOpens, OrderTypes DEF MayStand
      <4> HIDE DEF o, id, at, allowed
      <4>2. o \in ShadowOrder /\ o.remaining = order.remaining
        BY <1>0, <2>4, <3>1, <4>1, ActivatedOrder
      <4>3. o.remaining >= orders[id].remaining
        BY <2>2, <2>4, <4>2, ConfigAssumption DEF ConfigAssumption
      <4>4. \E old \in ShadowOrder, t \in Nat :
              MayStand(orders, id, old) /\ o = Activated(old, t)
        BY <1>0, <2>4, <3>1, <4>1
      <4>5. Local(orders, orders')
        BY <1>0, <2>2, <2>5, <4>2, <4>3, <4>4, LocalConfirmed
      <4> QED BY <2>1, <4>5
    <3>3. CASE ~allowed
      <4>1. o = Ended(order, "RiskCancelled")
        BY <3>3
      <4> HIDE DEF o, id, at, allowed
      <4>2. o \in ShadowOrder /\ o.remaining = order.remaining /\ ~IsOpen(o)
        BY <2>4, <4>1, EndedOrder DEF Terminal
      <4>3. o.remaining >= orders[id].remaining /\ o.state \notin Exposed
        BY <2>2, <2>4, <4>2, ConfigAssumption DEF IsOpen, is_open_state, ConfigAssumption
      <4>4. Local(orders, orders')
        BY <1>0, <2>2, <2>5, <4>2, <4>3, LocalConfirmed
      <4> QED BY <2>1, <4>4
    <3> QED BY <3>2, <3>3
  <2> QED BY <1>0, <2>1, <2>5, LocalNothing
<1> QED BY <1>1, <1>2, <1>4, <1>5, <1>6 DEF execute_scheduled

\* Every step but a message.
LEMMA LocalSteps ==
  ASSUME ShadowInv, [SimulatorNext]_vars, ~(BookMessage \/ TradingMessage \/ SessionMessage)
  PROVE  Local(orders, orders') /\ UNCHANGED <<inventory, displayed, arrivals, queue_model>>
<1>0. orders \in Seq(ShadowOrder)
  BY DEF ShadowInv, Settled
<1>1. CASE UNCHANGED vars
  BY <1>0, <1>1, LocalNothing DEF vars, simulator, facts, book
<1>2. ASSUME NEW gap \in Gaps, before_market(timestamp + gap), UNCHANGED queue_model
      PROVE  Local(orders, orders') /\ UNCHANGED <<inventory, displayed, arrivals, queue_model>>
  BY <1>0, <1>2, LocalNothing DEF before_market, simulator, facts, book
<1>3. CASE execute_scheduled /\ UNCHANGED queue_model
  <2>1. Due /\ UNCHANGED <<facts, driver, horizon, queue_model>>
    BY <1>3 DEF execute_scheduled
  <2> QED BY <1>3, <2>1, LocalEvents DEF facts, book
<1>4. CASE sequence_gap /\ UNCHANGED queue_model
  <2>1. /\ orders' = force_cancel_all(orders, "RiskCancelled") /\ "RiskCancelled" \in Terminal
        /\ UNCHANGED <<inventory, displayed, arrivals, queue_model>>
    BY <1>4 DEF sequence_gap, Terminal, facts, book
  <2> QED BY <1>0, <2>1, LocalForced
<1>5. CASE begin_finish /\ UNCHANGED queue_model
  BY <1>0, <1>5, LocalNothing DEF begin_finish, simulator, facts, book
<1>6. CASE finish /\ UNCHANGED queue_model
  <2>1. /\ orders' = force_cancel_all(orders, "SessionEnded") /\ "SessionEnded" \in Terminal
        /\ UNCHANGED <<inventory, displayed, arrivals, queue_model>>
    BY <1>6 DEF finish, Terminal, facts, book
  <2> QED BY <1>0, <2>1, LocalForced
<1> QED BY <1>1, <1>2, <1>3, <1>4, <1>5, <1>6 DEF SimulatorNext, Terminated

\* What a message does to the orders and the inventory.
Meets(accounted) ==
  LET traded == inventory + SumFunction([id \in HitIds |-> Signed(orders[id])])
  IN  /\ accounted \in BOOLEAN
      /\ accounted => traded \in -kMaxLedger..kMaxLedger
      /\ inventory' = IF accounted THEN traded ELSE inventory
      /\ Len(orders') = Len(orders)
      /\ \A id \in 1..Len(orders) :
           /\ orders'[id].remaining = Met(orders[id], accounted).remaining
           /\ orders'[id].state \in Exposed =>
                orders[id].state \in Exposed /\ orders'[id] = Met(orders[id], accounted)

LEMMA MessagesMeet ==
  ASSUME ShadowInv, NEW symbol, Heard(symbol)
  PROVE  \E accounted : Meets(accounted)
<1>1. PICK breach \in BOOLEAN, accounted \in BOOLEAN : Outcome(breach, accounted)
  BY MessageOutcome DEF Heard, ShadowInv, ShadowTypes
<1> DEFINE met == MetOrders(accounted)
           traded == inventory + SumFunction([id \in HitIds |-> Signed(orders[id])])
<1>2. /\ met \in Seq(ShadowOrder) /\ Len(met) = Len(orders)
      /\ \A id \in 1..Len(orders) : /\ met[id] = Met(orders[id], accounted)
                                    /\ met[id].state \in Exposed => orders[id].state \in Exposed
  BY MessageMeets DEF Heard
<1>3. /\ accounted => traded \in -kMaxLedger..kMaxLedger
      /\ inventory' = IF accounted THEN traded ELSE inventory
      /\ orders' = met \/ \E state \in Terminal : orders' = force_cancel_all(met, state)
  BY <1>1 DEF Outcome, Terminal
<1> HIDE DEF met
<1>4. /\ Len(orders') = Len(orders)
      /\ \A id \in 1..Len(orders) :
           /\ orders'[id].remaining = met[id].remaining
           /\ orders'[id].state \in Exposed => orders'[id] = met[id]
  <2>1. CASE orders' = met
    BY <1>2, <2>1
  <2>2. ASSUME NEW state \in Terminal, orders' = force_cancel_all(met, state)
        PROVE  /\ Len(orders') = Len(orders)
               /\ \A id \in 1..Len(orders) :
                    /\ orders'[id].remaining = met[id].remaining
                    /\ orders'[id].state \notin Exposed
    <3>1. /\ Age(met, orders', 0) /\ ~AnyExposed(orders')
          /\ \A id \in 1..Len(met) : orders'[id].remaining = met[id].remaining
      BY <1>2, <2>2, ForcedOrders
    <3>2. orders' \in Seq(ShadowOrder) /\ Len(orders') = Len(met)
      BY <3>1 DEF Age
    <3> QED BY <1>2, <3>1, <3>2, OrderTypes DEF AnyExposed
  <2> QED BY <1>3, <2>1, <2>2
<1>5. Meets(accounted)
  BY <1>2, <1>3, <1>4 DEF Meets
<1> QED BY <1>5

----------------------------------------------------------------------------
(* The queue ahead is the factual one *)

FollowsBook(ords, shown) ==
  \A id \in 1..Len(ords) : ords[id].state \in Exposed => ords[id].ahead = Queue(ords[id], shown)
QueueInv == queue_model = "MboFifoConservative" => FollowsBook(orders, displayed)

LEMMA FollowedQueue ==
  ASSUME ShadowInv PROVE QueueAheadIsFactual <=> QueueInv
<1>1. DOMAIN orders = 1..Len(orders)
  BY OrderTypes DEF ShadowInv, Settled
<1>2. \A o : Queue(o, displayed) = [ref \in StandingBefore(o) |-> displayed[ref].shares]
  BY DEF Queue, Stands, StandingBefore
<1> QED BY <1>1, <1>2 DEF QueueAheadIsFactual, QueueInv, FollowsBook

LEMMA StayingQueue ==
  ASSUME NEW o, NEW n, NEW shown, Stays(o, n)
  PROVE  Queue(n, shown) = Queue(o, shown)
<1>1. Stands(n, shown) = Stands(o, shown)
  BY DEF Stands, Stays
<1> QED BY <1>1 DEF Queue

\* An order joins behind all that is displayed at its price.
LEMMA JoinedQueue ==
  ASSUME NEW o \in ShadowOrder, IsOpen(o), NEW at \in Nat, Displays(displayed, arrivals),
         queue_model = "MboFifoConservative"
  PROVE  Activated(o, at).ahead = Queue(Activated(o, at), displayed)
<1> DEFINE n == Activated(o, at)
           level == {r \in DOMAIN displayed :
                       /\ displayed[r].symbol = o.symbol /\ displayed[r].side = o.side
                       /\ displayed[r].price = o.limit}
<1>1. Snapshot(o) = [ref \in level |-> displayed[ref].shares]
  BY DEF Snapshot
<1>2. n = [o EXCEPT !.state = "Active", !.active_at = at, !.ahead = Snapshot(o), !.joined = arrivals]
  BY DEF Activated
<1>3. /\ n.symbol = o.symbol /\ n.side = o.side /\ n.limit = o.limit
      /\ n.ahead = Snapshot(o) /\ n.joined = arrivals
  BY <1>2 DEF ShadowOrder
<1> HIDE DEF n
<1>4. Stands(n, displayed) = level
  BY <1>3 DEF Stands, Displays
<1> QED BY <1>1, <1>3, <1>4 DEF Queue, n

LEMMA QueueStep == ShadowInv /\ QueueInv /\ [SimulatorNext]_vars => QueueInv'
<1> SUFFICES ASSUME ShadowInv, QueueInv, [SimulatorNext]_vars,
                    queue_model' = "MboFifoConservative",
                    NEW id \in 1..Len(orders'), orders'[id].state \in Exposed
             PROVE  orders'[id].ahead = Queue(orders'[id], displayed')
  BY DEF QueueInv, FollowsBook
<1>1. /\ orders \in Seq(ShadowOrder) /\ Displays(displayed, arrivals) /\ queue_model = "MboFifoConservative"
      /\ \A x \in 1..Len(orders) : orders[x].joined <= arrivals
  BY DEF ShadowInv, ShadowTypes, Settled, Clock, Since, SimulatorNext, vars
<1>2. \A x \in 1..Len(orders) : orders[x].state \in Exposed =>
        orders[x].ahead = Queue(orders[x], displayed)
  BY <1>1 DEF QueueInv, FollowsBook
<1>3. CASE ~(BookMessage \/ TradingMessage \/ SessionMessage)
  <2>1. Local(orders, orders') /\ displayed' = displayed
    BY <1>3, LocalSteps
  <2>2. CASE id \in 1..Len(orders) /\ orders[id].state \in Exposed /\ Stays(orders[id], orders'[id])
    <3>1. Queue(orders'[id], displayed') = Queue(orders[id], displayed)
      BY <2>1, <2>2, StayingQueue
    <3>2. orders'[id].ahead = orders[id].ahead
      BY <2>2 DEF Stays
    <3> QED BY <1>2, <2>2, <3>1, <3>2
  <2>3. ASSUME NEW o \in ShadowOrder, NEW at \in Nat, IsOpen(o), orders'[id] = Activated(o, at)
        PROVE  orders'[id].ahead = Queue(orders'[id], displayed')
    BY <1>1, <2>1, <2>3, JoinedQueue
  <2> QED BY <2>1, <2>2, <2>3 DEF Local, MayStand
<1>4. CASE BookMessage \/ TradingMessage \/ SessionMessage
  <2>1. PICK symbol : Heard(symbol)
    BY <1>4, MessagesAreHeard
  <2>2. PICK accounted \in BOOLEAN : Meets(accounted)
    BY <2>1, MessagesMeet DEF Meets
  <2> DEFINE o == orders[id]
             n == Met(o, accounted)
  <2>3. /\ id \in 1..Len(orders) /\ o.state \in Exposed /\ orders'[id] = n
        /\ o \in ShadowOrder /\ o.joined <= arrivals /\ o.ahead = Queue(o, displayed)
    BY <1>1, <1>2, <2>2, OrderTypes DEF Meets
  <2>4. IsOpen(n)
    BY <2>3 DEF IsOpen, is_open_state
  <2> HIDE DEF o
  <2>5. /\ n.symbol = o.symbol /\ n.side = o.side /\ n.limit = o.limit /\ n.joined = o.joined
        /\ n.ahead = Moved(o).ahead
    <3>1. mutation' \in BookMutation \cup {None} /\ queue_model \in QueueModels
      BY <2>1 DEF Heard, ShadowInv, ShadowTypes
    <3> QED BY <2>3, <2>4, <3>1, MetOrder DEF Ages
  <2> HIDE DEF n
  <2>6. Queue(n, displayed') = Queue(o, displayed')
    <3>1. Stands(n, displayed') = Stands(o, displayed')
      BY <2>5 DEF Stands
    <3> QED BY <3>1 DEF Queue
  <2>7. Moved(o).ahead = Queue(o, displayed')
    <3>1. CASE BookMessage
      BY <2>3, <3>1, MovedQueue
    <3>2. CASE TradingMessage \/ SessionMessage
      <4>1. mutation' = None /\ displayed' = displayed
        BY <3>2 DEF TradingMessage, SessionMessage, Quiet
      <4>2. Moved(o) = o
        BY <4>1 DEF Moved
      <4> QED BY <2>3, <4>1, <4>2
    <3> QED BY <1>4, <3>1, <3>2
  <2> QED BY <2>3, <2>5, <2>6, <2>7
<1> QED BY <1>3, <1>4

LEMMA AlwaysQueueInv == SimulatorSpec => []QueueInv
<1>1. SimulatorInit => QueueInv
  <2> SUFFICES ASSUME SimulatorInit PROVE FollowsBook(orders, displayed)
    BY DEF QueueInv
  <2>1. orders = <<>> /\ Len(<<>>) = 0 /\ 1..0 = {}
    BY EmptySeq DEF SimulatorInit
  <2> QED BY <2>1 DEF FollowsBook
<1>2. ShadowInv /\ QueueInv /\ [SimulatorNext]_vars => QueueInv'
  BY QueueStep
<1> QED BY <1>1, <1>2, AlwaysShadowInv, PTL DEF SimulatorSpec

\* QueueAheadIsFactual: the map of orders ahead that QueueTracker takes when an order is
\* activated, and then updates from mutations alone, stays the displayed orders of its
\* price that arrived before it, each with the shares it still has.
THEOREM SimulatorQueueAheadIsFactual == SimulatorSpec => []QueueAheadIsFactual
<1>1. ShadowInv /\ QueueInv => QueueAheadIsFactual
  BY FollowedQueue
<1> QED BY <1>1, AlwaysShadowInv, AlwaysQueueInv, PTL

----------------------------------------------------------------------------
(* Fills need evidence *)

LEMMA HitEvidence ==
  ASSUME NEW o \in ShadowOrder, mutation' \in BookMutation, queue_model \in QueueModels, Hit(o) # 0
  PROVE  LET m == mutation'
         IN  /\ IsExecution(m) /\ m.symbol = o.symbol /\ m.side = o.side
             /\ Hit(o) <= m.event_quantity /\ Hit(o) \in Nat
             /\ \/ o.side = "Buy" /\ m.display_price < o.limit
                \/ o.side = "Sell" /\ m.display_price > o.limit
                \/ /\ m.display_price = o.limit
                   /\ queue_model # "TradeThroughOnly"
                   /\ queue_model = "MboFifoConservative" => QueueReached(o)
<1> DEFINE m == mutation'
           e == Evidence(o, m)
<1>1. /\ Hit(o) \in 0..o.remaining /\ Concerns(o, m) /\ o.side = m.side /\ IsExecution(m)
      /\ Hit(o) <= m.event_quantity /\ o.remaining \in Nat
  BY HitBounds, ConfigAssumption DEF ConfigAssumption, ShadowOrder
<1>2. e # 0
  <2>1. /\ e = 0 \/ e = m.event_quantity
        /\ m.event_quantity \in Nat
    BY ConfigAssumption, OpeningAssumption
    DEF ConfigAssumption, Evidence, BookMutation, OpeningAssumption
  <2>2. Hit(o) = Min({e, o.remaining})
    BY <1>1 DEF Concerns, Hit
  <2> HIDE DEF e
  <2>3. {e, o.remaining} \in SUBSET Nat /\ {e, o.remaining} # {} /\ e \in {e, o.remaining}
    BY <1>1, <2>1
  <2>4. Hit(o) <= e
    <3> DEFINE S == {e, o.remaining}
    <3>1. S \in SUBSET Nat /\ S # {} /\ e \in S /\ Hit(o) = Min(S)
      BY <2>2, <2>3
    <3> HIDE DEF S
    <3> QED BY <3>1, MinIsIn
  <2>5. Hit(o) \in Nat /\ e \in Nat
    BY <1>1, <2>1
  <2> QED BY <2>4, <2>5
<1>3. /\ o.side = "Buy" \/ o.side = "Sell"
      /\ is_trade_through(o, m) => IF o.side = "Buy" THEN m.display_price < o.limit
                                   ELSE m.display_price > o.limit
  BY DEF is_trade_through, ShadowOrder, Side
<1>4. ~is_trade_through(o, m) =>
        /\ m.display_price = o.limit /\ queue_model # "TradeThroughOnly"
        /\ queue_model = "MboFifoConservative" => QueueReached(o)
  BY <1>1, <1>2, ConfigAssumption DEF Evidence, ConfigAssumption
<1> QED BY <1>1, <1>3, <1>4 DEF Concerns

LEMMA FillsStep ==
  ASSUME ShadowInv, QueueInv, [SimulatorNext]_vars, NEW id \in DOMAIN orders,
         orders'[id].remaining < orders[id].remaining
  PROVE  LET order == orders[id]
             m == mutation'
         IN  /\ m # None
             /\ IsExecution(m) /\ m.symbol = order.symbol /\ m.side = order.side
             /\ order.remaining - orders'[id].remaining <= m.event_quantity
             /\ \/ order.side = "Buy" /\ m.display_price < order.limit
                \/ order.side = "Sell" /\ m.display_price > order.limit
                \/ /\ m.display_price = order.limit
                   /\ queue_model # "TradeThroughOnly"
                   /\ queue_model = "MboFifoConservative" => StandingBefore(order) = {}
<1> DEFINE o == orders[id]
<1>1. /\ orders \in Seq(ShadowOrder) /\ id \in 1..Len(orders) /\ o \in ShadowOrder
      /\ o.remaining \in Nat
  BY OrderTypes, Remains DEF ShadowInv, Settled
<1>2. BookMessage \/ TradingMessage \/ SessionMessage
  <2>1. CASE ~(BookMessage \/ TradingMessage \/ SessionMessage)
    <3>1. orders'[id].remaining >= orders[id].remaining
      BY <1>1, <2>1, LocalSteps DEF Local
    <3>2. orders'[id].remaining \in Nat
      <4>1. ShadowInv' /\ Len(orders) <= Len(orders')
        BY <2>1, LocalSteps, ShadowStep DEF Local
      <4>2. orders' \in Seq(ShadowOrder)
        BY <4>1 DEF ShadowInv, Settled
      <4>3. Len(orders) \in Nat /\ Len(orders') \in Nat
        BY <1>1, <4>2, LenProperties
      <4>4. id \in 1..Len(orders')
        BY <1>1, <4>1, <4>3
      <4> QED BY <4>2, <4>4, Remains
    <3> QED BY <1>1, <3>1, <3>2
  <2> QED BY <2>1
<1>3. PICK symbol : Heard(symbol)
  BY <1>2, MessagesAreHeard
<1>4. PICK accounted \in BOOLEAN : Meets(accounted)
  BY <1>3, MessagesMeet DEF Meets
<1>5. mutation' \in BookMutation \cup {None} /\ queue_model \in QueueModels
  BY <1>3 DEF Heard, ShadowInv, ShadowTypes
<1>6. orders'[id].remaining = o.remaining - (IF accounted THEN Hit(o) ELSE 0) /\ Hit(o) \in 0..o.remaining
  <2>1. orders'[id].remaining = Met(o, accounted).remaining
    BY <1>1, <1>4 DEF Meets
  <2>2. Met(o, accounted).remaining = o.remaining - (IF accounted THEN Hit(o) ELSE 0)
    BY <1>1, <1>5, MetOrder
  <2>3. Hit(o) \in 0..o.remaining
    BY <1>1, <1>5, HitBounds
  <2> QED BY <2>1, <2>2, <2>3
<1>7. Hit(o) # 0 /\ o.remaining - orders'[id].remaining = Hit(o)
  BY <1>1, <1>6
<1>8. mutation' \in BookMutation /\ mutation' # None /\ o.state \in Exposed
  BY <1>1, <1>5, <1>7, HitBounds DEF Concerns
<1>9. QueueReached(o) /\ queue_model = "MboFifoConservative" => StandingBefore(o) = {}
  <2> SUFFICES ASSUME QueueReached(o), queue_model = "MboFifoConservative"
               PROVE  StandingBefore(o) = {}
    OBVIOUS
  <2>1. o.ahead = Queue(o, displayed) /\ o.ahead = <<>>
    BY <1>1, <1>8 DEF QueueInv, FollowsBook, QueueReached
  <2>2. DOMAIN o.ahead = Stands(o, displayed)
    BY <2>1 DEF Queue
  <2>3. DOMAIN <<>> = {}
    OBVIOUS
  <2> QED BY <2>1, <2>2, <2>3 DEF Stands, StandingBefore
<1> HIDE DEF o
<1>10. LET m == mutation'
       IN  /\ IsExecution(m) /\ m.symbol = o.symbol /\ m.side = o.side
           /\ Hit(o) <= m.event_quantity /\ Hit(o) \in Nat
           /\ \/ o.side = "Buy" /\ m.display_price < o.limit
              \/ o.side = "Sell" /\ m.display_price > o.limit
              \/ /\ m.display_price = o.limit
                 /\ queue_model # "TradeThroughOnly"
                 /\ queue_model = "MboFifoConservative" => QueueReached(o)
  BY <1>1, <1>5, <1>7, <1>8, HitEvidence
<1> QED BY <1>7, <1>8, <1>9, <1>10 DEF o

\* FillsNeedEvidence: on_mutation is the only source of fills; what an order loses of its
\* remaining quantity was executed by the message, on its side, through its price, or at
\* its price when no displayed order that joined the price before it is left.
THEOREM SimulatorFillsNeedEvidence == SimulatorSpec => FillsNeedEvidence
<1>1. ShadowInv /\ QueueInv /\ [SimulatorNext]_vars =>
        [\A id \in DOMAIN orders :
           orders'[id].remaining < orders[id].remaining =>
             LET order == orders[id]
                 m == mutation'
             IN  /\ m # None
                 /\ IsExecution(m) /\ m.symbol = order.symbol /\ m.side = order.side
                 /\ order.remaining - orders'[id].remaining <= m.event_quantity
                 /\ \/ order.side = "Buy" /\ m.display_price < order.limit
                    \/ order.side = "Sell" /\ m.display_price > order.limit
                    \/ /\ m.display_price = order.limit
                       /\ queue_model # "TradeThroughOnly"
                       /\ queue_model = "MboFifoConservative" => StandingBefore(order) = {}]_vars
  <2> SUFFICES ASSUME ShadowInv, QueueInv, [SimulatorNext]_vars, NEW id \in DOMAIN orders,
                      orders'[id].remaining < orders[id].remaining
               PROVE  LET order == orders[id]
                          m == mutation'
                      IN  /\ m # None
                          /\ IsExecution(m) /\ m.symbol = order.symbol /\ m.side = order.side
                          /\ order.remaining - orders'[id].remaining <= m.event_quantity
                          /\ \/ order.side = "Buy" /\ m.display_price < order.limit
                             \/ order.side = "Sell" /\ m.display_price > order.limit
                             \/ /\ m.display_price = order.limit
                                /\ queue_model # "TradeThroughOnly"
                                /\ queue_model = "MboFifoConservative" => StandingBefore(order) = {}
    OBVIOUS
  <2> QED BY FillsStep
<1> QED BY <1>1, AlwaysShadowInv, AlwaysQueueInv, PTL DEF SimulatorSpec, FillsNeedEvidence

----------------------------------------------------------------------------
(* The position *)

\* The exposed orders of a symbol and side: one at most.
ExposedOn(ords, symbol, side) ==
  {id \in 1..Len(ords) :
     ords[id].state \in Exposed /\ ords[id].symbol = symbol /\ ords[id].side = side}

\* The shares they may still fill, for each symbol, and for all.
Standing(ords, side) ==
  [symbol \in Symbol |->
     IF ExposedOn(ords, symbol, side) = {} THEN 0
     ELSE ords[CHOOSE id \in ExposedOn(ords, symbol, side) : TRUE].remaining]
Pledged(ords, side) == SumFunction(Standing(ords, side))

\* The inventory seen from a side: what its fills add to.
Lean(side, inv) == IF side = "Buy" THEN inv ELSE -inv
Reach == config.max_absolute_inventory + OthersBeside * config.quantity

\* If everything that is exposed on a side were filled, and nothing on the other, the
\* inventory would be within its reach.
ReachInv == \A side \in Side : Lean(side, inventory) + Pledged(orders, side) <= Reach

LEMMA NoMoreTimes ==
  ASSUME NEW a \in Nat, NEW b \in Nat, NEW c \in Nat, a <= b
  PROVE  a * c <= b * c /\ a * c \in Nat /\ b * c \in Nat
<1>1. PICK d \in Nat : b = a + d
  <2>1. b - a \in Nat /\ b = a + (b - a)
    OBVIOUS
  <2> QED BY <2>1
<1>2. \A x, y, z \in Nat : (x + y) * z = x * z + y * z /\ x * z \in Nat
  OBVIOUS
<1>3. b * c = a * c + d * c /\ a * c \in Nat /\ d * c \in Nat /\ b * c \in Nat
  BY <1>1, <1>2
<1> QED BY ONLY <1>3

LEMMA MinOfTwoNat ==
  ASSUME NEW a \in Nat, NEW b \in Nat
  PROVE  Min({a, b}) \in {a, b} /\ Min({a, b}) <= a /\ Min({a, b}) <= b
<1> DEFINE S == {a, b}
<1>1. S \in SUBSET Nat /\ S # {} /\ a \in S /\ b \in S
  OBVIOUS
<1> HIDE DEF S
<1>2. Min(S) \in S /\ Min(S) <= a /\ Min(S) <= b
  BY <1>1, MinIsIn
<1> QED BY <1>2 DEF S

\* The largest of two numbers is the one that is not smaller.
LEMMA MaxOfTwo ==
  ASSUME NEW a \in Int, NEW b \in Int
  PROVE  Max({a, b}) \in {a, b} /\ Max({a, b}) >= a /\ Max({a, b}) >= b
<1> DEFINE S == {a, b}
<1>1. \E x \in S : \A y \in S : x >= y
  <2>1. CASE a >= b
    BY <2>1
  <2>2. CASE b >= a
    BY <2>2
  <2> QED BY <2>1, <2>2
<1>2. a \in S /\ b \in S
  OBVIOUS
<1> HIDE DEF S
<1>3. Max(S) \in S /\ \A y \in S : Max(S) >= y
  BY <1>1 DEF Max
<1>4. Max(S) \in S /\ Max(S) >= a /\ Max(S) >= b
  BY <1>2, <1>3
<1> QED BY <1>4 DEF S

\* As many orders stand beside one as there are other symbols and open orders allowed.
LEMMA BesideBounds ==
  /\ OthersBeside \in Nat
  /\ \A k \in Nat : k + 1 <= Cardinality(Symbol) /\ k + 1 <= config.max_open_orders
                      => k <= OthersBeside
<1> DEFINE n == Cardinality(Symbol)
           m == Min({n, config.max_open_orders})
<1>1. n \in Nat /\ config.max_open_orders \in Nat
  BY FS_CardinalityType, OpeningAssumption, ConfigAssumption
  DEF OpeningAssumption, ConfigAssumption
<1>2. m \in {n, config.max_open_orders}
  <2> HIDE DEF n
  <2> QED BY <1>1, MinOfTwoNat
<1>3. m \in Nat /\ (m = n \/ m = config.max_open_orders)
  BY <1>1, <1>2
<1> HIDE DEF m
<1>4. /\ Max({0, m - 1}) \in {0, m - 1}
      /\ Max({0, m - 1}) >= 0 /\ Max({0, m - 1}) >= m - 1
  <2> DEFINE k == m - 1
  <2>1. 0 \in Int /\ k \in Int
    BY <1>3
  <2> HIDE DEF k
  <2>2. Max({0, k}) \in {0, k} /\ Max({0, k}) >= 0 /\ Max({0, k}) >= k
    BY <2>1, MaxOfTwo
  <2> QED BY <2>2 DEF k
<1>5. OthersBeside = Max({0, m - 1})
  BY DEF OthersBeside, m
<1> HIDE DEF n
<1>6. OthersBeside \in Nat /\ OthersBeside >= m - 1
  BY <1>3, <1>4, <1>5
<1>7. \A k \in Nat : k + 1 <= n /\ k + 1 <= config.max_open_orders => k <= OthersBeside
  BY <1>1, <1>3, <1>6
<1> QED BY <1>6, <1>7 DEF n

LEMMA ReachType ==
  /\ Reach \in Nat /\ config.max_absolute_inventory \in Nat /\ config.quantity \in Nat
  /\ OthersBeside * config.quantity \in Nat
<1>1. config.max_absolute_inventory \in Nat /\ config.quantity \in Nat /\ OthersBeside \in Nat
  BY ConfigAssumption, BesideBounds DEF ConfigAssumption
<1>2. OthersBeside * config.quantity \in Nat
  BY <1>1, NoMoreTimes
<1> QED BY <1>1, <1>2 DEF Reach

LEMMA StandingValue ==
  ASSUME NEW ords \in Seq(ShadowOrder), OnePerSide(ords), NEW side
  PROVE  /\ Addable(Standing(ords, side), Symbol)
         /\ \A symbol \in Symbol :
              /\ Standing(ords, side)[symbol] \in Nat
              /\ Standing(ords, side)[symbol] <= config.quantity
              /\ ExposedOn(ords, symbol, side) = {} => Standing(ords, side)[symbol] = 0
              /\ \A id \in ExposedOn(ords, symbol, side) :
                   Standing(ords, side)[symbol] = ords[id].remaining
<1> DEFINE f == Standing(ords, side)
           E(symbol) == ExposedOn(ords, symbol, side)
<1>1. \A symbol \in Symbol : \A id, other \in E(symbol) : id = other
  <2> SUFFICES ASSUME NEW symbol \in Symbol, NEW id \in E(symbol), NEW other \in E(symbol)
               PROVE  id = other
    OBVIOUS
  <2>1. /\ id \in 1..Len(ords) /\ other \in 1..Len(ords)
        /\ ords[id].state \in Exposed /\ ords[other].state \in Exposed
        /\ ords[id].symbol = ords[other].symbol /\ ords[id].side = ords[other].side
    BY DEF ExposedOn
  <2>2. id \in OpenIds(ords) /\ other \in OpenIds(ords)
    BY <2>1, OrderTypes DEF IsOpen, is_open_state
  <2> QED BY <2>1, <2>2 DEF OnePerSide
<1>2. \A symbol \in Symbol :
        /\ E(symbol) = {} => f[symbol] = 0
        /\ E(symbol) # {} => \E id \in E(symbol) : f[symbol] = ords[id].remaining
  BY DEF Standing
<1>3. \A symbol \in Symbol : \A id \in E(symbol) :
        ords[id].remaining \in Nat /\ ords[id].remaining <= config.quantity
  BY Remains DEF ExposedOn
<1>4. config.quantity \in Nat /\ IsFiniteSet(Symbol)
  BY ConfigAssumption, OpeningAssumption DEF ConfigAssumption, OpeningAssumption
<1>5. DOMAIN f = Symbol
  BY DEF Standing
<1> HIDE DEF f, E
<1>6. ASSUME NEW symbol \in Symbol
      PROVE  /\ f[symbol] \in Nat /\ f[symbol] <= config.quantity
             /\ \A id \in E(symbol) : f[symbol] = ords[id].remaining
  <2>1. CASE E(symbol) = {}
    BY <1>2, <1>4, <2>1
  <2>2. CASE E(symbol) # {}
    <3>1. PICK x \in E(symbol) : f[symbol] = ords[x].remaining
      BY <1>2, <2>2
    <3>2. f[symbol] \in Nat /\ f[symbol] <= config.quantity
      BY <1>3, <3>1
    <3> QED BY <1>1, <3>1, <3>2
  <2> QED BY <2>1, <2>2
<1>7. Addable(f, Symbol)
  <2>1. \A symbol \in Symbol : f[symbol] \in Int
    BY <1>6
  <2> QED BY <1>4, <1>5, <2>1 DEF Addable
<1> QED BY <1>2, <1>6, <1>7 DEF f, E

LEMMA PledgedNat ==
  ASSUME NEW ords \in Seq(ShadowOrder), OnePerSide(ords), NEW side
  PROVE  Pledged(ords, side) \in Nat
BY StandingValue, SumNat DEF Pledged

\* An exposed order of ords2 was exposed before, on its symbol and side, with at least
\* the shares it has left.
Kept(ords, ords2, symbol, side) ==
  \A id \in ExposedOn(ords2, symbol, side) :
    id \in ExposedOn(ords, symbol, side) /\ ords2[id].remaining <= ords[id].remaining

LEMMA KeptStands ==
  ASSUME NEW ords \in Seq(ShadowOrder), OnePerSide(ords), NEW ords2 \in Seq(ShadowOrder),
         OnePerSide(ords2), NEW side, NEW symbol \in Symbol, Kept(ords, ords2, symbol, side)
  PROVE  Standing(ords2, side)[symbol] <= Standing(ords, side)[symbol]
<1>1. Standing(ords, side)[symbol] \in Nat
  BY StandingValue
<1>2. CASE ExposedOn(ords2, symbol, side) = {}
  <2>1. Standing(ords2, side)[symbol] = 0
    BY <1>2, StandingValue
  <2> QED BY <1>1, <2>1
<1>3. ASSUME NEW id \in ExposedOn(ords2, symbol, side)
      PROVE  Standing(ords2, side)[symbol] <= Standing(ords, side)[symbol]
  <2>1. Standing(ords2, side)[symbol] = ords2[id].remaining
    BY StandingValue
  <2>2. Standing(ords, side)[symbol] = ords[id].remaining /\ ords2[id].remaining <= ords[id].remaining
    BY StandingValue DEF Kept
  <2> QED BY <2>1, <2>2
<1> QED BY <1>2, <1>3

LEMMA KeptPledge ==
  ASSUME NEW ords \in Seq(ShadowOrder), OnePerSide(ords), NEW ords2 \in Seq(ShadowOrder),
         OnePerSide(ords2), NEW side, \A symbol \in Symbol : Kept(ords, ords2, symbol, side)
  PROVE  Pledged(ords2, side) <= Pledged(ords, side)
<1>1. \A symbol \in Symbol : Standing(ords2, side)[symbol] <= Standing(ords, side)[symbol]
  BY KeptStands
<1>2. Addable(Standing(ords, side), Symbol) /\ Addable(Standing(ords2, side), Symbol)
  BY StandingValue
<1> QED BY <1>1, <1>2, SumAtMost DEF Pledged

\* An order that has just passed activation_risk: with it and those beside it filled, the
\* inventory is within reach.
LEMMA ActivatedReach ==
  ASSUME ShadowInv, ShadowInv', Local(orders, orders'), NEW side \in Side,
         NEW id \in 1..Len(orders'), orders'[id].state \in Exposed, orders'[id].side = side,
         NEW o \in ShadowOrder, NEW at \in Nat, MayStand(orders, id, o),
         orders'[id] = Activated(o, at)
  PROVE  Lean(side, inventory) + Pledged(orders', side) <= Reach
<1> DEFINE here == o.symbol
           f == Standing(orders', side)
           g == [f EXCEPT ![here] = 0]
           E(symbol) == ExposedOn(orders', symbol, side)
           S == {symbol \in Symbol \ {here} : E(symbol) # {}}
           Others == OpenIds(orders) \ {id}
           q == config.quantity
<1>1. /\ orders \in Seq(ShadowOrder) /\ orders' \in Seq(ShadowOrder) /\ OnePerSide(orders')
      /\ Displays(displayed, arrivals) /\ inventory \in Int
  BY DEF ShadowInv, ShadowTypes, Settled
<1>2. /\ here \in Symbol /\ IsFiniteSet(Symbol) /\ q \in Nat
      /\ config.max_absolute_inventory \in Int /\ o.remaining \in Nat
  <2>1. IsFiniteSet(Symbol)
    BY OpeningAssumption DEF OpeningAssumption
  <2>2. config.quantity \in Nat /\ config.max_absolute_inventory \in Nat
    BY ReachType
  <2>3. o.symbol \in Symbol /\ o.remaining \in 0..config.quantity
    BY DEF ShadowOrder
  <2> QED BY <2>1, <2>2, <2>3
<1>3. /\ orders'[id].symbol = here /\ orders'[id].remaining = o.remaining /\ o.side = side
  <2>1. Ages(o, Activated(o, at)) /\ Activated(o, at).remaining = o.remaining
    BY <1>1, ActivatedOrder DEF MayStand
  <2> QED BY <2>1 DEF Ages
<1>4. Lean(side, inventory) + o.remaining <= config.max_absolute_inventory
  <2>1. InventoryAllows(o)
    BY DEF MayStand
  <2>2. o.side = "Buy" \/ o.side = "Sell"
    BY DEF ShadowOrder, Side
  <2>3. CASE o.side = "Buy"
    BY <1>3, <2>1, <2>3 DEF InventoryAllows, Lean
  <2>4. CASE o.side = "Sell"
    <3>1. inventory - o.remaining >= -config.max_absolute_inventory /\ Lean(side, inventory) = -inventory
      BY <1>3, <2>1, <2>4 DEF InventoryAllows, Lean
    <3> QED BY <1>1, <1>2, <3>1
  <2> QED BY <2>2, <2>3, <2>4
<1>5. /\ Addable(f, Symbol)
      /\ \A symbol \in Symbol : f[symbol] \in Nat /\ f[symbol] <= q
      /\ \A symbol \in Symbol : E(symbol) = {} => f[symbol] = 0
      /\ f[here] = o.remaining
  <2>1. id \in E(here)
    BY <1>3 DEF ExposedOn
  <2> QED BY <1>1, <1>2, <1>3, <2>1, StandingValue
<1>6. Cardinality(S) \in Nat /\ S \in SUBSET Symbol /\ Cardinality(S) <= OthersBeside
  <2>1. IsFiniteSet(S) /\ Cardinality(S) + 1 <= Cardinality(Symbol)
    <3>1. /\ IsFiniteSet(Symbol \ {here}) /\ Cardinality(Symbol \ {here}) = Cardinality(Symbol) - 1
          /\ Cardinality(Symbol) \in Nat
      BY <1>2, FS_RemoveElement, FS_CardinalityType
    <3>2. S \in SUBSET (Symbol \ {here})
      OBVIOUS
    <3> HIDE DEF S
    <3>3. IsFiniteSet(S) /\ Cardinality(S) <= Cardinality(Symbol \ {here})
      BY <3>1, <3>2, FS_Subset
    <3>4. Cardinality(S) \in Nat
      BY <3>3, FS_CardinalityType
    <3> QED BY <3>1, <3>3, <3>4
  <2>2. Cardinality(S) <= Cardinality(Others) /\ Cardinality(Others) \in Nat
    <3> DEFINE pick == [symbol \in S |-> CHOOSE x \in E(symbol) : TRUE]
    <3>1. \A symbol \in S : pick[symbol] \in E(symbol)
      OBVIOUS
    <3>2. ASSUME NEW symbol \in S PROVE pick[symbol] \in Others /\ orders'[pick[symbol]].symbol = symbol
      <4> DEFINE x == pick[symbol]
      <4>1. /\ x \in 1..Len(orders') /\ orders'[x].state \in Exposed
            /\ orders'[x].symbol = symbol
        BY <3>1 DEF ExposedOn
      <4>2. symbol # here
        OBVIOUS
      <4> HIDE DEF x
      <4>3. x # id
        BY <1>3, <4>1, <4>2
      <4>4. x \in OpenIds(orders)
        <5>1. CASE x \in 1..Len(orders) /\ orders[x].state \in Exposed
          BY <1>1, <5>1, OrderTypes DEF IsOpen, is_open_state
        <5>2. ASSUME NEW old, MayStand(orders, x, old) PROVE x \in OpenIds(orders)
          BY <5>2 DEF MayStand
        <5> QED BY <4>1, <5>1, <5>2 DEF Local
      <4> QED BY <4>1, <4>3, <4>4 DEF x
    <3>3. IsFiniteSet(Others)
      BY <1>1, OrderTypes, FS_RemoveElement
    <3>4. pick \in [S -> Others] /\ \A a, b \in S : pick[a] = pick[b] => a = b
      BY <3>2
    <3> HIDE DEF pick, S, Others, E
    <3>5. pick \in Injection(S, Others)
      BY <3>4 DEF Injection, IsInjective
    <3> QED BY <3>3, <3>5, FS_Injection, FS_CardinalityType
  <2>3. Cardinality(Others) < config.max_open_orders /\ config.max_open_orders \in Nat
    BY ConfigAssumption DEF MayStand, ConfigAssumption
  <2>4. S \in SUBSET Symbol
    OBVIOUS
  <2> HIDE DEF S, Others
  <2>5. Cardinality(S) \in Nat
    BY <2>1, FS_CardinalityType
  <2>6. Cardinality(S) + 1 <= config.max_open_orders
    BY <2>2, <2>3, <2>5
  <2> QED BY <2>1, <2>4, <2>5, <2>6, BesideBounds
<1>7. /\ Addable(g, Symbol) /\ g[here] = 0 /\ \A symbol \in Symbol \ {here} : g[symbol] = f[symbol]
      /\ \A symbol \in Symbol : g[symbol] <= IF symbol \in S THEN q ELSE 0
  <2> HIDE DEF f, E
  <2>1. DOMAIN f = Symbol /\ \A symbol \in Symbol : f[symbol] \in Nat
    BY <1>5 DEF Addable
  <2>2. /\ DOMAIN g = Symbol /\ g[here] = 0
        /\ \A symbol \in Symbol \ {here} : g[symbol] = f[symbol]
    BY <1>2, <2>1
  <2> HIDE DEF g
  <2>3. \A symbol \in Symbol : g[symbol] \in Int
    BY <2>1, <2>2
  <2>4. Addable(g, Symbol)
    BY <1>2, <2>2, <2>3 DEF Addable
  <2>5. ASSUME NEW symbol \in Symbol PROVE g[symbol] <= IF symbol \in S THEN q ELSE 0
    <3>1. CASE symbol = here
      BY <1>2, <2>2, <3>1
    <3>2. CASE symbol # here
      BY <1>2, <1>5, <2>2, <3>2
    <3> QED BY <3>1, <3>2
  <2> QED BY <2>2, <2>4, <2>5
<1> HIDE DEF f, g, S, E, Others
<1>8. SumFunction(f) = SumFunction(g) + f[here] - g[here]
  BY <1>2, <1>5, <1>7, SumChange
<1>9. SumFunction(g) <= Cardinality(S) * q /\ SumFunction(g) \in Int
  BY <1>2, <1>6, <1>7, SumCapped, SumInt
<1>10. Cardinality(S) * q <= OthersBeside * q /\ Cardinality(S) * q \in Int /\ OthersBeside * q \in Int
  <2> DEFINE held == Cardinality(S)
  <2>1. held \in Nat /\ OthersBeside \in Nat /\ held <= OthersBeside /\ q \in Nat
    BY <1>2, <1>6, BesideBounds
  <2> HIDE DEF held, q
  <2>2. held * q <= OthersBeside * q /\ held * q \in Nat /\ OthersBeside * q \in Nat
    BY <2>1, NoMoreTimes
  <2>3. \A n : n \in Nat => n \in Int
    OBVIOUS
  <2> QED BY <2>2, <2>3 DEF held
<1> DEFINE c == Cardinality(S) * q
           d == OthersBeside * q
           lean == Lean(side, inventory)
<1>11. SumFunction(f) <= o.remaining + d /\ SumFunction(f) \in Int /\ d \in Int
  <2>1. SumFunction(f) = SumFunction(g) + o.remaining - 0
    BY <1>5, <1>7, <1>8
  <2> HIDE DEF c, d
  <2>2. SumFunction(g) <= c /\ c <= d /\ c \in Int /\ d \in Int /\ SumFunction(g) \in Int
    BY <1>9, <1>10 DEF c, d
  <2> QED BY <1>2, <2>1, <2>2
<1>12. lean \in Int
  BY <1>1 DEF Lean
<1>13. Reach = config.max_absolute_inventory + d /\ Pledged(orders', side) = SumFunction(f)
  BY DEF Reach, Pledged, f
<1> HIDE DEF d, lean, q
<1>14. lean + o.remaining <= config.max_absolute_inventory
  BY <1>4 DEF lean
<1>15. lean + SumFunction(f) <= config.max_absolute_inventory + d
  BY <1>2, <1>11, <1>12, <1>14
<1> QED BY <1>13, <1>15 DEF lean

\* Every step but a message.
LEMMA LocalReach ==
  ASSUME ShadowInv, ShadowInv', ReachInv, Local(orders, orders'), inventory' = inventory
  PROVE  ReachInv'
<1> SUFFICES ASSUME NEW side \in Side
             PROVE  Lean(side, inventory) + Pledged(orders', side) <= Reach
  BY DEF ReachInv
<1>1. /\ orders \in Seq(ShadowOrder) /\ orders' \in Seq(ShadowOrder) /\ inventory \in Int
      /\ OnePerSide(orders) /\ OnePerSide(orders')
  BY DEF ShadowInv, ShadowTypes, Settled
<1>2. CASE \A id \in 1..Len(orders') : orders'[id].state \in Exposed /\ orders'[id].side = side =>
             /\ id \in 1..Len(orders) /\ orders[id].state \in Exposed
             /\ Stays(orders[id], orders'[id])
  <2>1. \A symbol \in Symbol : Kept(orders, orders', symbol, side)
    <3> SUFFICES ASSUME NEW symbol \in Symbol, NEW id \in ExposedOn(orders', symbol, side)
                 PROVE  /\ id \in ExposedOn(orders, symbol, side)
                        /\ orders'[id].remaining <= orders[id].remaining
      BY DEF Kept
    <3>1. /\ id \in 1..Len(orders') /\ orders'[id].state \in Exposed
          /\ orders'[id].symbol = symbol /\ orders'[id].side = side
      BY DEF ExposedOn
    <3>2. /\ id \in 1..Len(orders) /\ orders[id].state \in Exposed
          /\ Stays(orders[id], orders'[id])
      BY <1>2, <3>1
    <3>3. orders'[id].remaining \in Nat
      BY <1>1, <3>1, Remains
    <3> QED BY <3>1, <3>2, <3>3 DEF ExposedOn, Stays
  <2>2. Pledged(orders', side) <= Pledged(orders, side)
    BY <1>1, <2>1, KeptPledge
  <2>3. Pledged(orders', side) \in Nat /\ Pledged(orders, side) \in Nat
    BY <1>1, PledgedNat
  <2>4. Lean(side, inventory) \in Int /\ Reach \in Nat
    BY <1>1, ReachType DEF Lean
  <2>5. Lean(side, inventory) + Pledged(orders, side) <= Reach
    BY DEF ReachInv
  <2> QED BY <2>2, <2>3, <2>4, <2>5
<1>3. ASSUME NEW id \in 1..Len(orders'), orders'[id].state \in Exposed, orders'[id].side = side,
             ~(/\ id \in 1..Len(orders) /\ orders[id].state \in Exposed
               /\ Stays(orders[id], orders'[id]))
      PROVE  Lean(side, inventory) + Pledged(orders', side) <= Reach
  <2>1. PICK o \in ShadowOrder, at \in Nat : MayStand(orders, id, o) /\ orders'[id] = Activated(o, at)
    BY <1>3 DEF Local
  <2> QED BY <1>3, <2>1, ActivatedReach
<1> QED BY <1>2, <1>3

\* A message fills one order at most: those it can fill are on its symbol and side.
LEMMA OneHit ==
  ASSUME ShadowInv, mutation' \in BookMutation \cup {None},
         NEW id \in HitIds, NEW other \in HitIds
  PROVE  other = id
<1>1. /\ orders \in Seq(ShadowOrder) /\ OnePerSide(orders) /\ queue_model \in QueueModels
      /\ DOMAIN orders = 1..Len(orders) /\ \A x \in 1..Len(orders) : orders[x] \in ShadowOrder
  BY OrderTypes DEF ShadowInv, ShadowTypes, Settled
<1>2. ASSUME NEW x \in HitIds
      PROVE  /\ x \in OpenIds(orders)
             /\ orders[x].symbol = (mutation').symbol /\ orders[x].side = (mutation').side
  <2>1. x \in 1..Len(orders) /\ orders[x] \in ShadowOrder /\ Hit(orders[x]) # 0
    BY <1>1 DEF HitIds
  <2>2. Concerns(orders[x], mutation') /\ orders[x].side = (mutation').side
    BY <1>1, <2>1, HitBounds
  <2> QED BY <1>1, <2>1, <2>2 DEF Concerns, OpenIds, IsOpen, is_open_state
<1> QED BY <1>1, <1>2 DEF OnePerSide

LEMMA SumOfOne ==
  ASSUME NEW f, NEW x, DOMAIN f = {x}, f[x] \in Int
  PROVE  SumFunction(f) = f[x]
<1> DEFINE none == [y \in {} |-> 0]
           E == {x}
           D == {}
<1>1. /\ Addable(none, D) /\ Addable(f, E) /\ x \notin D /\ \A y : y \in E <=> y \in D \/ y = x
      /\ \A y \in D : f[y] = none[y]
  BY FS_EmptySet, FS_Singleton DEF Addable
<1>2. SumFunction(none) = 0
  BY SumEmpty
<1> HIDE DEF none, E, D
<1>3. SumFunction(f) = SumFunction(none) + f[x]
  BY <1>1, SumMore
<1>4. \A n \in Int : 0 + n = n
  OBVIOUS
<1> QED BY ONLY <1>2, <1>3, <1>4, f[x] \in Int

\* What a message adds to the inventory.
LEMMA TradedInventory ==
  ASSUME ShadowInv, mutation' \in BookMutation \cup {None}
  PROVE  LET sum == SumFunction([id \in HitIds |-> Signed(orders[id])])
         IN  \/ HitIds = {} /\ sum = 0
             \/ \E id \in HitIds : HitIds = {id} /\ sum = Signed(orders[id])
<1> DEFINE f == [id \in HitIds |-> Signed(orders[id])]
<1>1. CASE HitIds = {}
  <2>1. DOMAIN f = {}
    BY <1>1
  <2> HIDE DEF f
  <2>2. SumFunction(f) = 0
    BY <2>1, SumEmpty
  <2> QED BY <1>1, <2>2 DEF f
<1>2. ASSUME NEW id \in HitIds
      PROVE  HitIds = {id} /\ SumFunction(f) = Signed(orders[id])
  <2>1. /\ id \in 1..Len(orders) /\ orders[id] \in ShadowOrder
        /\ queue_model \in QueueModels
    BY OrderTypes DEF ShadowInv, ShadowTypes, Settled, HitIds
  <2>2. Hit(orders[id]) \in Nat
    <3>1. orders[id].remaining \in Nat
      BY <2>1, Remains DEF ShadowInv, Settled
    <3> QED BY <2>1, <3>1, HitBounds
  <2>3. \A x \in HitIds : x = id
    BY OneHit
  <2>4. HitIds = {id}
    BY <2>3
  <2>5. Signed(orders[id]) \in Int
    BY <2>2 DEF Signed
  <2>6. DOMAIN f = {id} /\ f[id] = Signed(orders[id])
    BY <2>4
  <2> HIDE DEF f
  <2> QED BY <2>4, <2>5, <2>6, SumOfOne
<1> QED BY <1>1, <1>2

\* A message fills nothing: every exposed order keeps what it has left.
LEMMA ReachUnfilled ==
  ASSUME ShadowInv, ShadowInv', ReachInv, inventory' = inventory,
         \A side \in Side : \A symbol \in Symbol : Kept(orders, orders', symbol, side)
  PROVE  ReachInv'
<1> SUFFICES ASSUME NEW side \in Side
             PROVE  Lean(side, inventory) + Pledged(orders', side) <= Reach
  BY DEF ReachInv
<1>1. /\ orders \in Seq(ShadowOrder) /\ orders' \in Seq(ShadowOrder) /\ inventory \in Int
      /\ OnePerSide(orders) /\ OnePerSide(orders')
  BY DEF ShadowInv, ShadowTypes, Settled
<1>2. Pledged(orders', side) <= Pledged(orders, side)
  BY <1>1, KeptPledge
<1>3. Pledged(orders', side) \in Nat /\ Pledged(orders, side) \in Nat
  BY <1>1, PledgedNat
<1>4. Lean(side, inventory) \in Int /\ Reach \in Nat
  BY <1>1, ReachType DEF Lean
<1>5. Lean(side, inventory) + Pledged(orders, side) <= Reach
  BY DEF ReachInv
<1> QED BY <1>2, <1>3, <1>4, <1>5

\* Order x loses h of its shares, and its side gives up as much of its pledge.
LEMMA FilledPledge ==
  ASSUME ShadowInv, ShadowInv', NEW x \in 1..Len(orders), orders[x].state \in Exposed,
         NEW h \in Nat, h <= orders[x].remaining,
         \A symbol \in Symbol : Kept(orders, orders', symbol, orders[x].side),
         orders'[x].state \in Exposed => orders'[x].remaining = orders[x].remaining - h
  PROVE  Pledged(orders', orders[x].side) + h <= Pledged(orders, orders[x].side)
<1> DEFINE side == orders[x].side
           here == orders[x].symbol
           f == Standing(orders, side)
           n == Standing(orders', side)
           g == [f EXCEPT ![here] = @ - h]
<1>1. /\ orders \in Seq(ShadowOrder) /\ orders' \in Seq(ShadowOrder)
      /\ OnePerSide(orders) /\ OnePerSide(orders')
  BY DEF ShadowInv, ShadowTypes, Settled
<1>2. here \in Symbol /\ orders[x].remaining \in Nat
  BY <1>1, OrderTypes, Remains DEF ShadowOrder
<1>3. /\ Addable(f, Symbol) /\ Addable(n, Symbol)
      /\ \A symbol \in Symbol : f[symbol] \in Nat /\ n[symbol] \in Nat /\ n[symbol] <= f[symbol]
  BY <1>1, StandingValue, KeptStands
<1>4. f[here] = orders[x].remaining
  <2>1. x \in ExposedOn(orders, here, side)
    BY DEF ExposedOn
  <2> QED BY <1>1, <1>2, <2>1, StandingValue
<1>5. n[here] <= f[here] - h
  <2>1. CASE ExposedOn(orders', here, side) = {}
    <3>1. n[here] = 0
      BY <1>1, <1>2, <2>1, StandingValue
    <3> HIDE DEF n, f
    <3> QED BY <1>2, <1>4, <3>1
  <2>2. ASSUME NEW y \in ExposedOn(orders', here, side)
        PROVE  n[here] <= f[here] - h
    <3>1. y \in ExposedOn(orders, here, side) /\ x \in ExposedOn(orders, here, side)
      BY <1>2, <2>2 DEF Kept, ExposedOn
    <3>2. y = x
      <4>1. /\ y \in 1..Len(orders) /\ orders[y].state \in Exposed
            /\ orders[y].symbol = orders[x].symbol /\ orders[y].side = orders[x].side
        BY <3>1 DEF ExposedOn
      <4>2. y \in OpenIds(orders) /\ x \in OpenIds(orders)
        BY <1>1, <4>1, OrderTypes DEF IsOpen, is_open_state
      <4> QED BY <1>1, <4>1, <4>2 DEF OnePerSide
    <3>3. n[here] = orders'[y].remaining /\ orders'[y].state \in Exposed
      BY <1>1, <1>2, <2>2, StandingValue DEF ExposedOn
    <3>4. n[here] = orders[x].remaining - h
      BY <3>2, <3>3
    <3> HIDE DEF n, f
    <3> QED BY <1>2, <1>4, <3>4
  <2> QED BY <2>1, <2>2
<1> HIDE DEF f, n
<1>6. /\ Addable(g, Symbol) /\ \A symbol \in Symbol : n[symbol] <= g[symbol]
      /\ g[here] = f[here] - h /\ \A symbol \in Symbol \ {here} : g[symbol] = f[symbol]
  <2>1. DOMAIN f = Symbol /\ IsFiniteSet(Symbol)
    BY <1>3 DEF Addable
  <2>2. /\ DOMAIN g = Symbol /\ g[here] = f[here] - h
        /\ \A symbol \in Symbol \ {here} : g[symbol] = f[symbol]
    BY <1>2, <2>1
  <2> HIDE DEF g
  <2>3. \A symbol \in Symbol : g[symbol] \in Int
    BY <1>3, <2>2
  <2> QED BY <1>3, <1>5, <2>1, <2>2, <2>3 DEF Addable
<1> HIDE DEF g
<1>7. SumFunction(g) = SumFunction(f) + g[here] - f[here]
  BY <1>2, <1>3, <1>6, SumChange
<1>8. SumFunction(n) <= SumFunction(g)
  BY <1>3, <1>6, SumAtMost
<1>9. SumFunction(n) \in Int /\ SumFunction(f) \in Int /\ f[here] \in Int
  BY <1>2, <1>3, SumInt
<1>10. SumFunction(n) + h <= SumFunction(f)
  BY <1>6, <1>7, <1>8, <1>9
<1> QED BY <1>10 DEF Pledged, f, n

LEMMA ReachMessage ==
  ASSUME ShadowInv, ShadowInv', ReachInv, NEW symbol, Heard(symbol)
  PROVE  ReachInv'
<1>1. PICK accounted \in BOOLEAN : Meets(accounted)
  BY MessagesMeet DEF Meets
<1> DEFINE sum == SumFunction([id \in HitIds |-> Signed(orders[id])])
           q(id) == IF accounted THEN Hit(orders[id]) ELSE 0
<1>2. /\ mutation' \in BookMutation \cup {None} /\ queue_model \in QueueModels
      /\ orders \in Seq(ShadowOrder) /\ orders' \in Seq(ShadowOrder) /\ inventory \in Int
      /\ OnePerSide(orders) /\ OnePerSide(orders')
  BY DEF Heard, ShadowInv, ShadowTypes, Settled
<1>3. Len(orders') = Len(orders) /\ inventory' = IF accounted THEN inventory + sum ELSE inventory
  BY <1>1 DEF Meets
<1>4. ASSUME NEW id \in 1..Len(orders)
      PROVE  /\ orders[id].remaining \in Nat /\ q(id) \in Nat /\ q(id) <= orders[id].remaining
             /\ orders[id].side \in Side
             /\ q(id) # 0 => orders[id].state \in Exposed /\ id \in HitIds /\ accounted
             /\ orders'[id].state \in Exposed =>
                  /\ orders[id].state \in Exposed /\ orders'[id].side = orders[id].side
                  /\ orders'[id].symbol = orders[id].symbol
                  /\ orders'[id].remaining = orders[id].remaining - q(id)
  <2>1. orders[id] \in ShadowOrder /\ orders[id].remaining \in Nat /\ DOMAIN orders = 1..Len(orders)
    BY <1>2, Remains, OrderTypes
  <2>2. /\ Hit(orders[id]) \in 0..orders[id].remaining
        /\ Hit(orders[id]) # 0 => orders[id].state \in Exposed
    BY <1>2, <2>1, HitBounds DEF Concerns
  <2>3. orders[id].side \in Side
    BY <2>1 DEF ShadowOrder
  <2>4. /\ Met(orders[id], accounted).side = orders[id].side
        /\ Met(orders[id], accounted).symbol = orders[id].symbol
        /\ Met(orders[id], accounted).remaining = orders[id].remaining - q(id)
    BY <1>2, <2>1, MetOrder DEF Ages
  <2>5. orders'[id].state \in Exposed =>
          orders[id].state \in Exposed /\ orders'[id] = Met(orders[id], accounted)
    BY <1>1 DEF Meets
  <2>6. q(id) \in Nat /\ q(id) <= orders[id].remaining
    BY <2>1, <2>2
  <2> QED BY <2>1, <2>2, <2>3, <2>4, <2>5, <2>6 DEF HitIds
<1> HIDE DEF q
<1>5. ASSUME NEW side \in Side, NEW there \in Symbol PROVE Kept(orders, orders', there, side)
  <2> SUFFICES ASSUME NEW id \in ExposedOn(orders', there, side)
               PROVE  /\ id \in ExposedOn(orders, there, side)
                      /\ orders'[id].remaining <= orders[id].remaining
    BY DEF Kept
  <2>1. /\ id \in 1..Len(orders) /\ orders'[id].state \in Exposed
        /\ orders'[id].symbol = there /\ orders'[id].side = side
    BY <1>3 DEF ExposedOn
  <2>2. /\ orders[id].state \in Exposed /\ orders[id].symbol = there /\ orders[id].side = side
        /\ orders'[id].remaining = orders[id].remaining - q(id)
        /\ orders[id].remaining \in Nat /\ q(id) \in Nat
    BY <1>4, <2>1
  <2>3. orders'[id].remaining <= orders[id].remaining
    <3> DEFINE r == orders[id].remaining
               n == orders'[id].remaining
               h == q(id)
    <3>1. n = r - h /\ r \in Nat /\ h \in Nat
      BY <2>2
    <3> HIDE DEF r, n, h
    <3>2. n <= r
      BY <3>1
    <3> QED BY <3>2 DEF r, n
  <2> QED BY <2>1, <2>2, <2>3 DEF ExposedOn
<1> HIDE DEF sum
<1>6. CASE \A id \in 1..Len(orders) : q(id) = 0
  <2>1. inventory' = inventory
    <3>1. CASE ~accounted
      BY <1>3, <3>1
    <3>2. CASE accounted
      <4>1. HitIds = {}
        BY <1>2, <1>6, <3>2, OrderTypes DEF HitIds, q
      <4>2. sum = 0
        BY <1>2, <4>1, TradedInventory DEF sum
      <4> QED BY <1>2, <1>3, <4>2
    <3> QED BY <3>1, <3>2
  <2> QED BY <1>5, <2>1, ReachUnfilled
<1>7. ASSUME NEW x \in 1..Len(orders), q(x) # 0
      PROVE  ReachInv'
  <2>1. accounted /\ x \in HitIds /\ orders[x].state \in Exposed /\ q(x) = Hit(orders[x])
    BY <1>4, <1>7 DEF q
  <2>2. sum = Signed(orders[x])
    BY <1>2, <2>1, TradedInventory DEF sum
  <2> DEFINE h == q(x)
             own == orders[x].side
  <2>3. h \in Nat /\ h <= orders[x].remaining /\ own \in Side
    BY <1>4
  <2>4. inventory' = IF own = "Buy" THEN inventory + h ELSE inventory - h
    <3>1. inventory' = inventory + Signed(orders[x])
      BY <1>3, <2>1, <2>2
    <3>2. Signed(orders[x]) = IF own = "Buy" THEN h ELSE -h
      BY <2>1 DEF Signed
    <3> HIDE DEF h, own
    <3> QED BY <1>2, <2>3, <3>1, <3>2
  <2>5. Pledged(orders', own) + h <= Pledged(orders, own)
    <3>1. orders'[x].state \in Exposed => orders'[x].remaining = orders[x].remaining - h
      BY <1>4
    <3>2. \A there \in Symbol : Kept(orders, orders', there, own)
      BY <1>5, <2>3
    <3> HIDE DEF h
    <3> QED BY <2>1, <2>3, <3>1, <3>2, FilledPledge
  <2> HIDE DEF h, own
  <2> SUFFICES ASSUME NEW side \in Side
               PROVE  Lean(side, inventory') + Pledged(orders', side) <= Reach
    BY DEF ReachInv
  <2>6. /\ Pledged(orders', side) \in Nat /\ Pledged(orders, side) \in Nat /\ Reach \in Nat
        /\ Lean(side, inventory) \in Int /\ h \in Nat
        /\ Lean(side, inventory) + Pledged(orders, side) <= Reach
    BY <1>2, <2>3, PledgedNat, ReachType DEF ReachInv, Lean
  <2>7. CASE side = own
    <3>1. Lean(side, inventory') = Lean(side, inventory) + h
      BY <1>2, <2>3, <2>4, <2>7 DEF Lean, Side
    <3>2. Pledged(orders', side) + h <= Pledged(orders, side)
      BY <2>5, <2>7
    <3> QED BY <2>6, <3>1, <3>2
  <2>8. CASE side # own
    <3>1. Lean(side, inventory') = Lean(side, inventory) - h
      BY <1>2, <2>3, <2>4, <2>8 DEF Lean, Side
    <3>2. Pledged(orders', side) <= Pledged(orders, side)
      BY <1>2, <1>5, KeptPledge
    <3> QED BY <2>6, <3>1, <3>2
  <2> QED BY <2>7, <2>8
<1> QED BY <1>6, <1>7

LEMMA ReachStep == ShadowInv /\ ReachInv /\ [SimulatorNext]_vars => ReachInv'
<1> SUFFICES ASSUME ShadowInv, ReachInv, [SimulatorNext]_vars PROVE ReachInv'
  OBVIOUS
<1>0. ShadowInv'
  BY ShadowStep
<1>1. CASE ~(BookMessage \/ TradingMessage \/ SessionMessage)
  <2>1. Local(orders, orders') /\ inventory' = inventory
    BY <1>1, LocalSteps
  <2> QED BY <1>0, <2>1, LocalReach
<1>2. CASE BookMessage \/ TradingMessage \/ SessionMessage
  BY <1>0, <1>2, MessagesAreHeard, ReachMessage
<1> QED BY <1>1, <1>2

LEMMA ReachStarts == SimulatorInit => ReachInv
<1> SUFFICES ASSUME SimulatorInit, NEW side \in Side
             PROVE  Lean(side, inventory) + Pledged(orders, side) <= Reach
  BY DEF ReachInv
<1>1. orders = <<>> /\ Len(<<>>) = 0 /\ inventory = 0
  BY EmptySeq DEF SimulatorInit
<1>2. orders \in Seq(ShadowOrder) /\ OnePerSide(orders)
  BY ShadowInit DEF ShadowInv, Settled
<1>3. \A symbol \in Symbol : Standing(orders, side)[symbol] = 0
  <2>1. \A symbol : ExposedOn(orders, symbol, side) = {}
    BY <1>1 DEF ExposedOn
  <2> QED BY <1>2, <2>1, StandingValue
<1>4. Pledged(orders, side) = 0
  BY <1>2, <1>3, StandingValue, SumZero DEF Pledged
<1>5. Lean(side, inventory) \in Int /\ Lean(side, inventory) <= 0
  <2>1. \A n \in Int : n = 0 => n <= 0 /\ -n \in Int /\ -n <= 0
    OBVIOUS
  <2>2. /\ inventory \in Int /\ inventory <= 0
        /\ -inventory \in Int /\ -inventory <= 0
    BY <1>1, <2>1
  <2> QED BY <2>2 DEF Lean
<1>6. Reach \in Nat
  BY ReachType
<1> QED BY <1>4, <1>5, <1>6

LEMMA ReachBounds == ShadowInv /\ ReachInv => InventoryWithinLimit
<1> SUFFICES ASSUME ShadowInv, ReachInv PROVE inventory \in -Reach..Reach
  BY DEF InventoryWithinLimit, Reach
<1>1. /\ inventory \in Int /\ Reach \in Nat
      /\ Pledged(orders, "Buy") \in Nat /\ Pledged(orders, "Sell") \in Nat
  BY PledgedNat, ReachType DEF ShadowInv, ShadowTypes, Settled
<1>2. /\ inventory + Pledged(orders, "Buy") <= Reach
      /\ -inventory + Pledged(orders, "Sell") <= Reach
  <2>1. "Buy" \in Side /\ "Sell" \in Side
    BY DEF Side
  <2>2. Lean("Buy", inventory) = inventory /\ Lean("Sell", inventory) = -inventory
    BY DEF Lean
  <2> QED BY <2>1, <2>2 DEF ReachInv
<1> QED BY <1>1, <1>2

\* PositionsBounded, for any number of symbols: every order, event and counter keeps its
\* type, no order is filled beyond its quantity, and the inventory passes
\* max_absolute_inventory by no more than one quantity for each other order that may
\* stand, through partial fills, replaces that restore the whole quantity and fills while
\* a cancel is pending.  What activation_risk checks is one order at a time: the invariant
\* is that the limit so extended covers everything exposed on a side.
THEOREM SimulatorPositionsBounded == SimulatorSpec => []PositionsBounded
<1>1. SimulatorInit => ReachInv
  BY ReachStarts
<1>2. ShadowInv /\ ReachInv /\ [SimulatorNext]_vars => ReachInv'
  BY ReachStep
<1>3. ShadowInv /\ ReachInv => PositionsBounded
  BY ShadowTypeOK, ReachBounds DEF PositionsBounded
<1> QED BY <1>1, <1>2, <1>3, AlwaysShadowInv, PTL DEF SimulatorSpec
=============================================================================

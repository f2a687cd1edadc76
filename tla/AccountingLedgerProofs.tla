----------------------- MODULE AccountingLedgerProofs -----------------------
(***************************************************************************)
(* That the totals of the accounting ledger agree after every fill, and that  *)
(* its lots implement shares closed first in, first out, whatever the prices, *)
(* the fees and the limits.                                                   *)
(***************************************************************************)
EXTENDS AccountingLedger, QueueLemmas

Lot == [side : Side, quantity : Nat, price : Nat]

LEMMA NanosType == ASSUME NEW price4 \in Price PROVE price_nanos(price4) \in Nat
BY LedgerAssumption DEF price_nanos, nanos_per_price4

\* The sign of what a fill closes: selling closes longs, buying closes shorts.
ClosingSign(side) == IF side = "Buy" THEN -1 ELSE 1

LEMMA SignedIs ==
  ASSUME NEW side \in Side, NEW of \in Side, NEW amount \in Int
  PROVE  /\ ClosingSign(side) \in {-1, 1} /\ Signed(of, amount) \in Int
         /\ of = side => Signed(of, amount) = -(ClosingSign(side) * amount)
         /\ of # side => Signed(of, amount) = ClosingSign(side) * amount
BY DEF Side, Signed, ClosingSign

\* What a lot adds to the inventory, and what it cost.
SharesOf == [lot \in Lot |-> Signed(lot.side, lot.quantity)]
CostOf == [lot \in Lot |-> Signed(lot.side, lot.quantity) * lot.price]

LEMMA WeightTypes == SharesOf \in [Lot -> Int] /\ CostOf \in [Lot -> Int]
<1>1. ASSUME NEW lot \in Lot
      PROVE  Signed(lot.side, lot.quantity) \in Int /\ lot.price \in Nat
  BY SignedIs DEF Lot
<1>2. \A lot \in Lot : Signed(lot.side, lot.quantity) * lot.price \in Int
  BY <1>1
<1> QED BY <1>1, <1>2 DEF SharesOf, CostOf

----------------------------------------------------------------------------
(* The inductive invariant *)

OneSided == \A i, j \in 1..Len(lots) : lots[i].side = lots[j].side
LedgerInv ==
  /\ TypeOK /\ lots \in Seq(Lot) /\ OneSided
  /\ Weight(SharesOf, lots) = inventory
  /\ trade_cash = realized - Weight(CostOf, lots)

LEMMA TotalsFromWeights == ASSUME lots \in Seq(Lot) PROVE
  /\ SumFunction([i \in DOMAIN lots |-> SignedLot(i)]) = Weight(SharesOf, lots)
  /\ SumFunction([i \in DOMAIN lots |-> SignedLot(i) * lots[i].price]) = Weight(CostOf, lots)
<1>1. DOMAIN lots = 1..Len(lots)
  BY LenProperties
<1>2. \A i \in 1..Len(lots) : lots[i] \in Lot
  BY ElementOfSeq
<1>3. \A i \in 1..Len(lots) : /\ SharesOf[lots[i]] = SignedLot(i)
                              /\ CostOf[lots[i]] = SignedLot(i) * lots[i].price
  BY <1>2 DEF SharesOf, CostOf, SignedLot
<1>4. /\ [i \in DOMAIN lots |-> SignedLot(i)] = [i \in 1..Len(lots) |-> SharesOf[lots[i]]]
      /\ [i \in DOMAIN lots |-> SignedLot(i) * lots[i].price]
           = [i \in 1..Len(lots) |-> CostOf[lots[i]]]
  BY <1>1, <1>3
<1> QED BY <1>4 DEF Weight

LEMMA InvGivesTotals == ASSUME LedgerInv PROVE TotalsAgree
<1>1. lots \in Seq(Lot) /\ DOMAIN lots = 1..Len(lots)
  BY LenProperties DEF LedgerInv
<1> QED BY <1>1, TotalsFromWeights DEF LedgerInv, OneSided, TotalsAgree, LotsAreInventory, CashExplainsProfit

LEMMA WeightOfNone == ASSUME NEW w PROVE Weight(w, <<>>) = 0
<1>1. DOMAIN [j \in 1..Len(<<>>) |-> w[<<>>[j]]] = {}
  OBVIOUS
<1> QED BY <1>1, SumEmpty DEF Weight

LEMMA InitLedgerInv == ASSUME Init PROVE LedgerInv
<1>1. TypeOK
  BY LedgerAssumption DEF Init, TypeOK, IsMoney
<1>2. lots = <<>> /\ lots \in Seq(Lot) /\ OneSided
  BY DEF Init, OneSided
<1>3. Weight(SharesOf, lots) = 0 /\ Weight(CostOf, lots) = 0
  BY <1>2, WeightOfNone
<1> QED BY <1>1, <1>2, <1>3 DEF Init, LedgerInv

----------------------------------------------------------------------------
(* What a fill closes *)

LEMMA BetweenZeroAnd ==
  ASSUME NEW a \in Int, NEW b \in Nat
  PROVE  Max({0, Min({b, a})}) = IF a <= 0 THEN 0 ELSE IF a <= b THEN a ELSE b
<1> DEFINE m == IF a <= b THEN a ELSE b
           top == IF m <= 0 THEN 0 ELSE m
<1>1. Min({b, a}) = m
  <2>1. m \in {b, a} /\ \A y \in {b, a} : m <= y
    OBVIOUS
  <2>2. \A x \in {b, a} : (\A y \in {b, a} : x <= y) => x = m
    OBVIOUS
  <2> HIDE DEF m
  <2> QED BY <2>1, <2>2 DEF Min
<1>2. Max({0, m}) = top
  <2>1. m \in Int
    OBVIOUS
  <2> HIDE DEF m
  <2>2. top \in {0, m} /\ \A y \in {0, m} : top >= y
    BY <2>1
  <2>3. \A x \in {0, m} : (\A y \in {0, m} : x >= y) => x = top
    BY <2>1
  <2> HIDE DEF top
  <2> QED BY <2>2, <2>3 DEF Max
<1>3. top = IF a <= 0 THEN 0 ELSE IF a <= b THEN a ELSE b
  OBVIOUS
<1> HIDE DEF m, top
<1> QED BY <1>1, <1>2, <1>3

SharesUpTo(n) == SumFunction([j \in 1..n |-> lots[j].quantity])
ClosedUpTo(n, side, quantity) == SumFunction([j \in 1..n |-> Closed(j, side, quantity)])

LEMMA SharesAddable ==
  ASSUME lots \in Seq(Lot), NEW n \in 0..Len(lots)
  PROVE  /\ Addable([j \in 1..n |-> lots[j].quantity], 1..n)
         /\ SharesUpTo(n) \in Nat
         /\ n # 0 => SharesUpTo(n) = SharesUpTo(n - 1) + lots[n].quantity
<1>0. Len(lots) \in Nat /\ n \in Nat
  OBVIOUS
<1>1. ASSUME NEW m \in 0..Len(lots)
      PROVE  /\ Addable([j \in 1..m |-> lots[j].quantity], 1..m)
             /\ \A j \in 1..m : [i \in 1..m |-> lots[i].quantity][j] \in Nat
  <2>1. \A j \in 1..m : lots[j] \in Lot
    <3>1. \A j \in 1..m : j \in 1..Len(lots)
      BY <1>0
    <3> QED BY <3>1, ElementOfSeq
  <2>2. \A j \in 1..m : lots[j].quantity \in Nat
    BY <2>1 DEF Lot
  <2>3. IsFiniteSet(1..m)
    BY <1>0, FS_Interval
  <2> QED BY <2>2, <2>3 DEF Addable
<1>2. SharesUpTo(n) \in Nat
  <2> DEFINE f == [j \in 1..n |-> lots[j].quantity]
             D == 1..n
  <2>1. Addable(f, D) /\ \A x \in D : f[x] \in Nat
    BY <1>1
  <2> HIDE DEF f, D
  <2>2. SumFunction(f) \in Nat
    BY <2>1, SumNat
  <2> QED BY <2>2 DEF f, SharesUpTo
<1>3. ASSUME n # 0 PROVE SharesUpTo(n) = SharesUpTo(n - 1) + lots[n].quantity
  <2> DEFINE f == [j \in 1..n |-> lots[j].quantity]
             g == [j \in 1..(n - 1) |-> lots[j].quantity]
  <2>1. Addable(f, 1..n) /\ Addable(g, 1..(n - 1))
    <3>1. n - 1 \in 0..Len(lots)
      BY <1>0, <1>3
    <3> QED BY <1>1, <3>1
  <2>2. f[n] = lots[n].quantity /\ \A j \in 1..(n - 1) : g[j] = f[j]
    BY <1>0, <1>3
  <2> HIDE DEF f, g
  <2>3. SumFunction(f) = SumFunction(g) + f[n]
    BY <1>0, <1>3, <2>1, <2>2, SumLast
  <2> QED BY <2>2, <2>3 DEF f, g, SharesUpTo
<1> QED BY <1>1, <1>2, <1>3

\* A fill closes no more than a lot holds, and nothing on its own side.
LEMMA ClosedType ==
  ASSUME lots \in Seq(Lot), NEW side \in Side, NEW quantity \in Nat, NEW i \in 1..Len(lots)
  PROVE  /\ Closed(i, side, quantity) \in Nat
         /\ lots[i].quantity \in Nat
         /\ Closed(i, side, quantity) <= lots[i].quantity
         /\ lots[i].side = side => Closed(i, side, quantity) = 0
         /\ lots[i].side # side => Closed(i, side, quantity) =
              LET rest == quantity - SharesUpTo(i - 1)
              IN  IF rest <= 0 THEN 0 ELSE IF rest <= lots[i].quantity THEN rest
                  ELSE lots[i].quantity
<1>0. lots[i] \in Lot /\ i - 1 \in 0..Len(lots)
  BY ElementOfSeq
<1>1. lots[i].quantity \in Nat
  BY <1>0 DEF Lot
<1>2. SharesUpTo(i - 1) \in Nat
  BY <1>0, SharesAddable
<1>3. CASE lots[i].side = side
  BY <1>1, <1>3 DEF Closed, ClosedOf
<1>4. CASE lots[i].side # side
  <2> DEFINE rest == quantity - SharesUpTo(i - 1)
  <2>1. rest \in Int
    BY <1>2
  <2>2. Closed(i, side, quantity) = Max({0, Min({lots[i].quantity, rest})})
    BY <1>4 DEF Closed, ClosedOf, SharesUpTo
  <2> HIDE DEF rest
  <2>3. Closed(i, side, quantity) = IF rest <= 0 THEN 0 ELSE IF rest <= lots[i].quantity THEN rest
                                    ELSE lots[i].quantity
    BY <1>1, <2>1, <2>2, BetweenZeroAnd
  <2>4. /\ Closed(i, side, quantity) \in Nat
        /\ Closed(i, side, quantity) <= lots[i].quantity
    BY <1>1, <2>1, <2>3
  <2> QED BY <1>1, <1>4, <2>3, <2>4 DEF rest
<1> QED BY <1>3, <1>4

LEMMA ClosedAddable ==
  ASSUME lots \in Seq(Lot), NEW side \in Side, NEW quantity \in Nat, NEW n \in 0..Len(lots)
  PROVE  /\ Addable([j \in 1..n |-> Closed(j, side, quantity)], 1..n)
         /\ ClosedUpTo(n, side, quantity) \in Nat
         /\ n # 0 => ClosedUpTo(n, side, quantity)
                       = ClosedUpTo(n - 1, side, quantity) + Closed(n, side, quantity)
<1>0. Len(lots) \in Nat /\ n \in Nat
  OBVIOUS
<1> DEFINE C(j) == Closed(j, side, quantity)
<1>1. ASSUME NEW m \in 0..Len(lots)
      PROVE  /\ Addable([j \in 1..m |-> C(j)], 1..m)
             /\ \A j \in 1..m : [i \in 1..m |-> C(i)][j] \in Nat
  <2>1. \A j \in 1..m : j \in 1..Len(lots)
    BY <1>0
  <2>2. \A j \in 1..m : C(j) \in Nat
    BY <2>1, ClosedType
  <2>3. IsFiniteSet(1..m)
    BY <1>0, FS_Interval
  <2> HIDE DEF C
  <2> QED BY <2>2, <2>3 DEF Addable
<1> HIDE DEF C
<1>2. ClosedUpTo(n, side, quantity) \in Nat
  <2> DEFINE f == [j \in 1..n |-> C(j)]
             D == 1..n
  <2>1. Addable(f, D) /\ \A x \in D : f[x] \in Nat
    BY <1>1
  <2> HIDE DEF f, D
  <2>2. SumFunction(f) \in Nat
    BY <2>1, SumNat
  <2> QED BY <2>2 DEF f, C, ClosedUpTo
<1>3. ASSUME n # 0
      PROVE  ClosedUpTo(n, side, quantity) = ClosedUpTo(n - 1, side, quantity) + C(n)
  <2> DEFINE f == [j \in 1..n |-> C(j)]
             g == [j \in 1..(n - 1) |-> C(j)]
  <2>1. Addable(f, 1..n) /\ Addable(g, 1..(n - 1))
    <3>1. n - 1 \in 0..Len(lots)
      BY <1>0, <1>3
    <3> QED BY <1>1, <3>1
  <2>2. f[n] = C(n) /\ \A j \in 1..(n - 1) : g[j] = f[j]
    BY <1>0, <1>3
  <2> HIDE DEF f, g
  <2>3. SumFunction(f) = SumFunction(g) + f[n]
    BY <1>0, <1>3, <2>1, <2>2, SumLast
  <2> QED BY <2>2, <2>3 DEF f, g, C, ClosedUpTo
<1> QED BY <1>1, <1>2, <1>3 DEF C

LEMMA ClosesNothing ==
  ASSUME lots \in Seq(Lot), NEW side \in Side, NEW quantity \in Nat,
         \A i \in 1..Len(lots) : lots[i].side = side
  PROVE  /\ \A i \in 1..Len(lots) : Closed(i, side, quantity) = 0
         /\ ClosedUpTo(Len(lots), side, quantity) = 0
<1> DEFINE N == Len(lots)
           f == [j \in 1..N |-> Closed(j, side, quantity)]
           D == 1..N
<1>1. \A i \in 1..N : Closed(i, side, quantity) = 0
  BY ClosedType
<1>2. N \in 0..Len(lots)
  OBVIOUS
<1>3. Addable(f, D) /\ \A j \in D : f[j] = 0
  BY <1>1, <1>2, ClosedAddable
<1> HIDE DEF f, D
<1>4. SumFunction(f) = 0
  BY <1>3, SumZero
<1> QED BY <1>1, <1>4 DEF f, ClosedUpTo

\* Of the first n lots, a fill on the other side closes as much as it can, and the
\* whole of them if that is less than the fill.
LEMMA ClosesMost ==
  ASSUME lots \in Seq(Lot), NEW side \in Side, NEW quantity \in Nat,
         \A i \in 1..Len(lots) : lots[i].side # side,
         NEW n \in 0..Len(lots)
  PROVE  /\ ClosedUpTo(n, side, quantity)
              = IF SharesUpTo(n) <= quantity THEN SharesUpTo(n) ELSE quantity
         /\ ClosedUpTo(n, side, quantity) < quantity =>
              \A i \in 1..n : Closed(i, side, quantity) = lots[i].quantity
<1> DEFINE N == Len(lots)
           C(i) == Closed(i, side, quantity)
           D(k) == ClosedUpTo(k, side, quantity)
           Q(i) == lots[i].quantity
           B(k) == SharesUpTo(k)
           T == {k \in Nat : k <= N =>
                   /\ D(k) = IF B(k) <= quantity THEN B(k) ELSE quantity
                   /\ D(k) < quantity => \A i \in 1..k : C(i) = Q(i)}
<1>0. N \in Nat
  OBVIOUS
<1>1. 0 \in T
  <2>1. DOMAIN [j \in 1..0 |-> C(j)] = {} /\ DOMAIN [j \in 1..0 |-> lots[j].quantity] = {}
    OBVIOUS
  <2>2. D(0) = 0 /\ B(0) = 0
    BY <2>1, SumEmpty DEF ClosedUpTo, SharesUpTo
  <2> QED BY <2>2
<1>2. ASSUME NEW k \in Nat, k \in T PROVE k + 1 \in T
  <2> DEFINE m == k + 1
  <2> SUFFICES ASSUME m <= N
               PROVE  /\ D(m) = IF B(m) <= quantity THEN B(m) ELSE quantity
                      /\ D(m) < quantity => \A i \in 1..m : C(i) = Q(i)
    OBVIOUS
  <2>1. m \in 0..N /\ m # 0 /\ m - 1 = k /\ m \in 1..N /\ k \in 0..N /\ k <= N
    BY <1>0
  <2>2. /\ D(k) = IF B(k) <= quantity THEN B(k) ELSE quantity
        /\ D(k) < quantity => \A i \in 1..k : C(i) = Q(i)
    BY <1>2, <2>1
  <2> HIDE DEF m, D, B
  <2>3. D(m) = D(k) + C(m)
    BY <2>1, ClosedAddable DEF D
  <2>4. B(m) = B(k) + Q(m) /\ B(k) \in Nat
    BY <2>1, SharesAddable DEF B
  <2>5. /\ C(m) \in Nat /\ Q(m) \in Nat /\ lots[m].side # side
        /\ C(m) = LET rest == quantity - SharesUpTo(m - 1)
                  IN  IF rest <= 0 THEN 0 ELSE IF rest <= Q(m) THEN rest ELSE Q(m)
    <3>1. lots[m].side # side
      BY <2>1
    <3> QED BY <2>1, <3>1, ClosedType
  <2>6. C(m) = IF quantity - B(k) <= 0 THEN 0
               ELSE IF quantity - B(k) <= Q(m) THEN quantity - B(k) ELSE Q(m)
    BY <2>1, <2>5 DEF B
  <2> DEFINE c == C(m)
             q == Q(m)
  <2>7. /\ c \in Nat /\ q \in Nat /\ B(k) \in Nat
        /\ c = IF quantity - B(k) <= 0 THEN 0
               ELSE IF quantity - B(k) <= q THEN quantity - B(k) ELSE q
        /\ D(m) = D(k) + c /\ B(m) = B(k) + q
    BY <2>3, <2>4, <2>5, <2>6
  <2> HIDE DEF c, q
  <2>8. /\ D(m) = IF B(m) <= quantity THEN B(m) ELSE quantity
        /\ D(m) < quantity => c = q /\ D(k) < quantity
    BY <2>2, <2>7
  <2>9. ASSUME D(m) < quantity, NEW i \in 1..m PROVE C(i) = Q(i)
    <3>1. CASE i = m
      BY <2>8, <2>9, <3>1 DEF c, q
    <3>2. CASE i # m
      <4>1. i \in 1..k
        BY <2>1, <3>2 DEF m
      <4> QED BY <2>2, <2>8, <2>9, <4>1
    <3> QED BY <3>1, <3>2
  <2> QED BY <2>8, <2>9
<1>3. n \in T
  <2>1. Nat \subseteq T
    <3> HIDE DEF T
    <3> QED BY <1>1, <1>2, SetInduction
  <2> QED BY <2>1
<1>4. n <= N
  BY <1>0
<1> QED BY <1>3, <1>4

\* A fill closes no more than its own shares, and opens some only when nothing is
\* left on the other side.
LEMMA ClosesFirst ==
  ASSUME lots \in Seq(Lot), OneSided, NEW side \in Side, NEW quantity \in Nat
  PROVE  LET all == ClosedUpTo(Len(lots), side, quantity)
         IN  /\ all \in Nat /\ all <= quantity
             /\ all < quantity => \A i \in 1..Len(lots) :
                  lots[i].side # side => Closed(i, side, quantity) = lots[i].quantity
<1> DEFINE N == Len(lots)
           all == ClosedUpTo(N, side, quantity)
<1>0. N \in Nat /\ N \in 0..Len(lots)
  OBVIOUS
<1>1. CASE N # 0 /\ \A i \in 1..N : lots[i].side = side
  BY <1>1, ClosesNothing
<1>2. CASE \A i \in 1..N : lots[i].side # side
  <2>1. /\ all = IF SharesUpTo(N) <= quantity THEN SharesUpTo(N) ELSE quantity
        /\ all < quantity => \A i \in 1..N : Closed(i, side, quantity) = lots[i].quantity
        /\ SharesUpTo(N) \in Nat
    BY <1>0, <1>2, ClosesMost, SharesAddable
  <2> HIDE DEF all
  <2>2. all \in Nat /\ all <= quantity
    BY <2>1
  <2> QED BY <2>1, <2>2 DEF all
<1>3. (N # 0 /\ \A i \in 1..N : lots[i].side = side) \/ \A i \in 1..N : lots[i].side # side
  BY <1>0 DEF OneSided
<1> QED BY <1>1, <1>2, <1>3

----------------------------------------------------------------------------
(* What a fill leaves and opens *)

Left(side, quantity) ==
  [i \in DOMAIN lots |-> [lots[i] EXCEPT !.quantity = @ - Closed(i, side, quantity)]]
NewLot(side, quantity, price4) ==
  [side |-> side, quantity |-> Opened(side, quantity), price |-> price_nanos(price4)]

LEMMA LeftType ==
  ASSUME lots \in Seq(Lot), NEW side \in Side, NEW quantity \in Nat
  PROVE  LET left == Left(side, quantity)
         IN  /\ left \in Seq(Lot) /\ Len(left) = Len(lots)
             /\ \A i \in 1..Len(lots) :
                  /\ lots[i] \in Lot /\ left[i] \in Lot
                  /\ left[i].side = lots[i].side /\ left[i].price = lots[i].price
                  /\ left[i].quantity = lots[i].quantity - Closed(i, side, quantity)
<1> DEFINE left == Left(side, quantity)
<1>0. DOMAIN lots = 1..Len(lots) /\ Len(lots) \in Nat
  BY LenProperties
<1>1. ASSUME NEW i \in 1..Len(lots)
      PROVE  /\ lots[i] \in Lot /\ left[i] \in Lot
             /\ left[i].side = lots[i].side /\ left[i].price = lots[i].price
             /\ left[i].quantity = lots[i].quantity - Closed(i, side, quantity)
  <2>1. lots[i] \in Lot
    BY ElementOfSeq
  <2>2. /\ lots[i].quantity \in Nat /\ Closed(i, side, quantity) \in Nat
        /\ Closed(i, side, quantity) <= lots[i].quantity
    BY ClosedType
  <2>3. left[i] = [lots[i] EXCEPT !.quantity = @ - Closed(i, side, quantity)]
    BY <1>0 DEF Left
  <2>4. lots[i].quantity - Closed(i, side, quantity) \in Nat
    BY <2>2
  <2> QED BY <2>1, <2>3, <2>4 DEF Lot
<1>2. DOMAIN left = 1..Len(lots)
  BY <1>0 DEF Left
<1>3. left = [i \in 1..Len(lots) |-> left[i]]
  BY <1>0 DEF Left
<1> HIDE DEF left
<1>4. left \in [1..Len(lots) -> Lot]
  BY <1>1, <1>3
<1>5. left \in Seq(Lot) /\ Len(left) = Len(lots)
  BY <1>0, <1>4
<1> QED BY <1>1, <1>5 DEF left

LEMMA OpenedIs ==
  ASSUME lots \in Seq(Lot), OneSided, NEW side \in Side, NEW quantity \in Nat
  PROVE  /\ Opened(side, quantity) = quantity - ClosedUpTo(Len(lots), side, quantity)
         /\ Opened(side, quantity) \in Nat /\ Opened(side, quantity) <= quantity
         /\ Opened(side, quantity) # 0 => \A i \in 1..Len(lots) :
              lots[i].side # side => Closed(i, side, quantity) = lots[i].quantity
<1>1. DOMAIN lots = 1..Len(lots)
  BY LenProperties
<1>2. Opened(side, quantity) = quantity - ClosedUpTo(Len(lots), side, quantity)
  BY <1>1 DEF Opened, ClosedUpTo
<1> DEFINE all == ClosedUpTo(Len(lots), side, quantity)
<1>3. /\ all \in Nat /\ all <= quantity
      /\ all < quantity => \A i \in 1..Len(lots) :
           lots[i].side # side => Closed(i, side, quantity) = lots[i].quantity
  BY ClosesFirst
<1> HIDE DEF all
<1>4. quantity - all \in Nat /\ quantity - all <= quantity /\ (quantity - all # 0 => all < quantity)
  BY <1>3
<1> QED BY <1>2, <1>3, <1>4 DEF all

LEMMA NewLotType ==
  ASSUME lots \in Seq(Lot), OneSided, NEW side \in Side, NEW quantity \in Nat, NEW price4 \in Price
  PROVE  NewLot(side, quantity, price4) \in Lot
BY OpenedIs, NanosType DEF NewLot, Lot

\* Closing takes shares of the sign of the closed side out of the lots.
LEMMA LeftShares ==
  ASSUME lots \in Seq(Lot), NEW side \in Side, NEW quantity \in Nat
  PROVE  Weight(SharesOf, Left(side, quantity)) = Weight(SharesOf, lots)
           - ClosingSign(side) * ClosedUpTo(Len(lots), side, quantity)
<1> DEFINE N == Len(lots)
           left == Left(side, quantity)
           k == -ClosingSign(side)
           f == [i \in 1..N |-> SharesOf[lots[i]]]
           g == [i \in 1..N |-> Closed(i, side, quantity)]
           h == [i \in 1..N |-> SharesOf[left[i]]]
           D == 1..N
<1>0. N \in 0..Len(lots) /\ N \in Nat /\ N <= Len(lots)
  OBVIOUS
<1>1. /\ left \in Seq(Lot) /\ Len(left) = N
      /\ \A i \in D : /\ lots[i] \in Lot /\ left[i] \in Lot /\ left[i].side = lots[i].side
                      /\ left[i].quantity = lots[i].quantity - Closed(i, side, quantity)
  BY LeftType
<1> HIDE DEF left
<1>2. Addable(f, D) /\ Addable(h, D)
  BY <1>0, <1>1, WeightTypes, WeightAddable
<1>3. Addable(g, D)
  BY <1>0, ClosedAddable
<1>4. ASSUME NEW i \in D PROVE h[i] = f[i] + k * g[i]
  <2> DEFINE q == lots[i].quantity
             c == Closed(i, side, quantity)
             of == lots[i].side
  <2>1. f[i] = Signed(of, q) /\ h[i] = Signed(of, q - c)
    BY <1>1 DEF SharesOf
  <2>2. /\ q \in Nat /\ c \in Nat /\ (of = side => c = 0) /\ g[i] = c
        /\ of \in Side
    BY <1>1, ClosedType DEF Lot
  <2>3. q - c \in Int
    BY <2>2
  <2> HIDE DEF q, c, of, f, g, h
  <2>4. CASE of = side
    <3>1. q - c = q /\ c = 0 /\ q \in Int /\ k \in Int
      BY <2>2, <2>4 DEF ClosingSign
    <3>2. Signed(of, q) \in Int
      BY <2>2, <3>1, SignedIs
    <3> HIDE DEF k
    <3>3. k * c = 0
      BY <3>1
    <3>4. f[i] \in Int /\ h[i] = f[i] /\ k * g[i] = 0
      BY <2>1, <2>2, <3>1, <3>2, <3>3
    <3> QED BY <3>4
  <2>5. CASE of # side
    <3>0. q \in Int /\ \A x \in Int : Signed(of, x) = ClosingSign(side) * x
      BY <2>2, <2>5, SignedIs
    <3>1. Signed(of, q) = ClosingSign(side) * q /\ Signed(of, q - c) = ClosingSign(side) * (q - c)
      BY <2>3, <3>0
    <3>2. ClosingSign(side) \in {-1, 1}
      BY DEF ClosingSign
    <3> QED BY <2>1, <2>2, <3>1, <3>2
  <2> QED BY <2>4, <2>5
<1>5. k \in Int /\ ClosingSign(side) \in {-1, 1}
  BY DEF ClosingSign
<1>6. /\ SumFunction(f) = Weight(SharesOf, lots) /\ SumFunction(h) = Weight(SharesOf, left)
      /\ SumFunction(g) = ClosedUpTo(N, side, quantity)
  BY <1>1 DEF Weight, ClosedUpTo
<1> HIDE DEF f, g, h, D, k
<1>7. SumFunction(h) = SumFunction(f) + k * SumFunction(g)
  BY <1>2, <1>3, <1>4, <1>5, SumLinear
<1>8. SumFunction(f) \in Int /\ SumFunction(g) \in Int
  BY <1>2, <1>3, SumInt
<1> QED BY <1>5, <1>6, <1>7, <1>8 DEF k, left

\* What closing realizes is the closed shares' worth less what they had cost.
LEMMA LeftCost ==
  ASSUME lots \in Seq(Lot), NEW side \in Side, NEW quantity \in Nat, NEW price4 \in Price
  PROVE  /\ RealizedDelta(Len(lots), side, quantity, price4) \in Int
         /\ RealizedDelta(Len(lots), side, quantity, price4) + Weight(CostOf, lots)
              = Weight(CostOf, Left(side, quantity))
                + (ClosingSign(side) * price_nanos(price4)) * ClosedUpTo(Len(lots), side, quantity)
<1> DEFINE N == Len(lots)
           P == price_nanos(price4)
           left == Left(side, quantity)
           s == ClosingSign(side)
           k == s * P
           f == [i \in 1..N |-> CostOf[left[i]]]
           g == [i \in 1..N |-> Closed(i, side, quantity)]
           e == [i \in 1..N |-> Piece(i, side, quantity, price4)]
           o == [i \in 1..N |-> CostOf[lots[i]]]
           h == [i \in 1..N |-> e[i] + 1 * o[i]]
           D == 1..N
<1>0. N \in 0..Len(lots) /\ N \in Nat /\ N <= Len(lots)
  OBVIOUS
<1>1. /\ left \in Seq(Lot) /\ Len(left) = N
      /\ \A i \in D : /\ lots[i] \in Lot /\ left[i] \in Lot /\ left[i].side = lots[i].side
                      /\ left[i].price = lots[i].price
                      /\ left[i].quantity = lots[i].quantity - Closed(i, side, quantity)
  BY LeftType
<1>2. s \in {-1, 1} /\ P \in Nat /\ k \in Int
  BY NanosType DEF ClosingSign
<1> HIDE DEF left
<1>3. Addable(f, D) /\ Addable(o, D)
  BY <1>0, <1>1, WeightTypes, WeightAddable
<1>4. Addable(g, D)
  BY <1>0, ClosedAddable
<1>5. ASSUME NEW i \in D PROVE e[i] \in Int /\ e[i] + o[i] = f[i] + k * g[i]
  <2> DEFINE q == lots[i].quantity
             c == Closed(i, side, quantity)
             of == lots[i].side
             p == lots[i].price
  <2>1. o[i] = Signed(of, q) * p /\ f[i] = Signed(of, q - c) * p /\ g[i] = c
    BY <1>1 DEF CostOf
  <2>2. q \in Nat /\ c \in Nat /\ (of = side => c = 0) /\ of \in Side /\ p \in Nat
    BY <1>1, ClosedType DEF Lot
  <2>3. e[i] = c * (s * (P - p))
    <3>1. PerShare(side, price4, lots[i]) = s * (P - p)
      <4> HIDE DEF P, p
      <4>1. P - p = -1 * (p - P) /\ P - p = 1 * (P - p) /\ p - P = (-1) * (P - p)
        BY <1>2, <2>2
      <4>2. PerShare(side, price4, lots[i]) = IF side = "Sell" THEN P - p ELSE p - P
        BY DEF PerShare, P, p
      <4>3. CASE side = "Sell"
        BY <4>1, <4>2, <4>3 DEF ClosingSign
      <4>4. CASE side = "Buy"
        BY <4>1, <4>2, <4>4 DEF ClosingSign
      <4> QED BY <4>3, <4>4 DEF Side
    <3> QED BY <3>1 DEF Piece
  <2>4. q - c \in Int
    BY <2>2
  <2> HIDE DEF q, c, of, p, e, f, g, o, s, P
  <2>5. CASE of = side
    <3>1. q - c = q /\ c = 0
      BY <2>2, <2>5
    <3>2. e[i] = 0 /\ k * g[i] = 0
      BY <1>2, <2>1, <2>2, <2>3, <3>1
    <3>3. f[i] = o[i] /\ o[i] \in Int
      <4>1. Signed(of, q) \in Int
        BY <2>2, SignedIs
      <4> QED BY <2>1, <2>2, <3>1, <4>1
    <3> HIDE DEF k
    <3> QED BY <3>2, <3>3
  <2>6. CASE of # side
    <3>0. q \in Int /\ \A x \in Int : Signed(of, x) = s * x
      BY <2>2, <2>6, SignedIs DEF s
    <3>1. Signed(of, q) = s * q /\ Signed(of, q - c) = s * (q - c)
      BY <2>4, <3>0
    <3>2. \A a, b \in Int : a * b \in Int
      OBVIOUS
    <3>3. \A x, y, z \in Int : x * (y - z) = x * y - x * z /\ (y - z) * x = y * x - z * x
      OBVIOUS
    <3>4. q * p \in Int /\ c * p \in Int /\ P * c \in Int /\ c * P \in Int /\ c * P = P * c
      BY <1>2, <2>2, <3>2
    <3>5. (q - c) * p = q * p - c * p /\ c * (P - p) = c * P - c * p
      BY <1>2, <2>2, <3>3
    <3>6. CASE s = 1
      <4>1. o[i] = q * p /\ f[i] = (q - c) * p /\ k * g[i] = P * c /\ e[i] = c * (P - p)
        BY <1>2, <2>1, <2>2, <2>3, <3>1, <3>6
      <4> QED BY <3>4, <3>5, <4>1
    <3>7. CASE s = -1
      <4>1. o[i] = -(q * p)
        <5>1. Signed(of, q) = -q
          BY <2>2, <3>1, <3>7
        <5>2. (-q) * p = -(q * p)
          BY <2>2
        <5> QED BY <2>1, <5>1, <5>2
      <4>2. f[i] = -((q - c) * p)
        <5>1. Signed(of, q - c) = -(q - c)
          BY <2>2, <2>4, <3>1, <3>7
        <5>2. (-(q - c)) * p = -((q - c) * p)
          BY <2>2, <2>4
        <5> QED BY <2>1, <5>1, <5>2
      <4>3. k * g[i] = -(P * c)
        <5>1. k = -P
          BY <1>2, <3>7
        <5>2. (-P) * c = -(P * c)
          BY <1>2, <2>2
        <5> QED BY <2>1, <5>1, <5>2
      <4>4. e[i] = -(c * (P - p))
        <5>1. s * (P - p) = -(P - p)
          BY <1>2, <2>2, <3>7
        <5>2. c * (-(P - p)) = -(c * (P - p))
          BY <1>2, <2>2
        <5> QED BY <2>3, <5>1, <5>2
      <4> HIDE DEF k
      <4> QED BY <3>4, <3>5, <4>1, <4>2, <4>3, <4>4
    <3> QED BY <1>2, <3>6, <3>7
  <2> QED BY <2>5, <2>6
<1>6. Addable(e, D)
  BY <1>4, <1>5 DEF Addable
<1>7. \A i \in D : f[i] \in Int /\ g[i] \in Int /\ e[i] \in Int /\ o[i] \in Int
  BY <1>3, <1>4, <1>6 DEF Addable
<1>8. Addable(h, D)
  <2>1. \A i \in D : h[i] \in Int
    <3> HIDE DEF e, o
    <3> QED BY <1>7
  <2> QED BY <1>4, <2>1 DEF Addable
<1>9. /\ SumFunction(f) = Weight(CostOf, left) /\ SumFunction(o) = Weight(CostOf, lots)
      /\ SumFunction(g) = ClosedUpTo(N, side, quantity)
      /\ SumFunction(e) = RealizedDelta(N, side, quantity, price4)
  BY <1>1 DEF Weight, ClosedUpTo, RealizedDelta
<1>10. \A i \in D : h[i] = e[i] + 1 * o[i]
  <2> HIDE DEF e, o
  <2> QED OBVIOUS
<1> HIDE DEF e, f, g, o, h, k, s, P
<1>11. \A i \in D : h[i] = f[i] + k * g[i]
  <2>1. \A x \in Int : 1 * x = x
    OBVIOUS
  <2> QED BY <1>5, <1>7, <1>10, <2>1
<1> HIDE DEF D
<1>12. SumFunction(h) = SumFunction(f) + k * SumFunction(g)
  BY <1>2, <1>3, <1>4, <1>8, <1>11, SumLinear
<1> DEFINE one == 1
<1>13. one \in Int /\ \A i \in D : h[i] = e[i] + one * o[i]
  BY <1>10
<1> HIDE DEF one
<1>14. SumFunction(h) = SumFunction(e) + one * SumFunction(o)
  BY <1>3, <1>6, <1>8, <1>13, SumLinear
<1>15. SumFunction(e) \in Int /\ SumFunction(o) \in Int
  BY <1>3, <1>6, SumInt
<1>16. one * SumFunction(o) = SumFunction(o)
  BY <1>15 DEF one
<1> QED BY <1>9, <1>12, <1>14, <1>15, <1>16 DEF k, s, P, left

----------------------------------------------------------------------------
(* A fill keeps the totals *)

All(side, quantity, price4) == Left(side, quantity) \o <<NewLot(side, quantity, price4)>>
Holding(list) == {i \in DOMAIN list : list[i].quantity # 0}

LEMMA AllType ==
  ASSUME lots \in Seq(Lot), OneSided, NEW side \in Side, NEW quantity \in Nat, NEW price4 \in Price
  PROVE  LET all == All(side, quantity, price4)
         IN  /\ all = Append(Left(side, quantity), NewLot(side, quantity, price4))
             /\ all \in Seq(Lot) /\ Len(all) = Len(lots) + 1
             /\ \A i \in 1..Len(lots) : all[i] = Left(side, quantity)[i]
             /\ all[Len(lots) + 1] = NewLot(side, quantity, price4)
<1> DEFINE left == Left(side, quantity)
           lot == NewLot(side, quantity, price4)
<1>1. left \in Seq(Lot) /\ Len(left) = Len(lots) /\ lot \in Lot
  BY LeftType, NewLotType
<1> HIDE DEF left, lot
<1>2. left \o <<lot>> = Append(left, lot)
  BY <1>1, AppendIsConcat
<1>3. /\ Append(left, lot) \in Seq(Lot) /\ Len(Append(left, lot)) = Len(left) + 1
      /\ \A i \in 1..Len(left) : Append(left, lot)[i] = left[i]
      /\ Append(left, lot)[Len(left) + 1] = lot
  BY <1>1
<1> QED BY <1>1, <1>2, <1>3 DEF All, left, lot

\* The lots after a fill hold shares, and are on one side: a lot is opened only
\* where no lot of the other side is left.
LEMMA KeptLots ==
  ASSUME LedgerInv, NEW side \in Side, NEW quantity \in Nat, NEW price4 \in Price,
         quantity <= kMaxInventory
  PROVE  LET all == All(side, quantity, price4)
             kept == SelectAt(all, Holding(all))
         IN  /\ kept \in Seq(Lot)
             /\ \A i \in 1..Len(kept) : kept[i] \in
                  [side : Side, quantity : 1..kMaxInventory + 1, price : {price_nanos(p) : p \in Price}]
             /\ \A i, j \in 1..Len(kept) : kept[i].side = kept[j].side
<1> DEFINE all == All(side, quantity, price4)
           held == Holding(all)
           kept == SelectAt(all, held)
           N == Len(lots)
           Whole == [side : Side, quantity : 1..kMaxInventory + 1, price : {price_nanos(p) : p \in Price}]
<1>0. /\ lots \in Seq(Lot) /\ OneSided /\ TypeOK /\ N \in Nat /\ DOMAIN lots = 1..N
      /\ kMaxInventory \in Nat
  BY LedgerAssumption, LenProperties DEF LedgerInv
<1>1. /\ all \in Seq(Lot) /\ Len(all) = N + 1 /\ DOMAIN all = 1..(N + 1)
      /\ \A i \in 1..N : all[i] = Left(side, quantity)[i]
      /\ all[N + 1] = NewLot(side, quantity, price4)
  <2>1. /\ all \in Seq(Lot) /\ Len(all) = N + 1
        /\ \A i \in 1..N : all[i] = Left(side, quantity)[i]
        /\ all[N + 1] = NewLot(side, quantity, price4)
    BY <1>0, AllType
  <2> HIDE DEF all
  <2> QED BY <2>1, LenProperties
<1> HIDE DEF all
<1>2. /\ kept \in Seq(Lot)
      /\ \A j \in 1..Len(kept) : \E i \in 1..(N + 1) : i \in held /\ kept[j] = all[i]
  <2> HIDE DEF held
  <2> QED BY <1>1, SelectProperties
<1>3. ASSUME NEW i \in 1..N
      PROVE  /\ all[i].side = lots[i].side /\ all[i].price = lots[i].price
             /\ all[i].quantity = lots[i].quantity - Closed(i, side, quantity)
             /\ Closed(i, side, quantity) \in Nat /\ Closed(i, side, quantity) <= lots[i].quantity
             /\ lots[i] \in Whole /\ lots[i].side \in Side
  <2>1. lots[i] \in Whole /\ lots[i].side \in Side
    BY <1>0 DEF TypeOK
  <2>2. LET left == Left(side, quantity)
        IN  /\ all[i] = left[i]
            /\ left[i].side = lots[i].side /\ left[i].price = lots[i].price
            /\ left[i].quantity = lots[i].quantity - Closed(i, side, quantity)
    BY <1>0, <1>1, LeftType
  <2>3. Closed(i, side, quantity) \in Nat /\ Closed(i, side, quantity) <= lots[i].quantity
    BY <1>0, ClosedType
  <2> HIDE DEF Whole
  <2> QED BY <2>1, <2>2, <2>3
<1>4. /\ all[N + 1].side = side /\ all[N + 1].price = price_nanos(price4)
      /\ all[N + 1].quantity = Opened(side, quantity)
      /\ Opened(side, quantity) \in Nat /\ Opened(side, quantity) <= quantity
      /\ Opened(side, quantity) # 0 => \A i \in 1..N :
           lots[i].side # side => Closed(i, side, quantity) = lots[i].quantity
  BY <1>0, <1>1, OpenedIs DEF NewLot
<1>5. ASSUME NEW i \in 1..(N + 1), i \in held
      PROVE  /\ all[i] \in Whole
             /\ i # N + 1 => i \in 1..N /\ all[i].side = lots[i].side
             /\ i # N + 1 /\ Opened(side, quantity) # 0 => all[i].side = side
  <2>1. all[i] \in Lot /\ all[i].quantity # 0
    BY <1>1, <1>5, ElementOfSeq DEF Holding
  <2>2. CASE i = N + 1
    <3>1. all[i].quantity \in 1..kMaxInventory + 1 /\ all[i].price \in {price_nanos(p) : p \in Price}
      BY <1>0, <1>4, <2>1, <2>2
    <3> QED BY <2>1, <2>2, <3>1 DEF Lot
  <2>3. CASE i # N + 1
    <3>1. i \in 1..N
      BY <1>0, <2>3
    <3>2. /\ lots[i].quantity \in 1..kMaxInventory + 1
          /\ lots[i].price \in {price_nanos(p) : p \in Price}
      BY <1>3, <3>1
    <3>3. all[i].quantity \in 1..kMaxInventory + 1
      BY <1>0, <1>3, <2>1, <3>1, <3>2
    <3>4. Opened(side, quantity) # 0 => lots[i].side = side
      BY <1>3, <1>4, <2>1, <3>1, <3>2
    <3> QED BY <1>3, <2>1, <2>3, <3>1, <3>2, <3>3, <3>4 DEF Lot
  <2> QED BY <2>2, <2>3
<1>6. ASSUME NEW i \in 1..(N + 1), NEW j \in 1..(N + 1), i \in held, j \in held
      PROVE  all[i].side = all[j].side
  <2>1. i = N + 1 \/ j = N + 1 => Opened(side, quantity) # 0
    BY <1>1, <1>4, <1>6 DEF Holding
  <2>2. CASE i # N + 1 /\ j # N + 1
    BY <1>0, <1>5, <1>6, <2>2 DEF OneSided
  <2>3. CASE i = N + 1 \/ j = N + 1
    BY <1>4, <1>5, <1>6, <2>1, <2>3
  <2> QED BY <2>2, <2>3
<1> HIDE DEF held, kept, Whole
<1>7. \A i \in 1..Len(kept) : kept[i] \in Whole
  BY <1>2, <1>5
<1>8. \A i, j \in 1..Len(kept) : kept[i].side = kept[j].side
  BY <1>2, <1>6
<1> QED BY <1>2, <1>7, <1>8 DEF all, held, kept, Whole

LEMMA KeptWeights ==
  ASSUME LedgerInv, NEW side \in Side, NEW quantity \in Nat, NEW price4 \in Price
  PROVE  LET all == All(side, quantity, price4)
             kept == SelectAt(all, Holding(all))
         IN  /\ Weight(SharesOf, kept)
                  = Weight(SharesOf, Left(side, quantity)) + Signed(side, Opened(side, quantity))
             /\ Weight(CostOf, kept)
                  = Weight(CostOf, Left(side, quantity))
                    + Signed(side, Opened(side, quantity)) * price_nanos(price4)
<1> DEFINE all == All(side, quantity, price4)
           left == Left(side, quantity)
           lot == NewLot(side, quantity, price4)
           held == Holding(all)
<1>0. lots \in Seq(Lot) /\ OneSided
  BY DEF LedgerInv
<1>1. all = Append(left, lot) /\ all \in Seq(Lot) /\ left \in Seq(Lot) /\ lot \in Lot
  BY <1>0, AllType, LeftType, NewLotType
<1> HIDE DEF all, left
<1>2. /\ SharesOf[lot] = Signed(side, Opened(side, quantity))
      /\ CostOf[lot] = Signed(side, Opened(side, quantity)) * price_nanos(price4)
  BY <1>1 DEF SharesOf, CostOf, NewLot
<1> HIDE DEF lot
<1>3. ASSUME NEW i \in 1..Len(all), i \notin held
      PROVE  SharesOf[all[i]] = 0 /\ CostOf[all[i]] = 0
  <2>1. all[i] \in Lot /\ DOMAIN all = 1..Len(all)
    BY <1>1, ElementOfSeq, LenProperties
  <2>2. all[i].quantity = 0
    BY <1>3, <2>1 DEF Holding
  <2> DEFINE none == all[i].quantity
             p == all[i].price
  <2>3. none = 0 /\ p \in Nat
    BY <2>1, <2>2 DEF Lot
  <2>4. /\ SharesOf[all[i]] = Signed(all[i].side, none)
        /\ CostOf[all[i]] = Signed(all[i].side, none) * p
    BY <2>1 DEF SharesOf, CostOf
  <2> HIDE DEF none, p
  <2>5. Signed(all[i].side, none) = 0
    <3>1. none \in Int
      BY <2>3
    <3>2. -none = 0 - none
      BY <3>1
    <3> QED BY <2>3, <3>2 DEF Signed
  <2> QED BY <2>3, <2>4, <2>5
<1> HIDE DEF held
<1>4. /\ Weight(SharesOf, SelectAt(all, held)) = Weight(SharesOf, all)
      /\ Weight(CostOf, SelectAt(all, held)) = Weight(CostOf, all)
  <2>1. \A i \in 1..Len(all) : i \notin held => SharesOf[all[i]] = 0
    BY <1>3
  <2>2. \A i \in 1..Len(all) : i \notin held => CostOf[all[i]] = 0
    BY <1>3
  <2>3. SharesOf \in [Lot -> Int] /\ CostOf \in [Lot -> Int]
    BY WeightTypes
  <2>0. all \in Seq(Lot)
    BY <1>1
  <2>4. Weight(SharesOf, SelectAt(all, held)) = Weight(SharesOf, all)
    BY ONLY <2>0, <2>1, <2>3, SelectWeight
  <2>5. Weight(CostOf, SelectAt(all, held)) = Weight(CostOf, all)
    BY ONLY <2>0, <2>2, <2>3, SelectWeight
  <2> QED BY <2>4, <2>5
<1>5. /\ Weight(SharesOf, all) = Weight(SharesOf, left) + SharesOf[lot]
      /\ Weight(CostOf, all) = Weight(CostOf, left) + CostOf[lot]
  BY <1>1, WeightTypes, WeightAppend
<1> QED BY <1>2, <1>4, <1>5 DEF all, left, held

LEMMA WeightsAreInts ==
  ASSUME NEW list \in Seq(Lot)
  PROVE  Weight(SharesOf, list) \in Int /\ Weight(CostOf, list) \in Int
<1>1. Len(list) \in Nat /\ Len(list) <= Len(list)
  OBVIOUS
<1> QED BY <1>1, WeightTypes, WeightAddable

\* Cash moves by the whole trade, profit by what was closed: the difference is
\* what the lots cost.
LEMMA FillArithmetic ==
  ASSUME NEW s \in {-1, 1}, NEW q \in Int, NEW c \in Int, NEW P \in Int,
         NEW cash \in Int, NEW profit \in Int, NEW old \in Int, NEW left \in Int, NEW gain \in Int,
         NEW inv \in Int, NEW shares \in Int, NEW fill \in Int, NEW value \in Int, NEW open \in Int,
         fill = -(s * q), value = -(s * (P * q)), open = -(s * (q - c)),
         shares = inv - s * c, gain + old = left + (s * P) * c, cash = profit - old
  PROVE  /\ shares + open = inv + fill
         /\ cash - value = (profit + gain) - (left + open * P)
<1>1. \A x, y, z \in Int : (x - y) * z = x * z - y * z /\ z * x = x * z /\ x * y \in Int
  OBVIOUS
<1>2. /\ P * q = q * P /\ P * c = c * P /\ (q - c) * P = q * P - c * P
      /\ q * P \in Int /\ c * P \in Int
  BY <1>1
<1>3. CASE s = 1
  <2>1. fill = -q /\ value = -(P * q) /\ open = -(q - c) /\ shares = inv - c
    BY <1>2, <1>3
  <2>2. gain + old = left + P * c
    BY <1>2, <1>3
  <2>3. open * P = -(q * P - c * P)
    <3>1. (-(q - c)) * P = -((q - c) * P)
      OBVIOUS
    <3> QED BY <1>2, <2>1, <3>1
  <2> QED BY <1>2, <2>1, <2>2, <2>3
<1>4. CASE s = -1
  <2>1. fill = q /\ value = P * q /\ open = q - c /\ shares = inv + c
    BY <1>2, <1>4
  <2>2. gain + old = left - P * c
    <3>1. s * P = -P /\ (-P) * c = -(P * c)
      BY <1>4
    <3> QED BY <1>2, <3>1
  <2>3. open * P = q * P - c * P
    BY <1>2, <2>1
  <2> QED BY <1>2, <2>1, <2>2, <2>3
<1> QED BY <1>3, <1>4

LEMMA InvTypes ==
  ASSUME LedgerInv
  PROVE  /\ lots \in Seq(Lot) /\ OneSided /\ Len(lots) \in 0..Len(lots)
         /\ inventory \in Int /\ trade_cash \in Int /\ realized \in Int
         /\ fees_paid \in Int /\ rebates \in Int
<1>1. kMaxMoney \in Int /\ kMaxInventory \in Int
  BY LedgerAssumption
<1>2. inventory \in Int
  BY <1>1 DEF LedgerInv, TypeOK
<1>3. trade_cash \in Int /\ realized \in Int /\ fees_paid \in Int /\ rebates \in Int
  <2>1. IsMoney(trade_cash) /\ IsMoney(realized) /\ IsMoney(fees_paid) /\ IsMoney(rebates)
    BY DEF LedgerInv, TypeOK
  <2> QED BY <1>1, <2>1 DEF IsMoney
<1>4. lots \in Seq(Lot) /\ OneSided
  BY DEF LedgerInv
<1>5. Len(lots) \in 0..Len(lots)
  BY <1>4
<1> QED BY <1>2, <1>3, <1>4, <1>5

LEMMA FillKeepsWeights ==
  ASSUME LedgerInv, NEW side \in Side, NEW quantity \in Nat, NEW price4 \in Price
  PROVE  LET all == All(side, quantity, price4)
             kept == SelectAt(all, Holding(all))
             value == Signed(side, price_nanos(price4) * quantity)
         IN  /\ Weight(SharesOf, kept) = inventory + Signed(side, quantity)
             /\ trade_cash - value = (realized + RealizedDelta(Len(lots), side, quantity, price4))
                                       - Weight(CostOf, kept)
<1> DEFINE s == ClosingSign(side)
           q == quantity
           c == ClosedUpTo(Len(lots), side, quantity)
           P == price_nanos(price4)
           old == Weight(CostOf, lots)
           left == Weight(CostOf, Left(side, quantity))
           gain == RealizedDelta(Len(lots), side, quantity, price4)
           shares == Weight(SharesOf, Left(side, quantity))
           fill == Signed(side, quantity)
           value == Signed(side, price_nanos(price4) * quantity)
           open == Signed(side, Opened(side, quantity))
<1>0. lots \in Seq(Lot) /\ OneSided /\ Len(lots) \in 0..Len(lots)
      /\ inventory \in Int /\ trade_cash \in Int /\ realized \in Int
  BY InvTypes
<1>1. s \in {-1, 1} /\ q \in Int /\ P \in Int /\ P * q \in Int
  BY NanosType DEF ClosingSign
<1>2. c \in Int
  BY <1>0, ClosesFirst
<1>3. old \in Int /\ left \in Int /\ shares \in Int
  BY <1>0, LeftType, WeightsAreInts
<1>4. gain \in Int /\ gain + old = left + (s * P) * c
  BY <1>0, LeftCost
<1>5. shares = inventory - s * c
  BY <1>0, LeftShares DEF LedgerInv
<1>6. Opened(side, quantity) = q - c /\ q - c \in Int
  BY <1>0, <1>1, <1>2, OpenedIs
<1>7. fill = -(s * q) /\ value = -(s * (P * q)) /\ open = -(s * (q - c))
      /\ fill \in Int /\ value \in Int /\ open \in Int
  <2>1. \A x \in Int : Signed(side, x) = -(s * x) /\ Signed(side, x) \in Int
    BY SignedIs
  <2> HIDE DEF s, c, P
  <2> QED BY <1>1, <1>6, <2>1 DEF P
<1>8. trade_cash = realized - old
  BY DEF LedgerInv
<1>9. LET all == All(side, quantity, price4)
          kept == SelectAt(all, Holding(all))
      IN  Weight(SharesOf, kept) = shares + open /\ Weight(CostOf, kept) = left + open * P
  BY KeptWeights
<1> HIDE DEF s, q, c, P, old, left, gain, shares, fill, value, open
<1>10. /\ shares + open = inventory + fill
       /\ trade_cash - value = (realized + gain) - (left + open * P)
  BY <1>0, <1>1, <1>2, <1>3, <1>4, <1>5, <1>7, <1>8, FillArithmetic
<1> QED BY <1>9, <1>10 DEF gain, fill, value

LEMMA FillKeepsInv ==
  ASSUME LedgerInv, NEW side \in Side, NEW quantity \in Quantity, NEW price4 \in Price,
         apply_fill(side, quantity, price4)
  PROVE  LedgerInv'
<1> DEFINE all == All(side, quantity, price4)
           kept == SelectAt(all, Holding(all))
<1>1. quantity \in Nat /\ quantity >= 1 /\ quantity <= kMaxInventory /\ Len(lots) \in Nat
  BY LedgerAssumption DEF apply_fill, Accounted, LedgerInv
<1>2. lots' = kept
  BY DEF apply_fill, All, Left, NewLot, Holding
<1>3. /\ kept \in Seq(Lot)
      /\ \A i \in 1..Len(kept) : kept[i] \in
           [side : Side, quantity : 1..kMaxInventory + 1, price : {price_nanos(p) : p \in Price}]
      /\ \A i, j \in 1..Len(kept) : kept[i].side = kept[j].side
  BY <1>1, KeptLots
<1>4. /\ Weight(SharesOf, kept) = inventory + Signed(side, quantity)
      /\ trade_cash - Signed(side, price_nanos(price4) * quantity)
           = (realized + RealizedDelta(Len(lots), side, quantity, price4)) - Weight(CostOf, kept)
  BY <1>1, FillKeepsWeights
<1> HIDE DEF kept
<1>5. lots' \in Seq(Lot) /\ DOMAIN lots' = 1..Len(lots') /\ OneSided'
  BY <1>2, <1>3, LenProperties DEF OneSided
<1>6. /\ Weight(SharesOf, lots)' = inventory'
      /\ trade_cash' = realized' - Weight(CostOf, lots)'
  BY <1>2, <1>4 DEF apply_fill, SharesOf, CostOf
<1>7. TypeOK'
  <2>1. inventory' \in -kMaxInventory - 1..kMaxInventory
    BY DEF apply_fill, Accounted
  <2>2. IsMoney(trade_cash') /\ IsMoney(fees_paid') /\ IsMoney(rebates') /\ IsMoney(realized')
    BY DEF apply_fill, Accounted, RealizedFits
  <2>3. turnover' \in 0..kMaxTurnover
    BY <1>1, LedgerAssumption DEF apply_fill, Accounted, LedgerInv, TypeOK
  <2>4. \A i \in DOMAIN lots' : lots'[i] \in
          [side : Side, quantity : 1..kMaxInventory + 1, price : {price_nanos(p) : p \in Price}]
    BY <1>2, <1>3, <1>5
  <2>5. \A money \in {trade_cash', fees_paid', rebates', realized'} : IsMoney(money)
    BY <2>2
  <2> QED BY <2>1, <2>3, <2>4, <2>5 DEF TypeOK, IsMoney
<1> QED BY <1>5, <1>6, <1>7 DEF LedgerInv

LEMMA LedgerInvariance == Spec => []LedgerInv
<1>1. ASSUME LedgerInv, [Next]_vars PROVE LedgerInv'
  <2>1. CASE UNCHANGED vars
    BY <1>1, <2>1
    DEF vars, LedgerInv, TypeOK, OneSided, Weight
  <2>2. ASSUME NEW side \in Side, NEW quantity \in Quantity, NEW price4 \in Price,
               apply_fill(side, quantity, price4)
        PROVE  LedgerInv'
    BY <1>1, <2>2, FillKeepsInv
  <2>3. ASSUME NEW side \in Side, NEW quantity \in Quantity, NEW price4 \in Price,
               Refuse(side, quantity, price4)
        PROVE  UNCHANGED vars
    BY <2>3 DEF Refuse
  <2> QED BY <1>1, <2>1, <2>2, <2>3 DEF Next
<1> QED BY <1>1, InitLedgerInv, PTL DEF Spec

\* check_invariants of accounting.cpp, and more: whatever the prices, fees and
\* limits and however fills close, split or reverse a position, the lots add up to
\* the inventory, all on one side, and cash and realized profit differ by exactly
\* what the open lots cost.
THEOREM TotalsAlwaysAgree == Spec => []TotalsAgree
BY LedgerInvariance, InvGivesTotals, PTL

----------------------------------------------------------------------------
(* Liquidation *)

LEMMA LiquidationOfInv == ASSUME LedgerInv PROVE LiquidationIsConservative
<1> SUFFICES ASSUME NEW bid \in Price, NEW ask \in Price, bid <= ask
             PROVE  conservative_liquidation_equity(bid, ask) <= net_equity_at_mid2(bid + ask)
  BY DEF LiquidationIsConservative
<1>1. bid \in Nat /\ ask \in Nat /\ fees.liquidation_fee \in Nat
  BY LedgerAssumption
<1>2. /\ inventory \in Int /\ trade_cash \in Int /\ fees_paid \in Int /\ rebates \in Int
  BY InvTypes
<1> DEFINE size == IF inventory < 0 THEN -inventory ELSE inventory
           worst == inventory * price_nanos(LiquidationPrice(bid, ask))
           mid == inventory * (bid + ask)
           cost == fees.liquidation_fee * size
<1>3. worst \in Int /\ mid \in Int /\ worst <= mid
  <2>1. CASE inventory >= 0
    <3>1. worst = inventory * (2 * bid)
      BY <2>1 DEF price_nanos, nanos_per_price4, LiquidationPrice
    <3>2. inventory * (bid + ask) - inventory * (2 * bid) = inventory * (ask - bid)
      BY <1>1, <1>2
    <3>3. inventory * (ask - bid) \in Nat /\ inventory * (2 * bid) \in Int /\ mid \in Int
      BY <1>1, <1>2, <2>1
    <3> QED BY <3>1, <3>2, <3>3
  <2>2. CASE inventory < 0
    <3>1. worst = inventory * (2 * ask)
      BY <1>2, <2>2 DEF price_nanos, nanos_per_price4, LiquidationPrice
    <3>2. inventory * (bid + ask) - inventory * (2 * ask) = (-inventory) * (ask - bid)
      BY <1>1, <1>2
    <3>3. (-inventory) * (ask - bid) \in Nat /\ inventory * (2 * ask) \in Int /\ mid \in Int
      BY <1>1, <1>2, <2>2
    <3> QED BY <3>1, <3>2, <3>3
  <2> QED BY <1>2, <2>1, <2>2
<1>4. cost \in Nat
  <2>1. size \in Nat
    BY <1>2
  <2> HIDE DEF size
  <2> QED BY <1>1, <2>1
<1>5. /\ conservative_liquidation_equity(bid, ask) = trade_cash + worst - fees_paid + rebates - cost
      /\ net_equity_at_mid2(bid + ask) = trade_cash + mid - fees_paid + rebates
  <2>1. net_equity_at_mid2(bid + ask) = trade_cash + mid - fees_paid + rebates
    <3>1. net_equity_at_mid2(bid + ask) = (trade_cash + mid) - fees_paid + rebates
      BY Zenon DEF net_equity_at_mid2, gross_equity_at_mid2
    <3> HIDE DEF mid
    <3> QED BY <1>2, <1>3, <3>1
  <2>2. conservative_liquidation_equity(bid, ask)
          = trade_cash + inventory * price_nanos(LiquidationPrice(bid, ask)) - fees_paid + rebates
            - fees.liquidation_fee * (IF inventory < 0 THEN -inventory ELSE inventory)
    BY Zenon DEF conservative_liquidation_equity
  <2> QED BY <2>1, <2>2
<1> HIDE DEF worst, mid, cost
<1> QED BY <1>2, <1>3, <1>4, <1>5

\* The conservative liquidation value of accounting.cpp never exceeds the equity
\* at the mid, for a long or a short of any size, every fee and every uncrossed quote.
THEOREM LiquidationNeverFlatters == Spec => []LiquidationIsConservative
BY LedgerInvariance, LiquidationOfInv, PTL
----------------------------------------------------------------------------
(* The lots share by share *)

\* The shares of a lot, of a list of lots, and of its first n lots.
Block(lot) == [share \in 1..lot.quantity |-> lot.price]
Spread(list) == FlattenSeq([i \in DOMAIN list |-> Block(list[i])])
Spreads(f, list) ==
  f[0] = <<>> /\ \A n \in 1..Len(list) : f[n] = f[n - 1] \o Block(list[n])

LEMMA BlockType ==
  ASSUME NEW lot \in Lot
  PROVE  /\ Block(lot) \in Seq(Nat) /\ Len(Block(lot)) = lot.quantity /\ lot.quantity \in Nat
         /\ \A share \in 1..lot.quantity : Block(lot)[share] = lot.price
<1>1. lot.quantity \in Nat /\ lot.price \in Nat
  BY DEF Lot
<1>2. Block(lot) \in [1..lot.quantity -> Nat]
  BY <1>1 DEF Block
<1> QED BY <1>1, <1>2 DEF Block

LEMMA SpreadExists ==
  ASSUME NEW list \in Seq(Lot)
  PROVE  \E f : Spreads(f, list) /\ Spread(list) = f[Len(list)]
<1> DEFINE N == Len(list)
           seqs == [i \in DOMAIN list |-> Block(list[i])]
           Grown(g, n) == g[n - 1] \o Block(list[n])
           From(g, m) == g[0] = <<>> /\ \A n \in 1..m : g[n] = Grown(g, n)
           T == {m \in Nat : \E g : DOMAIN g = Nat /\ From(g, m)}
<1>0. N \in Nat /\ DOMAIN list = 1..N
  BY LenProperties
<1>1. 0 \in T
  <2>1. From([n \in Nat |-> <<>>], 0)
    OBVIOUS
  <2> QED BY <2>1
<1>2. ASSUME NEW m \in Nat, m \in T PROVE m + 1 \in T
  <2>1. PICK g : DOMAIN g = Nat /\ From(g, m)
    BY <1>2
  <2> DEFINE h == [n \in Nat |-> IF n = m + 1 THEN Grown(g, n) ELSE g[n]]
  <2>2. h[0] = <<>> /\ DOMAIN h = Nat
    BY <2>1
  <2>3. ASSUME NEW n \in 1..(m + 1) PROVE h[n] = Grown(h, n)
    <3>1. n - 1 \in Nat /\ n - 1 # m + 1 /\ n \in Nat
      OBVIOUS
    <3>2. h[n - 1] = g[n - 1]
      BY <3>1
    <3>3. CASE n = m + 1
      <4>1. h[n] = Grown(g, n)
        BY <3>1, <3>3
      <4> HIDE DEF h
      <4> QED BY <3>2, <4>1
    <3>4. CASE n # m + 1
      <4>1. n \in 1..m /\ h[n] = g[n]
        BY <3>4
      <4> QED BY <2>1, <3>2, <4>1
    <3> QED BY <3>3, <3>4
  <2> HIDE DEF h, Grown
  <2> QED BY <2>2, <2>3
<1>3. N \in T
  <2> HIDE DEF T
  <2> QED BY <1>0, <1>1, <1>2, SetInduction
<1>4. PICK g : DOMAIN g = Nat /\ From(g, N)
  BY <1>3
<1>5. N = Len(seqs) /\ \A i \in 1..N : seqs[i] = Block(list[i])
  BY <1>0
<1>6. CASE N = 0
  <2>1. seqs = <<>>
    BY <1>0, <1>6
  <2>2. Spread(list) = <<>>
    BY <1>5, <1>6, <2>1 DEF Spread, FlattenSeq
  <2> QED BY <1>4, <1>6, <2>2 DEF Spreads
<1>7. CASE N # 0
  <2> DEFINE Rec(e) == e = [i \in 1..Len(seqs) |-> IF i = 1 THEN seqs[i] ELSE e[i - 1] \o seqs[i]]
             f == [n \in 1..N |-> g[n]]
             c == CHOOSE e : Rec(e)
  <2>1. Spread(list) = c[N]
    <3>1. Spread(list) = FlattenSeq(seqs)
      BY DEF Spread
    <3>2. FlattenSeq(seqs) = c[Len(seqs)]
      BY <1>5, <1>7 DEF FlattenSeq
    <3> QED BY <1>5, <3>1, <3>2
  <2> HIDE DEF seqs
  <2>2. Rec(f)
    <3>1. \A i \in 1..N : f[i] = IF i = 1 THEN seqs[i] ELSE f[i - 1] \o seqs[i]
      <4> TAKE i \in 1..N
      <4>1. g[i] = g[i - 1] \o Block(list[i]) /\ seqs[i] = Block(list[i])
        BY <1>4, <1>5
      <4>0. f[i] = g[i]
        OBVIOUS
      <4>2. CASE i = 1
        <5>1. list[i] \in Lot
          BY <1>0, ElementOfSeq
        <5>2. Block(list[i]) \in Seq(Nat)
          BY <5>1, BlockType
        <5>3. <<>> \o Block(list[i]) = Block(list[i])
          BY <5>2
        <5>4. i - 1 = 0
          BY <4>2
        <5> QED BY <1>4, <4>0, <4>1, <4>2, <5>3, <5>4
      <4>3. CASE i # 1
        <5>1. i - 1 \in 1..N
          BY <1>0, <4>3
        <5>2. f[i - 1] = g[i - 1]
          BY <5>1
        <5> QED BY <4>0, <4>1, <4>3, <5>2
      <4> QED BY <4>2, <4>3
    <3> QED BY <1>5, <3>1
  <2>3. Rec(c)
    BY <2>2
  <2> HIDE DEF c
  <2> DEFINE h == [n \in 0..N |-> IF n = 0 THEN <<>> ELSE c[n]]
  <2>4. ASSUME NEW n \in 1..N PROVE h[n] = h[n - 1] \o Block(list[n])
    <3>1. c[n] = IF n = 1 THEN seqs[n] ELSE c[n - 1] \o seqs[n]
      BY <1>5, <2>3
    <3>0. n \in 0..N /\ n # 0 /\ n - 1 \in 0..N /\ (n = 1 <=> n - 1 = 0)
      BY <1>0
    <3>4. h[n] = c[n] /\ h[n - 1] = IF n = 1 THEN <<>> ELSE c[n - 1]
      BY <3>0
    <3> HIDE DEF h
    <3>2. CASE n = 1
      <4>1. list[n] \in Lot
        BY <1>0, ElementOfSeq
      <4>2. Block(list[n]) \in Seq(Nat)
        BY <4>1, BlockType
      <4>3. <<>> \o Block(list[n]) = Block(list[n])
        BY <4>2
      <4> QED BY <1>5, <3>1, <3>2, <3>4, <4>3
    <3>3. CASE n # 1
      BY <1>5, <3>1, <3>3, <3>4
    <3> QED BY <3>2, <3>3
  <2>5. h[0] = <<>> /\ h[N] = c[N]
    BY <1>0, <1>7
  <2> HIDE DEF h
  <2> QED BY <2>1, <2>4, <2>5 DEF Spreads
<1> QED BY <1>6, <1>7

\* The shares of the first n lots are those of the first n - 1 and those of lot n.
LEMMA SpreadTypes ==
  ASSUME NEW list \in Seq(Lot), NEW f, Spreads(f, list)
  PROVE  /\ \A n \in 0..Len(list) : f[n] \in Seq(Nat) /\ Len(f[n]) \in Nat
         /\ \A n \in 1..Len(list) :
              /\ n - 1 \in 0..Len(list) /\ n \in 0..Len(list)
              /\ list[n] \in Lot /\ list[n].quantity \in Nat
              /\ Len(f[n]) = Len(f[n - 1]) + list[n].quantity
              /\ \A j \in 1..Len(f[n - 1]) : f[n][j] = f[n - 1][j]
              /\ \A j \in 1..list[n].quantity : f[n][Len(f[n - 1]) + j] = list[n].price
<1> DEFINE N == Len(list)
           T == {n \in Nat : n <= N => f[n] \in Seq(Nat)}
<1>0. N \in Nat /\ \A n \in 1..N : n - 1 \in 0..N /\ n \in 0..N
  OBVIOUS
<1>1. \A n \in 1..N : /\ list[n] \in Lot /\ Block(list[n]) \in Seq(Nat)
                      /\ Len(Block(list[n])) = list[n].quantity /\ list[n].quantity \in Nat
                      /\ \A j \in 1..list[n].quantity : Block(list[n])[j] = list[n].price
                      /\ f[n] = f[n - 1] \o Block(list[n])
  BY BlockType, ElementOfSeq DEF Spreads
<1>2. 0 \in T
  <2>1. f[0] = <<>> /\ <<>> \in Seq(Nat)
    BY DEF Spreads
  <2> QED BY <2>1
<1>3. ASSUME NEW n \in Nat, n \in T PROVE n + 1 \in T
  <2> DEFINE m == n + 1
  <2> SUFFICES ASSUME m <= N PROVE f[m] \in Seq(Nat)
    OBVIOUS
  <2>1. m \in 1..N /\ m - 1 = n /\ n <= N
    BY <1>0
  <2> HIDE DEF m
  <2>2. f[n] \in Seq(Nat)
    BY <1>3, <2>1
  <2>3. f[m] = f[n] \o Block(list[m]) /\ Block(list[m]) \in Seq(Nat)
    BY <1>1, <2>1
  <2> QED BY <2>2, <2>3
<1>4. \A n \in 0..N : f[n] \in Seq(Nat) /\ Len(f[n]) \in Nat
  <2>1. Nat \subseteq T
    <3> HIDE DEF T
    <3> QED BY <1>2, <1>3, SetInduction
  <2> TAKE n \in 0..N
  <2>2. f[n] \in Seq(Nat)
    BY <2>1
  <2> QED BY <2>2
<1>5. ASSUME NEW n \in 1..N
      PROVE  /\ Len(f[n]) = Len(f[n - 1]) + list[n].quantity
             /\ \A j \in 1..Len(f[n - 1]) : f[n][j] = f[n - 1][j]
             /\ \A j \in 1..list[n].quantity : f[n][Len(f[n - 1]) + j] = list[n].price
  <2> DEFINE s == f[n - 1]
             b == Block(list[n])
  <2>1. s \in Seq(Nat) /\ b \in Seq(Nat) /\ f[n] = s \o b
    BY <1>0, <1>1, <1>4
  <2>2. Len(b) = list[n].quantity /\ \A j \in 1..list[n].quantity : b[j] = list[n].price
    BY <1>1
  <2> HIDE DEF s, b
  <2>3. /\ Len(s \o b) = Len(s) + Len(b)
        /\ \A j \in 1..Len(s) : (s \o b)[j] = s[j]
        /\ \A j \in 1..Len(b) : (s \o b)[Len(s) + j] = b[j]
    BY <2>1
  <2> QED BY <2>1, <2>2, <2>3 DEF s
<1> QED BY <1>0, <1>1, <1>4, <1>5

LEMMA SpreadType == ASSUME NEW list \in Seq(Lot) PROVE Spread(list) \in Seq(Nat)
<1>1. PICK f : Spreads(f, list) /\ Spread(list) = f[Len(list)]
  BY SpreadExists
<1>2. Len(list) \in 0..Len(list)
  OBVIOUS
<1> QED BY <1>1, <1>2, SpreadTypes

LEMMA SpreadOfNone == Spread(<<>>) = <<>>
<1>1. <<>> \in Seq(Lot) /\ Len(<<>>) = 0
  OBVIOUS
<1>2. PICK f : Spreads(f, <<>>) /\ Spread(<<>>) = f[Len(<<>>)]
  BY <1>1, SpreadExists
<1> QED BY <1>1, <1>2 DEF Spreads

LEMMA SpreadAppend ==
  ASSUME NEW list \in Seq(Lot), NEW lot \in Lot
  PROVE  Spread(Append(list, lot)) = Spread(list) \o Block(lot)
<1> DEFINE all == Append(list, lot)
           N == Len(list)
<1>1. /\ all \in Seq(Lot) /\ Len(all) = N + 1 /\ N \in Nat
      /\ all[N + 1] = lot /\ \A i \in 1..N : all[i] = list[i]
  OBVIOUS
<1> HIDE DEF all
<1>2. PICK f : Spreads(f, list) /\ Spread(list) = f[N]
  BY SpreadExists
<1>3. PICK g : Spreads(g, all) /\ Spread(all) = g[N + 1]
  BY <1>1, SpreadExists
<1> DEFINE T == {n \in Nat : n <= N => g[n] = f[n]}
<1>4. 0 \in T
  BY <1>2, <1>3 DEF Spreads
<1>5. ASSUME NEW n \in Nat, n \in T PROVE n + 1 \in T
  <2> DEFINE m == n + 1
  <2> SUFFICES ASSUME m <= N PROVE g[m] = f[m]
    OBVIOUS
  <2>1. m \in 1..N /\ m \in 1..(N + 1) /\ m - 1 = n /\ n <= N
    BY <1>1
  <2> HIDE DEF m
  <2>2. g[n] = f[n] /\ all[m] = list[m]
    BY <1>1, <1>5, <2>1
  <2>3. f[m] = f[m - 1] \o Block(list[m]) /\ g[m] = g[m - 1] \o Block(all[m])
    BY <1>1, <1>2, <1>3, <2>1 DEF Spreads
  <2> QED BY <2>1, <2>2, <2>3
<1>6. N \in T
  <2> HIDE DEF T
  <2> QED BY <1>1, <1>4, <1>5, SetInduction
<1>7. g[N + 1] = g[N] \o Block(lot)
  <2> DEFINE m == N + 1
  <2>1. m \in 1..(N + 1) /\ m - 1 = N
    BY <1>1
  <2>2. g[m] = g[m - 1] \o Block(all[m])
    BY <1>1, <1>3, <2>1 DEF Spreads
  <2> QED BY <1>1, <2>1, <2>2
<1>8. g[N] = f[N]
  BY <1>1, <1>6
<1> QED BY <1>1, <1>2, <1>3, <1>7, <1>8 DEF all

\* Lots that hold nothing can be left out.
LEMMA SpreadSelect ==
  ASSUME NEW list \in Seq(Lot), NEW kept,
         \A i \in 1..Len(list) : i \notin kept => list[i].quantity = 0
  PROVE  Spread(SelectAt(list, kept)) = Spread(list)
<1> DEFINE s == SelectUpTo(list, kept)
           N == Len(list)
<1>0. N \in Nat /\ Keeps(s, list, kept)
  BY SelectKeeps
<1> HIDE DEF s
<1>1. PICK f : Spreads(f, list) /\ Spread(list) = f[N]
  BY SpreadExists
<1> DEFINE T == {n \in Nat : n <= N => s[n] \in Seq(Lot) /\ Spread(s[n]) = f[n]}
<1>2. 0 \in T
  <2>1. s[0] = <<>> /\ <<>> \in Seq(Lot) /\ f[0] = <<>>
    BY <1>0, <1>1 DEF Keeps, Spreads
  <2> QED BY <2>1, SpreadOfNone
<1>3. ASSUME NEW n \in Nat, n \in T PROVE n + 1 \in T
  <2> DEFINE m == n + 1
  <2> SUFFICES ASSUME m <= N PROVE s[m] \in Seq(Lot) /\ Spread(s[m]) = f[m]
    OBVIOUS
  <2>1. m \in 1..N /\ m - 1 = n /\ n <= N /\ n \in 0..N
    BY <1>0
  <2> HIDE DEF m
  <2>2. s[n] \in Seq(Lot) /\ Spread(s[n]) = f[n] /\ f[n] \in Seq(Nat)
    BY <1>1, <1>3, <2>1, SpreadTypes
  <2>3. /\ s[m] = IF m \in kept THEN Append(s[n], list[m]) ELSE s[n]
        /\ f[m] = f[n] \o Block(list[m]) /\ list[m] \in Lot
    BY <1>0, <1>1, <2>1, ElementOfSeq DEF Keeps, Spreads
  <2>4. CASE m \in kept
    <3>1. s[m] = Append(s[n], list[m])
      BY <2>3, <2>4
    <3>2. Append(s[n], list[m]) \in Seq(Lot)
      BY <2>2, <2>3
    <3>3. Spread(Append(s[n], list[m])) = Spread(s[n]) \o Block(list[m])
      BY <2>2, <2>3, SpreadAppend
    <3> QED BY <2>2, <2>3, <3>1, <3>2, <3>3
  <2>5. CASE m \notin kept
    <3>1. /\ Block(list[m]) \in Seq(Nat) /\ Len(Block(list[m])) = 0
      BY <2>1, <2>3, <2>5, BlockType
    <3>2. Block(list[m]) = <<>>
      BY <3>1
    <3>3. f[n] \o <<>> = f[n]
      BY <2>2
    <3> QED BY <2>2, <2>3, <2>5, <3>2, <3>3
  <2> QED BY <2>4, <2>5
<1>4. N \in T
  <2> HIDE DEF T
  <2> QED BY <1>0, <1>2, <1>3, SetInduction
<1> QED BY <1>0, <1>1, <1>4 DEF SelectAt, s

\* Shares are spread from a list of which some lot holds one.
LEMMA SpreadIsEmpty ==
  ASSUME NEW list \in Seq(Lot)
  PROVE  Spread(list) = <<>> <=> \A i \in 1..Len(list) : list[i].quantity = 0
<1> DEFINE N == Len(list)
<1>0. N \in Nat
  OBVIOUS
<1>1. PICK f : Spreads(f, list) /\ Spread(list) = f[N]
  BY SpreadExists
<1> DEFINE T == {n \in Nat : n <= N => (Len(f[n]) = 0 <=> \A i \in 1..n : list[i].quantity = 0)}
<1>2. 0 \in T
  <2>1. f[0] = <<>> /\ Len(<<>>) = 0
    BY <1>1 DEF Spreads
  <2> QED BY <2>1
<1>3. ASSUME NEW n \in Nat, n \in T PROVE n + 1 \in T
  <2> DEFINE m == n + 1
  <2> SUFFICES ASSUME m <= N
               PROVE  Len(f[m]) = 0 <=> \A i \in 1..m : list[i].quantity = 0
    OBVIOUS
  <2>1. m \in 1..N /\ m - 1 = n /\ n <= N /\ n \in 0..N /\ 1..m = (1..n) \cup {m}
    BY <1>0
  <2> HIDE DEF m
  <2>2. Len(f[m]) = Len(f[n]) + list[m].quantity /\ list[m].quantity \in Nat /\ Len(f[n]) \in Nat
    BY <1>1, <2>1, SpreadTypes
  <2>3. Len(f[n]) = 0 <=> \A i \in 1..n : list[i].quantity = 0
    BY <1>3, <2>1
  <2>4. (\A i \in 1..m : list[i].quantity = 0)
          <=> (\A i \in 1..n : list[i].quantity = 0) /\ list[m].quantity = 0
    BY <2>1, Zenon
  <2>5. Len(f[m]) = 0 <=> Len(f[n]) = 0 /\ list[m].quantity = 0
    BY <2>2
  <2> QED BY <2>3, <2>4, <2>5
<1>4. N \in T
  <2> HIDE DEF T
  <2> QED BY <1>0, <1>2, <1>3, SetInduction
<1>5. f[N] \in Seq(Nat)
  BY <1>0, <1>1, SpreadTypes
<1>6. Len(f[N]) = 0 <=> f[N] = <<>>
  BY <1>5
<1> QED BY <1>0, <1>1, <1>4, <1>6

----------------------------------------------------------------------------
(* A fill closes the oldest shares *)

\* The first n lots hold SharesUpTo(n) shares.
LEMMA SpreadLength ==
  ASSUME lots \in Seq(Lot), NEW f, Spreads(f, lots), NEW n \in 0..Len(lots)
  PROVE  Len(f[n]) = SharesUpTo(n)
<1> DEFINE N == Len(lots)
           T == {k \in Nat : k <= N => Len(f[k]) = SharesUpTo(k)}
<1>0. N \in Nat
  OBVIOUS
<1>1. 0 \in T
  <2>1. f[0] = <<>> /\ Len(<<>>) = 0 /\ DOMAIN [j \in 1..0 |-> lots[j].quantity] = {}
    BY DEF Spreads
  <2>2. SharesUpTo(0) = 0
    BY <2>1, SumEmpty DEF SharesUpTo
  <2> QED BY <2>1, <2>2
<1>2. ASSUME NEW k \in Nat, k \in T PROVE k + 1 \in T
  <2> DEFINE m == k + 1
  <2> SUFFICES ASSUME m <= N PROVE Len(f[m]) = SharesUpTo(m)
    OBVIOUS
  <2>1. m \in 0..N /\ m # 0 /\ m - 1 = k /\ m \in 1..N /\ k <= N
    BY <1>0
  <2> HIDE DEF m
  <2>2. Len(f[k]) = SharesUpTo(k)
    BY <1>2, <2>1
  <2>3. Len(f[m]) = Len(f[m - 1]) + lots[m].quantity
    BY <2>1, SpreadTypes
  <2>4. SharesUpTo(m) = SharesUpTo(m - 1) + lots[m].quantity
    BY <2>1, SharesAddable
  <2> QED BY <2>1, <2>2, <2>3, <2>4
<1>3. Nat \subseteq T
  <2> HIDE DEF T
  <2> QED BY <1>1, <1>2, SetInduction
<1> QED BY <1>3

\* The shares of the first n lots come first.
LEMMA SpreadPrefix ==
  ASSUME NEW list \in Seq(Lot), NEW f, Spreads(f, list), NEW n \in 0..Len(list)
  PROVE  /\ Len(f[n]) <= Len(f[Len(list)])
         /\ \A j \in 1..Len(f[n]) : f[Len(list)][j] = f[n][j]
<1> DEFINE N == Len(list)
           T == {k \in Nat : n + k <= N =>
                   Len(f[n]) <= Len(f[n + k]) /\ \A j \in 1..Len(f[n]) : f[n + k][j] = f[n][j]}
<1>0. N \in Nat /\ n \in Nat /\ Len(f[n]) \in Nat
  BY SpreadTypes
<1>1. 0 \in T
  BY <1>0
<1>2. ASSUME NEW k \in Nat, k \in T PROVE k + 1 \in T
  <2> DEFINE m == n + (k + 1)
  <2> SUFFICES ASSUME m <= N
               PROVE  Len(f[n]) <= Len(f[m]) /\ \A j \in 1..Len(f[n]) : f[m][j] = f[n][j]
    OBVIOUS
  <2>1. m \in 1..N /\ m - 1 = n + k /\ n + k <= N /\ n + k \in 0..N
    BY <1>0
  <2> HIDE DEF m
  <2>2. Len(f[n]) <= Len(f[n + k]) /\ \A j \in 1..Len(f[n]) : f[n + k][j] = f[n][j]
    BY <1>2, <2>1
  <2>3. /\ Len(f[m]) = Len(f[m - 1]) + list[m].quantity /\ list[m].quantity \in Nat
        /\ Len(f[n + k]) \in Nat /\ \A j \in 1..Len(f[m - 1]) : f[m][j] = f[m - 1][j]
    BY <2>1, SpreadTypes
  <2> QED BY <1>0, <2>1, <2>2, <2>3
<1>3. N - n \in T /\ N - n \in Nat /\ n + (N - n) = N
  <2>1. Nat \subseteq T
    <3> HIDE DEF T
    <3> QED BY <1>1, <1>2, SetInduction
  <2> QED BY <1>0, <2>1
<1> QED BY <1>0, <1>3

\* A list that agrees with the end of another is a subsequence of it.
LEMMA Suffix ==
  ASSUME NEW s \in Seq(Nat), NEW t \in Seq(Nat), NEW d \in Nat, d <= Len(t),
         Len(s) = Len(t) - d, \A j \in 1..(Len(t) - d) : s[j] = t[d + j]
  PROVE  s = SubSeq(t, d + 1, Len(t))
<1> DEFINE u == SubSeq(t, d + 1, Len(t))
<1>1. d + 1 \in Int /\ Len(t) \in Int /\ Len(t) - (d + 1) + 1 = Len(t) - d
  OBVIOUS
<1>2. \A i \in (d + 1)..Len(t) : t[i] \in Nat
  <2>1. \A i \in (d + 1)..Len(t) : i \in 1..Len(t)
    OBVIOUS
  <2> QED BY <2>1, ElementOfSeq
<1>3. /\ u \in Seq(Nat) /\ Len(u) = IF d + 1 <= Len(t) THEN Len(t) - (d + 1) + 1 ELSE 0
      /\ \A i \in 1..(Len(t) - (d + 1) + 1) : u[i] = t[d + 1 + i - 1]
  BY <1>1, <1>2, SubSeqProperties
<1> HIDE DEF u
<1>4. Len(u) = Len(s) /\ \A i \in 1..Len(s) : s[i] = u[i]
  <2>1. Len(u) = Len(s)
    BY <1>1, <1>3
  <2>2. ASSUME NEW i \in 1..Len(s) PROVE s[i] = u[i]
    <3>1. i \in 1..(Len(t) - (d + 1) + 1) /\ d + 1 + i - 1 = d + i
      BY <1>1
    <3> QED BY <1>3, <3>1
  <2> QED BY <2>1, <2>2
<1> QED BY <1>3, <1>4, SeqEqual DEF u

\* What is left of the shares is what follows the closed ones.
LEMMA LeftSpread ==
  ASSUME lots \in Seq(Lot), NEW side \in Side, NEW quantity \in Nat,
         \A i \in 1..Len(lots) : lots[i].side # side
  PROVE  Spread(Left(side, quantity))
           = SubSeq(Shares, ClosedUpTo(Len(lots), side, quantity) + 1, Len(Shares))
<1> DEFINE N == Len(lots)
           left == Left(side, quantity)
           B(n) == SharesUpTo(n)
           D(n) == ClosedUpTo(n, side, quantity)
<1>0. N \in Nat /\ N \in 0..Len(lots)
  OBVIOUS
<1>1. /\ left \in Seq(Lot) /\ Len(left) = N
      /\ \A i \in 1..N : /\ left[i].price = lots[i].price
                         /\ left[i].quantity = lots[i].quantity - Closed(i, side, quantity)
  BY LeftType
<1> HIDE DEF left
<1>2. PICK f : Spreads(f, lots) /\ Spread(lots) = f[N]
  BY SpreadExists
<1>3. PICK g : Spreads(g, left) /\ Spread(left) = g[N]
  BY <1>1, SpreadExists
<1>4. \A n \in 0..N : /\ Len(f[n]) = B(n) /\ B(n) \in Nat /\ D(n) \in Nat
                      /\ D(n) = IF B(n) <= quantity THEN B(n) ELSE quantity
  BY <1>2, SpreadLength, SharesAddable, ClosedAddable, ClosesMost
<1> HIDE DEF B, D
<1> DEFINE T == {n \in Nat : n <= N =>
                   /\ Len(g[n]) = B(n) - D(n)
                   /\ \A j \in 1..(B(n) - D(n)) : g[n][j] = f[n][D(n) + j]}
<1>5. 0 \in T
  <2>1. f[0] = <<>> /\ g[0] = <<>> /\ Len(<<>>) = 0 /\ 0 \in 0..N
    BY <1>0, <1>2, <1>3 DEF Spreads
  <2>2. B(0) = 0 /\ D(0) = 0
    BY <1>4, <2>1
  <2> QED BY <2>1, <2>2
<1>6. ASSUME NEW n \in Nat, n \in T PROVE n + 1 \in T
  <2> DEFINE m == n + 1
  <2> SUFFICES ASSUME m <= N
               PROVE  /\ Len(g[m]) = B(m) - D(m)
                      /\ \A j \in 1..(B(m) - D(m)) : g[m][j] = f[m][D(m) + j]
    OBVIOUS
  <2>1. m \in 1..N /\ m - 1 = n /\ n <= N /\ n \in 0..N /\ m \in 0..N /\ m # 0
    BY <1>0
  <2> HIDE DEF m
  <2> DEFINE b == B(n)
             d == D(n)
             q == lots[m].quantity
             c == Closed(m, side, quantity)
             p == lots[m].price
  <2>2. /\ Len(g[n]) = b - d
        /\ \A j \in 1..(b - d) : g[n][j] = f[n][d + j]
    BY <1>6, <2>1
  <2>3. /\ b \in Nat /\ d \in Nat /\ d <= b /\ (d < b => d = quantity)
        /\ Len(f[n]) = b
    BY <1>4, <2>1
  <2>4. /\ q \in Nat /\ c \in Nat /\ c <= q
        /\ c = IF quantity - b <= 0 THEN 0 ELSE IF quantity - b <= q THEN quantity - b ELSE q
    BY <2>1, ClosedType DEF B
  <2>5. B(m) = b + q /\ D(m) = d + c
    BY <2>1, SharesAddable, ClosedAddable DEF B, D
  <2>6. /\ \A j \in 1..b : f[m][j] = f[n][j]
        /\ \A j \in 1..q : f[m][b + j] = p
    <3>1. /\ \A j \in 1..Len(f[m - 1]) : f[m][j] = f[m - 1][j]
          /\ \A j \in 1..lots[m].quantity : f[m][Len(f[m - 1]) + j] = lots[m].price
      BY <1>2, <2>1, SpreadTypes
    <3> HIDE DEF b
    <3> QED BY <2>1, <2>3, <3>1
  <2>7. left[m].quantity = q - c /\ left[m].price = p
    BY <1>1, <2>1
  <2>8. /\ Len(g[m]) = (b - d) + (q - c)
        /\ \A j \in 1..(b - d) : g[m][j] = g[n][j]
        /\ \A j \in 1..(q - c) : g[m][(b - d) + j] = p
    <3>1. /\ Len(g[m]) = Len(g[m - 1]) + left[m].quantity
          /\ \A j \in 1..Len(g[m - 1]) : g[m][j] = g[m - 1][j]
          /\ \A j \in 1..left[m].quantity : g[m][Len(g[m - 1]) + j] = left[m].price
      BY <1>1, <1>3, <2>1, SpreadTypes
    <3> HIDE DEF b, d, q, c, p
    <3> QED BY <2>1, <2>2, <2>7, <3>1
  <2> HIDE DEF b, d, q, c, p
  <2>9. B(m) - D(m) = (b - d) + (q - c)
    BY <2>3, <2>4, <2>5
  <2>10. ASSUME NEW j \in 1..((b - d) + (q - c)) PROVE g[m][j] = f[m][(d + c) + j]
    <3>1. CASE j \in 1..(b - d)
      <4>1. c = 0 /\ d + j \in 1..b /\ (d + c) + j = d + j
        BY <2>3, <2>4, <3>1
      <4>2. g[m][j] = f[n][d + j] /\ f[m][d + j] = f[n][d + j]
        BY <2>2, <2>6, <2>8, <3>1, <4>1
      <4> QED BY <4>1, <4>2
    <3>2. CASE j \notin 1..(b - d)
      <4> DEFINE k == j - (b - d)
      <4>1. k \in 1..(q - c) /\ c + k \in 1..q /\ j = (b - d) + k /\ (d + c) + j = b + (c + k)
        BY <2>3, <2>4, <3>2
      <4> HIDE DEF k
      <4> QED BY <2>6, <2>8, <4>1
    <3> QED BY <3>1, <3>2
  <2> QED BY <2>5, <2>8, <2>9, <2>10
<1>7. /\ Len(g[N]) = B(N) - D(N)
      /\ \A j \in 1..(B(N) - D(N)) : g[N][j] = f[N][D(N) + j]
  <2>1. Nat \subseteq T
    <3> HIDE DEF T
    <3> QED BY <1>5, <1>6, SetInduction
  <2> QED BY <1>0, <2>1
<1>8. Shares = f[N]
  BY <1>2 DEF Shares, Spread, Block
<1>9. g[N] \in Seq(Nat) /\ f[N] \in Seq(Nat)
  BY <1>0, <1>1, <1>2, <1>3, SpreadTypes
<1>10. g[N] = SubSeq(f[N], D(N) + 1, Len(f[N]))
  <2> DEFINE s == g[N]
             t == f[N]
             d == D(N)
  <2>1. /\ s \in Seq(Nat) /\ t \in Seq(Nat) /\ d \in Nat /\ d <= Len(t)
        /\ Len(s) = Len(t) - d /\ \A j \in 1..(Len(t) - d) : s[j] = t[d + j]
    BY <1>0, <1>4, <1>7, <1>9
  <2> HIDE DEF s, t, d
  <2>2. s = SubSeq(t, d + 1, Len(t))
    BY <2>1, Suffix
  <2> QED BY <2>2 DEF s, t, d
<1> QED BY <1>3, <1>8, <1>10 DEF left, D

----------------------------------------------------------------------------
(* What closing them realizes *)

\* The sum of the first n values; a list of M integers; c of them, after d, that are x.
Running(w, n) == SumFunction([j \in 1..n |-> w[j]])

Integers(w, M) == M \in Nat /\ \A j \in 1..M : w[j] \in Int
Level(w, d, c, x) == \A k \in 1..c : w[d + k] = x

\* The first d values of a list, and c more that are all x.
LEMMA SumGrows ==
  ASSUME NEW M, NEW w, Integers(w, M), NEW d \in Nat, NEW c \in Nat, NEW e, e = d + c, e <= M,
         NEW x \in Int, Level(w, d, c, x)
  PROVE  Running(w, e) = Running(w, d) + c * x
<1> DEFINE S(n) == Running(w, n)
           T == {k \in Nat : k <= c => S(d + k) = S(d) + k * x}
<1>0. M \in Nat /\ (\A j \in 1..M : w[j] \in Int) /\ \A k \in 1..c : w[d + k] = x
  BY DEF Integers, Level
<1>1. ASSUME NEW n \in Nat, n <= M
      PROVE  Addable([j \in 1..n |-> w[j]], 1..n) /\ S(n) \in Int
  <2> DEFINE f == [j \in 1..n |-> w[j]]
             D == 1..n
  <2>1. \A j \in D : j \in 1..M
    BY <1>0, <1>1
  <2>2. IsFiniteSet(D)
    BY FS_Interval
  <2>3. Addable(f, D)
    BY <1>0, <2>1, <2>2 DEF Addable
  <2> HIDE DEF f, D
  <2>4. SumFunction(f) \in Int
    BY <2>3, SumInt
  <2> QED BY <2>3, <2>4 DEF f, D, Running
<1>2. ASSUME NEW n \in Nat, n + 1 <= M PROVE S(n + 1) = S(n) + w[n + 1]
  <2> DEFINE m == n + 1
             f == [j \in 1..m |-> w[j]]
             g == [j \in 1..(m - 1) |-> w[j]]
  <2>1. m \in Nat /\ m # 0 /\ m - 1 = n /\ m - 1 \in Nat /\ m <= M /\ m - 1 <= M
    BY <1>0, <1>2
  <2>2. Addable(f, 1..m) /\ Addable(g, 1..(m - 1))
    <3> HIDE DEF m
    <3> QED BY <1>1, <2>1
  <2>3. f[m] = w[m] /\ \A j \in 1..(m - 1) : g[j] = f[j]
    OBVIOUS
  <2>4. S(m) = SumFunction(f) /\ S(m - 1) = SumFunction(g)
    BY DEF Running
  <2> HIDE DEF m, f, g, S
  <2>5. SumFunction(f) = SumFunction(g) + f[m]
    BY <2>1, <2>2, <2>3, SumLast
  <2>6. S(m) = S(n) + w[m]
    BY <2>1, <2>3, <2>4, <2>5
  <2> QED BY <2>6 DEF m
<1>3. S(d) \in Int /\ \A k \in Nat : k <= c => d + k \in Nat /\ d + k <= M
  <2>1. d <= M /\ \A k \in Nat : k <= c => d + k \in Nat /\ d + k <= M
    BY <1>0
  <2> QED BY <1>1, <2>1
<1> HIDE DEF S
<1>4. 0 \in T
  <2>1. d + 0 = d /\ S(d) + 0 * x = S(d)
    BY <1>3
  <2> QED BY <2>1
<1>5. ASSUME NEW k \in Nat, k \in T PROVE k + 1 \in T
  <2> SUFFICES ASSUME k + 1 <= c PROVE S(d + (k + 1)) = S(d) + (k + 1) * x
    OBVIOUS
  <2>1. d + k \in Nat /\ (d + k) + 1 <= M /\ d + (k + 1) = (d + k) + 1 /\ k + 1 \in 1..c /\ k <= c
    BY <1>0
  <2>2. S(d + k) = S(d) + k * x /\ w[d + (k + 1)] = x
    BY <1>0, <1>5, <2>1
  <2>3. S(d + (k + 1)) = S(d + k) + w[d + (k + 1)]
    BY <1>2, <2>1
  <2>4. (k + 1) * x = k * x + x /\ k * x \in Int
    OBVIOUS
  <2> QED BY <1>3, <2>2, <2>3, <2>4
<1>6. c \in T
  <2> HIDE DEF T
  <2> QED BY <1>4, <1>5, SetInduction
<1> QED BY <1>6 DEF S

Gain(side, price4, opened) ==
  IF side = "Sell" THEN price_nanos(price4) - opened ELSE opened - price_nanos(price4)

LEMMA PiecesAddable ==
  ASSUME lots \in Seq(Lot), NEW side \in Side, NEW quantity \in Nat, NEW price4 \in Price,
         NEW n \in 0..Len(lots)
  PROVE  /\ Addable([i \in 1..n |-> Piece(i, side, quantity, price4)], 1..n)
         /\ RealizedDelta(n, side, quantity, price4) \in Int
         /\ n # 0 => RealizedDelta(n, side, quantity, price4)
                       = RealizedDelta(n - 1, side, quantity, price4)
                         + Closed(n, side, quantity) * Gain(side, price4, lots[n].price)
<1> DEFINE P(i) == Piece(i, side, quantity, price4)
           R(m) == RealizedDelta(m, side, quantity, price4)
<1>0. Len(lots) \in Nat /\ n \in Nat
  OBVIOUS
<1>1. ASSUME NEW i \in 1..Len(lots)
      PROVE  P(i) \in Int /\ P(i) = Closed(i, side, quantity) * Gain(side, price4, lots[i].price)
  <2>1. lots[i] \in Lot
    BY ElementOfSeq
  <2>2. lots[i].price \in Int /\ price_nanos(price4) \in Int /\ Closed(i, side, quantity) \in Int
    <3>1. lots[i].price \in Int
      <4>1. lots[i].price \in Nat
        BY <2>1 DEF Lot
      <4> QED BY ONLY <4>1
    <3>2. price_nanos(price4) \in Nat
      BY NanosType
    <3>3. Closed(i, side, quantity) \in Nat
      BY <2>1, ClosedType
    <3> QED BY ONLY <3>1, <3>2, <3>3
  <2>3. Gain(side, price4, lots[i].price) \in Int
    BY <2>2 DEF Gain
  <2>4. P(i) = Closed(i, side, quantity) * Gain(side, price4, lots[i].price)
    <3>1. PerShare(side, price4, lots[i]) = Gain(side, price4, lots[i].price)
      BY DEF PerShare, Gain
    <3> QED BY <3>1 DEF Piece
  <2> QED BY <2>2, <2>3, <2>4
<1>2. ASSUME NEW m \in 0..Len(lots)
      PROVE  Addable([i \in 1..m |-> P(i)], 1..m) /\ R(m) \in Int
  <2> DEFINE f == [i \in 1..m |-> P(i)]
             D == 1..m
  <2>1. \A i \in D : i \in 1..Len(lots)
    BY <1>0
  <2>2. IsFiniteSet(D)
    BY <1>0, FS_Interval
  <2>3. Addable(f, D)
    <3>1. \A i \in D : P(i) \in Int
      BY <1>1, <2>1
    <3> HIDE DEF P
    <3> QED BY <2>2, <3>1 DEF Addable
  <2> HIDE DEF f, D
  <2>4. SumFunction(f) \in Int
    BY <2>3, SumInt
  <2> QED BY <2>3, <2>4 DEF f, D, RealizedDelta
<1>3. ASSUME n # 0 PROVE R(n) = R(n - 1) + P(n)
  <2> DEFINE f == [i \in 1..n |-> P(i)]
             g == [i \in 1..(n - 1) |-> P(i)]
  <2> HIDE DEF P
  <2>1. n - 1 \in 0..Len(lots)
    BY <1>0, <1>3
  <2>2. Addable(f, 1..n) /\ Addable(g, 1..(n - 1))
    BY <1>2, <2>1
  <2>3. f[n] = P(n) /\ \A j \in 1..(n - 1) : g[j] = f[j]
    BY <1>0, <1>3
  <2>4. R(n) = SumFunction(f) /\ R(n - 1) = SumFunction(g)
    BY DEF RealizedDelta, P
  <2> HIDE DEF f, g, R
  <2> QED BY <1>0, <1>3, <2>2, <2>3, <2>4, SumLast
<1>4. n # 0 => n \in 1..Len(lots)
  BY <1>0
<1> QED BY <1>1, <1>2, <1>3, <1>4

\* Share by share, the closed shares gain what the pieces of the lots do.
LEMMA ClosedGains ==
  ASSUME lots \in Seq(Lot), NEW side \in Side, NEW quantity \in Nat, NEW price4 \in Price,
         \A i \in 1..Len(lots) : lots[i].side # side
  PROVE  SumFunction([share \in 1..ClosedUpTo(Len(lots), side, quantity) |->
                        Gain(side, price4, Shares[share])])
           = RealizedDelta(Len(lots), side, quantity, price4)
<1> DEFINE N == Len(lots)
           B(n) == SharesUpTo(n)
           D(n) == ClosedUpTo(n, side, quantity)
           R(n) == RealizedDelta(n, side, quantity, price4)
           G(opened) == Gain(side, price4, opened)
           M == Len(Shares)
           w == [share \in 1..M |-> G(Shares[share])]
           S(n) == Running(w, n)
<1>0. N \in Nat /\ N \in 0..Len(lots) /\ price_nanos(price4) \in Int
  BY NanosType
<1>1. PICK f : Spreads(f, lots) /\ Spread(lots) = f[N]
  BY SpreadExists
<1>2. Shares = f[N] /\ Shares \in Seq(Nat) /\ M \in Nat
  <2>1. Shares = f[N]
    BY <1>1 DEF Shares, Spread, Block
  <2>2. f[N] \in Seq(Nat)
    BY <1>0, <1>1, SpreadTypes
  <2> QED BY <2>1, <2>2
<1>3. \A n \in 0..N : /\ Len(f[n]) = B(n) /\ B(n) \in Nat /\ D(n) \in Nat
                      /\ D(n) = IF B(n) <= quantity THEN B(n) ELSE quantity
                      /\ R(n) \in Int
  BY <1>1, SpreadLength, SharesAddable, ClosedAddable, ClosesMost, PiecesAddable
<1>4. \A opened \in Nat : G(opened) \in Int
  BY <1>0 DEF Gain
<1> HIDE DEF B, D, R, G
<1>5. \A j \in 1..M : w[j] \in Int
  <2>1. \A j \in 1..M : Shares[j] \in Nat
    BY <1>2, ElementOfSeq
  <2> QED BY <1>4, <2>1
<1>6. \A n \in 0..N : B(n) <= M /\ \A j \in 1..B(n) : Shares[j] = f[n][j]
  <2> TAKE n \in 0..N
  <2>1. Len(f[n]) <= Len(f[N]) /\ \A j \in 1..Len(f[n]) : f[N][j] = f[n][j]
    BY <1>1, SpreadPrefix
  <2> QED BY <1>2, <1>3, <2>1
<1> DEFINE T == {n \in Nat : n <= N => S(D(n)) = R(n)}
<1> HIDE DEF M, w
<1>7. 0 \in T
  <2>1. B(0) = 0
    <3>1. DOMAIN [j \in 1..0 |-> lots[j].quantity] = {}
      OBVIOUS
    <3> QED BY <3>1, SumEmpty DEF B, SharesUpTo
  <2>2. D(0) = 0
    BY <1>0, <1>3, <2>1
  <2>3. R(0) = 0 /\ S(0) = 0
    <3>1. DOMAIN [i \in 1..0 |-> Piece(i, side, quantity, price4)] = {} /\ DOMAIN [j \in 1..0 |-> w[j]] = {}
      OBVIOUS
    <3> QED BY <3>1, SumEmpty DEF R, RealizedDelta, Running
  <2> HIDE DEF S
  <2> QED BY <2>2, <2>3
<1>8. ASSUME NEW n \in Nat, n \in T PROVE n + 1 \in T
  <2> DEFINE m == n + 1
  <2> SUFFICES ASSUME m <= N PROVE S(D(m)) = R(m)
    OBVIOUS
  <2>1. m \in 1..N /\ m - 1 = n /\ n <= N /\ n \in 0..N /\ m \in 0..N /\ m # 0
    BY <1>0
  <2> HIDE DEF m
  <2> DEFINE b == B(n)
             d == D(n)
             q == lots[m].quantity
             c == Closed(m, side, quantity)
             x == G(lots[m].price)
  <2>2. S(d) = R(n)
    BY <1>8, <2>1
  <2>3. /\ b \in Nat /\ d \in Nat /\ (d < b => d = quantity) /\ d <= b
    BY <1>3, <2>1
  <2>4. /\ q \in Nat /\ c \in Nat /\ c <= q
        /\ c = IF quantity - b <= 0 THEN 0 ELSE IF quantity - b <= q THEN quantity - b ELSE q
    BY <2>1, ClosedType DEF B
  <2>5. B(m) = b + q /\ D(m) = d + c
    BY <2>1, SharesAddable, ClosedAddable DEF B, D
  <2>6. R(m) = R(n) + c * x
    BY <2>1, PiecesAddable DEF R, G
  <2>7. x \in Int
    <3>1. lots[m] \in Lot
      BY <2>1, ElementOfSeq
    <3> QED BY <1>4, <3>1 DEF Lot
  <2>8. \A j \in 1..q : f[m][b + j] = lots[m].price
    <3>1. \A j \in 1..lots[m].quantity : f[m][Len(f[m - 1]) + j] = lots[m].price
      BY <1>1, <2>1, SpreadTypes
    <3>2. Len(f[m - 1]) = b
      BY <1>3, <2>1
    <3> HIDE DEF b
    <3> QED BY <3>1, <3>2
  <2>9. B(m) <= M /\ \A j \in 1..B(m) : Shares[j] = f[m][j]
    BY <1>6, <2>1
  <2> HIDE DEF b, d, q, c
  <2>10. d + c <= M
    BY <1>2, <2>3, <2>4, <2>5, <2>9
  <2>11. ASSUME NEW k \in 1..c PROVE w[d + k] = x
    <3>1. d = b /\ k \in 1..q /\ b + k \in 1..(b + q)
      BY <2>3, <2>4
    <3>2. b + k \in 1..B(m) /\ b + k \in 1..M
      BY <1>2, <2>3, <2>4, <2>5, <2>9, <3>1
    <3>3. Shares[b + k] = lots[m].price
      BY <2>8, <2>9, <3>1, <3>2
    <3> QED BY <3>1, <3>2, <3>3 DEF w
  <2> HIDE DEF x
  <2>12. S(d + c) = S(d) + c * x
    <3>1. Integers(w, M) /\ d \in Nat /\ c \in Nat
      BY <1>2, <1>5, <2>3, <2>4 DEF Integers
    <3>2. Level(w, d, c, x)
      BY <2>11 DEF Level
    <3> QED BY ONLY <2>7, <2>10, <3>1, <3>2, SumGrows
  <2> HIDE DEF S
  <2> QED BY <2>2, <2>5, <2>6, <2>12
<1>9. S(D(N)) = R(N)
  <2>1. Nat \subseteq T
    <3> HIDE DEF T
    <3> QED BY <1>7, <1>8, SetInduction
  <2> QED BY <1>0, <2>1
<1>10. [j \in 1..D(N) |-> w[j]] = [share \in 1..D(N) |-> G(Shares[share])]
  <2>1. D(N) \in Nat /\ D(N) <= M
    BY <1>0, <1>2, <1>3, <1>6
  <2>2. \A j \in 1..D(N) : j \in 1..M
    BY <1>2, <2>1
  <2> QED BY <2>2 DEF w
<1> QED BY <1>9, <1>10 DEF D, R, G, Running

----------------------------------------------------------------------------
(* The lots implement shares closed one by one *)

LEMMA SharesAre ==
  ASSUME lots \in Seq(Lot)
  PROVE  /\ Shares = Spread(lots) /\ Shares \in Seq(Nat)
         /\ Len(Shares) = SharesUpTo(Len(lots))
<1>1. Shares = Spread(lots)
  BY DEF Shares, Spread, Block
<1>2. PICK f : Spreads(f, lots) /\ Spread(lots) = f[Len(lots)]
  BY SpreadExists
<1>3. Len(lots) \in 0..Len(lots)
  OBVIOUS
<1> QED BY <1>1, <1>2, <1>3, SpreadType, SpreadLength

\* The shares that FifoLots closes, and what is left of them.
FifoClosed(side, quantity) ==
  IF side = Position THEN 0
  ELSE IF quantity < Len(Shares) THEN quantity ELSE Len(Shares)
FifoLeft(closed) == SubSeq(Shares, closed + 1, Len(Shares))
FifoGain(side, price4, closed) ==
  SumFunction([share \in 1..closed |-> Gain(side, price4, Shares[share])])

LEMMA SameLot ==
  ASSUME NEW a \in Lot, NEW b \in Lot, a.side = b.side, a.quantity = b.quantity, a.price = b.price
  PROVE  a = b
BY DEF Lot

\* Lot by lot or share by share, as many shares are closed, the same are left and
\* the same is realized.
LEMMA ClosesFifo ==
  ASSUME LedgerInv, NEW side \in Side, NEW quantity \in Nat, NEW price4 \in Price
  PROVE  LET closed == ClosedUpTo(Len(lots), side, quantity)
         IN  /\ closed = FifoClosed(side, quantity)
             /\ Spread(Left(side, quantity)) = FifoLeft(closed)
             /\ RealizedDelta(Len(lots), side, quantity, price4) = FifoGain(side, price4, closed)
<1> DEFINE N == Len(lots)
           closed == ClosedUpTo(N, side, quantity)
           left == Left(side, quantity)
<1>0. lots \in Seq(Lot) /\ OneSided /\ N \in Nat /\ N \in 0..Len(lots) /\ DOMAIN lots = 1..N
  BY LenProperties DEF LedgerInv
<1>1. Shares = Spread(lots) /\ Shares \in Seq(Nat) /\ Len(Shares) = SharesUpTo(N) /\ SharesUpTo(N) \in Nat
  BY <1>0, SharesAre, SharesAddable
<1>2. N # 0 => 1 \in 1..N /\ Position = lots[1].side
  BY <1>0 DEF Position
<1>3. N = 0 => SharesUpTo(N) = 0
  <2>1. DOMAIN [j \in 1..0 |-> lots[j].quantity] = {}
    OBVIOUS
  <2> QED BY <2>1, SumEmpty DEF SharesUpTo
<1>4. CASE \A i \in 1..N : lots[i].side # side
  <2>1. closed = IF SharesUpTo(N) <= quantity THEN SharesUpTo(N) ELSE quantity
    BY <1>0, <1>4, ClosesMost
  <2>2. N # 0 => Position # side
    BY <1>2, <1>4
  <2> HIDE DEF closed, N
  <2>3. closed = FifoClosed(side, quantity)
    BY <1>1, <1>3, <2>1, <2>2 DEF FifoClosed
  <2>4. /\ Spread(left) = FifoLeft(closed)
        /\ RealizedDelta(N, side, quantity, price4) = FifoGain(side, price4, closed)
    BY <1>0, <1>4, LeftSpread, ClosedGains DEF closed, N, FifoLeft, FifoGain
  <2> QED BY <2>3, <2>4 DEF closed, N
<1>5. CASE N # 0 /\ \A i \in 1..N : lots[i].side = side
  <2>1. closed = 0 /\ \A i \in 1..N : Closed(i, side, quantity) = 0
    BY <1>0, <1>5, ClosesNothing
  <2>2. closed = FifoClosed(side, quantity)
    BY <1>2, <1>5, <2>1 DEF FifoClosed
  <2>3. left = lots
    <3>1. /\ left \in Seq(Lot) /\ Len(left) = N
          /\ \A i \in 1..N : /\ lots[i] \in Lot /\ left[i] \in Lot
                             /\ left[i].side = lots[i].side /\ left[i].price = lots[i].price
                             /\ left[i].quantity = lots[i].quantity - Closed(i, side, quantity)
      BY <1>0, LeftType
    <3> HIDE DEF left
    <3>2. ASSUME NEW i \in 1..N PROVE left[i] = lots[i]
      <4>1. left[i].quantity = lots[i].quantity
        BY <2>1, <3>1 DEF Lot
      <4> QED BY <3>1, <4>1, SameLot
    <3> QED BY <1>0, <3>1, <3>2, SeqEqual
  <2>4. Shares = FifoLeft(0)
    <3>1. Shares = SubSeq(Shares, 0 + 1, Len(Shares))
      <4>1. 0 \in Nat /\ 0 <= Len(Shares) /\ Len(Shares) = Len(Shares) - 0
            /\ \A j \in 1..(Len(Shares) - 0) : Shares[j] = Shares[0 + j]
        BY <1>1
      <4> QED BY <1>1, <4>1, Suffix
    <3> QED BY <3>1 DEF FifoLeft
  <2>5. RealizedDelta(N, side, quantity, price4) = 0
    <3> DEFINE e == [i \in 1..N |-> Piece(i, side, quantity, price4)]
    <3>1. Addable(e, 1..N)
      BY <1>0, PiecesAddable
    <3>2. ASSUME NEW i \in 1..N PROVE e[i] = 0
      <4>1. lots[i] \in Lot
        BY <1>0, ElementOfSeq
      <4>2. lots[i].price \in Nat /\ price_nanos(price4) \in Nat
        BY <4>1, NanosType DEF Lot
      <4>3. PerShare(side, price4, lots[i]) \in Int
        BY <4>2 DEF PerShare
      <4>4. Piece(i, side, quantity, price4) = 0 * PerShare(side, price4, lots[i])
        BY <2>1 DEF Piece
      <4> QED BY <4>3, <4>4
    <3> HIDE DEF e
    <3>3. SumFunction(e) = 0
      BY <3>1, <3>2, SumZero
    <3> QED BY <3>3 DEF e, RealizedDelta
  <2>6. FifoGain(side, price4, 0) = 0
    <3>1. DOMAIN [share \in 1..0 |-> Gain(side, price4, Shares[share])] = {}
      OBVIOUS
    <3> QED BY <3>1, SumEmpty DEF FifoGain
  <2> HIDE DEF closed, left, N
  <2> QED BY <1>1, <2>1, <2>2, <2>3, <2>4, <2>5, <2>6 DEF closed, left, N
<1>6. (\A i \in 1..N : lots[i].side # side) \/ (N # 0 /\ \A i \in 1..N : lots[i].side = side)
  BY <1>0 DEF OneSided
<1> HIDE DEF closed, left
<1> QED BY <1>4, <1>5, <1>6 DEF closed, left

\* The shares after a fill: those left, and the ones that it opens.
LEMMA KeptShares ==
  ASSUME LedgerInv, NEW side \in Side, NEW quantity \in Nat, NEW price4 \in Price
  PROVE  LET all == All(side, quantity, price4)
         IN  Spread(SelectAt(all, Holding(all)))
               = Spread(Left(side, quantity))
                 \o [share \in 1..(quantity - ClosedUpTo(Len(lots), side, quantity))
                       |-> price_nanos(price4)]
<1> DEFINE all == All(side, quantity, price4)
           left == Left(side, quantity)
           lot == NewLot(side, quantity, price4)
<1>0. lots \in Seq(Lot) /\ OneSided
  BY DEF LedgerInv
<1>1. all = Append(left, lot) /\ all \in Seq(Lot) /\ left \in Seq(Lot) /\ lot \in Lot
  BY <1>0, AllType, LeftType, NewLotType
<1>2. Block(lot) = [share \in 1..(quantity - ClosedUpTo(Len(lots), side, quantity))
                      |-> price_nanos(price4)]
  BY <1>0, OpenedIs DEF Block, NewLot
<1> HIDE DEF all, left, lot
<1>3. \A i \in 1..Len(all) : i \notin Holding(all) => all[i].quantity = 0
  <2>1. DOMAIN all = 1..Len(all)
    BY <1>1, LenProperties
  <2> QED BY <2>1 DEF Holding
<1>4. Spread(SelectAt(all, Holding(all))) = Spread(all)
  BY <1>1, <1>3, SpreadSelect
<1>5. Spread(all) = Spread(left) \o Block(lot)
  BY <1>1, SpreadAppend
<1> QED BY <1>2, <1>4, <1>5 DEF all, left

\* The side the lots are on after a fill.
LEMMA KeptPosition ==
  ASSUME LedgerInv, NEW side \in Side, NEW quantity \in Nat, NEW price4 \in Price,
         quantity <= kMaxInventory
  PROVE  LET all == All(side, quantity, price4)
             kept == SelectAt(all, Holding(all))
         IN  /\ kept \in Seq(Lot) /\ (kept = <<>> <=> Spread(kept) = <<>>)
             /\ kept # <<>> => kept[1].side
                  = IF Spread(Left(side, quantity)) = <<>> THEN side ELSE Position
<1> DEFINE all == All(side, quantity, price4)
           left == Left(side, quantity)
           held == Holding(all)
           kept == SelectAt(all, held)
           N == Len(lots)
<1>0. lots \in Seq(Lot) /\ OneSided /\ N \in Nat /\ DOMAIN lots = 1..N
  BY LenProperties DEF LedgerInv
<1>1. /\ all \in Seq(Lot) /\ Len(all) = N + 1
      /\ \A i \in 1..N : all[i] = left[i]
      /\ all[N + 1] = NewLot(side, quantity, price4)
  BY <1>0, AllType
<1>2. /\ left \in Seq(Lot) /\ Len(left) = N
      /\ \A i \in 1..N : /\ left[i].side = lots[i].side /\ left[i] \in Lot
                         /\ left[i].quantity = lots[i].quantity - Closed(i, side, quantity)
                         /\ lots[i] \in Lot
  BY <1>0, LeftType
<1>3. /\ kept \in Seq(Lot)
      /\ \A i \in 1..Len(kept) : kept[i] \in
           [side : Side, quantity : 1..kMaxInventory + 1, price : {price_nanos(p) : p \in Price}]
  BY KeptLots
<1>4. NewLot(side, quantity, price4).side = side
      /\ NewLot(side, quantity, price4).quantity = Opened(side, quantity)
  BY DEF NewLot
<1> HIDE DEF all, left
<1>5. /\ \A j \in 1..Len(kept) : \E i \in 1..(N + 1) : i \in held /\ kept[j] = all[i]
      /\ \A i \in held : all[i].quantity # 0
  <2>1. \A i \in held : all[i].quantity # 0
    BY DEF Holding
  <2> HIDE DEF held
  <2> QED BY <1>1, <2>1, SelectProperties
<1> HIDE DEF kept, held
<1>6. kept = <<>> <=> Spread(kept) = <<>>
  <2>1. kept = <<>> <=> Len(kept) = 0
    BY <1>3
  <2>2. Len(kept) \in Nat /\ \A i \in 1..Len(kept) : kept[i].quantity # 0
    BY <1>3, LedgerAssumption
  <2>3. Spread(kept) = <<>> <=> \A i \in 1..Len(kept) : kept[i].quantity = 0
    BY <1>3, SpreadIsEmpty
  <2> QED BY <2>1, <2>2, <2>3
<1>7. Spread(left) = <<>> <=> \A i \in 1..N : left[i].quantity = 0
  BY <1>2, SpreadIsEmpty
<1>8. ASSUME kept # <<>>
      PROVE  kept[1].side = IF Spread(left) = <<>> THEN side ELSE Position
  <2>1. 1 \in 1..Len(kept)
    BY <1>3, <1>8
  <2>2. PICK i \in 1..(N + 1) : i \in held /\ kept[1] = all[i] /\ all[i].quantity # 0
    BY <1>5, <2>1
  <2>3. N # 0 => 1 \in 1..N /\ Position = lots[1].side
    BY <1>0 DEF Position
  <2>4. CASE i \in 1..N
    <3>1. Spread(left) # <<>>
      BY <1>1, <1>7, <2>2, <2>4
    <3>2. kept[1].side = lots[i].side
      BY <1>1, <1>2, <2>2, <2>4
    <3>3. lots[i].side = lots[1].side /\ Position = lots[1].side
      BY <1>0, <2>3, <2>4 DEF OneSided
    <3> QED BY <3>1, <3>2, <3>3
  <2>5. CASE i = N + 1
    <3>1. kept[1].side = side /\ Opened(side, quantity) # 0
      BY <1>1, <1>4, <2>2, <2>5
    <3>2. ASSUME Spread(left) # <<>> PROVE Position = side
      <4>1. PICK k \in 1..N : left[k].quantity # 0
        BY <1>7, <3>2
      <4>2. lots[k].side # side => Closed(k, side, quantity) = lots[k].quantity
        BY <1>0, <3>1, OpenedIs
      <4>3. lots[k].quantity \in Nat /\ left[k].quantity = lots[k].quantity - Closed(k, side, quantity)
        BY <1>2 DEF Lot
      <4>4. lots[k].side = side
        BY <4>1, <4>2, <4>3
      <4>5. lots[k].side = lots[1].side /\ Position = lots[1].side
        BY <1>0, <2>3 DEF OneSided
      <4> QED BY <4>4, <4>5
    <3> QED BY <3>1, <3>2
  <2> QED BY <1>0, <2>4, <2>5
<1> QED BY <1>3, <1>6, <1>8 DEF all, left, held, kept

\* The sum of the functions that FifoLots extends is the one of these modules.
LEMMA SameSum == ASSUME NEW f PROVE Fifo!SumFunction(f) = SumFunction(f)
BY Zenon DEF Fifo!SumFunction, SumFunction, Fifo!SumFunctionOnSet, SumFunctionOnSet,
  Fifo!FoldFunctionOnSet, FoldFunctionOnSet, Fifo!MapThenFoldSet, MapThenFoldSet

LEMMA FillIsFifo ==
  ASSUME LedgerInv, NEW side \in Side, NEW quantity \in Quantity, NEW price4 \in Price,
         apply_fill(side, quantity, price4)
  PROVE  Fifo!Fill(side, quantity, price_nanos(price4)) /\ quantity # 0
<1> DEFINE all == All(side, quantity, price4)
           kept == SelectAt(all, Holding(all))
           closed == ClosedUpTo(Len(lots), side, quantity)
           left == Spread(Left(side, quantity))
           opened == [share \in 1..(quantity - closed) |-> price_nanos(price4)]
<1>1. quantity \in Nat /\ quantity >= 1 /\ quantity <= kMaxInventory
  BY LedgerAssumption DEF apply_fill, Accounted
<1>2. lots' = kept
  BY DEF apply_fill, All, Left, NewLot, Holding
<1>3. realized' = realized + RealizedDelta(Len(lots), side, quantity, price4)
  BY DEF apply_fill
<1>4. /\ closed = FifoClosed(side, quantity)
      /\ left = FifoLeft(closed)
      /\ RealizedDelta(Len(lots), side, quantity, price4) = FifoGain(side, price4, closed)
  BY <1>1, ClosesFifo
<1>5. Spread(kept) = left \o opened
  BY <1>1, KeptShares
<1>6. /\ kept \in Seq(Lot) /\ (kept = <<>> <=> Spread(kept) = <<>>)
      /\ kept # <<>> => kept[1].side = IF left = <<>> THEN side ELSE Position
  BY <1>1, KeptPosition
<1> HIDE DEF kept, closed, left
<1>7. Shares' = Spread(kept)
  BY <1>2 DEF Shares, Spread, Block
<1>8. Position' = IF Shares' = <<>> THEN "Buy" ELSE IF left = <<>> THEN side ELSE Position
  BY <1>2, <1>6, <1>7 DEF Position
<1>9. Shares' = left \o opened
  BY <1>5, <1>7
<1>10. realized' = realized + Fifo!SumFunction(
         [share \in 1..closed |->
            IF side = "Sell" THEN price_nanos(price4) - Shares[share]
            ELSE Shares[share] - price_nanos(price4)])
  BY <1>3, <1>4, SameSum DEF FifoGain, Gain
<1> HIDE DEF opened
<1>11. Fifo!Fill(side, quantity, price_nanos(price4))
  BY <1>4, <1>8, <1>9, <1>10 DEF Fifo!Fill, FifoClosed, FifoLeft, opened
<1> QED BY <1>1, <1>11

\* The FIFO lots of accounting.cpp: fills close the oldest shares first, in whatever
\* parts of lots, realize what those shares gain one by one, and open the rest, on the
\* other side when none is left; a fill that would overflow changes nothing.
THEOREM LedgerImplementsFifoLots == Spec => ImplementsFifoLots
<1>1. ASSUME Init PROVE Fifo!Init
  <2>1. lots = <<>> /\ lots \in Seq(Lot) /\ realized = 0
    BY <1>1 DEF Init
  <2> QED BY <2>1, SharesAre, SpreadOfNone DEF Fifo!Init, Position
<1>2. ASSUME LedgerInv, [Next]_vars PROVE [Fifo!Next]_(Fifo!lots)
  <2>1. CASE UNCHANGED vars
    BY <2>1 DEF vars, Fifo!lots, Shares, Position
  <2>2. ASSUME NEW side \in Side, NEW quantity \in Quantity, NEW price4 \in Price,
               apply_fill(side, quantity, price4)
        PROVE  Fifo!Next
    <3>1. Fifo!Fill(side, quantity, price_nanos(price4)) /\ quantity # 0
      BY <1>2, <2>2, FillIsFifo
    <3> QED BY <3>1 DEF Fifo!Next, Side
  <2>3. ASSUME NEW side \in Side, NEW quantity \in Quantity, NEW price4 \in Price,
               Refuse(side, quantity, price4)
        PROVE  UNCHANGED vars
    BY <2>3 DEF Refuse
  <2> QED BY <1>2, <2>1, <2>2, <2>3 DEF Next
<1> QED BY <1>1, <1>2, LedgerInvariance, PTL DEF Spec, ImplementsFifoLots, Fifo!Spec
=============================================================================

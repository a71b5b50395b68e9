--------------------------- MODULE DailyCloseProofs ---------------------------
(***************************************************************************)
(* The close of a business day, for any sales, attendants, rates, closes   *)
(* and triggers: what a ledger row was computed from, that the row of a day*)
(* that has ended is whole and at the day's rate, and that no rounding pays*)
(* more than was earned.                                                   *)
(***************************************************************************)
EXTENDS DailyClose, SetSums, SequenceTheorems

-----------------------------------------------------------------------------
(* Business days. *)

(* Multiplication keeps the order.                                         *)
LEMMA TimesKeepsOrder ==
    ASSUME NEW p \in Nat, NEW a \in Int, NEW b \in Int, a <= b
    PROVE  p * a <= p * b
<1>1. PICK k \in Nat : b = a + k
  <2>1. b - a \in Nat /\ b = a + (b - a)
    OBVIOUS
  <2> QED BY <2>1
<1>2. p * b = p * a + p * k /\ p * a \in Int /\ p * k \in Nat
  BY <1>1
<1> QED BY <1>2

(* Days do not overlap, and the window of each is not empty.               *)
LEMMA DaysInOrder ==
    ASSUME NEW d \in Int, NEW e \in Int, d < e
    PROVE  DayEnd(d) <= DayStart(e)
<1>1. PerDay \in Nat
  BY ConstantsAssumption
<1>2. d + 1 \in Int /\ d + 1 <= e
  OBVIOUS
<1> QED BY <1>1, <1>2, TimesKeepsOrder DEF DayStart, DayEnd

LEMMA DayTypes ==
    ASSUME NEW d \in Int
    PROVE  DayStart(d) \in Int /\ DayEnd(d) \in Int /\ DayStart(d) < DayEnd(d)
<1>1. PerDay \in Nat \ {0}
  BY ConstantsAssumption
<1> QED BY <1>1 DEF DayStart, DayEnd

(* What division by the length of a day says.                              *)
LEMMA DayDivides ==
    ASSUME NEW t \in Nat
    PROVE  Day(t) \in Nat /\ DayStart(Day(t)) <= t /\ t < DayEnd(Day(t))
<1>1. PerDay \in Nat \ {0}
  BY ConstantsAssumption
<1> QED BY <1>1 DEF Day, DayStart, DayEnd

(* The instants of a day are those of its window, so windows are disjoint. *)
LEMMA WindowIsDay ==
    ASSUME NEW t \in Nat, NEW d \in Int
    PROVE  InWindow(t, d) <=> d = Day(t)
<1> DEFINE today == Day(t)
<1>1. today \in Nat /\ DayStart(today) <= t /\ t < DayEnd(today)
  BY DayDivides
<1> HIDE DEF today
<1>2. /\ DayStart(today) \in Int /\ DayEnd(today) \in Int
      /\ DayStart(d) \in Int /\ DayEnd(d) \in Int
  BY <1>1, DayTypes
<1>3. /\ d < today => DayEnd(d) <= DayStart(today)
      /\ today < d => DayEnd(today) <= DayStart(d)
  BY <1>1, DaysInOrder
<1>4. InWindow(t, d) <=> d = today
  BY <1>1, <1>2, <1>3 DEF InWindow
<1> QED BY <1>4 DEF today

(* A day has ended when its end has come, which is when it is not today.   *)
LEMMA DayHasEnded ==
    ASSUME NEW t \in Nat, NEW d \in Int
    PROVE  d < Day(t) <=> DayEnd(d) <= t
<1> DEFINE today == Day(t)
<1>1. today \in Nat /\ DayStart(today) <= t /\ t < DayEnd(today)
  BY DayDivides
<1> HIDE DEF today
<1>2. /\ DayStart(today) \in Int /\ DayEnd(today) \in Int
      /\ DayStart(d) \in Int /\ DayEnd(d) \in Int /\ DayStart(d) < DayEnd(d)
  BY <1>1, DayTypes
<1>3. /\ d < today => DayEnd(d) <= DayStart(today)
      /\ today < d => DayEnd(today) <= DayStart(d)
  BY <1>1, DaysInOrder
<1>4. d < today <=> DayEnd(d) <= t
  BY <1>1, <1>2, <1>3
<1> QED BY <1>4 DEF today

(* The instants of the model fall on its days.                             *)
LEMMA DayOfInstant ==
    ASSUME NEW t \in Instants
    PROVE  Day(t) \in Days /\ Yesterday(t) \in Days \cup {-1}
<1>1. t \in Nat /\ LastInstant \in Nat /\ t <= LastInstant
  BY ConstantsAssumption DEF Instants
<1>2. Day(t) \in Nat /\ Day(LastInstant) \in Nat
  BY <1>1, DayDivides
<1>3. ~(Day(LastInstant) < Day(t))
  <2>1. LastInstant < DayEnd(Day(LastInstant)) /\ DayEnd(Day(LastInstant)) \in Int
    BY <1>1, <1>2, DayDivides, DayTypes
  <2>2. ~(DayEnd(Day(LastInstant)) <= t)
    BY <1>1, <2>1
  <2> QED BY <1>1, <1>2, <2>2, DayHasEnded
<1> QED BY <1>2, <1>3 DEF Days, Yesterday

-----------------------------------------------------------------------------
(* computeCommission. *)

(* MapThenSumSet is such a sum as SetSums speaks of: of the commissions ...*)
LEMMA CommissionsAreSummed ==
    ASSUME NEW S \in SUBSET Sales, NEW bps, NEW f,
           IsSum(f, [s \in S |-> CommissionForSale(s, bps)], S)
    PROVE  MapThenSumSet(LAMBDA s : CommissionForSale(s, bps), S) = f[S]
<1> DEFINE c == [s \in S |-> CommissionForSale(s, bps)]
           Sums(k) == k = [T \in SUBSET S |-> IF T = {} THEN 0
                              ELSE CommissionForSale(Least(T), bps) + k[T \ {Least(T)}]]
           it == CHOOSE k : Sums(k)
<1>1. IsFiniteSet(S)
  BY ConstantsAssumption, FS_Subset
<1>2. ASSUME NEW k
      PROVE  Sums(k) <=> IsSum(k, c, S)
  <2>1. \A T \in SUBSET S : T # {} => c[Least(T)] = CommissionForSale(Least(T), bps)
    BY LeastIn
  <2> HIDE DEF c
  <2> QED BY <2>1 DEF IsSum
<1>3. MapThenSumSet(LAMBDA s : CommissionForSale(s, bps), S) = it[S]
  BY DEF MapThenSumSet, MapThenFoldSet, Least
<1>4. IsSum(f, c, S)
  OBVIOUS
<1> HIDE DEF c, Sums
<1>5. Sums(it)
  BY <1>2, <1>4
<1>6. it = f
  BY <1>1, <1>2, <1>4, <1>5, SumUnique
<1> QED BY <1>3, <1>6

(* ... and of the totals.                                                  *)
LEMMA TotalsAreSummed ==
    ASSUME NEW S \in SUBSET Sales, NEW f, IsSum(f, Total, S)
    PROVE  MapThenSumSet(LAMBDA s : Total[s], S) = f[S]
<1> DEFINE it == CHOOSE k : IsSum(k, Total, S)
<1>1. IsFiniteSet(S)
  BY ConstantsAssumption, FS_Subset
<1>2. MapThenSumSet(LAMBDA s : Total[s], S) = it[S]
  BY DEF MapThenSumSet, MapThenFoldSet, IsSum, Least
<1>3. IsSum(it, Total, S)
  OBVIOUS
<1> HIDE DEF it
<1>4. it = f
  BY <1>1, <1>3, SumUnique
<1> QED BY <1>2, <1>4

(* What a sale earned, in ten-thousandths of a cent.                       *)
Earned(s, bps) == bps * Total[s]

(* One sale: its commission is floored to the cent.                        *)
LEMMA FlooredPerSale ==
    ASSUME NEW s \in Sales, NEW bps \in Nat
    PROVE  /\ Total[s] \in Nat /\ Earned(s, bps) \in Nat /\ CommissionForSale(s, bps) \in Nat
           /\ CommissionForSale(s, bps) * 10000 <= Earned(s, bps)
           /\ Earned(s, bps) <= CommissionForSale(s, bps) * 10000 + 9999
<1>1. Total[s] \in Nat
  BY ConstantsAssumption
<1>2. \A x, y \in Nat : x * y \in Nat /\ x * y = y * x
  OBVIOUS
<1>3. \A p \in Nat : /\ p \div 10000 \in Nat
                     /\ (p \div 10000) * 10000 <= p /\ p <= (p \div 10000) * 10000 + 9999
  OBVIOUS
<1>4. Total[s] * bps \in Nat /\ Total[s] * bps = bps * Total[s]
  BY <1>1, <1>2
<1> QED BY <1>1, <1>3, <1>4 DEF CommissionForSale, Earned

(* The sales of a row: what is withheld is less than a cent of each.       *)
LEMMA FlooredTogether ==
    ASSUME NEW S \in SUBSET Sales, NEW bps \in Nat,
           NEW f, IsSum(f, [s \in S |-> CommissionForSale(s, bps)], S), NEW g, IsSum(g, Total, S)
    PROVE  \A T \in SUBSET S :
              /\ f[T] \in Nat /\ g[T] \in Nat /\ Cardinality(T) \in Nat
              /\ f[T] * 10000 <= bps * g[T]
              /\ bps * g[T] <= f[T] * 10000 + 9999 * Cardinality(T)
<1> DEFINE c == [s \in S |-> CommissionForSale(s, bps)]
           e(T) == bps * g[T]
           Between(T) == /\ f[T] * 10000 <= e(T)
                         /\ e(T) <= f[T] * 10000 + 9999 * Cardinality(T)
           Bad == {T \in SUBSET S : ~Between(T)}
<1>1. IsFiniteSet(S) /\ \A T \in SUBSET S : IsFiniteSet(T) /\ Cardinality(T) \in Nat
  BY ConstantsAssumption, FS_Subset, FS_CardinalityType
<1>2. \A s \in S : Total[s] \in Nat /\ c[s] \in Nat /\ c[s] = CommissionForSale(s, bps)
  BY FlooredPerSale
<1>3. IsSum(f, c, S)
  OBVIOUS
<1> HIDE DEF c
<1>4. \A T \in SUBSET S : T # {} => /\ f[T] = c[Least(T)] + f[T \ {Least(T)}]
                                    /\ g[T] = Total[Least(T)] + g[T \ {Least(T)}]
  <2>1. \A T \in SUBSET S : T # {} => f[T] = c[Least(T)] + f[T \ {Least(T)}]
    BY <1>3 DEF IsSum
  <2>2. \A T \in SUBSET S : T # {} => g[T] = Total[Least(T)] + g[T \ {Least(T)}]
    BY DEF IsSum
  <2> QED BY <2>1, <2>2
<1>5. \A T \in SUBSET S : f[T] \in Nat
  BY <1>1, <1>2, <1>3, SumOfNaturals
<1>6. \A T \in SUBSET S : g[T] \in Nat
  BY <1>1, <1>2, SumOfNaturals
<1>7. /\ \A T \in SUBSET S, x \in S : g[T] = Total[x] + g[T \ {x}] =>
                                          e(T) = Earned(x, bps) + e(T \ {x})
      /\ \A T \in SUBSET S : e(T) \in Nat
      /\ e({}) = 0
  <2>1. \A y, z \in Nat : bps * (y + z) = bps * y + bps * z /\ bps * y \in Nat
    OBVIOUS
  <2>2. bps * 0 = 0 /\ g[{}] = 0
    BY DEF IsSum
  <2> QED BY <1>2, <1>6, <2>1, <2>2 DEF Earned
<1> HIDE DEF e
<1>8. ASSUME Bad # {}
      PROVE  FALSE
  <2>1. PICK T \in SUBSET S : /\ ~Between(T)
                              /\ \A U \in SUBSET T : U # T => Between(U)
    <3>1. Bad \in SUBSET SUBSET S
      OBVIOUS
    <3> HIDE DEF Bad
    <3>2. PICK T \in Bad : \A U \in Bad : U \subseteq T => U = T
      BY <1>1, <1>8, <3>1, SmallestSubset
    <3> HIDE DEF Between
    <3> QED BY <3>2 DEF Bad
  <2>2. T # {}
    <3> SUFFICES ASSUME T = {} PROVE FALSE
      OBVIOUS
    <3>1. f[{}] = 0 /\ Cardinality({}) = 0
      BY <1>3, FS_EmptySet DEF IsSum
    <3> QED BY <1>7, <2>1, <3>1
  <2> HIDE DEF Between, Bad
  <2> DEFINE x == Least(T)
             U == T \ {x}
  <2>3. x \in T /\ x \in S
    BY <2>2, LeastIn
  <2>4. Between(U) /\ U \in SUBSET S
    BY <2>1, <2>3
  <2>5. f[T] = c[x] + f[U] /\ g[T] = Total[x] + g[U]
    BY <1>4, <2>2
  <2>6. Cardinality(U) = Cardinality(T) - 1
    BY <1>1, <2>3, FS_RemoveElement
  <2>7. /\ c[x] \in Nat /\ Earned(x, bps) \in Nat
        /\ c[x] * 10000 <= Earned(x, bps)
        /\ Earned(x, bps) <= c[x] * 10000 + 9999
    BY <1>2, <2>3, FlooredPerSale
  <2>8. e(T) = Earned(x, bps) + e(U)
    BY <1>7, <2>3, <2>5
  <2>9. /\ f[U] \in Nat /\ e(U) \in Nat /\ Cardinality(U) \in Nat /\ Cardinality(T) \in Nat
    BY <1>1, <1>5, <1>7, <2>4
  <2> HIDE DEF x, U
  <2>10. Between(T)
    BY <2>4, <2>5, <2>6, <2>7, <2>8, <2>9 DEF Between
  <2> QED BY <2>1, <2>10
<1>9. \A T \in SUBSET S : Between(T)
  BY <1>8
<1> QED BY <1>1, <1>5, <1>6, <1>9 DEF e

(* The row of some sales at some rate: its type, ...                       *)
LEMMA ComputedType ==
    ASSUME NEW S \in SUBSET Sales, NEW bps \in Rates \cup {0}
    PROVE  /\ Computed(S, bps) \in [sales: SUBSET Sales, rate: Rates \cup {0},
                                    amount: Nat, payout: Nat]
           /\ Computed(S, bps).sales = S /\ Computed(S, bps).rate = bps
<1>1. bps \in Nat
  BY ConstantsAssumption
<1>2. IsFiniteSet(S) /\ S \in SUBSET S
  BY ConstantsAssumption, FS_Subset
<1> DEFINE c == [s \in S |-> CommissionForSale(s, bps)]
<1>3. \A s \in S : c[s] \in Nat
  BY <1>1, FlooredPerSale
<1>4. PICK f : IsSum(f, c, S)
  <2> HIDE DEF c
  <2> QED BY <1>2, SumExists
<1>5. MapThenSumSet(LAMBDA s : CommissionForSale(s, bps), S) = f[S]
  BY <1>4, CommissionsAreSummed
<1> HIDE DEF c
<1>6. f[S] \in Nat
  BY <1>2, <1>3, <1>4, SumOfNaturals
<1> DEFINE a == f[S]
<1>7. a \in Nat /\ (a \div 100) * 100 \in Nat
  BY <1>6
<1>8. Computed(S, bps) = [sales |-> S, rate |-> bps, amount |-> a, payout |-> (a \div 100) * 100]
  BY <1>5 DEF Computed
<1> HIDE DEF a
<1> QED BY <1>7, <1>8

(* ... and what is withheld of what was earned: less than a cent of each   *)
(* sale and a shilling of the row.                                         *)
LEMMA ComputedRow ==
    ASSUME NEW S \in SUBSET Sales, NEW bps \in Rates \cup {0}
    PROVE  LET row == Computed(S, bps)
               earned == bps * TotalOf(S)
           IN  /\ row.payout % 100 = 0
               /\ row.payout * 10000 <= earned
               /\ earned < (row.payout + 100 + Cardinality(S)) * 10000
<1>1. bps \in Nat
  BY ConstantsAssumption
<1>2. IsFiniteSet(S)
  BY ConstantsAssumption, FS_Subset
<1>a. S \in SUBSET S
  OBVIOUS
<1> DEFINE c == [s \in S |-> CommissionForSale(s, bps)]
<1>3. PICK f : IsSum(f, c, S)
  <2> HIDE DEF c
  <2> QED BY <1>2, SumExists
<1>4. PICK g : IsSum(g, Total, S)
  BY <1>2, SumExists
<1> DEFINE a == f[S]
           n == Cardinality(S)
           e == bps * g[S]
           p == (a \div 100) * 100
<1>5. a \in Nat /\ g[S] \in Nat /\ n \in Nat /\ a * 10000 <= e /\ e <= a * 10000 + 9999 * n
  <2>1. \A T \in SUBSET S :
           /\ f[T] \in Nat /\ g[T] \in Nat /\ Cardinality(T) \in Nat
           /\ f[T] * 10000 <= bps * g[T]
           /\ bps * g[T] <= f[T] * 10000 + 9999 * Cardinality(T)
    BY <1>1, <1>3, <1>4, FlooredTogether
  <2> QED BY <1>a, <2>1
<1>6. /\ MapThenSumSet(LAMBDA s : CommissionForSale(s, bps), S) = a
      /\ TotalOf(S) = g[S]
  BY <1>3, <1>4, CommissionsAreSummed, TotalsAreSummed DEF TotalOf
<1>7. Computed(S, bps) = [sales |-> S, rate |-> bps, amount |-> a, payout |-> p]
  BY <1>6 DEF Computed
<1>8. e \in Nat
  <2>1. \A x, y \in Nat : x * y \in Nat
    OBVIOUS
  <2> QED BY <1>1, <1>5, <2>1
<1> HIDE DEF a, n, e
<1>9. p \in Nat /\ p % 100 = 0 /\ p <= a /\ a <= p + 99
  BY <1>5
<1> HIDE DEF p
<1>10. p * 10000 <= e /\ e < (p + 100 + n) * 10000
  BY <1>5, <1>8, <1>9
<1> QED BY <1>5, <1>6, <1>7, <1>9, <1>10 DEF e, n

-----------------------------------------------------------------------------
(* What a row is computed from. *)

(* POS knows that s was paid on day d.                                     *)
OfDay(s, d) == sale[s].known # NULL /\ InWindow(sale[s].paid, d)

PaidByNow == \A s \in Sales : sale[s].paid # NULL => sale[s].paid <= now

(* A close under way has sales of its day, at rates there are.             *)
ClosesAreOfDays ==
    \A k \in Closers : close[k].pc \in {"rates", "insert"} =>
        /\ \A s \in close[k].sales : OfDay(s, close[k].day)
        /\ close[k].left \subseteq {Seller[s] : s \in close[k].sales}
        /\ close[k].pc = "insert" =>
              \A a \in close[k].left : close[k].rates[a] \in Rates \cup {0}

(* A row is computed from sales of its day and attendant, from one at least.*)
RowsAreOfDays ==
    \A d \in Days, a \in Attendants :
        /\ \/ ledger[d][a] = NoRow
           \/ /\ ledger[d][a].sales # {}
              /\ ledger[d][a] = Computed(ledger[d][a].sales, ledger[d][a].rate)
        /\ \A s \in ledger[d][a].sales : Seller[s] = a /\ OfDay(s, d)

IInv == TypeOK /\ PaidByNow /\ ClosesAreOfDays /\ RowsAreOfDays

LEMMA InitIInv == Init => IInv
<1> SUFFICES ASSUME Init PROVE IInv
  OBVIOUS
<1> USE ConstantsAssumption DEF Init
<1>1. now \in Instants /\ SalesOK /\ PaidByNow
  BY DEF Instants, SalesOK, Unpaid, PaidByNow
<1>2. RatesOK /\ TriggersOK
  BY DEF RatesOK, TriggersOK, TriggerStates, Away
<1>3. ClosesOK /\ ClosesAreOfDays
  <2>1. 0 \in Days
    <3>1. 0 \in Instants
      BY DEF Instants
    <3>2. Day(LastInstant) \in Nat
      BY DayDivides
    <3> QED BY <3>2 DEF Days
  <2>2. IdleClose \in CloseStates /\ IdleClose.pc = "idle"
    BY <2>1 DEF IdleClose, CloseStates, NoRates
  <2> QED BY <2>2 DEF ClosesOK, ClosesAreOfDays
<1>4. LedgerOK /\ RowsAreOfDays
  BY DEF LedgerOK, RowsAreOfDays, NoRow
<1> QED BY <1>1, <1>2, <1>3, <1>4 DEF IInv, TypeOK

(* What POS knows of a sale is final.                                      *)
LEMMA KnownIsFinal ==
    ASSUME IInv, \/ UNCHANGED sale
                 \/ \E s \in Sales : Pay(s) \/ ApplyPaid(s)
    PROVE  /\ \A s \in Sales : sale[s].known # NULL => sale'[s] = sale[s]
           /\ \A s \in Sales : \A d : OfDay(s, d) => OfDay(s, d)'
<1>1. SalesOK
  BY DEF IInv, TypeOK
<1>2. \A s \in Sales : sale[s].known # NULL => sale[s].paid # NULL
  BY <1>1, ConstantsAssumption DEF SalesOK
<1>3. \A s \in Sales : sale[s].known # NULL => sale'[s] = sale[s]
  BY <1>1, <1>2 DEF Pay, ApplyPaid, SalesOK
<1> QED BY <1>3 DEF OfDay

(* A step of the customers, the owner, the clock or the queue.             *)
LEMMA OutsideStep ==
    ASSUME IInv, now' \in Instants, SalesOK', RatesOK', TriggersOK', PaidByNow',
           UNCHANGED <<close, ledger>>,
           \/ UNCHANGED sale
           \/ \E s \in Sales : Pay(s) \/ ApplyPaid(s)
    PROVE  IInv'
<1>1. ClosesOK /\ LedgerOK
  BY DEF IInv, TypeOK
<1>2. ClosesOK' /\ LedgerOK'
  BY <1>1 DEF ClosesOK, LedgerOK
<1>3. \A s \in Sales : \A d : OfDay(s, d) => OfDay(s, d)'
  BY KnownIsFinal
<1>4. \A k \in Closers : close[k].sales \in SUBSET Sales
  BY <1>1 DEF ClosesOK, CloseStates
<1>5. ClosesAreOfDays'
  BY <1>3, <1>4 DEF IInv, ClosesAreOfDays
<1>6. \A d \in Days, a \in Attendants : ledger[d][a].sales \in SUBSET Sales
  BY <1>1 DEF LedgerOK
<1>7. RowsAreOfDays'
  <2> SUFFICES ASSUME NEW d \in Days, NEW a \in Attendants
               PROVE  /\ \/ ledger[d][a] = NoRow
                         \/ /\ ledger[d][a].sales # {}
                            /\ ledger[d][a] = Computed(ledger[d][a].sales, ledger[d][a].rate)
                      /\ \A s \in ledger[d][a].sales : Seller[s] = a /\ OfDay(s, d)'
    BY DEF RowsAreOfDays
  <2> QED BY <1>3, <1>6 DEF IInv, RowsAreOfDays
<1> QED BY <1>2, <1>5, <1>7 DEF IInv, TypeOK

LEMMA SaleStep ==
    ASSUME IInv, NEW s \in Sales, Pay(s) \/ ApplyPaid(s)
    PROVE  IInv'
<1>1. /\ now \in Instants /\ SalesOK /\ RatesOK /\ TriggersOK /\ PaidByNow
      /\ now \in Nat /\ NULL \notin Int /\ Instants \subseteq Nat
  BY ConstantsAssumption DEF IInv, TypeOK, Instants
<1>2. UNCHANGED <<now, rates, trigger, close, ledger>>
  BY DEF Pay, ApplyPaid
<1>3. SalesOK' /\ PaidByNow'
  <2>1. CASE Pay(s)
    BY <1>1, <1>2, <2>1 DEF Pay, SalesOK, PaidByNow
  <2>2. CASE ApplyPaid(s)
    BY <1>1, <1>2, <2>2 DEF ApplyPaid, SalesOK, PaidByNow
  <2> QED BY <2>1, <2>2
<1>4. now' \in Instants /\ RatesOK' /\ TriggersOK'
  BY <1>1, <1>2 DEF RatesOK, TriggersOK
<1> QED BY <1>2, <1>3, <1>4, OutsideStep

LEMMA SetRateStep ==
    ASSUME IInv, NEW who \in Attendants \cup {NULL}, SetRate(who)
    PROVE  IInv'
<1>1. now \in Instants /\ SalesOK /\ RatesOK /\ TriggersOK /\ PaidByNow
  BY DEF IInv, TypeOK
<1>2. UNCHANGED <<now, sale, trigger, close, ledger>>
  BY DEF SetRate
<1>3. PICK bps \in Rates : rates' = [rates EXCEPT ![who] = Append(@, [from |-> now, bps |-> bps])]
  BY DEF SetRate
<1>4. Append(rates[who], [from |-> now, bps |-> bps]) \in Seq([from: Instants, bps: Rates])
  <2>1. rates[who] \in Seq([from: Instants, bps: Rates])
    BY <1>1 DEF RatesOK
  <2>2. [from |-> now, bps |-> bps] \in [from: Instants, bps: Rates]
    BY <1>1
  <2> QED BY <2>1, <2>2
<1>5. RatesOK'
  BY <1>1, <1>3, <1>4 DEF RatesOK
<1>6. now' \in Instants /\ SalesOK' /\ TriggersOK' /\ PaidByNow'
  BY <1>1, <1>2 DEF SalesOK, TriggersOK, PaidByNow
<1> QED BY <1>2, <1>5, <1>6, OutsideStep

LEMMA QueueStepKeeps ==
    ASSUME IInv, \/ \E p \in Posts : Post(p)
                 \/ \E m \in DOMAIN trigger : DeadLetter(m) \/ Expire(m)
    PROVE  IInv'
<1>1. now \in Instants /\ SalesOK /\ RatesOK /\ TriggersOK /\ PaidByNow
  BY DEF IInv, TypeOK
<1>2. UNCHANGED <<now, sale, rates, close, ledger>>
  BY DEF Post, DeadLetter, Expire
<1>3. TriggersOK'
  <2>1. ASSUME NEW p \in Posts, Post(p)
        PROVE  TriggersOK'
    <3>1. PICK body \in {Body(due, NULL) : due \in Instants \cup {NULL}}
                        \cup {Body(NULL, day) : day \in Nameable} :
             trigger' = [trigger EXCEPT ![p] = body]
      BY <2>1 DEF Post
    <3>2. body \in TriggerStates
      <4>1. \A due \in Instants \cup {NULL}, day \in Days \cup {NULL} :
               Body(due, day) \in TriggerStates
        BY ConstantsAssumption DEF TriggerStates, Body
      <4> QED BY <3>1, <4>1 DEF Nameable
    <3> QED BY <1>1, <3>1, <3>2 DEF TriggersOK
  <2>2. ASSUME NEW m \in DOMAIN trigger, DeadLetter(m) \/ Expire(m)
        PROVE  TriggersOK'
    <3>1. Away("dead") \in TriggerStates /\ Away("expired") \in TriggerStates
      BY ConstantsAssumption DEF TriggerStates, Away
    <3> HIDE DEF TriggerStates
    <3> QED BY <1>1, <2>2, <3>1 DEF DeadLetter, Expire, TriggersOK
  <2> QED BY <2>1, <2>2
<1>4. now' \in Instants /\ SalesOK' /\ RatesOK' /\ PaidByNow'
  BY <1>1, <1>2 DEF SalesOK, RatesOK, PaidByNow
<1> QED BY <1>2, <1>3, <1>4, OutsideStep

LEMMA TickStep ==
    ASSUME IInv, Tick
    PROVE  IInv'
<1>1. /\ now \in Instants /\ SalesOK /\ RatesOK /\ TriggersOK /\ PaidByNow
      /\ Instants \subseteq Nat /\ NULL \notin Int
  BY ConstantsAssumption DEF IInv, TypeOK, Instants
<1>2. UNCHANGED <<sale, rates, close, ledger>>
  BY DEF Tick
<1>3. now' \in Instants /\ now' = now + 1
  BY <1>1, ConstantsAssumption DEF Tick, Instants
<1>4. Body(now', NULL) \in TriggerStates
  BY <1>3, ConstantsAssumption DEF Body, TriggerStates
<1>5. TriggersOK'
  BY <1>1, <1>4 DEF Tick, TriggersOK
<1>6. PaidByNow'
  <2>1. \A s \in Sales : sale[s].paid \in Nat \cup {NULL}
    BY <1>1 DEF SalesOK
  <2>2. now \in Nat
    BY <1>1
  <2> QED BY <1>1, <1>2, <1>3, <2>1, <2>2 DEF PaidByNow
<1>7. SalesOK' /\ RatesOK'
  BY <1>1, <1>2 DEF SalesOK, RatesOK
<1> QED BY <1>2, <1>3, <1>5, <1>6, <1>7, OutsideStep

-----------------------------------------------------------------------------
(* The closes. *)

(* A step of a close that writes no row.                                   *)
LEMMA CloseOnlyStep ==
    ASSUME IInv, NEW k \in Closers, NEW state \in CloseStates,
           close' = [close EXCEPT ![k] = state], UNCHANGED <<now, sale, rates, ledger>>,
           TriggersOK',
           state.pc \in {"rates", "insert"} =>
               /\ state.left # {}
               /\ \A s \in state.sales : OfDay(s, state.day)
               /\ state.left \subseteq {Seller[s] : s \in state.sales}
               /\ state.pc = "insert" => \A a \in state.left : state.rates[a] \in Rates \cup {0}
    PROVE  IInv'
<1>1. now \in Instants /\ SalesOK /\ RatesOK /\ PaidByNow /\ ClosesOK /\ LedgerOK
  BY DEF IInv, TypeOK
<1>2. \A q \in Closers : close'[q] = IF q = k THEN state ELSE close[q]
  BY <1>1 DEF ClosesOK
<1>3. ClosesOK'
  BY <1>1, <1>2 DEF ClosesOK
<1>4. \A s, d : OfDay(s, d)' <=> OfDay(s, d)
  BY DEF OfDay
<1>5. ClosesAreOfDays'
  BY <1>2, <1>4 DEF IInv, ClosesAreOfDays
<1>6. RowsAreOfDays'
  BY <1>4 DEF IInv, RowsAreOfDays
<1>7. now' \in Instants /\ SalesOK' /\ RatesOK' /\ PaidByNow' /\ LedgerOK'
  BY <1>1 DEF SalesOK, RatesOK, PaidByNow, LedgerOK
<1> QED BY <1>3, <1>5, <1>6, <1>7 DEF IInv, TypeOK

(* What a close may start with, and what it leaves.                        *)
LEMMA StartedType ==
    ASSUME NEW m \in ScheduledDays \cup Posts \cup {NULL}, NEW d \in Days \cup {-1}
    PROVE  Started(m, d) \in CloseStates /\ Started(m, d).pc = "read"
BY DEF Started, IdleClose, CloseStates, NoRates

LEMMA DayZero == 0 \in Days
<1>1. Day(LastInstant) \in Nat
  BY ConstantsAssumption, DayDivides
<1> QED BY <1>1 DEF Days

LEMMA ClosedType ==
    ASSUME ClosesOK, NEW k \in Closers
    PROVE  /\ IdleClose \in CloseStates /\ IdleClose.pc = "idle"
           /\ Closed(k) \in CloseStates /\ Closed(k).pc = "ack"
<1>1. IdleClose \in CloseStates /\ IdleClose.pc = "idle"
  BY DayZero DEF IdleClose, CloseStates, NoRates
<1>2. close[k].trigger \in ScheduledDays \cup Posts \cup {NULL}
  BY DEF ClosesOK, CloseStates
<1>3. Closed(k) \in CloseStates /\ Closed(k).pc = "ack"
  BY <1>2, DayZero DEF Closed, IdleClose, CloseStates, NoRates
<1> QED BY <1>1, <1>3

(* The day that resolveBusinessDay takes.                                  *)
LEMMA BusinessDayType ==
    ASSUME IInv, NEW m \in ScheduledDays \cup Posts
    PROVE  BusinessDay(m) \in Days \cup {-1}
<1>1. /\ trigger[m].day \in Days \cup {NULL} /\ trigger[m].due \in Instants \cup {NULL}
      /\ now \in Instants
  BY DEF IInv, TypeOK, TriggersOK, TriggerStates
<1>2. \A t \in Instants : Yesterday(t) \in Days \cup {-1}
  BY DayOfInstant
<1>3. (IF Trusted(trigger[m].due) THEN trigger[m].due ELSE now) \in Instants
  BY <1>1 DEF Trusted
<1>4. CASE trigger[m].day # NULL
  BY <1>1, <1>4 DEF BusinessDay
<1>5. CASE trigger[m].day = NULL
  BY <1>2, <1>3, <1>5 DEF BusinessDay
<1> QED BY <1>4, <1>5

LEMMA ReceiveStep ==
    ASSUME IInv, NEW w \in Workers, NEW m \in DOMAIN trigger, Receive(w, m)
    PROVE  IInv'
<1>1. /\ now \in Instants /\ SalesOK /\ RatesOK /\ PaidByNow /\ TriggersOK /\ ClosesOK
      /\ m \in ScheduledDays \cup Posts /\ w \in Closers /\ MaxReceives \in Nat
  BY ConstantsAssumption DEF IInv, TypeOK, TriggersOK, Closers
<1>2. UNCHANGED <<now, sale, rates, ledger>>
  BY DEF Receive
<1>3. TriggersOK'
  BY <1>1 DEF Receive, TriggersOK, TriggerStates
<1>4. CASE LockIsFree
  <2> DEFINE state == Started(m, BusinessDay(m))
  <2>1. close' = [close EXCEPT ![w] = state]
    BY <1>4 DEF Receive
  <2>2. state \in CloseStates /\ state.pc = "read"
    BY <1>1, BusinessDayType, StartedType
  <2> HIDE DEF state
  <2> QED BY <1>1, <1>2, <1>3, <2>1, <2>2, CloseOnlyStep
<1>5. CASE ~LockIsFree
  <2>1. UNCHANGED close
    BY <1>5 DEF Receive
  <2>2. now' \in Instants /\ SalesOK' /\ RatesOK' /\ PaidByNow'
    BY <1>1, <1>2 DEF SalesOK, RatesOK, PaidByNow
  <2> QED BY <1>2, <1>3, <2>1, <2>2, OutsideStep
<1> QED BY <1>4, <1>5

LEMMA StartDrillStep ==
    ASSUME IInv, NEW k \in Drills, StartDrill(k)
    PROVE  IInv'
<1>1. now \in Instants /\ TriggersOK /\ k \in Closers
  BY DEF IInv, TypeOK, Closers
<1>2. UNCHANGED <<now, sale, rates, trigger, ledger>>
  BY DEF StartDrill
<1>3. PICK d \in Nameable \cup {Yesterday(now)} : close' = [close EXCEPT ![k] = Started(NULL, d)]
  BY DEF StartDrill
<1>4. d \in Days \cup {-1}
  BY <1>1, DayOfInstant DEF Nameable
<1> DEFINE state == Started(NULL, d)
<1>5. state \in CloseStates /\ state.pc = "read"
  BY <1>4, StartedType
<1>6. TriggersOK'
  BY <1>1, <1>2 DEF TriggersOK
<1> HIDE DEF state
<1>7. close' = [close EXCEPT ![k] = state]
  BY <1>3 DEF state
<1> QED BY <1>1, <1>2, <1>5, <1>6, <1>7, CloseOnlyStep

LEMMA ReadSalesStep ==
    ASSUME IInv, NEW k \in Closers, ReadSales(k)
    PROVE  IInv'
<1>1. TriggersOK /\ ClosesOK /\ close[k] \in CloseStates
  BY DEF IInv, TypeOK, ClosesOK
<1> DEFINE known == KnownSales(close[k].day)
           read == [close[k] EXCEPT !.pc = "rates", !.sales = known,
                                    !.left = {Seller[s] : s \in known}]
           state == IF known = {} THEN Closed(k) ELSE read
<1>2. close' = [close EXCEPT ![k] = state]
  BY DEF ReadSales
<1>3. UNCHANGED <<now, sale, rates, trigger, ledger>>
  BY DEF ReadSales
<1>4. known \in SUBSET Sales /\ \A s \in known : OfDay(s, close[k].day)
  BY DEF KnownSales, OfDay
<1> HIDE DEF known
<1>5. {Seller[s] : s \in known} \in SUBSET Attendants
  BY <1>4, ConstantsAssumption
<1>6. /\ read \in CloseStates /\ read.pc = "rates" /\ read.sales = known
      /\ read.left = {Seller[s] : s \in known} /\ read.day = close[k].day
  BY <1>1, <1>4, <1>5 DEF CloseStates
<1>7. Closed(k) \in CloseStates /\ Closed(k).pc = "ack"
  BY <1>1, ClosedType
<1> HIDE DEF read
<1>8. state \in CloseStates
  BY <1>6, <1>7
<1>9. state.pc \in {"rates", "insert"} =>
         /\ state.left # {}
         /\ \A s \in state.sales : OfDay(s, state.day)
         /\ state.left \subseteq {Seller[s] : s \in state.sales}
         /\ state.pc # "insert"
  BY <1>4, <1>6, <1>7
<1>10. TriggersOK'
  BY <1>1, <1>3 DEF TriggersOK
<1> HIDE DEF state
<1> QED BY <1>2, <1>3, <1>8, <1>9, <1>10, CloseOnlyStep

(* The rates that are in force, and the rate an attendant is paid at.      *)
LEMMA InForceHasMax ==
    ASSUME RatesOK, NEW who \in Attendants \cup {NULL}, NEW end, InForce(who, end) # {}
    PROVE  Max(InForce(who, end)) \in InForce(who, end)
<1>1. Len(rates[who]) \in Nat /\ DOMAIN rates[who] = 1..Len(rates[who])
  BY DEF RatesOK
<1>2. InForce(who, end) \subseteq 1..Len(rates[who])
  BY <1>1 DEF InForce
<1>3. InForce(who, end) \in SUBSET Int /\ IsFiniteSet(InForce(who, end))
  <2>1. IsFiniteSet(1..Len(rates[who])) /\ InForce(who, end) \in SUBSET (1..Len(rates[who]))
    BY <1>1, <1>2, FS_Interval
  <2> QED BY <1>2, <2>1, FS_Subset
<1> HIDE DEF InForce
<1> QED BY <1>3, MaxIsMember

LEMMA RateType ==
    ASSUME RatesOK, NEW a \in Attendants, NEW end
    PROVE  RateInForce(a, end) \in Rates \cup {0}
<1>1. ASSUME NEW who \in Attendants \cup {NULL}, InForce(who, end) # {}
      PROVE  rates[who][Max(InForce(who, end))].bps \in Rates
  <2>1. Max(InForce(who, end)) \in DOMAIN rates[who]
    BY <1>1, InForceHasMax DEF InForce
  <2>2. rates[who] \in Seq([from: Instants, bps: Rates])
    BY DEF RatesOK
  <2>3. \A i \in DOMAIN rates[who] : rates[who][i] \in [from: Instants, bps: Rates]
    BY <2>2, ElementOfSeq, LenProperties
  <2> QED BY <2>1, <2>3
<1> HIDE DEF InForce
<1> QED BY <1>1 DEF RateInForce

LEMMA ReadRatesStep ==
    ASSUME IInv, NEW k \in Closers, ReadRates(k)
    PROVE  IInv'
<1>1. TriggersOK /\ ClosesOK /\ RatesOK /\ close[k] \in CloseStates /\ close[k].pc = "rates"
  BY DEF IInv, TypeOK, ClosesOK, ReadRates
<1> DEFINE r == [a \in Attendants |-> IF a \in close[k].left
                                     THEN RateInForce(a, DayEnd(close[k].day)) ELSE NULL]
           state == [close[k] EXCEPT !.pc = "insert", !.rates = r]
<1>2. close' = [close EXCEPT ![k] = state]
  BY <1>1 DEF ReadRates, ClosesOK
<1>3. UNCHANGED <<now, sale, rates, trigger, ledger>>
  BY DEF ReadRates
<1>4. close[k].left \in SUBSET Attendants
  BY <1>1 DEF CloseStates
<1>5. \A a \in Attendants : RateInForce(a, DayEnd(close[k].day)) \in Rates \cup {0}
  BY <1>1, RateType
<1>6. /\ r \in [Attendants -> Rates \cup {0, NULL}]
      /\ \A a \in close[k].left : r[a] \in Rates \cup {0}
  BY <1>4, <1>5
<1> HIDE DEF r
<1>7. /\ state \in CloseStates /\ state.pc = "insert" /\ state.rates = r
      /\ state.sales = close[k].sales /\ state.left = close[k].left /\ state.day = close[k].day
  BY <1>1, <1>6 DEF CloseStates
<1>8. /\ close[k].left # {}
      /\ \A s \in close[k].sales : OfDay(s, close[k].day)
      /\ close[k].left \subseteq {Seller[s] : s \in close[k].sales}
  BY <1>1 DEF ClosesOK, IInv, ClosesAreOfDays
<1>9. TriggersOK'
  BY <1>1, <1>3 DEF TriggersOK
<1> HIDE DEF state
<1> QED BY <1>2, <1>3, <1>6, <1>7, <1>8, <1>9, CloseOnlyStep

LEMMA FinishStep ==
    ASSUME IInv, NEW k \in Closers, Finish(k) \/ Abort(k)
    PROVE  IInv'
<1>1. TriggersOK /\ ClosesOK
  BY DEF IInv, TypeOK
<1>2. close' = [close EXCEPT ![k] = IdleClose] /\ UNCHANGED <<now, sale, rates, ledger>>
  BY DEF Finish, Abort
<1>3. IdleClose \in CloseStates /\ IdleClose.pc = "idle"
  BY <1>1, ClosedType
<1>4. TriggersOK'
  <2>1. Away("acked") \in TriggerStates
    BY ConstantsAssumption DEF Away, TriggerStates
  <2>2. close[k].trigger # NULL => close[k].trigger \in ScheduledDays \cup Posts
    BY <1>1 DEF ClosesOK, CloseStates
  <2> HIDE DEF TriggerStates
  <2> QED BY <1>1, <2>1, <2>2 DEF Finish, Abort, TriggersOK
<1> HIDE DEF IdleClose
<1> QED BY <1>2, <1>3, <1>4, CloseOnlyStep

(* The row that a close inserts, if there is none.                         *)
LEMMA InsertedRow ==
    ASSUME IInv, NEW k \in Closers, NEW a \in close[k].left, close[k].pc = "insert"
    PROVE  LET own == {s \in close[k].sales : Seller[s] = a}
               row == Computed(own, close[k].rates[a])
           IN  /\ a \in Attendants /\ close[k].day \in Days /\ own # {} /\ row.sales = own
               /\ row \in [sales: SUBSET Sales, rate: Rates \cup {0}, amount: Nat, payout: Nat]
               /\ row = Computed(row.sales, row.rate) /\ row.rate = close[k].rates[a]
               /\ \A s \in own : OfDay(s, close[k].day)
<1> DEFINE own == {s \in close[k].sales : Seller[s] = a}
<1>1. close[k] \in CloseStates /\ SalesOK
  BY DEF IInv, TypeOK, ClosesOK
<1>2. /\ \A s \in close[k].sales : OfDay(s, close[k].day)
      /\ a \in {Seller[s] : s \in close[k].sales}
      /\ close[k].rates[a] \in Rates \cup {0}
  BY DEF IInv, ClosesAreOfDays
<1>3. a \in Attendants /\ close[k].sales \in SUBSET Sales /\ close[k].day \in Days \cup {-1}
  BY <1>1 DEF CloseStates
<1>4. PICK s \in own : TRUE
  BY <1>2
<1>5. close[k].day \in Days
  <2>1. sale[s].paid \in Instants \cup {NULL} /\ sale[s].known # NULL
        /\ InWindow(sale[s].paid, close[k].day)
    BY <1>1, <1>2, <1>3 DEF SalesOK, OfDay
  <2>2. sale[s].paid \in Instants
    BY <1>1, <1>3, <2>1, ConstantsAssumption DEF SalesOK
  <2>3. close[k].day \in Int /\ sale[s].paid \in Nat
    BY <1>3, <2>2 DEF Days, Instants
  <2> QED BY <2>1, <2>2, <2>3, WindowIsDay, DayOfInstant
<1>6. own \in SUBSET Sales
  BY <1>3
<1> HIDE DEF own
<1> DEFINE row == Computed(own, close[k].rates[a])
<1>7. /\ row \in [sales: SUBSET Sales, rate: Rates \cup {0}, amount: Nat, payout: Nat]
      /\ row.sales = own /\ row.rate = close[k].rates[a]
  BY <1>2, <1>6, ComputedType
<1> QED BY <1>2, <1>3, <1>4, <1>5, <1>7 DEF own

(* INSERT ... ON CONFLICT DO NOTHING: one row changes, if it was not there.*)
LEMMA InsertRowEffect ==
    ASSUME IInv, NEW k \in Closers, NEW a \in Attendants, InsertRow(k, a)
    PROVE  LET d == close[k].day
               row == Computed({s \in close[k].sales : Seller[s] = a}, close[k].rates[a])
           IN  /\ d \in Days /\ a \in close[k].left /\ close[k].pc = "insert"
               /\ \A e \in Days, b \in Attendants :
                     ledger'[e][b] = IF e = d /\ b = a /\ ledger[d][a] = NoRow THEN row
                                     ELSE ledger[e][b]
               /\ LedgerOK'
<1> DEFINE d == close[k].day
           row == Computed({s \in close[k].sales : Seller[s] = a}, close[k].rates[a])
           RowType == [sales: SUBSET Sales, rate: Rates \cup {0}, amount: Nat, payout: Nat]
<1>1. LedgerOK
  BY DEF IInv, TypeOK
<1>2. /\ a \in close[k].left /\ close[k].pc = "insert"
      /\ ledger' = [ledger EXCEPT ![d][a] = IF @ = NoRow THEN row ELSE @]
  BY DEF InsertRow
<1>3. d \in Days /\ row \in RowType
  BY <1>2, InsertedRow
<1> HIDE DEF d, row, RowType
<1>4. ledger \in [Days -> [Attendants -> RowType]]
  BY <1>1 DEF LedgerOK, RowType
<1>5. \A e \in Days, b \in Attendants :
         ledger'[e][b] = IF e = d /\ b = a /\ ledger[d][a] = NoRow THEN row ELSE ledger[e][b]
  BY <1>2, <1>3, <1>4
<1>6. ledger' \in [Days -> [Attendants -> RowType]]
  BY <1>2, <1>3, <1>4
<1> QED BY <1>2, <1>3, <1>5, <1>6 DEF LedgerOK, d, row, RowType

LEMMA InsertRowStep ==
    ASSUME IInv, NEW k \in Closers, NEW a \in Attendants, InsertRow(k, a)
    PROVE  IInv'
<1> DEFINE d == close[k].day
           own == {s \in close[k].sales : Seller[s] = a}
           row == Computed(own, close[k].rates[a])
           rest == [close[k] EXCEPT !.left = @ \ {a}, !.rates[a] = NULL]
           state == IF close[k].left = {a} THEN Closed(k) ELSE rest
<1>1. /\ now \in Instants /\ SalesOK /\ RatesOK /\ TriggersOK /\ ClosesOK /\ PaidByNow
      /\ close[k] \in CloseStates
  BY DEF IInv, TypeOK, ClosesOK
<1>2. /\ d \in Days /\ a \in close[k].left /\ close[k].pc = "insert"
      /\ \A e \in Days, b \in Attendants :
            ledger'[e][b] = IF e = d /\ b = a /\ ledger[d][a] = NoRow THEN row ELSE ledger[e][b]
      /\ LedgerOK'
  BY InsertRowEffect
<1>3. /\ own # {} /\ row.sales = own /\ row = Computed(row.sales, row.rate)
      /\ \A s \in own : Seller[s] = a /\ OfDay(s, d)
  BY <1>2, InsertedRow
<1>4. UNCHANGED <<now, sale, rates, trigger>> /\ close' = [close EXCEPT ![k] = state]
  BY DEF InsertRow, AfterRow
<1>5. /\ rest \in CloseStates /\ rest.pc = "insert" /\ rest.left = close[k].left \ {a}
      /\ rest.sales = close[k].sales /\ rest.day = d
      /\ \A b \in rest.left : rest.rates[b] = close[k].rates[b]
  BY <1>1, <1>2 DEF CloseStates
<1>6. Closed(k) \in CloseStates /\ Closed(k).pc = "ack"
  BY <1>1, ClosedType
<1>7. /\ \A s \in close[k].sales : OfDay(s, d)
      /\ close[k].left \subseteq {Seller[s] : s \in close[k].sales}
      /\ \A b \in close[k].left : close[k].rates[b] \in Rates \cup {0}
  BY <1>2 DEF IInv, ClosesAreOfDays
<1> HIDE DEF row, own, rest, d
<1>8. state \in CloseStates /\ (state.pc \in {"rates", "insert"} => state.left # {})
  BY <1>2, <1>5, <1>6
<1>9. state.pc \in {"rates", "insert"} =>
         /\ \A s \in state.sales : OfDay(s, state.day)
         /\ state.left \subseteq {Seller[s] : s \in state.sales}
         /\ \A b \in state.left : state.rates[b] \in Rates \cup {0}
  BY <1>5, <1>6, <1>7
<1> HIDE DEF state
<1>10. \A q \in Closers : close'[q] = IF q = k THEN state ELSE close[q]
  BY <1>1, <1>4 DEF ClosesOK
<1>11. ClosesOK'
  BY <1>1, <1>4, <1>8, <1>10 DEF ClosesOK
<1>12. \A s, e : OfDay(s, e)' <=> OfDay(s, e)
  BY <1>4 DEF OfDay
<1>13. ClosesAreOfDays'
  BY <1>9, <1>10, <1>12 DEF IInv, ClosesAreOfDays
<1>14. RowsAreOfDays'
  BY <1>2, <1>3, <1>12 DEF IInv, RowsAreOfDays
<1>15. now' \in Instants /\ SalesOK' /\ RatesOK' /\ TriggersOK' /\ PaidByNow'
  BY <1>1, <1>4 DEF SalesOK, RatesOK, TriggersOK, PaidByNow
<1> QED BY <1>2, <1>11, <1>13, <1>14, <1>15 DEF IInv, TypeOK

LEMMA StutterStep ==
    ASSUME IInv, UNCHANGED vars
    PROVE  IInv'
<1>1. UNCHANGED <<now, sale, rates, trigger, close, ledger>>
  BY DEF vars
<1>2. now' \in Instants /\ SalesOK' /\ RatesOK' /\ TriggersOK' /\ PaidByNow'
  BY <1>1 DEF IInv, TypeOK, SalesOK, RatesOK, TriggersOK, PaidByNow
<1> QED BY <1>1, <1>2, OutsideStep

LEMMA NextIInv == IInv /\ [Next]_vars => IInv'
<1> SUFFICES ASSUME IInv, [Next]_vars PROVE IInv'
  OBVIOUS
<1>1. CASE \/ \E s \in Sales : Pay(s) \/ ApplyPaid(s)
           \/ \E who \in Attendants \cup {NULL} : SetRate(who)
  BY <1>1, SaleStep, SetRateStep
<1>2. CASE \/ \E p \in Posts : Post(p)
           \/ \E m \in DOMAIN trigger : DeadLetter(m) \/ Expire(m)
  BY <1>2, QueueStepKeeps
<1>3. CASE Tick
  BY <1>3, TickStep
<1>4. CASE \/ \E m \in DOMAIN trigger : \E w \in Workers : Receive(w, m)
           \/ \E k \in Drills : StartDrill(k)
  BY <1>4, ReceiveStep, StartDrillStep
<1>5. ASSUME NEW k \in Closers, CloseStep(k)
      PROVE  IInv'
  BY <1>5, ReadSalesStep, ReadRatesStep, InsertRowStep, FinishStep DEF CloseStep
<1>6. CASE UNCHANGED vars
  BY <1>6, StutterStep
<1> QED BY <1>1, <1>2, <1>3, <1>4, <1>5, <1>6 DEF Next

(* The inductive invariant: sales, closes and rows are of the same days.   *)
THEOREM DailyCloseInvariant == Spec => []IInv
BY InitIInv, NextIInv, PTL DEF Spec

(* Every variable holds values of its kind, amounts included.              *)
THEOREM CloseTypeCorrect == Spec => []TypeOK
<1>1. IInv => TypeOK
  BY DEF IInv
<1> QED BY <1>1, DailyCloseInvariant, PTL

(* A sale is in the row of one attendant and one day, even when operators  *)
(* close days early.                                                       *)
THEOREM SaleCountedOnce == Spec => []CountedOnce
<1>1. IInv => CountedOnce
  <2> SUFFICES ASSUME IInv, NEW d \in Days, NEW e \in Days, NEW a \in Attendants,
                      NEW b \in Attendants, NEW s \in ledger[d][a].sales \cap ledger[e][b].sales
               PROVE  d = e /\ a = b
    BY DEF CountedOnce
  <2>1. SalesOK /\ LedgerOK
    BY DEF IInv, TypeOK
  <2>2. /\ Seller[s] = a /\ InWindow(sale[s].paid, d) /\ sale[s].known # NULL
        /\ Seller[s] = b /\ InWindow(sale[s].paid, e)
    BY DEF IInv, RowsAreOfDays, OfDay
  <2>3. s \in Sales
    BY <2>1 DEF LedgerOK
  <2>4. sale[s].paid \in Instants
    BY <2>1, <2>2, <2>3, ConstantsAssumption DEF SalesOK
  <2>5. sale[s].paid \in Nat /\ d \in Int /\ e \in Int
    BY <2>4 DEF Days, Instants
  <2> QED BY <2>2, <2>5, WindowIsDay
<1> QED BY <1>1, DailyCloseInvariant, PTL

(* Whatever the sales of a row and its rate, it pays no more than was      *)
(* earned, and withholds less than a cent of each and a shilling in all.   *)
THEOREM NothingOverpaid == Spec => []RoundedDown
<1>1. IInv => RoundedDown
  <2> SUFFICES ASSUME IInv, NEW d \in Days, NEW a \in Attendants, ledger[d][a] # NoRow
               PROVE  LET row == ledger[d][a]
                          earned == row.rate * TotalOf(row.sales)
                      IN  /\ row.payout % 100 = 0
                          /\ row.payout * 10000 <= earned
                          /\ earned < (row.payout + 100 + Cardinality(row.sales)) * 10000
    BY DEF RoundedDown
  <2>1. ledger[d][a].sales \in SUBSET Sales /\ ledger[d][a].rate \in Rates \cup {0}
    BY DEF IInv, TypeOK, LedgerOK
  <2>2. ledger[d][a] = Computed(ledger[d][a].sales, ledger[d][a].rate)
    BY DEF IInv, RowsAreOfDays
  <2>3. PICK S \in SUBSET Sales, bps \in Rates \cup {0} :
           S = ledger[d][a].sales /\ bps = ledger[d][a].rate
    BY <2>1
  <2>4. /\ Computed(S, bps).payout % 100 = 0
        /\ Computed(S, bps).payout * 10000 <= bps * TotalOf(S)
        /\ bps * TotalOf(S) < (Computed(S, bps).payout + 100 + Cardinality(S)) * 10000
    BY ComputedRow
  <2> QED BY <2>2, <2>3, <2>4
<1> QED BY <1>1, DailyCloseInvariant, PTL

-----------------------------------------------------------------------------
(* Days that have ended. *)

Ended(d) == DayEnd(d) <= now

(* No message names a day that is not over; the schedule's comes when its  *)
(* day has ended, and is acked when the day is complete.                   *)
TriggerIsOfEndedDay(m) ==
    /\ \A d \in Days : trigger[m].day = d => Ended(d)
    /\ m \in ScheduledDays =>
          /\ trigger[m].at # "unsent" => Ended(m)
          /\ trigger[m].at = "queued" => trigger[m].due = DayEnd(m) /\ trigger[m].day = NULL
          /\ trigger[m].at = "acked" => Complete(m)

(* A close of an ended day has read all there was to read of it, and the   *)
(* sales it has done with have their rows; one that ran on the schedule's  *)
(* trigger has the day complete when it acks it.                           *)
CloseIsOfEndedDay(k) ==
    \A d \in Days \cup {-1} : close[k].day = d =>
        /\ close[k].pc \in {"read", "rates", "insert"} =>
              Ended(d) /\ \A m \in ScheduledDays : close[k].trigger = m => m = d
        /\ close[k].pc \in {"rates", "insert"} =>
              /\ d \in Days
              /\ SettledSales(d) \subseteq close[k].sales
              /\ \A s \in close[k].sales :
                    Seller[s] \in close[k].left \/ ledger[d][Seller[s]] # NoRow
        /\ close[k].pc = "insert" =>
              \A a \in close[k].left : close[k].rates[a] = RateInForce(a, DayEnd(d))

CloseCompletes(k) ==
    close[k].pc = "ack" => \A m \in ScheduledDays : close[k].trigger = m => Ended(m) /\ Complete(m)

(* A row of an ended day is whole, and at the day's rate.                  *)
RowIsSettled(d, a) ==
    ledger[d][a] # NoRow =>
        /\ Ended(d)
        /\ {s \in SettledSales(d) : Seller[s] = a} \subseteq ledger[d][a].sales
        /\ ledger[d][a].rate = RateInForce(a, DayEnd(d))

EndedInv ==
    /\ \A m \in ScheduledDays \cup Posts : TriggerIsOfEndedDay(m)
    /\ \A k \in Closers : CloseIsOfEndedDay(k) /\ CloseCompletes(k)
    /\ \A d \in Days, a \in Attendants : RowIsSettled(d, a)

LEMMA DayKinds ==
    ASSUME NEW d \in Days \cup {-1}
    PROVE  d \in Int /\ DayEnd(d) \in Int /\ ScheduledDays \subseteq Days
BY DayTypes DEF Days, ScheduledDays

(* A rate that is set now is not in force before now.                      *)
LEMMA RateIsSettled ==
    ASSUME RatesOK, now \in Nat, NEW end \in Int, end <= now, NEW a \in Attendants,
           UNCHANGED rates \/ \E who \in Attendants \cup {NULL} : SetRate(who)
    PROVE  RateInForce(a, end)' = RateInForce(a, end)
<1>1. ASSUME NEW who \in Attendants \cup {NULL}
      PROVE  /\ InForce(who, end)' = InForce(who, end)
             /\ \A i \in InForce(who, end) : rates'[who][i] = rates[who][i]
  <2>1. CASE UNCHANGED rates
    BY <2>1 DEF InForce
  <2>2. ASSUME NEW w \in Attendants \cup {NULL}, SetRate(w)
        PROVE  /\ InForce(who, end)' = InForce(who, end)
               /\ \A i \in InForce(who, end) : rates'[who][i] = rates[who][i]
    <3>1. PICK bps \in Rates : rates' = [rates EXCEPT ![w] = Append(@, [from |-> now, bps |-> bps])]
      BY <2>2 DEF SetRate
    <3> DEFINE old == rates[who]
               new == [from |-> now, bps |-> bps]
    <3>2. CASE who # w
      <4>1. rates'[who] = rates[who]
        BY <3>1, <3>2 DEF RatesOK
      <4> QED BY <4>1 DEF InForce
    <3>3. CASE who = w
      <4>1. rates'[who] = Append(old, new) /\ old \in Seq([from: Instants, bps: Rates])
        BY <3>1, <3>3 DEF RatesOK
      <4>2. /\ Len(old) \in Nat /\ DOMAIN old = 1..Len(old)
            /\ DOMAIN rates'[who] = 1..(Len(old) + 1)
            /\ \A i \in 1..Len(old) : rates'[who][i] = old[i]
            /\ rates'[who][Len(old) + 1] = new
        BY <4>1
      <4>3. ~(new.from < end)
        OBVIOUS
      <4> HIDE DEF old, new
      <4>4. {i \in DOMAIN rates'[who] : rates'[who][i].from < end}
            = {i \in DOMAIN old : old[i].from < end}
        BY <4>2, <4>3
      <4> QED BY <4>2, <4>4 DEF InForce, old
    <3> QED BY <3>2, <3>3
  <2> QED BY <2>1, <2>2
<1>2. \A who \in Attendants \cup {NULL} :
         InForce(who, end) # {} => Max(InForce(who, end)) \in InForce(who, end)
  BY InForceHasMax
<1>3. \A who \in Attendants \cup {NULL} : InForce(who, end) # {} =>
         rates'[who][Max(InForce(who, end)')].bps = rates[who][Max(InForce(who, end))].bps
  BY <1>1, <1>2
<1>4. RateInForce(a, end)' = IF InForce(a, end)' # {} THEN rates'[a][Max(InForce(a, end)')].bps
                             ELSE IF InForce(NULL, end)' # {}
                                  THEN rates'[NULL][Max(InForce(NULL, end)')].bps
                             ELSE 0
  BY DEF RateInForce
<1>5. RateInForce(a, end) = IF InForce(a, end) # {} THEN rates[a][Max(InForce(a, end))].bps
                            ELSE IF InForce(NULL, end) # {}
                                 THEN rates[NULL][Max(InForce(NULL, end))].bps
                            ELSE 0
  BY DEF RateInForce
<1> HIDE DEF InForce
<1> QED BY <1>1, <1>3, <1>4, <1>5

(* What a step may do to the clock, the sales, the rates and the rows.     *)
LEMMA StepKinds ==
    ASSUME [Next]_vars
    PROVE  /\ UNCHANGED now \/ Tick
           /\ UNCHANGED sale \/ \E s \in Sales : Pay(s) \/ ApplyPaid(s)
           /\ UNCHANGED rates \/ \E who \in Attendants \cup {NULL} : SetRate(who)
           /\ UNCHANGED ledger \/ \E k \in Closers, a \in Attendants : InsertRow(k, a)
<1>1. CASE \/ \E s \in Sales : Pay(s) \/ ApplyPaid(s)
           \/ \E who \in Attendants \cup {NULL} : SetRate(who)
  BY <1>1 DEF Pay, ApplyPaid, SetRate
<1>2. CASE \/ \E p \in Posts : Post(p)
           \/ \E m \in DOMAIN trigger : DeadLetter(m) \/ Expire(m)
           \/ Tick
  BY <1>2 DEF Post, DeadLetter, Expire, Tick
<1>3. CASE \/ \E m \in DOMAIN trigger : \E w \in Workers : Receive(w, m)
           \/ \E k \in Drills : StartDrill(k)
  BY <1>3 DEF Receive, StartDrill
<1>4. ASSUME NEW k \in Closers, ReadSales(k) \/ ReadRates(k) \/ Finish(k) \/ Abort(k)
      PROVE  UNCHANGED <<now, sale, rates, ledger>>
  BY <1>4 DEF ReadSales, ReadRates, Finish, Abort
<1>5. ASSUME NEW k \in Closers, NEW a \in Attendants, InsertRow(k, a)
      PROVE  UNCHANGED <<now, sale, rates>>
  BY <1>5 DEF InsertRow
<1>6. CASE UNCHANGED vars
  BY <1>6 DEF vars
<1> QED BY <1>1, <1>2, <1>3, <1>4, <1>5, <1>6 DEF Next, CloseStep

(* Of a day that has ended, nothing that counts changes any more: neither  *)
(* the sales POS knew in time, nor the rates, nor a row that there is.     *)
LEMMA EndedIsSettled ==
    ASSUME IInv, [Next]_vars, NEW d \in Days \cup {-1}, Ended(d)
    PROVE  /\ Ended(d)'
           /\ SettledSales(d)' = SettledSales(d)
           /\ \A a \in Attendants : RateInForce(a, DayEnd(d))' = RateInForce(a, DayEnd(d))
<1>1. /\ now \in Nat /\ RatesOK /\ SalesOK /\ Instants \subseteq Nat /\ NULL \notin Int
      /\ now' \in {now, now + 1} /\ DayEnd(d) \in Int
  <2>1. UNCHANGED now \/ Tick
    BY StepKinds
  <2>2. now' \in {now, now + 1}
    BY <2>1 DEF Tick
  <2>3. now \in Instants /\ RatesOK /\ SalesOK
    BY DEF IInv, TypeOK
  <2>4. Instants \subseteq Nat /\ NULL \notin Int
    BY ConstantsAssumption DEF Instants
  <2> QED BY <2>2, <2>3, <2>4, DayKinds
<1> DEFINE end == DayEnd(d)
<1>2. Ended(d)'
  BY <1>1 DEF Ended, DayEnd
<1>3. SettledSales(d)' = SettledSales(d)
  <2>1. ASSUME NEW s \in Sales, sale[s].known # NULL
        PROVE  sale'[s] = sale[s]
    BY <2>1, StepKinds, KnownIsFinal
  <2>2. ASSUME NEW s \in Sales, sale[s].known = NULL, sale'[s].known # NULL
        PROVE  sale'[s].known = now
    BY <1>1, <2>2, StepKinds DEF Pay, ApplyPaid, SalesOK
  <2>3. end <= now /\ end \in Int /\ ~(now < end)
    BY <1>1 DEF Ended
  <2> HIDE DEF end
  <2>4. \A s \in Sales :
           (sale'[s].known # NULL /\ sale'[s].known < end) <=>
           (sale[s].known # NULL /\ sale[s].known < end)
    BY <2>1, <2>2, <2>3
  <2>5. \A s \in Sales : sale[s].known # NULL => sale'[s].paid = sale[s].paid
    BY <2>1
  <2>6. SettledSales(d) = {s \in Sales : /\ sale[s].known # NULL /\ sale[s].known < end
                                         /\ InWindow(sale[s].paid, d)}
    BY DEF SettledSales, end
  <2>7. SettledSales(d)' = {s \in Sales : /\ sale'[s].known # NULL /\ sale'[s].known < end
                                          /\ InWindow(sale'[s].paid, d)}
    BY DEF SettledSales, end, DayEnd, DayStart, InWindow
  <2> QED BY <2>4, <2>5, <2>6, <2>7
<1>4. ASSUME NEW a \in Attendants
      PROVE  RateInForce(a, DayEnd(d))' = RateInForce(a, DayEnd(d))
  <2>1. PICK e \in Int : e = DayEnd(d)
    BY <1>1
  <2>2. e <= now
    BY <2>1 DEF Ended
  <2>3. RateInForce(a, e)' = RateInForce(a, e)
    BY <1>1, <2>2, StepKinds, RateIsSettled
  <2>4. DayEnd(d)' = DayEnd(d)
    BY DEF DayEnd
  <2> QED BY <2>1, <2>3, <2>4
<1> QED BY <1>2, <1>3, <1>4

(* Rows are never changed, so a complete day stays complete.               *)
LEMMA RowsStay ==
    ASSUME IInv, [Next]_vars, NEW d \in Days, NEW a \in Attendants, ledger[d][a] # NoRow
    PROVE  ledger'[d][a] = ledger[d][a]
<1>1. ASSUME NEW k \in Closers, NEW b \in Attendants, InsertRow(k, b)
      PROVE  ledger'[d][a] = ledger[d][a]
  BY <1>1, InsertRowEffect
<1> QED BY <1>1, StepKinds

LEMMA CompleteStays ==
    ASSUME IInv, [Next]_vars, NEW d \in Days, Ended(d), Complete(d)
    PROVE  Complete(d)'
<1>1. SettledSales(d)' = SettledSales(d)
  BY EndedIsSettled
<1>2. \A s \in SettledSales(d) : s \in Sales /\ Seller[s] \in Attendants
  BY ConstantsAssumption DEF SettledSales
<1>3. \A s \in SettledSales(d) : s \in ledger[d][Seller[s]].sales
  BY DEF Complete
<1>4. \A s \in SettledSales(d) : ledger[d][Seller[s]] # NoRow
  BY <1>3 DEF NoRow
<1>5. \A s \in SettledSales(d) : ledger'[d][Seller[s]] = ledger[d][Seller[s]]
  BY <1>2, <1>4, RowsStay
<1>6. \A s \in SettledSales(d)' : s \in ledger'[d][Seller[s]].sales
  BY <1>1, <1>3, <1>5
<1> QED BY <1>6 DEF Complete

(* A step keeps what it does not touch.                                    *)
LEMMA TriggerStays ==
    ASSUME IInv, EndedInv, [Next]_vars, NEW m \in ScheduledDays \cup Posts,
           trigger'[m].at = trigger[m].at, trigger'[m].due = trigger[m].due,
           trigger'[m].day = trigger[m].day
    PROVE  TriggerIsOfEndedDay(m)'
<1>1. TriggerIsOfEndedDay(m)
  BY DEF EndedInv
<1>2. \A d \in Days : Ended(d) => Ended(d)' /\ (Complete(d) => Complete(d)')
  BY EndedIsSettled, CompleteStays
<1>3. ScheduledDays \subseteq Days
  BY DEF ScheduledDays
<1>4. m \in ScheduledDays => DayEnd(m)' = DayEnd(m)
  BY DEF DayEnd
<1>5. \A d \in Days : trigger'[m].day = d => Ended(d)'
  BY <1>1, <1>2 DEF TriggerIsOfEndedDay
<1>6. m \in ScheduledDays =>
          /\ trigger'[m].at # "unsent" => Ended(m)'
          /\ trigger'[m].at = "queued" => trigger'[m].due = DayEnd(m)' /\ trigger'[m].day = NULL
          /\ trigger'[m].at = "acked" => Complete(m)'
  BY <1>1, <1>2, <1>3, <1>4 DEF TriggerIsOfEndedDay
<1> HIDE DEF Ended, Complete, DayEnd
<1> QED BY <1>5, <1>6 DEF TriggerIsOfEndedDay

LEMMA CloseStays ==
    ASSUME IInv, EndedInv, [Next]_vars, NEW k \in Closers, close'[k] = close[k]
    PROVE  CloseIsOfEndedDay(k)' /\ CloseCompletes(k)'
<1>1. CloseIsOfEndedDay(k) /\ CloseCompletes(k)
  BY DEF EndedInv
<1>2. CloseCompletes(k)'
  <2>1. \A d \in ScheduledDays : Ended(d) /\ Complete(d) => Ended(d)' /\ Complete(d)'
    BY EndedIsSettled, CompleteStays DEF ScheduledDays
  <2> HIDE DEF Ended, Complete
  <2> QED BY <1>1, <2>1 DEF CloseCompletes
<1>3. CloseIsOfEndedDay(k)'
  <2> SUFFICES ASSUME NEW d \in Days \cup {-1}, close[k].day = d
               PROVE  /\ close[k].pc \in {"read", "rates", "insert"} =>
                            Ended(d)' /\ \A m \in ScheduledDays : close[k].trigger = m => m = d
                      /\ close[k].pc \in {"rates", "insert"} =>
                            /\ d \in Days
                            /\ SettledSales(d)' \subseteq close[k].sales
                            /\ \A s \in close[k].sales :
                                  Seller[s] \in close[k].left \/ ledger'[d][Seller[s]] # NoRow
                      /\ close[k].pc = "insert" =>
                            \A a \in close[k].left :
                                close[k].rates[a] = RateInForce(a, DayEnd(d))'
    BY DEF CloseIsOfEndedDay
  <2>1. Ended(d) => /\ Ended(d)'
                    /\ SettledSales(d)' = SettledSales(d)
                    /\ \A a \in Attendants :
                          RateInForce(a, DayEnd(d))' = RateInForce(a, DayEnd(d))
    BY EndedIsSettled
  <2>2. close[k].left \subseteq Attendants /\ \A s \in close[k].sales : Seller[s] \in Attendants
    BY ConstantsAssumption DEF IInv, TypeOK, ClosesOK, CloseStates
  <2>3. d \in Days => \A a \in Attendants : ledger[d][a] # NoRow => ledger'[d][a] = ledger[d][a]
    BY RowsStay
  <2>4. /\ close[k].pc \in {"read", "rates", "insert"} =>
               Ended(d) /\ \A m \in ScheduledDays : close[k].trigger = m => m = d
        /\ close[k].pc \in {"rates", "insert"} =>
               /\ d \in Days
               /\ SettledSales(d) \subseteq close[k].sales
               /\ \A s \in close[k].sales :
                     Seller[s] \in close[k].left \/ ledger[d][Seller[s]] # NoRow
        /\ close[k].pc = "insert" =>
               \A a \in close[k].left : close[k].rates[a] = RateInForce(a, DayEnd(d))
    BY <1>1 DEF CloseIsOfEndedDay
  <2> HIDE DEF Ended, SettledSales, RateInForce, NoRow
  <2>5. close[k].pc \in {"read", "rates", "insert"} =>
            Ended(d)' /\ \A m \in ScheduledDays : close[k].trigger = m => m = d
    BY <2>1, <2>4
  <2>6. close[k].pc \in {"rates", "insert"} =>
            /\ d \in Days
            /\ SettledSales(d)' \subseteq close[k].sales
            /\ \A s \in close[k].sales :
                  Seller[s] \in close[k].left \/ ledger'[d][Seller[s]] # NoRow
    BY <2>1, <2>2, <2>3, <2>4
  <2>7. close[k].pc = "insert" =>
            \A a \in close[k].left : close[k].rates[a] = RateInForce(a, DayEnd(d))'
    BY <2>1, <2>2, <2>4
  <2> QED BY <2>5, <2>6, <2>7
<1> QED BY <1>2, <1>3

LEMMA RowStays ==
    ASSUME IInv, EndedInv, [Next]_vars, NEW d \in Days, NEW a \in Attendants,
           ledger'[d][a] = ledger[d][a]
    PROVE  RowIsSettled(d, a)'
<1>1. RowIsSettled(d, a)
  BY DEF EndedInv
<1>2. Ended(d) => /\ Ended(d)'
                  /\ SettledSales(d)' = SettledSales(d)
                  /\ RateInForce(a, DayEnd(d))' = RateInForce(a, DayEnd(d))
  BY EndedIsSettled
<1>3. ledger'[d][a] # NoRow =>
          /\ Ended(d)'
          /\ {s \in SettledSales(d)' : Seller[s] = a} \subseteq ledger'[d][a].sales
          /\ ledger'[d][a].rate = RateInForce(a, DayEnd(d))'
  BY <1>1, <1>2 DEF RowIsSettled
<1> HIDE DEF Ended, SettledSales, RateInForce
<1> QED BY <1>3 DEF RowIsSettled

(* The triggers of days that have ended.                                   *)
LEMMA PostEnded ==
    ASSUME IInv, EndedInv, [Next]_vars, ~EarlyDrills, NEW p \in Posts, Post(p)
    PROVE  EndedInv'
<1>1. UNCHANGED <<now, sale, rates, close, ledger>>
  BY DEF Post
<1>2. PICK body \in {Body(due, NULL) : due \in Instants \cup {NULL}}
                    \cup {Body(NULL, day) : day \in Nameable} :
         trigger' = [trigger EXCEPT ![p] = body]
  BY DEF Post
<1>3. p \notin ScheduledDays /\ now \in Nat /\ NULL \notin Int /\ Days \subseteq Int
  BY ConstantsAssumption DEF ScheduledDays, Days, IInv, TypeOK, Instants
<1>4. \A d \in Days : body.day = d => Ended(d)
  <2>1. \A d \in Nameable : Ended(d)
    BY <1>3, DayHasEnded DEF Nameable, Ended
  <2>2. body.day \in Nameable \cup {NULL}
    BY <1>2 DEF Body
  <2> QED BY <1>3, <2>1, <2>2
<1>5. \A m \in ScheduledDays \cup Posts : trigger'[m] = IF m = p THEN body ELSE trigger[m]
  BY <1>2 DEF IInv, TypeOK, TriggersOK
<1>6. TriggerIsOfEndedDay(p)'
  <2>1. \A d \in Days : Ended(d)' <=> Ended(d)
    BY <1>1 DEF Ended, DayEnd
  <2> HIDE DEF Ended
  <2> QED BY <1>3, <1>4, <1>5, <2>1 DEF TriggerIsOfEndedDay
<1>7. \A m \in ScheduledDays \cup Posts : TriggerIsOfEndedDay(m)'
  BY <1>5, <1>6, TriggerStays
<1>8. /\ \A k \in Closers : CloseIsOfEndedDay(k)' /\ CloseCompletes(k)'
      /\ \A d \in Days, a \in Attendants : RowIsSettled(d, a)'
  BY <1>1, CloseStays, RowStays
<1> QED BY <1>7, <1>8 DEF EndedInv

LEMMA TickEnded ==
    ASSUME IInv, EndedInv, [Next]_vars, Tick
    PROVE  EndedInv'
<1>1. UNCHANGED <<sale, rates, close, ledger>>
  BY DEF Tick
<1>2. now' \in Nat /\ NULL \notin Int /\ Days \subseteq Int
  BY ConstantsAssumption DEF Days, IInv, TypeOK, Instants, Tick
<1>3. \A m \in ScheduledDays \cup Posts :
         trigger'[m] = IF m \in ScheduledDays /\ DayEnd(m) = now' THEN Body(now', NULL)
                       ELSE trigger[m]
  BY DEF Tick, IInv, TypeOK, TriggersOK
<1>4. ASSUME NEW m \in ScheduledDays, DayEnd(m) = now'
      PROVE  TriggerIsOfEndedDay(m)'
  <2>1. trigger'[m] = Body(now', NULL)
    BY <1>3, <1>4
  <2>2. Ended(m)' /\ DayEnd(m)' = now'
    BY <1>2, <1>4 DEF Ended, DayEnd
  <2>3. trigger'[m].at = "queued" /\ trigger'[m].due = now' /\ trigger'[m].day = NULL
    BY <2>1 DEF Body
  <2> HIDE DEF Ended, DayEnd
  <2> QED BY <1>2, <2>2, <2>3 DEF TriggerIsOfEndedDay
<1>5. \A m \in ScheduledDays \cup Posts : TriggerIsOfEndedDay(m)'
  BY <1>3, <1>4, TriggerStays
<1>6. /\ \A k \in Closers : CloseIsOfEndedDay(k)' /\ CloseCompletes(k)'
      /\ \A d \in Days, a \in Attendants : RowIsSettled(d, a)'
  BY <1>1, CloseStays, RowStays
<1> QED BY <1>5, <1>6 DEF EndedInv

LEMMA DropEnded ==
    ASSUME IInv, EndedInv, [Next]_vars, NEW q \in DOMAIN trigger, DeadLetter(q) \/ Expire(q)
    PROVE  EndedInv'
<1>1. UNCHANGED <<now, sale, rates, close, ledger>>
  BY DEF DeadLetter, Expire
<1>2. NULL \notin Int /\ Days \subseteq Int /\ ScheduledDays \subseteq Days
  BY ConstantsAssumption DEF Days, ScheduledDays
<1>3. PICK end \in {"dead", "expired"} :
         \A m \in ScheduledDays \cup Posts : trigger'[m] = IF m = q THEN Away(end) ELSE trigger[m]
  BY DEF DeadLetter, Expire, IInv, TypeOK, TriggersOK
<1>4. q \in ScheduledDays \cup Posts /\ trigger[q].at = "queued"
  BY DEF DeadLetter, Expire, IInv, TypeOK, TriggersOK
<1>5. TriggerIsOfEndedDay(q)'
  <2>1. q \in ScheduledDays => Ended(q)
    BY <1>4 DEF EndedInv, TriggerIsOfEndedDay
  <2>2. q \in ScheduledDays => Ended(q)'
    BY <1>2, <2>1, EndedIsSettled
  <2>3. trigger'[q].at \in {"dead", "expired"} /\ trigger'[q].day = NULL
    BY <1>3, <1>4 DEF Away
  <2> HIDE DEF Ended
  <2> QED BY <1>2, <2>2, <2>3 DEF TriggerIsOfEndedDay
<1>6. \A m \in ScheduledDays \cup Posts : TriggerIsOfEndedDay(m)'
  BY <1>3, <1>5, TriggerStays
<1>7. /\ \A k \in Closers : CloseIsOfEndedDay(k)' /\ CloseCompletes(k)'
      /\ \A d \in Days, a \in Attendants : RowIsSettled(d, a)'
  BY <1>1, CloseStays, RowStays
<1> QED BY <1>6, <1>7 DEF EndedInv

(* Yesterday is over, and it is the day the schedule's trigger is for.     *)
LEMMA YesterdayHasEnded ==
    ASSUME NEW t \in Nat
    PROVE  Yesterday(t) \in Int /\ DayEnd(Yesterday(t)) <= t
<1>1. Day(t) \in Nat
  BY DayDivides
<1> QED BY <1>1, DayHasEnded DEF Yesterday

LEMMA DayBefore ==
    ASSUME NEW d \in Int, DayEnd(d) \in Nat
    PROVE  Yesterday(DayEnd(d)) = d
<1>1. PICK t \in Nat : t = DayEnd(d)
  OBVIOUS
<1>2. DayStart(d + 1) = t /\ DayEnd(d + 1) \in Int /\ t < DayEnd(d + 1)
  BY <1>1, DayTypes DEF DayStart, DayEnd
<1>3. d + 1 = Day(t)
  BY <1>2, WindowIsDay DEF InWindow
<1> QED BY <1>1, <1>3 DEF Yesterday

(* What resolveBusinessDay takes a trigger for is a day that has ended; the*)
(* schedule's, for its own.                                                *)
LEMMA BusinessDayHasEnded ==
    ASSUME IInv, EndedInv, NEW m \in ScheduledDays \cup Posts, trigger[m].at = "queued"
    PROVE  /\ Ended(BusinessDay(m))
           /\ m \in ScheduledDays => BusinessDay(m) = m
<1>1. /\ trigger[m].day \in Days \cup {NULL} /\ trigger[m].due \in Instants \cup {NULL}
      /\ now \in Nat /\ Instants \subseteq Nat /\ NULL \notin Int /\ Days \subseteq Int
      /\ ScheduledDays \subseteq Int
  <2>1. trigger[m] \in TriggerStates /\ now \in Instants
    BY DEF IInv, TypeOK, TriggersOK
  <2>2. Instants \subseteq Nat /\ NULL \notin Int /\ Days \subseteq Int
    BY ConstantsAssumption DEF Instants, Days
  <2>3. ScheduledDays \subseteq Int
    BY <2>2 DEF ScheduledDays
  <2>4. trigger[m].day \in Days \cup {NULL} /\ trigger[m].due \in Instants \cup {NULL}
    BY <2>1 DEF TriggerStates
  <2> HIDE DEF Days, Instants, ScheduledDays
  <2> QED BY <2>1, <2>2, <2>3, <2>4
<1>2. TriggerIsOfEndedDay(m)
  BY DEF EndedInv
<1>3. CASE trigger[m].day # NULL
  <2>1. BusinessDay(m) = trigger[m].day
    BY <1>3 DEF BusinessDay
  <2> QED BY <1>1, <1>2, <1>3, <2>1 DEF TriggerIsOfEndedDay
<1>4. CASE trigger[m].day = NULL
  <2> DEFINE t == IF Trusted(trigger[m].due) THEN trigger[m].due ELSE now
  <2>1. t \in Nat /\ t <= now
    <3>1. CASE Trusted(trigger[m].due)
      <4>1. trigger[m].due \in Nat /\ trigger[m].due <= now
        BY <1>1, <3>1 DEF Trusted
      <4> QED BY <3>1, <4>1
    <3>2. CASE ~Trusted(trigger[m].due)
      BY <1>1, <3>2
    <3> QED BY <3>1, <3>2
  <2>2. BusinessDay(m) = Yesterday(t)
    BY <1>4 DEF BusinessDay
  <2>3. m \in ScheduledDays => t = DayEnd(m)
    <3> SUFFICES ASSUME m \in ScheduledDays PROVE t = DayEnd(m)
      OBVIOUS
    <3>1. trigger[m].due = DayEnd(m) /\ DayEnd(m) <= now
      BY <1>2 DEF TriggerIsOfEndedDay, Ended
    <3>2. DayEnd(m) \in Int
      BY <1>1, DayTypes
    <3>3. Trusted(trigger[m].due)
      BY <1>1, <3>1, <3>2 DEF Trusted
    <3> QED BY <3>1, <3>3
  <2> HIDE DEF t
  <2>4. Yesterday(t) \in Int /\ DayEnd(Yesterday(t)) <= t
    BY <2>1, YesterdayHasEnded
  <2>5. DayEnd(Yesterday(t)) \in Int
    BY <2>4, DayTypes
  <2>6. Ended(BusinessDay(m))
    BY <1>1, <2>1, <2>2, <2>4, <2>5 DEF Ended
  <2>7. m \in ScheduledDays => BusinessDay(m) = m
    BY <1>1, <2>1, <2>2, <2>3, DayBefore
  <2> QED BY <2>6, <2>7
<1> QED BY <1>3, <1>4

(* The closes of days that have ended.                                     *)
LEMMA StartsOnEndedDay ==
    ASSUME IInv, [Next]_vars, NEW k \in Closers, NEW m, NEW d \in Days \cup {-1},
           close'[k] = Started(m, d), Ended(d), m \in ScheduledDays => m = d
    PROVE  CloseIsOfEndedDay(k)' /\ CloseCompletes(k)'
<1>1. close'[k].pc = "read" /\ close'[k].day = d /\ close'[k].trigger = m
  BY DEF Started, IdleClose
<1>2. Ended(d)'
  BY EndedIsSettled
<1> HIDE DEF Ended
<1>3. CloseIsOfEndedDay(k)'
  BY <1>1, <1>2 DEF CloseIsOfEndedDay
<1>4. CloseCompletes(k)'
  BY <1>1 DEF CloseCompletes
<1> QED BY <1>3, <1>4

LEMMA ReceiveEnded ==
    ASSUME IInv, EndedInv, [Next]_vars, NEW w \in Workers, NEW q \in DOMAIN trigger,
           Receive(w, q)
    PROVE  EndedInv'
<1>1. /\ UNCHANGED <<now, sale, rates, ledger>> /\ trigger[q].at = "queued"
      /\ trigger' = [trigger EXCEPT ![q].receives = @ + 1]
      /\ close' = IF LockIsFree THEN [close EXCEPT ![w] = Started(q, BusinessDay(q))] ELSE close
  BY DEF Receive
<1>2. /\ q \in ScheduledDays \cup Posts /\ w \in Closers
      /\ close \in [Closers -> CloseStates]
      /\ trigger \in [ScheduledDays \cup Posts -> TriggerStates]
  BY DEF IInv, TypeOK, TriggersOK, ClosesOK, Closers
<1>3. \A m \in ScheduledDays \cup Posts : /\ trigger'[m].at = trigger[m].at
                                          /\ trigger'[m].due = trigger[m].due
                                          /\ trigger'[m].day = trigger[m].day
  BY <1>1, <1>2 DEF TriggerStates
<1>4. \A m \in ScheduledDays \cup Posts : TriggerIsOfEndedDay(m)'
  BY <1>3, TriggerStays
<1> DEFINE d == BusinessDay(q)
<1>5. d \in Days \cup {-1} /\ Ended(d) /\ (q \in ScheduledDays => q = d)
  BY <1>1, <1>2, BusinessDayType, BusinessDayHasEnded
<1>6. \A k \in Closers : close'[k] = close[k] \/ (k = w /\ close'[k] = Started(q, d))
  BY <1>1, <1>2
<1> HIDE DEF d
<1>7. \A k \in Closers : CloseIsOfEndedDay(k)' /\ CloseCompletes(k)'
  BY <1>2, <1>5, <1>6, CloseStays, StartsOnEndedDay
<1>8. \A e \in Days, a \in Attendants : RowIsSettled(e, a)'
  BY <1>1, RowStays
<1> QED BY <1>4, <1>7, <1>8 DEF EndedInv

LEMMA StartDrillEnded ==
    ASSUME IInv, EndedInv, [Next]_vars, ~EarlyDrills, NEW q \in Drills, StartDrill(q)
    PROVE  EndedInv'
<1>1. UNCHANGED <<now, sale, rates, trigger, ledger>>
  BY DEF StartDrill
<1>2. PICK d \in Nameable \cup {Yesterday(now)} : close' = [close EXCEPT ![q] = Started(NULL, d)]
  BY DEF StartDrill
<1>3. /\ q \in Closers /\ close \in [Closers -> CloseStates] /\ now \in Instants
  BY DEF IInv, TypeOK, ClosesOK, Closers
<1>4. NULL \notin ScheduledDays /\ Instants \subseteq Nat /\ Days \subseteq Int
  BY ConstantsAssumption DEF ScheduledDays, Days, Instants
<1>5. d \in Days \cup {-1} /\ Ended(d)
  <2>1. CASE d \in Nameable
    BY <1>3, <1>4, <2>1, DayHasEnded DEF Nameable, Ended
  <2>2. CASE d = Yesterday(now)
    BY <1>3, <1>4, <2>2, DayOfInstant, YesterdayHasEnded DEF Ended
  <2> QED BY <2>1, <2>2
<1>6. \A k \in Closers : close'[k] = close[k] \/ (k = q /\ close'[k] = Started(NULL, d))
  BY <1>2, <1>3
<1>7. \A k \in Closers : CloseIsOfEndedDay(k)' /\ CloseCompletes(k)'
  BY <1>3, <1>4, <1>5, <1>6, CloseStays, StartsOnEndedDay
<1>8. /\ \A m \in ScheduledDays \cup Posts : TriggerIsOfEndedDay(m)'
      /\ \A e \in Days, a \in Attendants : RowIsSettled(e, a)'
  BY <1>1, TriggerStays, RowStays
<1> QED BY <1>7, <1>8 DEF EndedInv

(* A close that leaves the ledger and the triggers alone.                  *)
LEMMA OneCloseMoves ==
    ASSUME IInv, EndedInv, [Next]_vars, UNCHANGED <<trigger, ledger>>,
           NEW k \in Closers, NEW state, close' = [close EXCEPT ![k] = state],
           CloseIsOfEndedDay(k)', CloseCompletes(k)'
    PROVE  EndedInv'
<1>1. \A q \in Closers : q # k => close'[q] = close[q]
  BY DEF IInv, TypeOK, ClosesOK
<1>2. \A q \in Closers : CloseIsOfEndedDay(q)' /\ CloseCompletes(q)'
  BY <1>1, CloseStays
<1>3. /\ \A m \in ScheduledDays \cup Posts : TriggerIsOfEndedDay(m)'
      /\ \A e \in Days, a \in Attendants : RowIsSettled(e, a)'
  BY TriggerStays, RowStays
<1> QED BY <1>2, <1>3 DEF EndedInv

LEMMA ReadSalesEnded ==
    ASSUME IInv, EndedInv, [Next]_vars, NEW k \in Closers, ReadSales(k)
    PROVE  EndedInv'
<1>1. /\ close \in [Closers -> CloseStates] /\ close[k] \in CloseStates /\ close[k].pc = "read"
      /\ UNCHANGED <<now, sale, rates, trigger, ledger>>
  BY DEF IInv, TypeOK, ClosesOK, ReadSales
<1>2. PICK d \in Days \cup {-1} : d = close[k].day
  BY <1>1 DEF CloseStates
<1>3. Ended(d) /\ \A m \in ScheduledDays : close[k].trigger = m => m = d
  BY <1>1, <1>2 DEF EndedInv, CloseIsOfEndedDay
<1>4. Ended(d)' /\ SettledSales(d)' = SettledSales(d)
  BY <1>3, EndedIsSettled
<1>5. SettledSales(d) \subseteq KnownSales(d)
  BY DEF SettledSales, KnownSales
<1> DEFINE known == KnownSales(d)
           read == [close[k] EXCEPT !.pc = "rates", !.sales = known,
                                    !.left = {Seller[s] : s \in known}]
           state == IF known = {} THEN Closed(k) ELSE read
<1>6. close' = [close EXCEPT ![k] = state]
  BY <1>2 DEF ReadSales
<1>7. CASE known = {}
  <2>1. close'[k] = Closed(k)
    BY <1>1, <1>6, <1>7
  <2>2. close'[k].pc = "ack" /\ close'[k].trigger = close[k].trigger
    BY <2>1 DEF Closed, IdleClose
  <2>3. Complete(d)'
    BY <1>4, <1>5, <1>7 DEF Complete
  <2>4. CloseCompletes(k)'
    <3> HIDE DEF Complete, Ended
    <3> QED BY <1>3, <1>4, <2>2, <2>3 DEF CloseCompletes
  <2>5. CloseIsOfEndedDay(k)'
    BY <2>2 DEF CloseIsOfEndedDay
  <2> HIDE DEF state
  <2> QED BY <1>1, <1>6, <2>4, <2>5, OneCloseMoves
<1>8. CASE known # {}
  <2>1. known \subseteq Sales /\ {Seller[s] : s \in known} \subseteq Attendants
    BY ConstantsAssumption DEF KnownSales
  <2> HIDE DEF known
  <2>2. close'[k] = read
    BY <1>1, <1>6, <1>8
  <2>3. /\ close'[k].pc = "rates" /\ close'[k].trigger = close[k].trigger
        /\ close'[k].day = d /\ close'[k].sales = known
        /\ close'[k].left = {Seller[s] : s \in known}
    BY <1>1, <1>2, <2>2 DEF CloseStates
  <2>4. d \in Days
    <3>1. PICK s \in known : sale[s].known # NULL /\ InWindow(sale[s].paid, d)
      BY <1>8 DEF known, KnownSales
    <3>2. s \in Sales /\ SalesOK /\ Instants \subseteq Nat /\ NULL \notin Int
      BY <2>1, ConstantsAssumption DEF IInv, TypeOK, Instants
    <3>3. sale[s].paid \in Instants
      BY <3>1, <3>2 DEF SalesOK
    <3>4. d = Day(sale[s].paid)
      <4>1. d \in Int /\ sale[s].paid \in Nat
        BY <3>2, <3>3, DayKinds
      <4> QED BY <3>1, <4>1, WindowIsDay
    <3> QED BY <3>3, <3>4, DayOfInstant
  <2>5. CloseIsOfEndedDay(k)'
    <3> HIDE DEF Ended, SettledSales, read, state
    <3>1. SettledSales(d)' \subseteq close'[k].sales
      BY <1>4, <1>5, <2>3 DEF known
    <3> QED BY <1>3, <1>4, <2>3, <2>4, <3>1 DEF CloseIsOfEndedDay
  <2>6. CloseCompletes(k)'
    BY <2>3 DEF CloseCompletes
  <2> HIDE DEF state
  <2> QED BY <1>1, <1>6, <2>5, <2>6, OneCloseMoves
<1> QED BY <1>7, <1>8

LEMMA ReadRatesEnded ==
    ASSUME IInv, EndedInv, [Next]_vars, NEW k \in Closers, ReadRates(k)
    PROVE  EndedInv'
<1>1. /\ close \in [Closers -> CloseStates] /\ close[k] \in CloseStates /\ close[k].pc = "rates"
      /\ UNCHANGED <<now, sale, rates, trigger, ledger>>
  BY DEF IInv, TypeOK, ClosesOK, ReadRates
<1>2. PICK d \in Days \cup {-1} : d = close[k].day
  BY <1>1 DEF CloseStates
<1>3. /\ Ended(d) /\ \A m \in ScheduledDays : close[k].trigger = m => m = d
      /\ d \in Days /\ SettledSales(d) \subseteq close[k].sales
      /\ \A s \in close[k].sales : Seller[s] \in close[k].left \/ ledger[d][Seller[s]] # NoRow
  BY <1>1, <1>2 DEF EndedInv, CloseIsOfEndedDay
<1>4. /\ Ended(d)' /\ SettledSales(d)' = SettledSales(d)
      /\ \A a \in Attendants : RateInForce(a, DayEnd(d))' = RateInForce(a, DayEnd(d))
  BY <1>3, EndedIsSettled
<1> DEFINE r == [a \in Attendants |-> IF a \in close[k].left
                                     THEN RateInForce(a, DayEnd(d)) ELSE NULL]
           state == [close[k] EXCEPT !.pc = "insert", !.rates = r]
<1>5. close' = [close EXCEPT ![k] = state]
  BY <1>1, <1>2 DEF ReadRates
<1>6. close[k].left \subseteq Attendants
  BY <1>1 DEF CloseStates
<1>7. \A a \in close[k].left : r[a] = RateInForce(a, DayEnd(d))'
  BY <1>4, <1>6
<1> HIDE DEF r
<1>8. /\ close'[k].pc = "insert" /\ close'[k].trigger = close[k].trigger
      /\ close'[k].day = d /\ close'[k].sales = close[k].sales
      /\ close'[k].left = close[k].left /\ close'[k].rates = r
  BY <1>1, <1>2, <1>5 DEF CloseStates
<1>9. CloseIsOfEndedDay(k)'
  <2>1. SettledSales(d)' \subseteq close'[k].sales
    BY <1>3, <1>4, <1>8
  <2>2. \A s \in close'[k].sales : Seller[s] \in close'[k].left \/ ledger'[d][Seller[s]] # NoRow
    BY <1>1, <1>3, <1>8
  <2>3. \A a \in close'[k].left : close'[k].rates[a] = RateInForce(a, DayEnd(d))'
    BY <1>7, <1>8
  <2> HIDE DEF Ended, SettledSales, RateInForce, state, NoRow
  <2> QED BY <1>3, <1>4, <1>8, <2>1, <2>2, <2>3 DEF CloseIsOfEndedDay
<1>10. CloseCompletes(k)'
  BY <1>8 DEF CloseCompletes
<1> HIDE DEF state
<1> QED BY <1>1, <1>5, <1>9, <1>10, OneCloseMoves

(* The row inserted is whole, or one that is was there.                    *)
LEMMA InsertRowEnded ==
    ASSUME IInv, EndedInv, [Next]_vars, NEW k \in Closers, NEW a \in Attendants, InsertRow(k, a)
    PROVE  EndedInv'
<1>1. /\ close \in [Closers -> CloseStates] /\ close[k] \in CloseStates
      /\ UNCHANGED <<now, sale, rates, trigger>>
      /\ close' = [close EXCEPT ![k] = AfterRow(k, a)]
  BY DEF IInv, TypeOK, ClosesOK, InsertRow
<1>2. PICK d \in Days : d = close[k].day
  BY InsertRowEffect
<1> DEFINE own == {s \in close[k].sales : Seller[s] = a}
           row == Computed(own, close[k].rates[a])
<1>3. /\ a \in close[k].left /\ close[k].pc = "insert"
      /\ \A e \in Days, b \in Attendants :
            ledger'[e][b] = IF e = d /\ b = a /\ ledger[d][a] = NoRow THEN row
                            ELSE ledger[e][b]
  BY <1>2, InsertRowEffect
<1>4. row.sales = own /\ row.rate = close[k].rates[a] /\ own # {} /\ row # NoRow
  <2>1. row.sales = own /\ row.rate = close[k].rates[a] /\ own # {}
    BY <1>3, InsertedRow
  <2> HIDE DEF row, own
  <2> QED BY <2>1 DEF NoRow
<1> HIDE DEF row
<1>5. /\ Ended(d) /\ \A m \in ScheduledDays : close[k].trigger = m => m = d
      /\ SettledSales(d) \subseteq close[k].sales
      /\ \A s \in close[k].sales : Seller[s] \in close[k].left \/ ledger[d][Seller[s]] # NoRow
      /\ \A b \in close[k].left : close[k].rates[b] = RateInForce(b, DayEnd(d))
  BY <1>2, <1>3 DEF EndedInv, CloseIsOfEndedDay
<1>6. /\ Ended(d)' /\ SettledSales(d)' = SettledSales(d)
      /\ \A b \in Attendants : RateInForce(b, DayEnd(d))' = RateInForce(b, DayEnd(d))
  BY <1>5, EndedIsSettled
<1>7. ASSUME NEW e \in Days, NEW b \in Attendants
      PROVE  RowIsSettled(e, b)'
  <2>1. CASE e = d /\ b = a /\ ledger[d][a] = NoRow
    <3>1. ledger'[e][b] = row
      BY <1>3, <2>1
    <3>2. {s \in SettledSales(e)' : Seller[s] = b} \subseteq ledger'[e][b].sales
      BY <1>4, <1>5, <1>6, <2>1, <3>1
    <3>3. ledger'[e][b].rate = RateInForce(b, DayEnd(e))'
      BY <1>3, <1>4, <1>5, <1>6, <2>1, <3>1
    <3> HIDE DEF Ended, SettledSales, RateInForce
    <3> QED BY <1>6, <2>1, <3>2, <3>3 DEF RowIsSettled
  <2>2. CASE ~(e = d /\ b = a /\ ledger[d][a] = NoRow)
    BY <1>3, <2>2, RowStays
  <2> QED BY <2>1, <2>2
<1>8. /\ \A s \in close[k].sales : Seller[s] \in Attendants
      /\ \A s \in close[k].sales : Seller[s] \in close[k].left \ {a} \/ ledger'[d][Seller[s]] # NoRow
  <2>1. \A s \in close[k].sales : Seller[s] \in Attendants
    BY <1>1, ConstantsAssumption DEF CloseStates
  <2>2. ledger'[d][a] # NoRow
    BY <1>3, <1>4
  <2>3. \A b \in Attendants : ledger[d][b] # NoRow => ledger'[d][b] # NoRow
    BY RowsStay
  <2> HIDE DEF NoRow
  <2> QED BY <1>5, <2>1, <2>2, <2>3
<1>9. CloseIsOfEndedDay(k)' /\ CloseCompletes(k)'
  <2>1. CASE close[k].left = {a}
    <3>1. close'[k] = Closed(k)
      BY <1>1, <2>1 DEF AfterRow
    <3>2. close'[k].pc = "ack" /\ close'[k].trigger = close[k].trigger
      BY <3>1 DEF Closed, IdleClose
    <3>3. ASSUME NEW s \in SettledSales(d)'
          PROVE  s \in ledger'[d][Seller[s]].sales
      <4>1. PICK b \in Attendants : b = Seller[s] /\ ledger'[d][b] # NoRow
        BY <1>5, <1>6, <1>8, <2>1
      <4>2. RowIsSettled(d, b)'
        BY <1>7
      <4>3. {t \in SettledSales(d)' : Seller[t] = b} \subseteq ledger'[d][b].sales
        BY <4>1, <4>2 DEF RowIsSettled
      <4> QED BY <4>1, <4>3
    <3>4. Complete(d)'
      BY <3>3 DEF Complete
    <3>5. CloseCompletes(k)'
      <4> HIDE DEF Complete, Ended
      <4> QED BY <1>5, <1>6, <3>2, <3>4 DEF CloseCompletes
    <3>6. CloseIsOfEndedDay(k)'
      BY <3>2 DEF CloseIsOfEndedDay
    <3> QED BY <3>5, <3>6
  <2>2. CASE close[k].left # {a}
    <3> DEFINE rest == [close[k] EXCEPT !.left = @ \ {a}, !.rates[a] = NULL]
    <3>1. close'[k] = rest
      BY <1>1, <2>2 DEF AfterRow
    <3>2. /\ rest.pc = "insert" /\ rest.trigger = close[k].trigger
          /\ rest.day = d /\ rest.sales = close[k].sales
          /\ rest.left = close[k].left \ {a}
          /\ \A b \in rest.left : rest.rates[b] = close[k].rates[b]
      BY <1>1, <1>2, <1>3 DEF CloseStates
    <3> HIDE DEF rest
    <3>3. CloseCompletes(k)'
      BY <3>1, <3>2 DEF CloseCompletes
    <3>4. SettledSales(d)' \subseteq close'[k].sales
      BY <1>5, <1>6, <3>1, <3>2
    <3>5. \A s \in close'[k].sales : Seller[s] \in close'[k].left \/ ledger'[d][Seller[s]] # NoRow
      BY <1>8, <3>1, <3>2
    <3>6. \A b \in close'[k].left : close'[k].rates[b] = RateInForce(b, DayEnd(d))'
      <4>1. close[k].left \subseteq Attendants
        BY <1>1 DEF CloseStates
      <4> QED BY <1>5, <1>6, <3>1, <3>2, <4>1
    <3>7. CloseIsOfEndedDay(k)'
      <4> HIDE DEF Ended, SettledSales, RateInForce, NoRow
      <4> QED BY <1>5, <1>6, <3>1, <3>2, <3>4, <3>5, <3>6 DEF CloseIsOfEndedDay
    <3> QED BY <3>3, <3>7
  <2> QED BY <2>1, <2>2
<1>10. \A q \in Closers : q # k => close'[q] = close[q]
  BY <1>1
<1>11. \A q \in Closers : CloseIsOfEndedDay(q)' /\ CloseCompletes(q)'
  BY <1>9, <1>10, CloseStays
<1>12. \A m \in ScheduledDays \cup Posts : TriggerIsOfEndedDay(m)'
  BY <1>1, TriggerStays
<1> QED BY <1>7, <1>11, <1>12 DEF EndedInv

(* The trigger is acked by a close that has completed its day.             *)
LEMMA FinishEnded ==
    ASSUME IInv, EndedInv, [Next]_vars, NEW k \in Closers, Finish(k) \/ Abort(k)
    PROVE  EndedInv'
<1>1. /\ close \in [Closers -> CloseStates]
      /\ UNCHANGED <<now, sale, rates, ledger>> /\ close' = [close EXCEPT ![k] = IdleClose]
  BY DEF IInv, TypeOK, ClosesOK, Finish, Abort
<1>2. CloseIsOfEndedDay(k)' /\ CloseCompletes(k)'
  <2>1. close'[k].pc = "idle"
    BY <1>1 DEF IdleClose
  <2> QED BY <2>1 DEF CloseIsOfEndedDay, CloseCompletes
<1>3. CASE UNCHANGED trigger
  <2> HIDE DEF IdleClose
  <2> QED BY <1>1, <1>2, <1>3, OneCloseMoves
<1>4. CASE ~UNCHANGED trigger
  <2> DEFINE q == close[k].trigger
  <2>1. /\ close[k].pc = "ack" /\ q # NULL
        /\ trigger' = [trigger EXCEPT ![q] = IF @.at = "queued" THEN Away("acked") ELSE @]
    BY <1>4 DEF Finish, Abort
  <2>2. /\ q \in ScheduledDays \cup Posts
        /\ trigger \in [ScheduledDays \cup Posts -> TriggerStates]
    BY <2>1 DEF IInv, TypeOK, TriggersOK, ClosesOK, CloseStates
  <2>3. \A m \in ScheduledDays \cup Posts :
           trigger'[m] = trigger[m] \/ (m = q /\ trigger'[m] = Away("acked"))
    BY <2>1, <2>2
  <2>4. \A m \in ScheduledDays : m = q => Ended(m) /\ Complete(m)
    BY <2>1 DEF EndedInv, CloseCompletes
  <2>5. ASSUME NEW m \in ScheduledDays \cup Posts, m = q, trigger'[m] = Away("acked")
        PROVE  TriggerIsOfEndedDay(m)'
    <3>1. m \in ScheduledDays => Ended(m)' /\ Complete(m)'
      BY <2>4, <2>5, EndedIsSettled, CompleteStays DEF ScheduledDays
    <3>2. trigger'[m].at = "acked" /\ trigger'[m].day = NULL
      BY <2>5 DEF Away
    <3>3. NULL \notin Days
      BY ConstantsAssumption DEF Days
    <3> HIDE DEF Ended, Complete, Days
    <3> QED BY <3>1, <3>2, <3>3 DEF TriggerIsOfEndedDay
  <2>6. \A m \in ScheduledDays \cup Posts : TriggerIsOfEndedDay(m)'
    BY <2>3, <2>5, TriggerStays
  <2>7. \A p \in Closers : p # k => close'[p] = close[p]
    BY <1>1
  <2>8. \A p \in Closers : CloseIsOfEndedDay(p)' /\ CloseCompletes(p)'
    BY <1>2, <2>7, CloseStays
  <2>9. \A d \in Days, a \in Attendants : RowIsSettled(d, a)'
    BY <1>1, RowStays
  <2> QED BY <2>6, <2>8, <2>9 DEF EndedInv
<1> QED BY <1>3, <1>4

(* A step that touches neither triggers, closes nor rows.                  *)
LEMMA ElsewhereEnded ==
    ASSUME IInv, EndedInv, [Next]_vars, UNCHANGED <<trigger, close, ledger>>
    PROVE  EndedInv'
BY TriggerStays, CloseStays, RowStays DEF EndedInv

LEMMA InitEnded == Init => EndedInv
<1> SUFFICES ASSUME Init PROVE EndedInv
  OBVIOUS
<1>1. NULL \notin Days
  BY ConstantsAssumption DEF Days
<1>2. \A m \in ScheduledDays \cup Posts : TriggerIsOfEndedDay(m)
  BY <1>1 DEF Init, Away, TriggerIsOfEndedDay
<1>3. \A k \in Closers : CloseIsOfEndedDay(k) /\ CloseCompletes(k)
  BY DEF Init, IdleClose, CloseIsOfEndedDay, CloseCompletes
<1>4. \A d \in Days, a \in Attendants : RowIsSettled(d, a)
  BY DEF Init, RowIsSettled
<1> QED BY <1>2, <1>3, <1>4 DEF EndedInv

LEMMA NextEnded == ~EarlyDrills => (IInv /\ EndedInv /\ [Next]_vars => EndedInv')
<1> SUFFICES ASSUME ~EarlyDrills, IInv, EndedInv, [Next]_vars PROVE EndedInv'
  OBVIOUS
<1>1. CASE \/ \E s \in Sales : Pay(s) \/ ApplyPaid(s)
           \/ \E who \in Attendants \cup {NULL} : SetRate(who)
           \/ UNCHANGED vars
  <2>1. UNCHANGED <<trigger, close, ledger>>
    BY <1>1 DEF Pay, ApplyPaid, SetRate, vars
  <2> QED BY <2>1, ElsewhereEnded
<1>2. CASE \/ \E p \in Posts : Post(p)
           \/ \E m \in DOMAIN trigger : DeadLetter(m) \/ Expire(m)
           \/ Tick
  BY <1>2, PostEnded, DropEnded, TickEnded
<1>3. CASE \/ \E m \in DOMAIN trigger : \E w \in Workers : Receive(w, m)
           \/ \E k \in Drills : StartDrill(k)
  BY <1>3, ReceiveEnded, StartDrillEnded
<1>4. ASSUME NEW k \in Closers, CloseStep(k)
      PROVE  EndedInv'
  BY <1>4, ReadSalesEnded, ReadRatesEnded, InsertRowEnded, FinishEnded DEF CloseStep
<1> QED BY <1>1, <1>2, <1>3, <1>4 DEF Next

(* Where operators close no day early, nothing is closed before its day is *)
(* over, whatever a trigger says of its time.                              *)
THEOREM DaysEndBeforeTheyClose ==
    ASSUME ~EarlyDrills
    PROVE  Spec => []EndedInv
<1>1. Init => IInv /\ EndedInv
  BY InitIInv, InitEnded
<1>2. IInv /\ EndedInv /\ [Next]_vars => IInv' /\ EndedInv'
  BY NextIInv, NextEnded
<1> QED BY <1>1, <1>2, PTL DEF Spec

(* "Pays commission on a partial day": no row leaves out a sale that POS   *)
(* knew of when the day ended, though rows are inserted once and for all.  *)
THEOREM NoPartialDay ==
    ASSUME ~EarlyDrills
    PROVE  Spec => []RowsAreWhole
<1>1. EndedInv => RowsAreWhole
  BY DEF EndedInv, RowIsSettled, RowsAreWhole
<1> QED BY <1>1, DaysEndBeforeTheyClose, PTL

(* A row is at the rate that was in force when its day ended, for ever: no *)
(* rate that is set later, while a close runs or before it, changes it.    *)
THEOREM RatesAreOfTheDay ==
    ASSUME ~EarlyDrills
    PROVE  Spec => []RateSettled
<1>1. EndedInv => RateSettled
  BY DEF EndedInv, RowIsSettled, RateSettled
<1> QED BY <1>1, DaysEndBeforeTheyClose, PTL

(* "Ack only after the close committed": an acked trigger leaves no sale   *)
(* of its day behind, with crashes, redeliveries and drills at any point.  *)
THEOREM AckedMeansComplete ==
    ASSUME ~EarlyDrills
    PROVE  Spec => []AckedDayIsComplete
<1>1. EndedInv => AckedDayIsComplete
  BY DEF EndedInv, TriggerIsOfEndedDay, AckedDayIsComplete
<1> QED BY <1>1, DaysEndBeforeTheyClose, PTL
=============================================================================

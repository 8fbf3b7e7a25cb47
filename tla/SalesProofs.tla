----------------------------- MODULE SalesProofs -----------------------------
(***************************************************************************)
(* Theorems about what surrounds an invoice: estimates (Billing), orders   *)
(* with the loyalty points they earn (Loyalty), and the bills that are the *)
(* invoices of a vendor (Bills).  For every number of rows, workers and    *)
(* overlapping runs of the task, and for everything a document may say.    *)
(***************************************************************************)
EXTENDS Loyalty, Billing, Bills, Sums, FiniteSetTheorems, SequenceTheorems, TLAPS

\* A number lies between itself and its negative.
LEMMA WithinItself == \A n \in Nat : n \in -n .. n
OBVIOUS

\* The last of the first k + 1 positions is the largest.
LEMMA LastIsMax ==
    ASSUME NEW k \in Nat, NEW s \in SUBSET (1 .. k + 1), k + 1 \in s
    PROVE  Max(s) = k + 1
<1>1. \A y \in s : k + 1 >= y
  OBVIOUS
<1>2. Max(s) \in s /\ \A y \in s : Max(s) >= y
  BY <1>1 DEF Max
<1>3. Max(s) >= k + 1 /\ k + 1 >= Max(s)
  BY <1>1, <1>2
<1>4. Max(s) \in Int
  <2>1. s \subseteq Int
    OBVIOUS
  <2>2. QED
    BY <1>2, <2>1
<1>5. QED
  BY <1>3, <1>4

\* A document's sum is defined: the code's loop over the lines, last one first.
LEMMA SumDefined ==
    ASSUME NEW n \in Nat, NEW lines
    PROVE  \E sum : sum = [s \in SUBSET (1 .. n) |->
             IF s = {} THEN 0
             ELSE sum[s \ {Max(s)}] + lines[Max(s)].quantity * lines[Max(s)].price]
<1> DEFINE amount(i) == lines[i].quantity * lines[i].price
           Sums(sum, k) == sum = [s \in SUBSET (1 .. k) |->
                             IF s = {} THEN 0 ELSE sum[s \ {Max(s)}] + amount(Max(s))]
           T == {k \in Nat : \E sum : Sums(sum, k)}
<1> HIDE DEF amount
<1>1. 0 \in T
  <2>1. Sums([s \in SUBSET (1 .. 0) |-> 0], 0)
    <3>1. SUBSET (1 .. 0) = {{}}
      OBVIOUS
    <3>2. QED
      BY <3>1
  <2>2. QED
    BY <2>1
<1>2. ASSUME NEW k \in Nat, k \in T
      PROVE  k + 1 \in T
  <2>1. PICK sum : Sums(sum, k)
    BY <1>2
  <2> DEFINE more == [s \in SUBSET (1 .. k + 1) |->
                        IF k + 1 \in s THEN sum[s \ {k + 1}] + amount(k + 1) ELSE sum[s]]
  <2>2. ASSUME NEW s \in SUBSET (1 .. k + 1)
        PROVE  more[s] = IF s = {} THEN 0 ELSE more[s \ {Max(s)}] + amount(Max(s))
    <3>1. CASE k + 1 \in s
      <4>1. Max(s) = k + 1
        BY <3>1, LastIsMax
      <4>2. more[s \ {k + 1}] = sum[s \ {k + 1}]
        OBVIOUS
      <4>3. QED
        BY <3>1, <4>1, <4>2
    <3>2. CASE k + 1 \notin s
      <4>1. s \in SUBSET (1 .. k)
        BY <3>2
      <4>2. sum[s] = IF s = {} THEN 0 ELSE sum[s \ {Max(s)}] + amount(Max(s))
        BY <2>1, <4>1
      <4>3. more[s] = sum[s] /\ more[s \ {Max(s)}] = sum[s \ {Max(s)}]
        BY <3>2
      <4>4. QED
        BY <4>2, <4>3
    <3>3. QED
      BY <3>1, <3>2
  <2>3. Sums(more, k + 1)
    <3> DEFINE rhs == [s \in SUBSET (1 .. k + 1) |->
                         IF s = {} THEN 0 ELSE more[s \ {Max(s)}] + amount(Max(s))]
    <3>1. /\ DOMAIN more = SUBSET (1 .. k + 1) /\ DOMAIN rhs = SUBSET (1 .. k + 1)
          /\ more = [s \in DOMAIN more |-> more[s]] /\ rhs = [s \in DOMAIN rhs |-> rhs[s]]
      OBVIOUS
    <3>2. \A s \in SUBSET (1 .. k + 1) : more[s] = rhs[s]
      BY <2>2
    <3>3. more = rhs
      <4> HIDE DEF more, rhs
      <4>1. QED
        BY <3>1, <3>2
    <3>4. QED
      BY <3>3
  <2> HIDE DEF more, Sums
  <2>4. \E g : Sums(g, k + 1)
    BY <2>3
  <2>5. QED
    BY <2>4
<1> HIDE DEF T
<1>3. n \in T
  BY <1>1, <1>2, AllNumbers
<1>4. QED
  BY <1>3 DEF T, amount

\* The lines of a document add up to a whole number of units.
LEMMA SubtotalIsWhole ==
    ASSUME NEW lines \in Seq([quantity : Nat \ {0}, price : Int])
    PROVE  Subtotal(lines) \in Int
<1> DEFINE n == Len(lines)
           amount(i) == lines[i].quantity * lines[i].price
           Is(g) == g = [s \in SUBSET (1 .. n) |->
                           IF s = {} THEN 0 ELSE g[s \ {Max(s)}] + amount(Max(s))]
           sum == CHOOSE g : Is(g)
<1>1. n \in Nat /\ DOMAIN lines = 1 .. n
  OBVIOUS
<1>2. Subtotal(lines) = sum[1 .. n] * PercentParts * RateParts
  <2> DEFINE iter[s \in SUBSET (DOMAIN lines)] ==
        IF s = {} THEN 0
        ELSE LET x == Max(s) IN iter[s \ {x}] + lines[x].quantity * lines[x].price
  <2>1. Subtotal(lines) = iter[DOMAIN lines] * PercentParts * RateParts
    BY DEF Subtotal, FoldLeft, MapThenFoldSet
  <2>2. iter = CHOOSE g : g = [s \in SUBSET (DOMAIN lines) |->
          IF s = {} THEN 0
          ELSE g[s \ {Max(s)}] + lines[Max(s)].quantity * lines[Max(s)].price]
    OBVIOUS
  <2>3. QED
    BY <1>1, <2>1, <2>2
<1>3. Is(sum)
  <2>1. \E g : Is(g)
    BY <1>1, SumDefined
  <2> HIDE DEF Is
  <2>2. QED
    BY <2>1
<1>4. \A s \in SUBSET (1 .. n) :
        sum[s] = IF s = {} THEN 0 ELSE sum[s \ {Max(s)}] + amount(Max(s))
  <2> HIDE DEF sum, amount
  <2>1. QED
    BY <1>3
<1>5. ASSUME NEW i \in 1 .. n
      PROVE  amount(i) \in Int
  <2>1. lines[i] \in [quantity : Nat \ {0}, price : Int]
    BY ElementOfSeq
  <2>2. lines[i].quantity \in Int /\ lines[i].price \in Int
    BY <2>1
  <2>3. QED
    BY <2>2
<1> DEFINE T == {k \in Nat : k <= n => sum[1 .. k] \in Int}
<1> HIDE DEF sum, amount
<1>6. 0 \in T
  <2>1. sum[{}] = 0
    BY <1>4
  <2>2. 1 .. 0 = {}
    OBVIOUS
  <2>3. sum[1 .. 0] = 0
    BY <2>1, <2>2
  <2>4. QED
    BY <2>3
<1>7. ASSUME NEW k \in Nat, k \in T
      PROVE  k + 1 \in T
  <2> SUFFICES ASSUME k + 1 <= n
               PROVE  sum[1 .. k + 1] \in Int
    OBVIOUS
  <2>1. /\ 1 .. k + 1 \in SUBSET (1 .. n) /\ 1 .. k + 1 # {}
        /\ k + 1 \in 1 .. k + 1
    <3>1. \A i : i \in 1 .. k + 1 => i \in 1 .. n
      BY <1>1
    <3>2. k + 1 \in 1 .. k + 1
      OBVIOUS
    <3>3. QED
      BY <3>1, <3>2
  <2>6. (1 .. k + 1) \ {k + 1} = 1 .. k
    <3>1. \A i : i \in (1 .. k + 1) \ {k + 1} <=> i \in 1 .. k
      OBVIOUS
    <3>2. QED
      BY <3>1
  <2>2. Max(1 .. k + 1) = k + 1
    BY <2>1, LastIsMax
  <2>3. sum[1 .. k + 1] = sum[1 .. k] + amount(k + 1)
    BY <1>4, <2>1, <2>2, <2>6
  <2>4. sum[1 .. k] \in Int /\ amount(k + 1) \in Int
    BY <1>1, <1>5, <1>7
  <2>5. QED
    BY <2>3, <2>4
<1> HIDE DEF T
<1>8. sum[1 .. n] \in Int
  <2>1. n \in T
    BY <1>1, <1>6, <1>7, AllNumbers
  <2>2. QED
    BY <1>1, <2>1 DEF T
<1>9. sum[1 .. n] * PercentParts \in Int
  BY <1>8, PartsAssumption
<1>10. QED
  BY <1>2, <1>9, PartsAssumption
(***************************************************************************)
(* Rounding.                                                               *)
(***************************************************************************)

\* A cent is a whole number of units.
LEMMA UnitIsPositive == Unit \in Nat \ {0}
<1>1. QuantityParts * PercentParts \in Nat \ {0}
  BY PartsAssumption
<1>2. QED
  BY <1>1, PartsAssumption DEF Unit

\* Rounding moves an amount by half a cent at most.
LEMMA Rounded ==
    ASSUME NEW x \in Int
    PROVE  /\ RoundHalfUp(x) \in Int
           /\ 2 * x - Unit <= 2 * (Unit * RoundHalfUp(x))
           /\ 2 * (Unit * RoundHalfUp(x)) <= 2 * x + Unit
           /\ x >= 0 => RoundHalfUp(x) >= 0
<1>1. Unit \in Nat \ {0}
  BY UnitIsPositive
<1>2. ASSUME NEW y \in Int
      PROVE  LET q == y \div (2 * Unit)
             IN q \in Int /\ 2 * (Unit * q) <= y /\ y < 2 * (Unit * q) + 2 * Unit
  BY <1>1
<1>3. ASSUME NEW y \in Nat
      PROVE  y \div (2 * Unit) \in Nat
  BY <1>1
<1>4. CASE x >= 0
  <2> DEFINE q == (2 * x + Unit) \div (2 * Unit)
  <2>1. 2 * x + Unit \in Nat
    BY <1>1, <1>4
  <2>2. /\ q \in Int /\ 2 * (Unit * q) <= 2 * x + Unit
        /\ 2 * x + Unit < 2 * (Unit * q) + 2 * Unit
    BY <1>2, <2>1
  <2>3. q >= 0
    BY <1>3, <2>1
  <2>4. RoundHalfUp(x) = q
    BY <1>4 DEF RoundHalfUp
  <2>5. Unit * q \in Int
    BY <1>1, <2>2
  <2> HIDE DEF q
  <2>6. QED
    BY <1>1, <2>2, <2>3, <2>4, <2>5
<1>5. CASE x < 0
  <2> DEFINE q == (Unit - 2 * x) \div (2 * Unit)
  <2>1. Unit - 2 * x \in Int
    BY <1>1
  <2>2. /\ q \in Int /\ 2 * (Unit * q) <= Unit - 2 * x
        /\ Unit - 2 * x < 2 * (Unit * q) + 2 * Unit
    BY <1>2, <2>1
  <2>3. RoundHalfUp(x) = -q
    BY <1>5 DEF RoundHalfUp
  <2>4. Unit * q \in Int /\ Unit * (-q) = -(Unit * q)
    BY <1>1, <2>2
  <2> HIDE DEF q
  <2>5. QED
    BY <1>1, <1>5, <2>2, <2>3, <2>4
<1>6. QED
  BY <1>4, <1>5

\* Rounding every amount by itself costs one cent at most.
LEMMA RoundedSum ==
    ASSUME NEW x \in Int, NEW y \in Int
    PROVE  RoundHalfUp(x + y) \in RoundHalfUp(x) + RoundHalfUp(y) - 1
                                    .. RoundHalfUp(x) + RoundHalfUp(y) + 1
<1> DEFINE a == RoundHalfUp(x)
           b == RoundHalfUp(y)
           c == RoundHalfUp(x + y)
<1>1. Unit \in Nat \ {0}
  BY UnitIsPositive
<1>2. /\ a \in Int /\ b \in Int /\ c \in Int
      /\ 2 * x - Unit <= 2 * (Unit * a) /\ 2 * (Unit * a) <= 2 * x + Unit
      /\ 2 * y - Unit <= 2 * (Unit * b) /\ 2 * (Unit * b) <= 2 * y + Unit
      /\ 2 * (x + y) - Unit <= 2 * (Unit * c) /\ 2 * (Unit * c) <= 2 * (x + y) + Unit
  BY Rounded
<1> HIDE DEF a, b, c
<1>3. Unit * a \in Int /\ Unit * b \in Int /\ Unit * c \in Int
      /\ Unit * (c - a - b) = Unit * c - Unit * a - Unit * b
  BY <1>1, <1>2
<1>4. /\ 2 * (Unit * (c - a - b)) <= 3 * Unit
      /\ -(3 * Unit) <= 2 * (Unit * (c - a - b))
  BY <1>1, <1>2, <1>3
<1>5. c - a - b < 2
  <2> SUFFICES ASSUME c - a - b >= 2
               PROVE  FALSE
    BY <1>2
  <2>1. Unit * (c - a - b) >= Unit * 2
    BY <1>1, <1>2
  <2>2. QED
    BY <1>1, <1>2, <1>3, <1>4, <2>1
<1>6. c - a - b > -2
  <2> SUFFICES ASSUME c - a - b <= -2
               PROVE  FALSE
    BY <1>2
  <2>1. Unit * (c - a - b) <= Unit * (-2)
    BY <1>1, <1>2
  <2>2. QED
    BY <1>1, <1>2, <1>3, <1>4, <2>1
<1>7. c \in a + b - 1 .. a + b + 1
  BY <1>2, <1>5, <1>6
<1>8. QED
  BY <1>7 DEF a, b, c

\* Nothing stays nothing.
LEMMA RoundedNothing == RoundHalfUp(0) = 0
<1>1. RoundHalfUp(0) = Unit \div (2 * Unit)
  BY UnitIsPositive DEF RoundHalfUp
<1>2. QED
  BY <1>1, UnitIsPositive

\* A larger amount is never rounded to less.
LEMMA RoundedInOrder ==
    ASSUME NEW x \in Int, NEW y \in Int, x < y
    PROVE  RoundHalfUp(x) <= RoundHalfUp(y)
<1> DEFINE a == RoundHalfUp(x)
           b == RoundHalfUp(y)
<1>1. /\ a \in Int /\ b \in Int
      /\ 2 * (Unit * a) <= 2 * x + Unit
      /\ 2 * y - Unit <= 2 * (Unit * b)
  BY Rounded
<1>2. Unit \in Nat \ {0}
  BY UnitIsPositive
<1> HIDE DEF a, b
<1>3. /\ Unit * a \in Int /\ Unit * b \in Int
      /\ Unit * (a - b) = Unit * a - Unit * b
  BY <1>1, <1>2
<1>4. Unit * (a - b) < Unit
  BY <1>1, <1>2, <1>3
<1>5. a - b < 1
  <2> SUFFICES ASSUME a - b >= 1
               PROVE  FALSE
    BY <1>1
  <2>1. Unit * (a - b) >= Unit * 1
    BY <1>1, <1>2
  <2>2. QED
    BY <1>2, <1>3, <1>4, <2>1
<1>6. QED
  BY <1>1, <1>5 DEF a, b

\* The five amounts of a document are whole cents, and they add up.
LEMMA TotalsAddUp ==
    ASSUME NEW content \in Contents
    PROVE  LET t == CalculateTotals(content)
           IN /\ t \in Amounts
              /\ t.taxable >= 0 /\ t.tax >= 0
              /\ t.total \in t.taxable + t.tax - 1 .. t.taxable + t.tax + 1
              /\ t.discount <= t.subtotal =>
                   t.taxable \in t.subtotal - t.discount - 1 .. t.subtotal - t.discount + 1
<1> DEFINE subtotal == Subtotal(content.lines)
           discount == Discount(content.discount, subtotal)
           taxable == Taxable(subtotal, discount)
           tax == Tax(taxable, content.tax)
           R(x) == RoundHalfUp(x)
<1>1. subtotal \in Int /\ content.tax \in Nat
  BY ContentsAssumption, SubtotalIsWhole
<1>2. discount \in Int
  <2>1. /\ content.discount.type \in {"none", "percentage", "fixed"}
        /\ content.discount.value \in Int
    BY ContentsAssumption
  <2>2. subtotal \div PercentParts \in Int
    BY <1>1, PartsAssumption
  <2>3. (subtotal \div PercentParts) * content.discount.value \in Int
    BY <2>1, <2>2
  <2>4. content.discount.value * Unit \in Int
    BY <2>1, UnitIsPositive
  <2> HIDE DEF subtotal
  <2>5. QED
    BY <2>1, <2>3, <2>4 DEF Discount
<1> HIDE DEF subtotal, discount
<1>3. taxable \in Nat
  BY <1>1, <1>2 DEF Taxable
<1>4. tax \in Nat
  <2> HIDE DEF taxable
  <2>1. taxable \div RateParts \in Nat
    BY <1>3, PartsAssumption
  <2>2. (taxable \div RateParts) * content.tax \in Nat
    BY <1>1, <2>1
  <2>3. QED
    BY <2>2 DEF Tax
<1>5. CalculateTotals(content) =
        [subtotal |-> R(subtotal), discount |-> R(discount), taxable |-> R(taxable),
         tax |-> R(tax), total |-> R(taxable + tax)]
  BY DEF CalculateTotals, subtotal, discount
<1> HIDE DEF tax
<1>6. R(taxable + tax) \in R(taxable) + R(tax) - 1 .. R(taxable) + R(tax) + 1
  <2> HIDE DEF taxable
  <2>1. QED
    BY <1>3, <1>4, RoundedSum
<1>7. R(discount) <= R(subtotal)
        => R(taxable) \in R(subtotal) - R(discount) - 1 .. R(subtotal) - R(discount) + 1
  <2>1. CASE discount <= subtotal
    <3>1. taxable = subtotal - discount
      BY <1>1, <1>2, <2>1 DEF Taxable
    <3>2. R(subtotal) \in R(taxable) + R(discount) - 1 .. R(taxable) + R(discount) + 1
      <4>1. subtotal = taxable + discount
        BY <1>1, <1>2, <3>1
      <4> HIDE DEF taxable
      <4>2. QED
        BY <1>2, <1>3, <4>1, RoundedSum
    <3>3. R(subtotal) \in Int /\ R(discount) \in Int /\ R(taxable) \in Int
      BY <1>1, <1>2, <1>3, Rounded
    <3> HIDE DEF taxable, R
    <3>4. QED
      BY <3>2, <3>3
  <2>2. CASE discount > subtotal
    <3>1. taxable = 0
      BY <1>1, <1>2, <2>2 DEF Taxable
    <3>2. R(taxable) = 0
      BY <3>1, RoundedNothing
    <3>3. R(subtotal) <= R(discount)
      BY <1>1, <1>2, <2>2, RoundedInOrder
    <3>4. R(subtotal) \in Int /\ R(discount) \in Int
      BY <1>1, <1>2, Rounded
    <3> HIDE DEF taxable, R
    <3>5. QED
      BY <3>2, <3>3, <3>4
  <2>3. QED
    BY <1>1, <1>2, <2>1, <2>2
<1>8. /\ R(subtotal) \in Int /\ R(discount) \in Int /\ R(taxable) \in Nat /\ R(tax) \in Nat
      /\ R(taxable + tax) \in Int
  <2> HIDE DEF taxable
  <2>1. taxable + tax \in Int /\ taxable \in Int /\ tax \in Int
    BY <1>3, <1>4
  <2>2. QED
    BY <1>1, <1>2, <1>3, <1>4, <2>1, Rounded
<1> HIDE DEF taxable, R
<1>9. QED
  BY <1>5, <1>6, <1>7, <1>8 DEF Amounts

(***************************************************************************)
(* The invariant.                                                          *)
(***************************************************************************)

\* What a request holds at each of its steps: a number in hand is the next one
\* of its kind, and only a conversion that has locked its estimate has both.
Fits(r) ==
    /\ r.op = "idle" => r = Idle
    /\ r.op = "create" => r.row = NoRow /\ ~r.locked
    /\ r.op \in {"update", "convert"} => r.row \in Estimates
    /\ r.op = "update" => r.number = 0 /\ ~r.locked
    /\ r.op = "convert" /\ r.number # 0 => r.locked
    /\ r.number # 0 => r.number = nextNumber[r.kind]
Steps == \A w \in Workers : Fits(request[w])

\* No two requests hold the same sequence row or the same estimate.
Alone ==
    \A v, w \in Workers : v # w =>
      /\ request[v].number # 0 /\ request[w].number # 0 => request[v].kind # request[w].kind
      /\ request[v].locked /\ request[w].locked => request[v].row # request[w].row

\* Nothing happens to an estimate while it is locked.
LockedIsOpen == \A w \in Workers : request[w].locked => Open(request[w].row)

\* The numbers given so far are those before the next one, and no two rows of a
\* kind have the same.
Consecutive(next, Keys, row) ==
    /\ \A r \in Keys : row[r].number \in Nat /\ row[r].number < next
    /\ \A n \in 1 .. next - 1 : \E r \in Keys : row[r].number = n
    /\ \A r, s \in Keys : row[r].number = row[s].number => r = s \/ row[r].number = 0
Numbers == /\ Consecutive(nextNumber["estimate"], Estimates, estimates)
           /\ Consecutive(nextNumber["invoice"], Invoices, invoices)

\* An estimate that may still be converted has no invoice, not even a deleted one.
Unconverted ==
    \A i \in Invoices : invoices[i].status # "none" /\ invoices[i].source # NoRow
       => estimates[invoices[i].source].status \in {"converted", "deleted"}

\* The amounts of a row are those of its lines, discount and tax.
Computed ==
    /\ \A e \in Estimates : Exists(estimates[e])
         => estimates[e].totals = CalculateTotals(estimates[e].content)
    /\ \A i \in Invoices : Exists(invoices[i])
         => invoices[i].totals = CalculateTotals(invoices[i].content)

Rows == Unconverted /\ Computed /\ ConvertedOnce /\ ConvertedAsQuoted
BillingInv == BillingTypeOK /\ Steps /\ Alone /\ LockedIsOpen /\ Numbers /\ Rows

\* A worker that answers gives up the number and the lock it held, whatever the
\* step did to the counter of that number's kind.
LEMMA Answered ==
    ASSUME BillingTypeOK, Steps, Alone, NEW w \in Workers, Answer(w),
           \A k \in Kinds : nextNumber'[k] # nextNumber[k]
                              => request[w].number # 0 /\ request[w].kind = k
    PROVE  /\ request' \in [Workers -> Request]
           /\ Steps' /\ Alone'
           /\ \A v \in Workers : request'[v].locked => v # w /\ request'[v] = request[v]
<1>1. Idle \in Request /\ Idle.number = 0 /\ ~Idle.locked /\ Idle.op = "idle"
  BY DEF Idle, Request, Kinds
<1>2. /\ request \in [Workers -> Request] /\ request' \in [Workers -> Request]
      /\ request'[w] = Idle
      /\ \A v \in Workers \ {w} : request'[v] = request[v]
  BY <1>1 DEF Answer, BillingTypeOK
<1>3. Steps'
  <2> SUFFICES ASSUME NEW v \in Workers, v # w, request[v].number # 0
               PROVE  nextNumber'[request[v].kind] = nextNumber[request[v].kind]
    BY <1>1, <1>2 DEF Steps, Fits
  <2>1. request[v].kind \in Kinds
    BY <1>2 DEF Request
  <2>2. QED
    BY <2>1 DEF Alone
<1>4. Alone'
  BY <1>1, <1>2 DEF Alone
<1>5. QED
  BY <1>1, <1>2, <1>3, <1>4

\* A step that only moves one request on keeps the invariant, when the number
\* or the lock it takes is in nobody else's hand.
LEMMA Moved ==
    ASSUME BillingInv, UNCHANGED <<estimates, invoices, nextNumber>>,
           NEW w \in Workers, NEW r \in Request, Fits(r),
           request' = [request EXCEPT ![w] = r],
           r.number # 0 => \A v \in Workers \ {w} :
                             request[v].number # 0 => request[v].kind # r.kind,
           r.locked => /\ Open(r.row)
                       /\ \A v \in Workers \ {w} : request[v].locked => request[v].row # r.row
    PROVE  BillingInv'
<1>1. /\ request \in [Workers -> Request] /\ request' \in [Workers -> Request]
      /\ request'[w] = r
      /\ \A v \in Workers \ {w} : request'[v] = request[v]
  BY DEF BillingInv, BillingTypeOK
<1>2. BillingTypeOK'
  BY <1>1 DEF BillingInv, BillingTypeOK
<1>3. Steps'
  BY <1>1 DEF BillingInv, Steps, Fits
<1>4. Alone'
  BY <1>1 DEF BillingInv, Alone
<1>5. LockedIsOpen'
  BY <1>1 DEF BillingInv, LockedIsOpen, Open
<1>6. Numbers' /\ Rows'
  BY DEF BillingInv, Numbers, Consecutive, Rows, Unconverted, Computed, ConvertedOnce,
         ConvertedAsQuoted, Exists
<1>7. QED
  BY <1>2, <1>3, <1>4, <1>5, <1>6 DEF BillingInv

\* A request takes the next number of its kind once nobody else holds one.
LEMMA NumberTaken ==
    ASSUME BillingInv, UNCHANGED <<estimates, invoices, nextNumber>>,
           NEW w \in Workers, NEW asking \in Request, TakeNumber(w, asking),
           \/ asking.op = "create" /\ asking.row = NoRow /\ ~asking.locked
           \/ asking.op = "convert" /\ asking.row \in Estimates /\ asking.locked
                /\ request[w].locked /\ request[w].row = asking.row
    PROVE  BillingInv'
<1> DEFINE r == [asking EXCEPT !.number = nextNumber[asking.kind]]
<1>1. nextNumber[asking.kind] \in Nat \ {0}
  BY DEF BillingInv, BillingTypeOK, Request
<1>2. /\ r \in Request
      /\ r.op = asking.op /\ r.row = asking.row /\ r.kind = asking.kind
      /\ r.locked = asking.locked /\ r.number = nextNumber[r.kind]
  BY <1>1 DEF Request
<1>3. request' = [request EXCEPT ![w] = r]
  BY DEF TakeNumber
<1> HIDE DEF r
<1>4. Fits(r)
  BY <1>2 DEF Fits
<1>5. \A v \in Workers : request[v].number # 0 => request[v].kind # r.kind
  BY <1>2 DEF TakeNumber, HeldByAnother
<1>6. r.locked => /\ Open(r.row)
                  /\ \A v \in Workers \ {w} : request[v].locked => request[v].row # r.row
  BY <1>2 DEF BillingInv, Alone, LockedIsOpen
<1>7. QED
  BY <1>2, <1>3, <1>4, <1>5, <1>6, Moved

\* An answer that writes no row keeps the invariant.
LEMMA AnsweredOnly ==
    ASSUME BillingInv, UNCHANGED <<estimates, invoices, nextNumber>>,
           NEW w \in Workers, Answer(w)
    PROVE  BillingInv'
<1>1. Idle \in Request /\ Fits(Idle) /\ Idle.number = 0 /\ ~Idle.locked
  BY DEF Idle, Request, Kinds, Fits
<1>2. QED
  BY <1>1, Moved DEF Answer

\* A row that takes the next number leaves neither a gap nor a number twice.
LEMMA NextTaken ==
    ASSUME NEW n \in Nat \ {0}, NEW Keys, NEW row, NEW later, NEW k \in Keys,
           Consecutive(n, Keys, row), row[k].number = 0, later[k].number = n,
           \A r \in Keys \ {k} : later[r].number = row[r].number
    PROVE  Consecutive(n + 1, Keys, later)
<1>1. \A r \in Keys : later[r].number \in Nat /\ later[r].number < n + 1
  BY DEF Consecutive
<1>2. ASSUME NEW m \in 1 .. (n + 1) - 1
      PROVE  \E r \in Keys : later[r].number = m
  <2>1. CASE m = n
    BY <2>1
  <2>2. CASE m \in 1 .. n - 1
    <3>1. PICK r \in Keys : row[r].number = m
      BY <2>2 DEF Consecutive
    <3>2. r # k
      BY <2>2, <3>1
    <3>3. QED
      BY <3>1, <3>2
  <2>3. QED
    BY <2>1, <2>2
<1>3. \A r, s \in Keys : later[r].number = later[s].number => r = s \/ later[r].number = 0
  BY DEF Consecutive
<1>4. QED
  BY <1>1, <1>2, <1>3 DEF Consecutive

\* Rows that keep their numbers keep the sequence.
LEMMA NumbersKept ==
    ASSUME NEW n, NEW Keys, NEW row, NEW later, Consecutive(n, Keys, row),
           \A r \in Keys : later[r].number = row[r].number
    PROVE  Consecutive(n, Keys, later)
BY DEF Consecutive

\* What a commit does to the counters, and what the worker had in hand.
LEMMA Committed ==
    ASSUME BillingInv, NEW w \in Workers, NEW kind \in Kinds, Commit(w, kind)
    PROVE  /\ request[w].number = nextNumber[kind]
           /\ nextNumber[kind] \in Nat \ {0}
           /\ nextNumber' \in [Kinds -> Nat \ {0}]
           /\ nextNumber'[kind] = nextNumber[kind] + 1
           /\ \A k \in Kinds \ {kind} : nextNumber'[k] = nextNumber[k]
           /\ request' \in [Workers -> Request]
           /\ Steps' /\ Alone'
           /\ \A v \in Workers : request'[v].locked => v # w /\ request'[v] = request[v]
<1>1. /\ request[w].kind = kind /\ request[w].number # 0
      /\ request[w].number = nextNumber[kind]
  BY DEF Commit, BillingInv, Steps, Fits
<1>2. nextNumber \in [Kinds -> Nat \ {0}]
  BY DEF BillingInv, BillingTypeOK
<1>3. /\ nextNumber' \in [Kinds -> Nat \ {0}]
      /\ nextNumber'[kind] = nextNumber[kind] + 1
      /\ \A k \in Kinds \ {kind} : nextNumber'[k] = nextNumber[k]
  BY <1>1, <1>2 DEF Commit
<1>4. Answer(w)
  BY DEF Commit
<1>5. QED
  BY <1>1, <1>2, <1>3, <1>4, Answered DEF BillingInv

\* An estimate that was open and no longer is was locked by the worker that
\* answers: every other lock is still the lock of an open estimate.
LEMMA LocksKept ==
    ASSUME BillingInv, NEW w \in Workers,
           \A v \in Workers : request'[v].locked => v # w /\ request'[v] = request[v],
           \A e \in Estimates : Open(e) => \/ Open(e)'
                                           \/ request[w].locked /\ request[w].row = e
    PROVE  LockedIsOpen'
<1> SUFFICES ASSUME NEW v \in Workers, request'[v].locked
             PROVE  Open(request[v].row)'
  BY DEF LockedIsOpen
<1>1. v # w /\ request'[v] = request[v] /\ Open(request[v].row)
  BY DEF BillingInv, LockedIsOpen
<1>2. request[v].row \in Estimates
  BY <1>1 DEF BillingInv, Steps, Fits, BillingTypeOK, Request, Idle
<1>3. Open(request[v].row)'
  BY <1>1, <1>2 DEF BillingInv, Alone
<1>4. QED
  BY <1>1, <1>3

\* An invoice's estimate has been converted.
LEMMA SourceIsConverted ==
    ASSUME BillingInv, NEW i \in Invoices, invoices[i].status # "none",
           invoices[i].source # NoRow
    PROVE  /\ invoices[i].source \in Estimates
           /\ estimates[invoices[i].source].status \in {"converted", "deleted"}
BY DEF BillingInv, BillingTypeOK, InvoiceRow, Absent, Rows, Unconverted

\* What is written to an estimate without an invoice disturbs no conversion.
LEMMA RowsKept ==
    ASSUME BillingInv, NEW e \in Estimates, UNCHANGED invoices,
           \A f \in Estimates \ {e} : estimates'[f] = estimates[f],
           ~(estimates[e].status \in {"converted", "deleted"}),
           estimates'[e].totals = CalculateTotals(estimates'[e].content)
    PROVE  Rows'
<1>1. \A i \in Invoices : invoices[i].status # "none" /\ invoices[i].source # NoRow
         => invoices[i].source \in Estimates \ {e}
  BY SourceIsConverted
<1>2. Unconverted'
  BY <1>1 DEF BillingInv, Rows, Unconverted
<1>3. Computed'
  BY DEF BillingInv, Rows, Computed, Exists
<1>4. ConvertedOnce'
  BY <1>1 DEF BillingInv, Rows, ConvertedOnce, Exists
<1>5. ConvertedAsQuoted'
  BY <1>1 DEF BillingInv, Rows, ConvertedAsQuoted, Exists
<1>6. QED
  BY <1>2, <1>3, <1>4, <1>5 DEF Rows

\* A new estimate has no invoice, so nothing that was converted is disturbed.
LEMMA CreatesEstimate ==
    ASSUME BillingInv, NEW w \in Workers, NEW e \in Estimates, NEW content \in Contents,
           CreateEstimate(w, e, content)
    PROVE  BillingInv'
<1> DEFINE n == nextNumber["estimate"]
           row == Estimate(n, content)
<1>1. /\ "estimate" \in Kinds /\ "invoice" \in Kinds
      /\ Commit(w, "estimate")
  BY DEF CreateEstimate, Kinds
<1>2. /\ n \in Nat \ {0}
      /\ nextNumber' \in [Kinds -> Nat \ {0}]
      /\ nextNumber'["estimate"] = n + 1 /\ nextNumber'["invoice"] = nextNumber["invoice"]
      /\ request' \in [Workers -> Request] /\ Steps' /\ Alone'
      /\ \A v \in Workers : request'[v].locked => v # w /\ request'[v] = request[v]
      /\ request[w].number = n
  BY <1>1, Committed
<1>3. /\ estimates' = [estimates EXCEPT ![e] = row]
      /\ estimates[e] = Absent /\ invoices' = invoices
  BY <1>2 DEF CreateEstimate
<1>4. /\ row \in EstimateRow
      /\ row.status = "draft" /\ row.number = n /\ row.content = content
      /\ row.totals = CalculateTotals(content)
  <2>1. CalculateTotals(content) \in Amounts
    BY TotalsAddUp
  <2>2. n \in Nat
    BY <1>2
  <2> HIDE DEF n
  <2>3. QED
    BY <2>1, <2>2 DEF Estimate, EstimateRow, OpenStatus
<1> HIDE DEF n, row
<1>5. /\ estimates'[e] = row
      /\ \A f \in Estimates \ {e} : estimates'[f] = estimates[f]
  BY <1>3 DEF BillingInv, BillingTypeOK
<1>6. BillingTypeOK'
  BY <1>2, <1>3, <1>4 DEF BillingInv, BillingTypeOK
<1>7. Absent.status = "none" /\ Absent.number = 0
  BY DEF Absent
<1>8. LockedIsOpen'
  BY <1>2, <1>3, <1>5, <1>7, LocksKept DEF Open, OpenStatus
<1>9. Numbers'
  <2>1. Consecutive(n + 1, Estimates, estimates')
    <3>1. Consecutive(n, Estimates, estimates)
      BY DEF BillingInv, Numbers, n
    <3>2. /\ estimates[e].number = 0 /\ estimates'[e].number = n
          /\ \A r \in Estimates \ {e} : estimates'[r].number = estimates[r].number
      BY <1>3, <1>4, <1>5, <1>7
    <3>3. QED
      BY <1>2, <3>1, <3>2, NextTaken
  <2>2. QED
    BY <1>2, <1>3, <2>1 DEF BillingInv, Numbers
<1>10. Rows'
  BY <1>3, <1>4, <1>5, <1>7, RowsKept
<1>11. QED
  BY <1>2, <1>6, <1>8, <1>9, <1>10 DEF BillingInv

\* A new invoice without a source leaves every estimate and every conversion
\* as it was.
LEMMA CreatesInvoice ==
    ASSUME BillingInv, NEW w \in Workers, NEW i \in Invoices, NEW content \in Contents,
           CreateInvoice(w, i, content)
    PROVE  BillingInv'
<1> DEFINE n == nextNumber["invoice"]
           row == Invoice(n, content, NoRow)
<1>1. /\ "estimate" \in Kinds /\ "invoice" \in Kinds
      /\ Commit(w, "invoice")
  BY DEF CreateInvoice, Kinds
<1>2. /\ n \in Nat \ {0}
      /\ nextNumber' \in [Kinds -> Nat \ {0}]
      /\ nextNumber'["invoice"] = n + 1 /\ nextNumber'["estimate"] = nextNumber["estimate"]
      /\ request' \in [Workers -> Request] /\ Steps' /\ Alone'
      /\ \A v \in Workers : request'[v].locked => v # w /\ request'[v] = request[v]
      /\ request[w].number = n
  BY <1>1, Committed
<1>3. /\ invoices' = [invoices EXCEPT ![i] = row]
      /\ invoices[i] = Absent /\ estimates' = estimates
  BY <1>2 DEF CreateInvoice
<1>4. /\ row \in InvoiceRow
      /\ row.status = "exists" /\ row.number = n /\ row.content = content
      /\ row.totals = CalculateTotals(content) /\ row.source = NoRow
  <2>1. CalculateTotals(content) \in Amounts
    BY TotalsAddUp
  <2>2. n \in Nat
    BY <1>2
  <2> HIDE DEF n
  <2>3. QED
    BY <2>1, <2>2 DEF Invoice, InvoiceRow
<1> HIDE DEF n, row
<1>5. /\ invoices'[i] = row
      /\ \A j \in Invoices \ {i} : invoices'[j] = invoices[j]
  BY <1>3 DEF BillingInv, BillingTypeOK
<1>6. BillingTypeOK'
  BY <1>2, <1>3, <1>4 DEF BillingInv, BillingTypeOK
<1>7. Absent.status = "none" /\ Absent.number = 0
  BY DEF Absent
<1>8. LockedIsOpen'
  BY <1>2, <1>3, LocksKept DEF Open
<1>9. Numbers'
  <2>1. Consecutive(n, Invoices, invoices)
    BY DEF BillingInv, Numbers, n
  <2>2. /\ invoices[i].number = 0 /\ invoices'[i].number = n
        /\ \A r \in Invoices \ {i} : invoices'[r].number = invoices[r].number
    BY <1>3, <1>4, <1>5, <1>7
  <2>3. Consecutive(n + 1, Invoices, invoices')
    BY <1>2, <2>1, <2>2, NextTaken
  <2>4. QED
    BY <1>2, <1>3, <2>3 DEF BillingInv, Numbers
<1>10. Rows'
  <2>1. Unconverted'
    BY <1>3, <1>4, <1>5 DEF BillingInv, Rows, Unconverted
  <2>2. Computed'
    BY <1>3, <1>4, <1>5 DEF BillingInv, Rows, Computed, Exists
  <2>3. ConvertedOnce'
    BY <1>3, <1>4, <1>5, <1>7 DEF BillingInv, Rows, ConvertedOnce, Exists
  <2>4. ConvertedAsQuoted'
    BY <1>3, <1>4, <1>5 DEF BillingInv, Rows, ConvertedAsQuoted, Exists
  <2>5. QED
    BY <2>1, <2>2, <2>3, <2>4 DEF Rows
<1>11. QED
  BY <1>2, <1>6, <1>8, <1>9, <1>10 DEF BillingInv

\* An estimate that is edited is not converted, and its amounts are computed
\* again from all it says.
LEMMA UpdatesEstimate ==
    ASSUME BillingInv, NEW w \in Workers, NEW content \in Contents,
           NEW status \in OpenStatus, UpdateEstimate(w, content, status)
    PROVE  BillingInv'
<1> DEFINE e == request[w].row
           row == [estimates[e] EXCEPT !.content = content, !.status = status,
                                       !.totals = TotalsAfter(estimates[e], content)]
<1>1. /\ e \in Estimates /\ Open(e)
      /\ estimates' = [estimates EXCEPT ![e] = row]
      /\ Answer(w) /\ UNCHANGED <<invoices, nextNumber>>
  BY DEF UpdateEstimate, Reached, Editable, BillingInv, Steps, Fits
<1>2. /\ row \in EstimateRow
      /\ row.status = status /\ row.number = estimates[e].number
      /\ row.content = content /\ row.totals = CalculateTotals(content)
  <2>1. estimates[e] \in EstimateRow
    BY <1>1 DEF BillingInv, BillingTypeOK, Open, OpenStatus, Absent
  <2>2. CalculateTotals(content) \in Amounts /\ TotalsAfter(estimates[e], content) = CalculateTotals(content)
    BY TotalsAddUp DEF TotalsAfter
  <2> HIDE DEF e
  <2>3. QED
    BY <2>1, <2>2 DEF EstimateRow
<1>3. /\ request' \in [Workers -> Request] /\ Steps' /\ Alone'
      /\ \A v \in Workers : request'[v].locked => v # w /\ request'[v] = request[v]
  BY <1>1, Answered DEF BillingInv
<1> HIDE DEF e, row
<1>4. /\ estimates'[e] = row
      /\ \A f \in Estimates \ {e} : estimates'[f] = estimates[f]
  BY <1>1 DEF BillingInv, BillingTypeOK
<1>5. BillingTypeOK'
  BY <1>1, <1>2, <1>3 DEF BillingInv, BillingTypeOK
<1>6. LockedIsOpen'
  BY <1>2, <1>3, <1>4, LocksKept DEF Open
<1>7. Numbers'
  <2>1. \A f \in Estimates : estimates'[f].number = estimates[f].number
    BY <1>2, <1>4
  <2>2. QED
    BY <1>1, <2>1, NumbersKept DEF BillingInv, Numbers
<1>8. Rows'
  BY <1>1, <1>2, <1>4, RowsKept DEF Open, OpenStatus
<1>9. QED
  BY <1>1, <1>3, <1>5, <1>6, <1>7, <1>8 DEF BillingInv

\* A conversion makes the only invoice of its estimate, which was open until
\* then, out of what the estimate says.
LEMMA ConvertsEstimate ==
    ASSUME BillingInv, NEW w \in Workers, NEW i \in Invoices, ConvertEstimate(w, i)
    PROVE  BillingInv'
<1> DEFINE e == request[w].row
           n == nextNumber["invoice"]
           invoice == Invoice(n, estimates[e].content, e)
           estimate == [estimates[e] EXCEPT !.status = "converted", !.invoice = i]
<1>1. /\ "estimate" \in Kinds /\ "invoice" \in Kinds
      /\ Commit(w, "invoice")
  BY DEF ConvertEstimate, Kinds
<1>2. /\ n \in Nat \ {0}
      /\ nextNumber' \in [Kinds -> Nat \ {0}]
      /\ nextNumber'["invoice"] = n + 1 /\ nextNumber'["estimate"] = nextNumber["estimate"]
      /\ request' \in [Workers -> Request] /\ Steps' /\ Alone'
      /\ \A v \in Workers : request'[v].locked => v # w /\ request'[v] = request[v]
      /\ request[w].number = n
  BY <1>1, Committed
<1>3. /\ e \in Estimates /\ Open(e) /\ request[w].locked
      /\ invoices[i] = Absent
      /\ invoices' = [invoices EXCEPT ![i] = invoice]
      /\ estimates' = [estimates EXCEPT ![e] = estimate]
  BY <1>2 DEF ConvertEstimate, BillingInv, Steps, Fits, LockedIsOpen
<1>4. estimates[e] \in EstimateRow
  BY <1>3 DEF BillingInv, BillingTypeOK, Open, OpenStatus, Absent
<1>5. estimates[e].totals = CalculateTotals(estimates[e].content)
  BY <1>3 DEF BillingInv, Rows, Computed, Exists, Open, OpenStatus
<1>6. /\ invoice \in InvoiceRow
      /\ invoice.status = "exists" /\ invoice.number = n /\ invoice.source = e
      /\ invoice.content = estimates[e].content /\ invoice.totals = estimates[e].totals
      /\ invoice.totals = CalculateTotals(invoice.content)
  <2>1. n \in Nat /\ estimates[e].content \in Contents /\ estimates[e].totals \in Amounts
    BY <1>2, <1>4 DEF EstimateRow
  <2> HIDE DEF n, e
  <2>2. QED
    BY <1>3, <1>5, <2>1 DEF Invoice, InvoiceRow
<1>7. /\ estimate \in EstimateRow
      /\ estimate.status = "converted" /\ estimate.invoice = i
      /\ estimate.number = estimates[e].number /\ estimate.content = estimates[e].content
      /\ estimate.totals = estimates[e].totals
  <2> HIDE DEF e
  <2>1. QED
    BY <1>4 DEF EstimateRow
<1>8. e # NoRow
  BY <1>3, NoRowAssumption
<1> HIDE DEF n, e, invoice, estimate
<1>9. /\ invoices'[i] = invoice
      /\ \A j \in Invoices \ {i} : invoices'[j] = invoices[j]
      /\ estimates'[e] = estimate
      /\ \A f \in Estimates \ {e} : estimates'[f] = estimates[f]
  BY <1>3 DEF BillingInv, BillingTypeOK
<1>10. BillingTypeOK'
  BY <1>2, <1>3, <1>6, <1>7 DEF BillingInv, BillingTypeOK
<1>11. Absent.status = "none" /\ Absent.number = 0
  BY DEF Absent
<1>12. LockedIsOpen'
  BY <1>2, <1>3, <1>9, LocksKept DEF Open, e
<1>13. Numbers'
  <2>1. Consecutive(n, Invoices, invoices)
    BY DEF BillingInv, Numbers, n
  <2>2. /\ invoices[i].number = 0 /\ invoices'[i].number = n
        /\ \A r \in Invoices \ {i} : invoices'[r].number = invoices[r].number
    BY <1>3, <1>6, <1>9, <1>11
  <2>3. Consecutive(n + 1, Invoices, invoices')
    BY <1>2, <2>1, <2>2, NextTaken
  <2>4. \A f \in Estimates : estimates'[f].number = estimates[f].number
    BY <1>7, <1>9
  <2>5. Consecutive(nextNumber["estimate"], Estimates, estimates')
    BY <2>4, NumbersKept DEF BillingInv, Numbers
  <2>6. QED
    BY <1>2, <2>3, <2>5 DEF Numbers
<1>14. \A j \in Invoices : invoices[j].status # "none" /\ invoices[j].source # NoRow
         => invoices[j].source \in Estimates \ {e} /\ j # i
  BY <1>3, <1>11, SourceIsConverted DEF Open, OpenStatus
<1>15. Rows'
  <2>1. Unconverted'
    BY <1>6, <1>7, <1>9, <1>14 DEF BillingInv, Rows, Unconverted
  <2>2. Computed'
    BY <1>5, <1>6, <1>7, <1>9 DEF BillingInv, Rows, Computed, Exists
  <2>3. ConvertedOnce'
    BY <1>6, <1>7, <1>8, <1>9, <1>14 DEF BillingInv, Rows, ConvertedOnce, Exists
  <2>4. ConvertedAsQuoted'
    BY <1>6, <1>7, <1>8, <1>9, <1>14 DEF BillingInv, Rows, ConvertedAsQuoted, Exists
  <2>5. QED
    BY <2>1, <2>2, <2>3, <2>4 DEF Rows
<1>16. QED
  BY <1>2, <1>10, <1>12, <1>13, <1>15 DEF BillingInv

\* A deleted estimate keeps its number, and nothing that its invoice says of it
\* has to hold any more.
LEMMA DestroysEstimate ==
    ASSUME BillingInv, NEW e \in Estimates, DestroyEstimate(e)
    PROVE  BillingInv'
<1> DEFINE row == [Absent EXCEPT !.status = "deleted", !.number = estimates[e].number]
<1>1. /\ estimates' = [estimates EXCEPT ![e] = row]
      /\ Exists(estimates[e]) /\ ~Locked(e)
      /\ UNCHANGED <<invoices, nextNumber, request>>
  BY DEF DestroyEstimate
<1>2. /\ row \in [status : {"deleted"}, number : Nat]
      /\ row.status = "deleted" /\ row.number = estimates[e].number
  BY DEF BillingInv, Numbers, Consecutive, Absent
<1> HIDE DEF row
<1>3. /\ estimates'[e] = row
      /\ \A f \in Estimates \ {e} : estimates'[f] = estimates[f]
  BY <1>1 DEF BillingInv, BillingTypeOK
<1>4. BillingTypeOK'
  BY <1>1, <1>2 DEF BillingInv, BillingTypeOK
<1>5. Steps' /\ Alone'
  BY <1>1 DEF BillingInv, Steps, Fits, Alone
<1>6. LockedIsOpen'
  <2> SUFFICES ASSUME NEW w \in Workers, request[w].locked
               PROVE  Open(request[w].row)'
    BY <1>1 DEF LockedIsOpen
  <2>1. Open(request[w].row) /\ request[w].row # e
    BY <1>1 DEF BillingInv, LockedIsOpen, Locked
  <2>2. request[w].row \in Estimates
    BY DEF BillingInv, Steps, Fits, BillingTypeOK, Request, Idle
  <2>3. QED
    BY <1>1, <1>3, <2>1, <2>2 DEF Open
<1>7. Numbers'
  <2>1. \A f \in Estimates : estimates'[f].number = estimates[f].number
    BY <1>2, <1>3
  <2>2. QED
    BY <1>1, <2>1, NumbersKept DEF BillingInv, Numbers
<1>8. \A i \in Invoices : invoices[i].status # "none" /\ invoices[i].source # NoRow
        => invoices[i].source \in Estimates
  BY SourceIsConverted
<1>9. Rows'
  <2>1. Unconverted'
    BY <1>1, <1>2, <1>3, <1>8 DEF BillingInv, Rows, Unconverted
  <2>2. Computed'
    BY <1>1, <1>2, <1>3 DEF BillingInv, Rows, Computed, Exists
  <2>3. ConvertedOnce'
    BY <1>1, <1>2, <1>3, <1>8 DEF BillingInv, Rows, ConvertedOnce, Exists
  <2>4. ConvertedAsQuoted'
    BY <1>1, <1>2, <1>3, <1>8 DEF BillingInv, Rows, ConvertedAsQuoted, Exists
  <2>5. QED
    BY <2>1, <2>2, <2>3, <2>4 DEF Rows
<1>10. QED
  BY <1>4, <1>5, <1>6, <1>7, <1>9 DEF BillingInv

\* A deleted invoice keeps its number, and its estimate, which stays converted,
\* knows it no longer.
LEMMA DestroysInvoice ==
    ASSUME BillingInv, NEW i \in Invoices, DestroyInvoice(i)
    PROVE  BillingInv'
<1> DEFINE row == [status |-> "deleted", number |-> invoices[i].number,
                   source |-> invoices[i].source]
           Known(e) == Exists(estimates[e]) /\ estimates[e].invoice = i
<1>1. /\ invoices' = [invoices EXCEPT ![i] = row]
      /\ Exists(invoices[i])
      /\ estimates' = [e \in Estimates |-> IF Known(e) THEN [estimates[e] EXCEPT !.invoice = NoRow]
                                                       ELSE estimates[e]]
      /\ UNCHANGED <<nextNumber, request>>
  BY DEF DestroyInvoice
<1>2. invoices[i] \in InvoiceRow
  BY <1>1 DEF BillingInv, BillingTypeOK, Exists, Absent
<1>3. /\ row \in [status : {"deleted"}, number : Nat, source : Estimates \cup {NoRow}]
      /\ row.status = "deleted" /\ row.number = invoices[i].number
      /\ row.source = invoices[i].source
  BY <1>2 DEF InvoiceRow
<1> HIDE DEF row
<1>4. /\ invoices'[i] = row
      /\ \A j \in Invoices \ {i} : invoices'[j] = invoices[j]
  BY <1>1 DEF BillingInv, BillingTypeOK
<1>5. ASSUME NEW e \in Estimates, Known(e)
      PROVE  /\ estimates'[e] \in EstimateRow
             /\ estimates'[e].invoice = NoRow
             /\ estimates'[e].status = estimates[e].status
             /\ estimates'[e].number = estimates[e].number
             /\ estimates'[e].content = estimates[e].content
             /\ estimates'[e].totals = estimates[e].totals
  <2>1. estimates[e] \in EstimateRow
    BY <1>5 DEF BillingInv, BillingTypeOK, Exists, Absent
  <2>2. estimates'[e] = [estimates[e] EXCEPT !.invoice = NoRow]
    BY <1>1, <1>5
  <2>3. QED
    BY <2>1, <2>2 DEF EstimateRow
<1>6. ASSUME NEW e \in Estimates, ~Known(e)
      PROVE  estimates'[e] = estimates[e]
  BY <1>1, <1>6
<1>7. DOMAIN estimates' = Estimates /\ estimates' = [e \in Estimates |-> estimates'[e]]
  BY <1>1
<1>8. \A e \in Estimates : Exists(estimates[e]) <=> Exists(estimates'[e])
  BY <1>5, <1>6 DEF Exists
<1>9. \A e \in Estimates : /\ estimates'[e].status = estimates[e].status
                           /\ estimates'[e].number = estimates[e].number
  BY <1>5, <1>6
<1>10. \A e \in Estimates : Exists(estimates[e]) =>
         /\ estimates'[e].content = estimates[e].content
         /\ estimates'[e].totals = estimates[e].totals
         /\ estimates'[e].invoice = IF estimates[e].invoice = i THEN NoRow
                                                                ELSE estimates[e].invoice
  BY <1>5, <1>6
<1> HIDE DEF Known
<1>11. BillingTypeOK'
  <2> DEFINE T == EstimateRow \cup [status : {"deleted"}, number : Nat] \cup {Absent}
  <2>1. \A e \in Estimates : estimates'[e] \in T
    BY <1>5, <1>6 DEF BillingInv, BillingTypeOK
  <2>2. estimates' \in [Estimates -> T]
    BY <1>7, <2>1
  <2>3. QED
    BY <1>1, <1>3, <2>2 DEF BillingInv, BillingTypeOK
<1>12. Steps' /\ Alone'
  BY <1>1 DEF BillingInv, Steps, Fits, Alone
<1>13. LockedIsOpen'
  <2> SUFFICES ASSUME NEW w \in Workers, request[w].locked
               PROVE  Open(request[w].row)'
    BY <1>1 DEF LockedIsOpen
  <2>1. Open(request[w].row)
    BY DEF BillingInv, LockedIsOpen
  <2>2. request[w].row \in Estimates
    BY DEF BillingInv, Steps, Fits, BillingTypeOK, Request, Idle
  <2>3. QED
    BY <1>1, <1>9, <2>1, <2>2 DEF Open
<1>14. Numbers'
  <2>1. \A j \in Invoices : invoices'[j].number = invoices[j].number
    BY <1>3, <1>4
  <2>2. QED
    BY <1>1, <1>9, <2>1, NumbersKept DEF BillingInv, Numbers
<1>15. \A j \in Invoices : invoices[j].status # "none" /\ invoices[j].source # NoRow
        => invoices[j].source \in Estimates
  BY SourceIsConverted
<1>16. /\ \A j \in Invoices : invoices'[j].status # "none" => invoices[j].status # "none"
       /\ \A j \in Invoices : invoices'[j].status # "none"
                                => invoices'[j].source = invoices[j].source
       /\ \A j \in Invoices : Exists(invoices'[j]) => j # i
       /\ invoices'[i].status = "deleted"
  BY <1>1, <1>3, <1>4 DEF Exists
<1>17. Rows'
  <2>1. Unconverted'
    BY <1>9, <1>15, <1>16 DEF BillingInv, Rows, Unconverted
  <2>2. Computed'
    BY <1>4, <1>8, <1>10, <1>16 DEF BillingInv, Rows, Computed
  <2>3. ConvertedOnce'
    <3> SUFFICES ASSUME NEW j \in Invoices, invoices'[j].status # "none",
                        invoices'[j].source # NoRow
                 PROVE  LET estimate == estimates'[invoices'[j].source]
                        IN /\ \A k \in Invoices : invoices'[k].status # "none"
                                  /\ invoices'[k].source = invoices'[j].source => k = j
                           /\ Exists(estimate) =>
                                /\ estimate.status = "converted"
                                /\ estimate.invoice
                                     = (IF Exists(invoices'[j]) THEN j ELSE NoRow)
      BY DEF ConvertedOnce, Exists
    <3>1. /\ invoices[j].status # "none" /\ invoices[j].source # NoRow
          /\ invoices'[j].source = invoices[j].source
          /\ invoices[j].source \in Estimates
      BY <1>15, <1>16
    <3>2. \A k \in Invoices : invoices'[k].status # "none"
              /\ invoices'[k].source = invoices'[j].source => k = j
      BY <1>16, <3>1 DEF BillingInv, Rows, ConvertedOnce
    <3>3. ASSUME Exists(estimates'[invoices'[j].source])
          PROVE  /\ estimates'[invoices'[j].source].status = "converted"
                 /\ estimates'[invoices'[j].source].invoice
                      = (IF Exists(invoices'[j]) THEN j ELSE NoRow)
      <4>1. /\ Exists(estimates[invoices[j].source])
            /\ estimates[invoices[j].source].status = "converted"
            /\ estimates[invoices[j].source].invoice
                 = (IF Exists(invoices[j]) THEN j ELSE NoRow)
        BY <1>8, <3>1, <3>3 DEF BillingInv, Rows, ConvertedOnce
      <4>2. CASE j = i
        BY <1>1, <1>9, <1>10, <1>16, <3>1, <4>1, <4>2
      <4>3. CASE j # i
        <5>1. Exists(invoices'[j]) <=> Exists(invoices[j])
          BY <1>4, <4>3
        <5>2. estimates[invoices[j].source].invoice # i
          BY <4>1, <4>3, NoRowAssumption
        <5>3. QED
          BY <1>9, <1>10, <3>1, <4>1, <5>1, <5>2
      <4>4. QED
        BY <4>2, <4>3
    <3>4. QED
      BY <3>2, <3>3
  <2>4. ConvertedAsQuoted'
    BY <1>4, <1>8, <1>10, <1>15, <1>16 DEF BillingInv, Rows, ConvertedAsQuoted, Exists
  <2>5. QED
    BY <2>1, <2>2, <2>3, <2>4 DEF Rows
<1>18. QED
  BY <1>1, <1>11, <1>12, <1>13, <1>14, <1>17 DEF BillingInv

\* Consecutive numbers are an interval.
LEMMA NumbersAreAnInterval ==
    ASSUME NEW n \in Nat \ {0}, NEW Keys, NEW row, Consecutive(n, Keys, row)
    PROVE  {row[r].number : r \in Keys} \ {0} = 1 .. n - 1
<1>1. ASSUME NEW m \in {row[r].number : r \in Keys} \ {0}
      PROVE  m \in 1 .. n - 1
  BY DEF Consecutive
<1>2. ASSUME NEW m \in 1 .. n - 1
      PROVE  m \in {row[r].number : r \in Keys} \ {0}
  BY DEF Consecutive
<1>3. QED
  BY <1>1, <1>2

\* The invariant holds in every reachable state.
LEMMA BillingInvariant == BillingSpec => []BillingInv
<1>1. BillingInit => BillingInv
  <2> SUFFICES ASSUME BillingInit
               PROVE  BillingInv
    OBVIOUS
  <2>1. /\ Absent.status = "none" /\ Absent.number = 0
        /\ Idle.op = "idle" /\ Idle.number = 0 /\ ~Idle.locked
        /\ Idle \in Request
    BY DEF Absent, Idle, Request, Kinds
  <2>2. BillingTypeOK
    BY <2>1 DEF BillingInit, BillingTypeOK
  <2>3. Steps /\ Alone /\ LockedIsOpen
    BY <2>1 DEF BillingInit, Steps, Fits, Alone, LockedIsOpen
  <2>4. Numbers
    BY <2>1 DEF BillingInit, Numbers, Consecutive, Kinds
  <2>5. Rows
    BY <2>1 DEF BillingInit, Rows, Unconverted, Computed, ConvertedOnce,
                ConvertedAsQuoted, Exists
  <2>6. QED
    BY <2>2, <2>3, <2>4, <2>5 DEF BillingInv
<1>2. BillingInv /\ [BillingNext]_billingVars => BillingInv'
  <2> SUFFICES ASSUME BillingInv, [BillingNext]_billingVars
               PROVE  BillingInv'
    OBVIOUS
  <2>1. ASSUME NEW w \in Workers, NEW k \in Kinds, BeginCreate(w, k)
        PROVE  BillingInv'
    <3> DEFINE asking == [Idle EXCEPT !.op = "create", !.kind = k]
    <3>1. /\ asking \in Request
          /\ asking.op = "create" /\ asking.row = NoRow /\ ~asking.locked
      BY DEF Idle, Request
    <3> HIDE DEF asking
    <3>2. TakeNumber(w, asking) /\ UNCHANGED <<estimates, invoices, nextNumber>>
      BY <2>1 DEF BeginCreate, asking
    <3>3. QED
      BY <3>1, <3>2, NumberTaken
  <2>2. ASSUME NEW w \in Workers, NEW content \in Contents, NEW e \in Estimates,
               CreateEstimate(w, e, content)
        PROVE  BillingInv'
    BY <2>2, CreatesEstimate
  <2>3. ASSUME NEW w \in Workers, NEW content \in Contents, NEW i \in Invoices,
               CreateInvoice(w, i, content)
        PROVE  BillingInv'
    BY <2>3, CreatesInvoice
  <2>4. ASSUME NEW w \in Workers, NEW content \in Contents, NEW status \in OpenStatus,
               UpdateEstimate(w, content, status)
        PROVE  BillingInv'
    BY <2>4, UpdatesEstimate
  <2>5. ASSUME NEW w \in Workers, NEW e \in Estimates, NEW op \in {"update", "convert"},
               Begin(w, e, op)
        PROVE  BillingInv'
    <3> DEFINE r == [Idle EXCEPT !.op = op, !.row = e]
    <3>1. r \in Request /\ Fits(r) /\ r.number = 0 /\ ~r.locked
      BY DEF Idle, Request, Kinds, Fits
    <3> HIDE DEF r
    <3>2. /\ request' = [request EXCEPT ![w] = r]
          /\ UNCHANGED <<estimates, invoices, nextNumber>>
      BY <2>5 DEF Begin, r
    <3>3. QED
      BY <3>1, <3>2, Moved
  <2>6. ASSUME NEW w \in Workers, LockEstimate(w)
        PROVE  BillingInv'
    <3> DEFINE r == [request[w] EXCEPT !.locked = TRUE]
    <3>1. /\ request[w].op = "convert" /\ ~request[w].locked /\ ~Locked(request[w].row)
          /\ Open(request[w].row)
          /\ UNCHANGED <<estimates, invoices, nextNumber>>
      BY <2>6 DEF LockEstimate, Reached, MayConvert
    <3>2. /\ request[w] \in Request
          /\ request[w].number = 0 /\ request[w].row \in Estimates
      BY <3>1 DEF BillingInv, BillingTypeOK, Steps, Fits
    <3>3. request' = [request EXCEPT ![w] = r]
      BY <2>6 DEF LockEstimate, BillingInv, BillingTypeOK
    <3>4. /\ r \in Request /\ r.op = "convert" /\ r.row = request[w].row
          /\ r.number = 0 /\ r.locked
      BY <3>1, <3>2 DEF Request
    <3> HIDE DEF r
    <3>5. Fits(r)
      BY <3>2, <3>4 DEF Fits
    <3>6. \A v \in Workers : request[v].locked => request[v].row # r.row
      BY <3>1, <3>4 DEF Locked
    <3>7. QED
      BY <3>1, <3>3, <3>4, <3>5, <3>6, Moved
  <2>7. ASSUME NEW w \in Workers, NumberConversion(w)
        PROVE  BillingInv'
    <3> DEFINE asking == [request[w] EXCEPT !.kind = "invoice"]
    <3>1. /\ request[w].locked /\ request[w] \in Request
          /\ TakeNumber(w, asking) /\ UNCHANGED <<estimates, invoices, nextNumber>>
      BY <2>7 DEF NumberConversion, BillingInv, BillingTypeOK
    <3>2. request[w].op = "convert" /\ request[w].row \in Estimates
      BY <3>1 DEF BillingInv, Steps, Fits, Request, Idle
    <3>3. /\ asking \in Request
          /\ asking.op = "convert" /\ asking.row = request[w].row /\ asking.locked
      BY <3>1, <3>2 DEF Request, Kinds
    <3> HIDE DEF asking
    <3>4. QED
      BY <3>1, <3>2, <3>3, NumberTaken
  <2>8. ASSUME NEW w \in Workers, Refuse(w) \/ Fail(w)
        PROVE  BillingInv'
    BY <2>8, AnsweredOnly DEF Refuse, Fail
  <2>9. ASSUME NEW w \in Workers, NEW i \in Invoices, ConvertEstimate(w, i)
        PROVE  BillingInv'
    BY <2>9, ConvertsEstimate
  <2>10. ASSUME NEW e \in Estimates, DestroyEstimate(e)
         PROVE  BillingInv'
    BY <2>10, DestroysEstimate
  <2>11. ASSUME NEW i \in Invoices, DestroyInvoice(i)
         PROVE  BillingInv'
    BY <2>11, DestroysInvoice
  <2>12. CASE UNCHANGED billingVars
    BY <2>12 DEF billingVars, BillingInv, BillingTypeOK, Steps, Fits, Alone, LockedIsOpen,
                 Open, Numbers, Rows, Unconverted, Computed, ConvertedOnce,
                 ConvertedAsQuoted, Exists
  <2>13. QED
    BY <2>1, <2>2, <2>3, <2>4, <2>5, <2>6, <2>7, <2>8, <2>9, <2>10, <2>11, <2>12
       DEF BillingNext, Serve
<1>3. QED
  BY <1>1, <1>2, PTL DEF BillingSpec

\* Estimates, invoices, counters and requests stay well typed, whichever worker
\* does what, fails or has its write refused.
THEOREM BillingTypeCorrect == BillingSpec => []BillingTypeOK
<1>1. BillingInv => BillingTypeOK
  BY DEF BillingInv
<1>2. QED
  BY <1>1, BillingInvariant, PTL

\* For any number of workers: documents are numbered 1, 2, 3, ... without a gap
\* or a duplicate, whatever fails or is deleted, because the sequence row stays
\* locked from reading the number to committing the document.
THEOREM NumbersWithoutGap == BillingSpec => []NumberedInSequence
<1>1. BillingInv => NumberedInSequence
  <2> SUFFICES ASSUME BillingInv, NEW kind \in Kinds
               PROVE  LET holders == {w \in Workers : request[w].kind = kind /\ request[w].number # 0}
                      IN /\ Numbered(kind) = 1 .. nextNumber[kind] - 1
                         /\ Cardinality(holders) <= 1
                         /\ \A w \in holders : request[w].number \notin Numbered(kind)
    BY DEF NumberedInSequence, BillingInv, Numbers, Consecutive
  <2> DEFINE holders == {w \in Workers : request[w].kind = kind /\ request[w].number # 0}
  <2>1. nextNumber[kind] \in Nat \ {0}
    BY DEF BillingInv, BillingTypeOK
  <2>2. Numbered(kind) = 1 .. nextNumber[kind] - 1
    <3>1. CASE kind = "estimate"
      <4>1. Consecutive(nextNumber[kind], Estimates, estimates)
        BY <3>1 DEF BillingInv, Numbers
      <4>2. {estimates[e].number : e \in Estimates} \ {0} = 1 .. nextNumber[kind] - 1
        BY <2>1, <4>1, NumbersAreAnInterval
      <4>3. QED
        BY <3>1, <4>2 DEF Numbered
    <3>2. CASE kind = "invoice"
      <4>1. Consecutive(nextNumber[kind], Invoices, invoices)
        BY <3>2 DEF BillingInv, Numbers
      <4>2. {invoices[i].number : i \in Invoices} \ {0} = 1 .. nextNumber[kind] - 1
        BY <2>1, <4>1, NumbersAreAnInterval
      <4>3. QED
        BY <3>2, <4>2 DEF Numbered
    <3>3. QED
      BY <3>1, <3>2 DEF Kinds
  <2>3. \A v, w \in holders : v = w
    BY DEF BillingInv, Alone
  <2>4. Cardinality(holders) <= 1
    <3>1. CASE holders = {}
      BY <3>1, FS_EmptySet
    <3>2. ASSUME NEW w \in holders
          PROVE  Cardinality(holders) <= 1
      <4>1. holders = {w}
        BY <2>3
      <4>2. Cardinality({w}) = 1
        BY FS_Singleton
      <4> HIDE DEF holders
      <4>3. QED
        BY <4>1, <4>2
    <3>3. QED
      BY <3>1, <3>2
  <2>5. \A w \in holders : request[w].number \notin Numbered(kind)
    BY <2>1, <2>2 DEF BillingInv, Steps, Fits
  <2>6. QED
    BY <2>2, <2>4, <2>5
<1>2. QED
  BY <1>1, BillingInvariant, PTL

\* For any number of workers: an estimate becomes one invoice, and it knows
\* that invoice while it exists; the lock and the second look decide a race.
THEOREM EstimateConvertedOnce == BillingSpec => []ConvertedOnce
<1>1. BillingInv => ConvertedOnce
  BY DEF BillingInv, Rows
<1>2. QED
  BY <1>1, BillingInvariant, PTL

\* A converted estimate still says what its invoice asks for, because an edit
\* looks again under the same lock that the conversion takes.
THEOREM InvoiceIsTheQuote == BillingSpec => []ConvertedAsQuoted
<1>1. BillingInv => ConvertedAsQuoted
  BY DEF BillingInv, Rows
<1>2. QED
  BY <1>1, BillingInvariant, PTL

\* Whatever a document says, its five rounded amounts add up to within a cent
\* and neither what is taxed nor the tax is negative.
THEOREM TotalsAlwaysAddUp == BillingSpec => []AmountsAddUp
<1>1. BillingInv => AmountsAddUp
  <2> SUFFICES ASSUME BillingInv
               PROVE  AmountsAddUp
    OBVIOUS
  <2>1. \A e \in Estimates : Exists(estimates[e])
          => \E c \in Contents : estimates[e].totals = CalculateTotals(c)
    BY DEF BillingInv, BillingTypeOK, Rows, Computed, Exists, EstimateRow, Absent
  <2>2. \A i \in Invoices : Exists(invoices[i])
          => \E c \in Contents : invoices[i].totals = CalculateTotals(c)
    BY DEF BillingInv, BillingTypeOK, Rows, Computed, Exists, InvoiceRow, Absent
  <2>3. QED
    BY <2>1, <2>2, TotalsAddUp DEF AmountsAddUp
<1>2. QED
  BY <1>1, BillingInvariant, PTL

(***************************************************************************)
(* Loyalty.                                                                *)
(***************************************************************************)

USE PointsAssumption, SettingsAssumption, MaxCrashesAssumption,
    NoAccountAssumption

TakenRow == [expired : BOOLEAN, expiredPoints : Nat, reversedPoints : Nat]

(***************************************************************************)
(* What holds of one account whatever the state of the others.             *)
(***************************************************************************)

\* The tiers are the four the model declares.
LEMMA TierType ==
    ASSUME NEW lifetime \in Nat, thresholds \in Settings
    PROVE  TierFor(lifetime) \in Tier
BY DEF TierFor, Tier

\* Recalculating the tier changes neither balance.
LEMMA WithTierType ==
    ASSUME NEW acc \in AccountRow, thresholds \in Settings
    PROVE  /\ WithTier(acc) \in AccountRow
           /\ WithTier(acc).available = acc.available
           /\ WithTier(acc).lifetime = acc.lifetime
BY TierType DEF WithTier, AccountRow

\* An award adds the same amount to both balances.
LEMMA AwardedType ==
    ASSUME NEW acc \in AccountRow, NEW p \in Points, thresholds \in Settings
    PROVE  /\ Awarded(acc, p) \in AccountRow
           /\ Awarded(acc, p).available = acc.available + p
<1> DEFINE row == [acc EXCEPT !.available = acc.available + p,
                              !.lifetime = acc.lifetime + p]
<1>1. /\ row \in AccountRow
      /\ row.available = acc.available + p
  <2>1. p \in Nat /\ acc.available + p \in Int /\ acc.lifetime + p \in Nat
    BY DEF AccountRow
  <2>2. QED
    BY <2>1 DEF AccountRow
<1>2. Awarded(acc, p) = WithTier(row)
  BY DEF Awarded
<1> HIDE DEF row
<1>3. QED
  BY <1>1, <1>2, WithTierType

\* A debit takes its amount from the balance and from the ledger's sum, of
\* that account alone.
LEMMA DebitEffect ==
    ASSUME TypeOK, NEW a \in Accounts, account[a] # NoAccount,
           NEW p \in Nat, Debit(a, p)
    PROVE  /\ account'[a] \in AccountRow
           /\ account'[a].available = account[a].available - p
           /\ posted'[a] = posted[a] - p
           /\ account' = [account EXCEPT ![a] = account'[a]]
           /\ posted' = [posted EXCEPT ![a] = posted'[a]]
<1> DEFINE row == [account[a] EXCEPT !.available = account[a].available - p]
<1>1. account[a] \in AccountRow
  BY DEF TypeOK, AccountRow
<1>2. row \in AccountRow /\ row.available = account[a].available - p
  BY <1>1 DEF AccountRow
<1>3. account' = [account EXCEPT ![a] = WithTier(row)]
  BY DEF Debit, Debited
<1> HIDE DEF row
<1>4. WithTier(row) \in AccountRow /\ WithTier(row).available = row.available
  BY <1>2, WithTierType DEF TypeOK
<1>5. posted' = [posted EXCEPT ![a] = posted[a] - p]
  BY DEF Debit
<1>6. QED
  BY <1>2, <1>3, <1>4, <1>5 DEF TypeOK

\* An award adds its amount to the balance and to the ledger's sum of one
\* account, which it creates if there is none.
LEMMA AwardEffect ==
    ASSUME TypeOK, NEW a \in Accounts, NEW acc \in AccountRow,
           NEW g \in Grants, NEW p \in Points, NEW e \in Earning,
           Award(a, acc, g, p, e)
    PROVE  /\ account'[a] \in AccountRow
           /\ account'[a].available = acc.available + p
           /\ posted'[a] = posted[a] + p
           /\ account' = [account EXCEPT ![a] = account'[a]]
           /\ posted' = [posted EXCEPT ![a] = posted'[a]]
           /\ grant[g] = NoGrant
           /\ grant' = [grant EXCEPT
                 ![g] = [account |-> a, points |-> p, expires |-> e]]
<1>1. Awarded(acc, p) \in AccountRow
      /\ Awarded(acc, p).available = acc.available + p
  BY AwardedType DEF TypeOK
<1>2. QED
  BY <1>1 DEF Award, TypeOK

\* A row is not taken for a missing one.
LEMMA RowIsNotNull ==
    ASSUME NEW o \in Nat, NEW q \in Int, NEW p \in Int
    PROVE  [opening |-> o, balance |-> q, posted |-> p] # NoAccount
<1>1. [opening |-> o, balance |-> q, posted |-> p]
         \in [opening : Nat, balance : Int, posted : Int]
  OBVIOUS
<1>2. QED
  BY <1>1

(***************************************************************************)
(* The inductive invariant.                                                *)
(***************************************************************************)

\* The balance is the ledger's sum, and an account without a row has no
\* ledger: PROTECT keeps the accounts that do.
Balanced ==
    \A a \in Accounts :
        /\ account[a] = NoAccount => \A g \in Grants : grant[g].account # a
        /\ (\A g \in Grants : grant[g].account # a) => posted[a] = 0
        /\ account[a] # NoAccount =>
              account[a].available >= 0 /\ posted[a] = account[a].available

\* Whatever an order or a run of the task refers to has been granted.
Granted ==
    /\ \A g \in Grants : grant[g].account = NoAccount => grant[g] = NoGrant
    /\ \A r \in Runs : \A g \in due[r] : grant[g].expires = "due"
    /\ \A o \in Orders : \A g \in order[o].earned :
          grant[g].account # NoAccount

\* What a step of the task or a cancellation may still take.
NotYetTaken ==
    /\ \A g \in Grants : ~ taken[g].expired => taken[g].expiredPoints = 0
    /\ \A o \in Orders : \A g \in order[o].earned :
          order[o].status = "completed" => taken[g].reversedPoints = 0
    /\ \A o1, o2 \in Orders :
          o1 # o2 => order[o1].earned \cap order[o2].earned = {}

\* An order refers to an invoice exactly while the one made from it exists.
Referenced ==
    \A o \in Orders : order[o].live = IF order[o].invoiced THEN 1 ELSE 0

Inv == /\ TypeOK /\ Balanced /\ Granted
       /\ NotYetTaken /\ NeverTakesMoreThanGranted /\ Referenced

\* A grant that an order or a run refers to belongs to an account that
\* exists, and what is taken back of it is at most what there is.
LEMMA TakenBackBound ==
    ASSUME Inv, NEW g \in Grants, grant[g].account # NoAccount
    PROVE  LET a == grant[g].account IN
           /\ a \in Accounts
           /\ account[a] # NoAccount
           /\ account[a] \in AccountRow
           /\ TakenBack(g) \in Nat
           /\ TakenBack(g) <= grant[g].points
           /\ TakenBack(g) <= account[a].available
<1>1. /\ grant[g].account \in Accounts
      /\ grant[g].points \in Nat
  <2>1. grant[g].points \in Points \cup {0}
    BY DEF Inv, TypeOK
  <2>2. \A p \in Points \cup {0} : p \in Nat
    BY PointsAssumption
  <2>3. grant[g].points \in Nat
    BY <2>1, <2>2, Zenon
  <2>4. grant[g].account \in Accounts
    <3>1. grant[g].account \in Accounts \cup {NoAccount}
      BY DEF Inv, TypeOK
    <3>2. QED
      BY <3>1
  <2>5. QED
    BY <2>3, <2>4
<1>2. account[grant[g].account] # NoAccount
  BY <1>1 DEF Inv, Balanced
<1>3. /\ account[grant[g].account] \in AccountRow
      /\ account[grant[g].account].available \in Nat
  BY <1>1, <1>2 DEF Inv, TypeOK, Balanced, AccountRow
<1>4. QED
  BY <1>1, <1>2, <1>3 DEF TakenBack, Min2

\* An award keeps balances, grants and orders in order, for every order that
\* does not refer to the grant yet.
LEMMA AwardKeeps ==
    ASSUME Inv, NEW a \in Accounts, NEW acc \in AccountRow,
           NEW g \in Grants, NEW p \in Points, NEW e \in Earning,
           account[a] = NoAccount => acc.available = 0,
           account[a] # NoAccount => acc = account[a],
           Award(a, acc, g, p, e),
           UNCHANGED <<thresholds, taken, due, crashes>>
    PROVE  /\ account' \in [Accounts -> AccountRow \cup {NoAccount}]
           /\ posted' \in [Accounts -> Int]
           /\ grant' \in [Grants ->
                [account : Accounts \cup {NoAccount}, points : Points \cup {0},
                 expires : {"never", "later", "due"}]]
           /\ Balanced'
           /\ \A h \in Grants : grant'[h].account = NoAccount => grant'[h] = NoGrant
           /\ \A r \in Runs : \A h \in due'[r] : grant'[h].expires = "due"
           /\ NeverTakesMoreThanGranted'
           /\ \A o \in Orders : g \notin order[o].earned
           /\ taken[g].reversedPoints = 0
           /\ \A h \in Grants : h # g => grant'[h] = grant[h]
           /\ grant'[g].account = a
<1> USE DEF Inv
<1>1. /\ account'[a] \in AccountRow
      /\ account'[a].available = acc.available + p
      /\ posted'[a] = posted[a] + p
      /\ account' = [account EXCEPT ![a] = account'[a]]
      /\ posted' = [posted EXCEPT ![a] = posted'[a]]
      /\ grant[g] = NoGrant
      /\ grant' = [grant EXCEPT
            ![g] = [account |-> a, points |-> p, expires |-> e]]
  BY AwardEffect
<1>2. p \in Nat /\ posted[a] \in Int /\ acc.available \in Int
  BY DEF TypeOK, AccountRow
<1>3. /\ account' \in [Accounts -> AccountRow \cup {NoAccount}]
      /\ posted' \in [Accounts -> Int]
  BY <1>1, <1>2 DEF TypeOK, AccountRow
<1>4. grant' \in [Grants ->
         [account : Accounts \cup {NoAccount}, points : Points \cup {0},
          expires : {"never", "later", "due"}]]
  BY <1>1, <1>2 DEF TypeOK, Earning
<1>5. account'[a] # NoAccount
  BY <1>1
<1>6. posted[a] = acc.available /\ acc.available >= 0
  BY DEF Balanced
<1>7. Balanced'
  BY <1>1, <1>2, <1>5, <1>6 DEF Balanced, NoGrant, TypeOK
<1>8. \A h \in Grants : grant'[h].account = NoAccount => grant'[h] = NoGrant
  BY <1>1 DEF Granted, TypeOK
<1>9. \A r \in Runs : \A h \in due'[r] : grant'[h].expires = "due"
  BY <1>1 DEF Granted, NoGrant, TypeOK
<1>10. NeverTakesMoreThanGranted'
  BY <1>1, <1>2 DEF NeverTakesMoreThanGranted, NoGrant, TypeOK
<1>11. \A o \in Orders : g \notin order[o].earned
  BY <1>1 DEF Granted, NoGrant
<1>12. taken[g].reversedPoints = 0
  BY <1>1 DEF NeverTakesMoreThanGranted, NoGrant, TypeOK
<1>13. /\ \A h \in Grants : h # g => grant'[h] = grant[h]
       /\ grant'[g].account = a
  BY <1>1 DEF TypeOK
<1>14. QED
  BY <1>3, <1>4, <1>7, <1>8, <1>9, <1>10, <1>11, <1>12, <1>13

\* A debit of no more than there is keeps every balance its ledger's sum.
LEMMA DebitKeeps ==
    ASSUME Inv, NEW a \in Accounts, account[a] # NoAccount,
           NEW p \in Nat, p <= account[a].available,
           Debit(a, p), UNCHANGED grant
    PROVE  /\ account' \in [Accounts -> AccountRow \cup {NoAccount}]
           /\ posted' \in [Accounts -> Int]
           /\ Balanced'
<1> USE DEF Inv
<1>1. /\ account'[a] \in AccountRow
      /\ account'[a].available = account[a].available - p
      /\ posted'[a] = posted[a] - p
      /\ account' = [account EXCEPT ![a] = account'[a]]
      /\ posted' = [posted EXCEPT ![a] = posted'[a]]
  BY DebitEffect
<1>2. /\ posted[a] \in Int /\ account[a].available \in Int
      /\ posted[a] = account[a].available
  BY DEF TypeOK, Balanced, AccountRow
<1>3. account'[a] # NoAccount /\ account'[a].available >= 0
  BY <1>1, <1>2
<1>4. Balanced'
  BY <1>1, <1>2, <1>3 DEF Balanced, TypeOK
<1>5. QED
  BY <1>1, <1>2, <1>4 DEF TypeOK

\* What both an expiration and a reversal do to the account of a grant.
LEMMA TakeBackKeeps ==
    ASSUME Inv, NEW g \in Grants, grant[g].account # NoAccount,
           IF TakenBack(g) > 0 THEN Debit(grant[g].account, TakenBack(g))
                               ELSE UNCHANGED <<account, posted>>,
           UNCHANGED grant
    PROVE  /\ account' \in [Accounts -> AccountRow \cup {NoAccount}]
           /\ posted' \in [Accounts -> Int]
           /\ Balanced'
<1>1. CASE TakenBack(g) > 0
  BY <1>1, TakenBackBound, DebitKeeps
<1>2. CASE ~ (TakenBack(g) > 0)
  BY <1>2 DEF Inv, TypeOK, Balanced
<1>3. QED
  BY <1>1, <1>2

\* Only the conversion of an order and the deletion of its invoice touch it.
LEMMA ReferencedKept ==
    ASSUME TypeOK, Referenced, [Next]_vars
    PROVE  Referenced'
<1> USE DEF Referenced
<1>1. ASSUME NEW o \in Orders, ConvertOrder(o) \/ InvoiceDeleted(o)
      PROVE  Referenced'
  <2>1. order[o].live = IF order[o].invoiced THEN 1 ELSE 0
    OBVIOUS
  <2>2. CASE ConvertOrder(o)
    <3>1. ~ order[o].invoiced
      BY <2>2 DEF ConvertOrder, Convertible
    <3>2. order' = [order EXCEPT ![o] = [order[o] EXCEPT !.invoiced = TRUE,
                                                         !.live = 0 + 1]]
      BY <2>1, <2>2, <3>1 DEF ConvertOrder
    <3>3. QED
      BY <3>2 DEF TypeOK
  <2>3. CASE InvoiceDeleted(o)
    <3>1. order[o].invoiced
      BY <2>3 DEF InvoiceDeleted
    <3>2. order' = [order EXCEPT ![o] = [order[o] EXCEPT !.invoiced = FALSE,
                                                         !.live = 1 - 1]]
      BY <2>1, <2>3, <3>1 DEF InvoiceDeleted
    <3>3. QED
      BY <3>2 DEF TypeOK
  <2>4. QED
    BY <1>1, <2>2, <2>3
<1>2. ASSUME NEW o \in Orders, CancelOrder(o)
      PROVE  Referenced'
  BY <1>2 DEF CancelOrder, TypeOK
<1>3. ASSUME NEW o \in Orders, NEW earned \in SUBSET Grants,
             order' = [order EXCEPT ![o] = Completed(earned)]
      PROVE  Referenced'
  BY <1>3 DEF Completed, TypeOK
<1>4. ASSUME NEW o \in Orders, NEW a \in Accounts,
             \/ \E enrol \in BOOLEAN : CreateOrderWithoutPoints(o, a, enrol)
             \/ \E g \in Grants, p \in Points, e \in Earning :
                   CreateOrder(o, a, g, p, e)
      PROVE  Referenced'
  <2>1. \E earned \in SUBSET Grants :
           order' = [order EXCEPT ![o] = Completed(earned)]
    BY <1>4 DEF CreateOrder, CreateOrderWithoutPoints
  <2>2. QED
    BY <1>3, <2>1
<1>5. CASE UNCHANGED order
  BY <1>5
<1>6. QED
  BY <1>1, <1>2, <1>4, <1>5
  DEF Next, vars, orderVars, CreateAccount, DestroyAccount, RedeemPoints,
      AwardPoints, ChangeSettings, FallsDue, BeginExpiry, KillRun, ExpireGrant

\* Every step of a request, of the calendar and of the task keeps it.
LEMMA LoyaltyInvariant == Spec => []Inv
<1>1. Init => Inv
  BY DEF Init, Inv, TypeOK, Balanced, Granted, NotYetTaken,
         NeverTakesMoreThanGranted, Referenced, NoGrant, NothingTaken, NoOrder,
         AccountRow
<1>2. Inv /\ [Next]_vars => Inv'
  <2> SUFFICES ASSUME Inv, [Next]_vars
               PROVE  Inv'
    OBVIOUS
  <2>0. TypeOK /\ Balanced /\ Granted /\ NotYetTaken /\ NeverTakesMoreThanGranted
    BY DEF Inv
  <2>ref. Referenced /\ Referenced'
    BY ReferencedKept DEF Inv
  <2> USE DEF orderVars, taskVars
  <2>1. ASSUME NEW a \in Accounts, CreateAccount(a)
        PROVE  Inv'
    <3>1. NewAccount \in AccountRow /\ NewAccount.available = 0
      BY DEF NewAccount, AccountRow, Tier
    <3>2. TypeOK'
      BY <2>0, <2>1, <3>1 DEF CreateAccount, TypeOK
    <3>3. Balanced'
      BY <2>0, <2>1, <3>1 DEF CreateAccount, TypeOK, Balanced
    <3>4. QED
      BY <2>ref, <2>0, <2>1, <3>2, <3>3
      DEF CreateAccount, Inv, Granted, NotYetTaken, NeverTakesMoreThanGranted
  <2>2. ASSUME NEW a \in Accounts, DestroyAccount(a)
        PROVE  Inv'
    <3>1. TypeOK'
      BY <2>0, <2>2 DEF DestroyAccount, TypeOK
    <3>2. Balanced'
      BY <2>0, <2>2 DEF DestroyAccount, TypeOK, Balanced
    <3>3. QED
      BY <2>ref, <2>0, <2>2, <3>1, <3>2
      DEF DestroyAccount, Inv, Granted, NotYetTaken, NeverTakesMoreThanGranted
  <2>3. ASSUME NEW a \in Accounts, NEW p \in Points, RedeemPoints(a, p)
        PROVE  Inv'
    <3>1. /\ p \in Nat /\ p <= account[a].available
          /\ account[a] # NoAccount /\ Debit(a, p)
          /\ UNCHANGED <<thresholds, grant, taken, order, due, crashes>>
      BY <2>3 DEF RedeemPoints, Covered
    <3>2. /\ account' \in [Accounts -> AccountRow \cup {NoAccount}]
          /\ posted' \in [Accounts -> Int]
          /\ Balanced'
      BY <3>1, DebitKeeps
    <3>3. QED
      BY <2>ref, <2>0, <3>1, <3>2
      DEF Inv, TypeOK, Granted, NotYetTaken, NeverTakesMoreThanGranted
  <2>4. ASSUME NEW a \in Accounts, NEW g \in Grants, NEW p \in Points,
               NEW e \in Earning, AwardPoints(a, g, p, e)
        PROVE  Inv'
    <3>1. /\ account[a] \in AccountRow
          /\ account[a] # NoAccount
          /\ Award(a, account[a], g, p, e)
          /\ UNCHANGED <<thresholds, taken, order, due, crashes>>
      BY <2>0, <2>4 DEF AwardPoints, TypeOK
    <3>2. /\ account' \in [Accounts -> AccountRow \cup {NoAccount}]
          /\ posted' \in [Accounts -> Int]
          /\ grant' \in [Grants ->
               [account : Accounts \cup {NoAccount}, points : Points \cup {0},
                expires : {"never", "later", "due"}]]
          /\ Balanced'
          /\ \A h \in Grants : grant'[h].account = NoAccount => grant'[h] = NoGrant
          /\ \A r \in Runs : \A h \in due'[r] : grant'[h].expires = "due"
          /\ NeverTakesMoreThanGranted'
          /\ \A h \in Grants : h # g => grant'[h] = grant[h]
          /\ grant'[g].account = a
      BY <3>1, AwardKeeps
    <3>3. TypeOK'
      BY <2>0, <3>1, <3>2 DEF TypeOK
    <3>4. Granted'
      BY <2>0, <3>1, <3>2 DEF Granted, TypeOK
    <3>5. NotYetTaken'
      BY <2>0, <3>1 DEF NotYetTaken
    <3>6. QED
      BY <2>ref, <3>2, <3>3, <3>4, <3>5 DEF Inv
  <2>5. ASSUME NEW s \in Settings, ChangeSettings(s)
        PROVE  Inv'
    BY <2>ref, <2>0, <2>5
    DEF ChangeSettings, Inv, TypeOK, Balanced, Granted, NotYetTaken,
        NeverTakesMoreThanGranted
  <2>6. ASSUME NEW o \in Orders, NEW a \in Accounts, NEW g \in Grants,
               NEW p \in Points, NEW e \in Earning, CreateOrder(o, a, g, p, e)
        PROVE  Inv'
    <3> DEFINE acc == IF account[a] = NoAccount THEN NewAccount ELSE account[a]
    <3>1. /\ acc \in AccountRow
          /\ account[a] = NoAccount => acc.available = 0
          /\ account[a] # NoAccount => acc = account[a]
      BY <2>0 DEF TypeOK, NewAccount, AccountRow, Tier
    <3>2. /\ Award(a, acc, g, p, e)
          /\ UNCHANGED <<thresholds, taken, due, crashes>>
          /\ order[o].status = "absent"
          /\ order' = [order EXCEPT ![o] = Completed({g})]
      BY <2>6 DEF CreateOrder
    <3> HIDE DEF acc
    <3>3. /\ account' \in [Accounts -> AccountRow \cup {NoAccount}]
          /\ posted' \in [Accounts -> Int]
          /\ grant' \in [Grants ->
               [account : Accounts \cup {NoAccount}, points : Points \cup {0},
                expires : {"never", "later", "due"}]]
          /\ Balanced'
          /\ \A h \in Grants : grant'[h].account = NoAccount => grant'[h] = NoGrant
          /\ \A r \in Runs : \A h \in due'[r] : grant'[h].expires = "due"
          /\ NeverTakesMoreThanGranted'
          /\ \A q \in Orders : g \notin order[q].earned
          /\ taken[g].reversedPoints = 0
          /\ \A h \in Grants : h # g => grant'[h] = grant[h]
          /\ grant'[g].account = a
      BY <3>1, <3>2, AwardKeeps
    <3>4. \A q \in Orders :
             order'[q] = IF q = o THEN Completed({g}) ELSE order[q]
      BY <2>0, <3>2 DEF TypeOK
    <3>5. TypeOK'
      BY <2>0, <3>2, <3>3 DEF TypeOK, Completed
    <3>6. Granted'
      <4>1. ASSUME NEW q \in Orders, NEW h \in order'[q].earned
            PROVE  grant'[h].account # NoAccount
        <5>1. CASE q = o
          BY <3>3, <3>4, <4>1, <5>1 DEF Completed
        <5>2. CASE q # o
          BY <2>0, <3>3, <3>4, <4>1, <5>2 DEF Granted, TypeOK
        <5>3. QED
          BY <5>1, <5>2
      <4>2. QED
        BY <3>3, <4>1 DEF Granted
    <3>7. NotYetTaken'
      BY <2>0, <3>2, <3>3, <3>4 DEF NotYetTaken, TypeOK, Completed
    <3>8. QED
      BY <2>ref, <3>3, <3>5, <3>6, <3>7 DEF Inv
  <2>7. ASSUME NEW o \in Orders, NEW a \in Accounts, NEW enrol \in BOOLEAN,
               CreateOrderWithoutPoints(o, a, enrol)
        PROVE  Inv'
    <3>1. NewAccount \in AccountRow /\ NewAccount.available = 0
      BY DEF NewAccount, AccountRow, Tier
    <3>2. /\ account' \in [Accounts -> AccountRow \cup {NoAccount}]
          /\ Balanced'
          /\ UNCHANGED <<posted, thresholds, grant, taken, due, crashes>>
      <4>1. CASE enrol /\ account[a] = NoAccount
        BY <2>0, <2>7, <3>1, <4>1 DEF CreateOrderWithoutPoints, TypeOK, Balanced
      <4>2. CASE ~ (enrol /\ account[a] = NoAccount)
        BY <2>0, <2>7, <4>2 DEF CreateOrderWithoutPoints, TypeOK, Balanced
      <4>3. QED
        BY <4>1, <4>2
    <3>3. \A q \in Orders :
             order'[q] = IF q = o THEN Completed({}) ELSE order[q]
      BY <2>0, <2>7 DEF CreateOrderWithoutPoints, TypeOK
    <3>4. TypeOK'
      BY <2>0, <2>7, <3>2 DEF TypeOK, CreateOrderWithoutPoints, Completed
    <3>5. QED
      BY <2>ref, <2>0, <3>2, <3>3, <3>4
      DEF Inv, Granted, NotYetTaken, NeverTakesMoreThanGranted, Completed
  <2>8. ASSUME NEW o \in Orders, CancelOrder(o)
        PROVE  Inv'
    <3>1. /\ order[o].status = "completed"
          /\ order' = [order EXCEPT ![o].status = "cancelled"]
          /\ UNCHANGED <<thresholds, grant, due, crashes>>
      BY <2>8 DEF CancelOrder, Cancellable
    <3>2. \A q \in Orders :
             /\ order'[q].earned = order[q].earned
             /\ order'[q].status = IF q = o THEN "cancelled" ELSE order[q].status
      BY <2>0, <3>1 DEF TypeOK
    <3>3. order' \in [Orders ->
             [status : {"absent", "completed", "cancelled"},
              earned : SUBSET Grants, invoiced : BOOLEAN, live : Nat]]
      BY <2>0, <3>1 DEF TypeOK
    <3>4. CASE order[o].earned = {}
      <4>1. UNCHANGED <<account, posted, taken>>
        BY <2>8, <3>4 DEF CancelOrder
      <4>2. NotYetTaken'
        BY <2>0, <3>2, <4>1 DEF NotYetTaken
      <4>3. QED
        BY <2>ref, <2>0, <3>1, <3>2, <3>3, <4>1, <4>2
        DEF Inv, TypeOK, Balanced, Granted, NeverTakesMoreThanGranted
    <3>5. CASE order[o].earned # {}
      <4>1. PICK g \in order[o].earned :
               /\ IF TakenBack(g) > 0
                    THEN Debit(grant[g].account, TakenBack(g))
                    ELSE UNCHANGED <<account, posted>>
               /\ taken' = [taken EXCEPT
                     ![g].reversedPoints = @ + TakenBack(g)]
        BY <2>8, <3>5 DEF CancelOrder
      <4>2. g \in Grants /\ grant[g].account # NoAccount
        BY <2>0 DEF TypeOK, Granted
      <4>3. TakenBack(g) \in Nat /\ TakenBack(g) <= grant[g].points
        BY <4>2, TakenBackBound
      <4>4. /\ account' \in [Accounts -> AccountRow \cup {NoAccount}]
            /\ posted' \in [Accounts -> Int]
            /\ Balanced'
        BY <3>1, <4>1, <4>2, TakeBackKeeps
      <4>5. taken[g].reversedPoints = 0 /\ taken[g] \in TakenRow
        BY <2>0, <3>1, <4>2 DEF NotYetTaken, TypeOK, TakenRow
      <4>6. \A h \in Grants :
               /\ taken'[h].expired = taken[h].expired
               /\ taken'[h].expiredPoints = taken[h].expiredPoints
               /\ taken'[h].reversedPoints =
                     IF h = g THEN TakenBack(g) ELSE taken[h].reversedPoints
        BY <2>0, <4>1, <4>2, <4>3, <4>5 DEF TypeOK, TakenRow
      <4>7. taken' \in [Grants -> TakenRow]
        BY <2>0, <4>1, <4>2, <4>3, <4>5 DEF TypeOK, TakenRow
      <4>8. NotYetTaken'
        <5>1. ASSUME NEW q \in Orders, NEW h \in order'[q].earned,
                     order'[q].status = "completed"
              PROVE  taken'[h].reversedPoints = 0
          <6>1. q # o /\ h \in order[q].earned /\ order[q].status = "completed"
            BY <3>2, <5>1
          <6>2. h # g /\ h \in Grants
            BY <2>0, <6>1 DEF NotYetTaken, TypeOK
          <6>3. QED
            BY <2>0, <4>6, <6>1, <6>2 DEF NotYetTaken
        <5>2. QED
          BY <2>0, <3>2, <4>6, <5>1 DEF NotYetTaken
      <4>9. NeverTakesMoreThanGranted'
        BY <2>0, <3>1, <4>2, <4>3, <4>6 DEF NeverTakesMoreThanGranted
      <4>10. TypeOK'
        BY <2>0, <3>1, <3>3, <4>4, <4>7 DEF TypeOK, TakenRow
      <4>11. QED
        BY <2>ref, <2>0, <3>1, <3>2, <4>4, <4>8, <4>9, <4>10 DEF Inv, Granted
    <3>6. QED
      BY <3>4, <3>5
  <2>9. ASSUME NEW o \in Orders, ConvertOrder(o) \/ InvoiceDeleted(o)
        PROVE  Inv'
    <3>1. UNCHANGED <<account, posted, thresholds, grant, taken, due, crashes>>
      BY <2>9 DEF ConvertOrder, InvoiceDeleted
    <3>2. PICK n \in Nat, invoiced \in BOOLEAN :
             order' = [order EXCEPT
                ![o] = [order[o] EXCEPT !.invoiced = invoiced, !.live = n]]
      <4>1. CASE ConvertOrder(o)
        <5>1. order[o].live + 1 \in Nat
          BY <2>0 DEF TypeOK
        <5>2. QED
          BY <4>1, <5>1 DEF ConvertOrder
      <4>2. CASE InvoiceDeleted(o)
        <5>1. order[o].live - 1 = 0
          BY <2>ref, <4>2 DEF InvoiceDeleted, Referenced
        <5>2. QED
          BY <4>2, <5>1 DEF InvoiceDeleted
      <4>3. QED
        BY <2>9, <4>1, <4>2
    <3>3. /\ \A q \in Orders : /\ order'[q].earned = order[q].earned
                               /\ order'[q].status = order[q].status
          /\ order' \in [Orders ->
                [status : {"absent", "completed", "cancelled"},
                 earned : SUBSET Grants, invoiced : BOOLEAN, live : Nat]]
      <4> DEFINE row == [order[o] EXCEPT !.invoiced = invoiced, !.live = n]
      <4>1. /\ row \in [status : {"absent", "completed", "cancelled"},
                        earned : SUBSET Grants, invoiced : BOOLEAN, live : Nat]
            /\ row.earned = order[o].earned
            /\ row.status = order[o].status
        <5>1. order[o] \in [status : {"absent", "completed", "cancelled"},
                            earned : SUBSET Grants, invoiced : BOOLEAN,
                            live : Nat]
          BY <2>0 DEF TypeOK
        <5>2. QED
          BY <5>1
      <4>2. order' = [order EXCEPT ![o] = row]
        BY <3>2
      <4> HIDE DEF row
      <4>3. QED
        BY <2>0, <4>1, <4>2 DEF TypeOK
    <3>4. QED
      BY <2>ref, <2>0, <3>1, <3>3
      DEF Inv, TypeOK, Balanced, Granted, NotYetTaken, NeverTakesMoreThanGranted
  <2>10. ASSUME NEW g \in Grants, FallsDue(g)
         PROVE  Inv'
    <3>1. /\ UNCHANGED <<account, posted, thresholds, taken, order, due, crashes>>
          /\ grant' = [grant EXCEPT ![g].expires = "due"]
          /\ grant[g].expires = "later"
      BY <2>10 DEF FallsDue
    <3>2. \A h \in Grants : /\ grant'[h].account = grant[h].account
                            /\ grant'[h].points = grant[h].points
                            /\ h # g => grant'[h] = grant[h]
      BY <2>0, <3>1 DEF TypeOK
    <3>3. TypeOK'
      BY <2>0, <3>1 DEF TypeOK
    <3>4. Granted'
      BY <2>0, <3>1, <3>2 DEF Granted, TypeOK, NoGrant
    <3>5. QED
      BY <2>ref, <2>0, <3>1, <3>2, <3>3, <3>4
      DEF Inv, Balanced, NotYetTaken, NeverTakesMoreThanGranted
  <2>11. ASSUME NEW r \in Runs, BeginExpiry(r) \/ KillRun(r)
         PROVE  Inv'
    <3>1. UNCHANGED <<account, posted, thresholds, grant, taken, order>>
      BY <2>11 DEF BeginExpiry, KillRun
    <3>2. /\ due' \in [Runs -> SUBSET Grants]
          /\ crashes' \in 0..MaxCrashes
          /\ \A q \in Runs : \A h \in due'[q] : grant[h].expires = "due"
      <4>1. CASE BeginExpiry(r)
        <5>1. /\ due' = [due EXCEPT ![r] = DueNow]
              /\ crashes' = crashes
              /\ DueNow \subseteq Grants
              /\ \A h \in DueNow : grant[h].expires = "due"
          BY <4>1 DEF BeginExpiry, DueNow
        <5>2. QED
          BY <2>0, <5>1 DEF TypeOK, Granted
      <4>2. CASE KillRun(r)
        BY <2>0, <4>2 DEF KillRun, TypeOK, Granted
      <4>3. QED
        BY <2>11, <4>1, <4>2
    <3>3. QED
      BY <2>ref, <2>0, <3>1, <3>2
      DEF Inv, TypeOK, Balanced, Granted, NotYetTaken, NeverTakesMoreThanGranted
  <2>12. ASSUME NEW r \in Runs, NEW g \in Grants, ExpireGrant(r, g)
         PROVE  Inv'
    <3>1. /\ g \in due[r]
          /\ due' = [due EXCEPT ![r] = due[r] \ {g}]
          /\ UNCHANGED <<thresholds, grant, order, crashes>>
      BY <2>12 DEF ExpireGrant
    <3>2. /\ due' \in [Runs -> SUBSET Grants]
          /\ \A q \in Runs : due'[q] \subseteq due[q]
      BY <2>0, <3>1 DEF TypeOK
    <3>3. Granted'
      BY <2>0, <3>1, <3>2 DEF Granted
    <3>4. CASE taken[g].expired
      <4>1. UNCHANGED <<account, posted, taken>>
        BY <2>12, <3>4 DEF ExpireGrant, Uncompensated
      <4>2. QED
        BY <2>ref, <2>0, <3>1, <3>2, <3>3, <4>1
        DEF Inv, TypeOK, Balanced, NotYetTaken, NeverTakesMoreThanGranted
    <3>5. CASE ~ taken[g].expired
      <4>1. /\ IF TakenBack(g) > 0
                 THEN Debit(grant[g].account, TakenBack(g))
                 ELSE UNCHANGED <<account, posted>>
            /\ taken' = [taken EXCEPT ![g] =
                  [expired |-> TRUE,
                   expiredPoints |-> taken[g].expiredPoints + TakenBack(g),
                   reversedPoints |-> taken[g].reversedPoints]]
        BY <2>12, <3>5 DEF ExpireGrant, Uncompensated
      <4>2. grant[g].account # NoAccount
        BY <2>0, <3>1 DEF Granted, NoGrant
      <4>3. TakenBack(g) \in Nat /\ TakenBack(g) <= grant[g].points
        BY <4>2, TakenBackBound
      <4>4. /\ account' \in [Accounts -> AccountRow \cup {NoAccount}]
            /\ posted' \in [Accounts -> Int]
            /\ Balanced'
        BY <3>1, <4>1, <4>2, TakeBackKeeps
      <4>5. taken[g].expiredPoints = 0 /\ taken[g] \in TakenRow
        BY <2>0, <3>5 DEF NotYetTaken, TypeOK, TakenRow
      <4>6. \A h \in Grants :
               /\ taken'[h].reversedPoints = taken[h].reversedPoints
               /\ taken'[h].expired = IF h = g THEN TRUE ELSE taken[h].expired
               /\ taken'[h].expiredPoints =
                     IF h = g THEN TakenBack(g) ELSE taken[h].expiredPoints
        BY <2>0, <4>1, <4>3, <4>5 DEF TypeOK, TakenRow
      <4>7. taken' \in [Grants -> TakenRow]
        BY <2>0, <4>1, <4>3, <4>5 DEF TypeOK, TakenRow
      <4>8. NotYetTaken'
        BY <2>0, <3>1, <4>6 DEF NotYetTaken, TypeOK
      <4>9. NeverTakesMoreThanGranted'
        BY <2>0, <3>1, <4>3, <4>6 DEF NeverTakesMoreThanGranted
      <4>10. TypeOK'
        BY <2>0, <3>1, <3>2, <4>4, <4>7 DEF TypeOK, TakenRow
      <4>11. QED
        BY <2>ref, <3>3, <4>4, <4>8, <4>9, <4>10 DEF Inv
    <3>6. QED
      BY <3>4, <3>5
  <2>13. CASE UNCHANGED vars
    BY <2>ref, <2>0, <2>13
    DEF vars, Inv, TypeOK, Balanced, Granted, NotYetTaken,
        NeverTakesMoreThanGranted
  <2>14. QED
    BY <2>1, <2>2, <2>3, <2>4, <2>5, <2>6, <2>7, <2>8, <2>9, <2>10, <2>11,
       <2>12, <2>13 DEF Next
<1>3. QED
  BY <1>1, <1>2, PTL DEF Spec

(***************************************************************************)
(* The theorems.                                                           *)
(***************************************************************************)

\* The state stays well-typed.
THEOREM TypeCorrect == Spec => []TypeOK
<1>1. Inv => TypeOK
  BY DEF Inv
<1>2. QED
  BY <1>1, LoyaltyInvariant, PTL

\* Whatever interleaves, an account is never overdrawn, and neither the
\* expiry of a grant nor the cancellation of its order takes back more than
\* the grant earned.
THEOREM NeverOverdrawn ==
    Spec => [](AvailableNeverNegative /\ NeverTakesMoreThanGranted)
<1>1. Inv => AvailableNeverNegative /\ NeverTakesMoreThanGranted
  BY DEF Inv, Balanced, AvailableNeverNegative
<1>2. QED
  BY <1>1, LoyaltyInvariant, PTL

\* However conversions and deletions of invoices follow each other, an order
\* is billed by at most one invoice at a time.
THEOREM OrdersBilledOnce == Spec => []BilledOnce
<1>1. Inv => BilledOnce
  BY DEF Inv, Referenced, BilledOnce
<1>2. QED
  BY <1>1, LoyaltyInvariant, PTL

(***************************************************************************)
(* The tier as a cached function of the lifetime points.                   *)
(***************************************************************************)

\* What TierFollowsPoints says of one account.
Cached(a) ==
    account[a] # NoAccount /\ account'[a] # NoAccount =>
      IF [account[a] EXCEPT !.tier = "none"] # [account'[a] EXCEPT !.tier = "none"]
      THEN account'[a].tier = TierFor(account'[a].lifetime)
      ELSE account'[a].tier = account[a].tier

\* An account that a step leaves alone keeps its tier.
LEMMA UntouchedCached ==
    ASSUME NEW a \in Accounts, account'[a] = account[a]
    PROVE  Cached(a)
BY DEF Cached

\* Rows with different balances differ in more than the tier.
LEMMA MovedRow ==
    ASSUME NEW old \in AccountRow, NEW row \in AccountRow,
           row.available # old.available
    PROVE  [old EXCEPT !.tier = "none"] # [row EXCEPT !.tier = "none"]
<1>1. /\ [old EXCEPT !.tier = "none"].available = old.available
      /\ [row EXCEPT !.tier = "none"].available = row.available
  BY DEF AccountRow
<1>2. QED
  BY <1>1

\* Saving a row with its tier recalculated keeps the cache, if its balance
\* has changed.
LEMMA RecalculatedCached ==
    ASSUME TypeOK, NEW a \in Accounts, NEW row \in AccountRow,
           account[a] # NoAccount => row.available # account[a].available,
           account' = [account EXCEPT ![a] = WithTier(row)]
    PROVE  \A b \in Accounts : Cached(b)
<1>1. account'[a] = WithTier(row) /\ \A b \in Accounts \ {a} : account'[b] = account[b]
  BY DEF TypeOK
<1>2. /\ WithTier(row) \in AccountRow
      /\ WithTier(row).available = row.available
      /\ WithTier(row).lifetime = row.lifetime
  BY WithTierType DEF TypeOK
<1>3. WithTier(row).tier = TierFor(row.lifetime)
  BY DEF WithTier, AccountRow
<1>4. ASSUME account[a] # NoAccount
      PROVE  [account[a] EXCEPT !.tier = "none"]
                # [account'[a] EXCEPT !.tier = "none"]
  <2>1. account[a] \in AccountRow
    BY <1>4 DEF TypeOK
  <2>2. QED
    BY <1>1, <1>2, <1>4, <2>1, MovedRow
<1>5. Cached(a)
  BY <1>1, <1>2, <1>3, <1>4 DEF Cached
<1>6. QED
  BY <1>1, <1>5, UntouchedCached

\* So does every debit of some points.
LEMMA DebitCached ==
    ASSUME TypeOK, NEW a \in Accounts, account[a] # NoAccount,
           NEW p \in Nat \ {0}, Debit(a, p)
    PROVE  \A b \in Accounts : Cached(b)
<1> DEFINE row == [account[a] EXCEPT !.available = account[a].available - p]
<1>1. account[a] \in AccountRow
  BY DEF TypeOK
<1>2. row \in AccountRow /\ row.available # account[a].available
  BY <1>1 DEF AccountRow
<1>3. account' = [account EXCEPT ![a] = WithTier(row)]
  BY DEF Debit, Debited
<1> HIDE DEF row
<1>4. QED
  BY <1>2, <1>3, RecalculatedCached

\* And every award.
LEMMA AwardCached ==
    ASSUME TypeOK, NEW a \in Accounts, NEW acc \in AccountRow,
           NEW g \in Grants, NEW p \in Points, NEW e \in Earning,
           account[a] # NoAccount => acc = account[a],
           Award(a, acc, g, p, e)
    PROVE  \A b \in Accounts : Cached(b)
<1> DEFINE row == [acc EXCEPT !.available = acc.available + p,
                              !.lifetime = acc.lifetime + p]
<1>1. p \in Nat \ {0}
  OBVIOUS
<1>2. row \in AccountRow /\ row.available # acc.available
  <2>1. /\ acc.available + p \in Int /\ acc.lifetime + p \in Nat
        /\ acc.available + p # acc.available
    BY <1>1 DEF AccountRow
  <2>2. row \in AccountRow /\ row.available = acc.available + p
    BY <2>1 DEF AccountRow
  <2>3. QED
    BY <2>1, <2>2
<1>3. account' = [account EXCEPT ![a] = WithTier(row)]
  BY DEF Award, Awarded
<1> HIDE DEF row
<1>4. QED
  BY <1>2, <1>3, RecalculatedCached

\* A reversal and an expiration debit what is left, or leave the row alone.
LEMMA TakeBackCached ==
    ASSUME Inv, NEW g \in Grants, grant[g].account # NoAccount,
           IF TakenBack(g) > 0 THEN Debit(grant[g].account, TakenBack(g))
                               ELSE UNCHANGED <<account, posted>>
    PROVE  \A b \in Accounts : Cached(b)
<1>1. CASE TakenBack(g) > 0
  <2>1. /\ grant[g].account \in Accounts
        /\ account[grant[g].account] # NoAccount
        /\ TakenBack(g) \in Nat
    BY TakenBackBound
  <2>2. TakenBack(g) \in Nat \ {0}
    BY <1>1, <2>1
  <2>3. QED
    BY <1>1, <2>1, <2>2, DebitCached DEF Inv
<1>2. CASE ~ (TakenBack(g) > 0)
  BY <1>2, UntouchedCached
<1>3. QED
  BY <1>1, <1>2

\* Whatever moves an account's points leaves its tier the one the thresholds
\* of that moment give, and nothing else touches it.
THEOREM TierIsCached == Spec => TierFollowsPoints
<1>1. Inv /\ [Next]_vars => \A a \in Accounts : Cached(a)
  <2> SUFFICES ASSUME Inv, [Next]_vars
               PROVE  \A a \in Accounts : Cached(a)
    OBVIOUS
  <2>0. TypeOK /\ Granted
    BY DEF Inv
  <2>1. ASSUME NEW a \in Accounts, CreateAccount(a) \/ DestroyAccount(a)
        PROVE  \A b \in Accounts : Cached(b)
    <3>1. account[a] = NoAccount \/ account'[a] = NoAccount
      BY <2>0, <2>1 DEF CreateAccount, DestroyAccount, TypeOK
    <3>2. \A b \in Accounts \ {a} : account'[b] = account[b]
      BY <2>0, <2>1 DEF CreateAccount, DestroyAccount, TypeOK
    <3>3. QED
      BY <3>1, <3>2, UntouchedCached DEF Cached
  <2>2. ASSUME NEW a \in Accounts, NEW p \in Points, RedeemPoints(a, p)
        PROVE  \A b \in Accounts : Cached(b)
    BY <2>0, <2>2, DebitCached DEF RedeemPoints
  <2>3. ASSUME NEW a \in Accounts, NEW g \in Grants, NEW p \in Points,
               NEW e \in Earning, AwardPoints(a, g, p, e)
        PROVE  \A b \in Accounts : Cached(b)
    <3>1. account[a] \in AccountRow
      BY <2>0, <2>3 DEF AwardPoints, TypeOK
    <3>2. QED
      BY <2>0, <2>3, <3>1, AwardCached DEF AwardPoints
  <2>4. ASSUME NEW o \in Orders, NEW a \in Accounts, NEW g \in Grants,
               NEW p \in Points, NEW e \in Earning, CreateOrder(o, a, g, p, e)
        PROVE  \A b \in Accounts : Cached(b)
    <3> DEFINE acc == IF account[a] = NoAccount THEN NewAccount ELSE account[a]
    <3>1. /\ acc \in AccountRow
          /\ account[a] # NoAccount => acc = account[a]
          /\ Award(a, acc, g, p, e)
      BY <2>0, <2>4 DEF CreateOrder, TypeOK, NewAccount, AccountRow, Tier
    <3> HIDE DEF acc
    <3>2. QED
      BY <2>0, <3>1, AwardCached
  <2>5. ASSUME NEW o \in Orders, NEW a \in Accounts, NEW enrol \in BOOLEAN,
               CreateOrderWithoutPoints(o, a, enrol)
        PROVE  \A b \in Accounts : Cached(b)
    <3>1. ASSUME NEW b \in Accounts
          PROVE  account'[b] = account[b] \/ account[b] = NoAccount
      BY <2>0, <2>5 DEF CreateOrderWithoutPoints, TypeOK
    <3>2. QED
      BY <3>1, UntouchedCached DEF Cached
  <2>6. ASSUME NEW o \in Orders, CancelOrder(o)
        PROVE  \A b \in Accounts : Cached(b)
    <3>1. CASE order[o].earned = {}
      BY <2>6, <3>1, UntouchedCached DEF CancelOrder
    <3>2. CASE order[o].earned # {}
      <4>1. PICK g \in order[o].earned :
               IF TakenBack(g) > 0
                 THEN Debit(grant[g].account, TakenBack(g))
                 ELSE UNCHANGED <<account, posted>>
        BY <2>6, <3>2 DEF CancelOrder
      <4>2. g \in Grants /\ grant[g].account # NoAccount
        BY <2>0 DEF TypeOK, Granted
      <4>3. QED
        BY <4>1, <4>2, TakeBackCached
    <3>3. QED
      BY <3>1, <3>2
  <2>7. ASSUME NEW r \in Runs, NEW g \in Grants, ExpireGrant(r, g)
        PROVE  \A b \in Accounts : Cached(b)
    <3>1. CASE Uncompensated(g)
      <4>1. grant[g].account # NoAccount
        BY <2>0, <2>7 DEF ExpireGrant, Granted, NoGrant
      <4>2. QED
        BY <2>7, <3>1, <4>1, TakeBackCached DEF ExpireGrant
    <3>2. CASE ~ Uncompensated(g)
      BY <2>7, <3>2, UntouchedCached DEF ExpireGrant
    <3>3. QED
      BY <3>1, <3>2
  <2>8. ASSUME UNCHANGED account
        PROVE  \A b \in Accounts : Cached(b)
    BY <2>8, UntouchedCached
  <2>9. QED
    BY <2>1, <2>2, <2>3, <2>4, <2>5, <2>6, <2>7, <2>8
    DEF Next, ChangeSettings, ConvertOrder, InvoiceDeleted, FallsDue,
        BeginExpiry, KillRun, vars
<1>2. Inv /\ [Next]_vars =>
        [\A a \in Accounts :
            account[a] # NoAccount /\ account'[a] # NoAccount =>
              IF [account[a] EXCEPT !.tier = "none"]
                   # [account'[a] EXCEPT !.tier = "none"]
              THEN account'[a].tier = TierFor(account'[a].lifetime)
              ELSE account'[a].tier = account[a].tier]_vars
  BY <1>1 DEF Cached
<1>3. QED
  BY <1>2, LoyaltyInvariant, PTL DEF Spec, TierFollowsPoints

\* What an account row looks like to the abstract account.
View(a) == IF account[a] # NoAccount
             THEN [opening |-> 0, balance |-> account[a].available,
                   posted |-> posted[a]]
             ELSE NoAccount

\* A new account is a row without points.
LEMMA NewAccountRow ==
    /\ NewAccount \in AccountRow
    /\ NewAccount # NoAccount
    /\ NewAccount.available = 0
BY DEF NewAccount, AccountRow, Tier

\* Posting to a row changes its balance and its sum by the same amount.
LEMMA PostedRow ==
    ASSUME NEW o \in Int, NEW q \in Int, NEW p \in Int, NEW d \in Int
    PROVE  Ledger!Posted([opening |-> o, balance |-> q, posted |-> p], d)
             = [opening |-> o, balance |-> q + d, posted |-> p + d]
BY DEF Ledger!Posted

\* A debit the account covers is a posting to the abstract account.
LEMMA DebitPosts ==
    ASSUME Inv, NEW a \in Accounts, account[a] # NoAccount,
           NEW p \in Nat, p <= account[a].available,
           -p \in LedgerChanges, Debit(a, p)
    PROVE  Ledger!Next
<1>1. /\ account'[a] \in AccountRow
      /\ account'[a].available = account[a].available - p
      /\ posted'[a] = posted[a] - p
      /\ account' = [account EXCEPT ![a] = account'[a]]
      /\ posted' = [posted EXCEPT ![a] = posted'[a]]
  BY DebitEffect DEF Inv
<1>2. /\ account[a].available \in Int /\ posted[a] \in Int
      /\ account'[a] # NoAccount
  BY <1>1 DEF Inv, TypeOK, AccountRow
<1>3. /\ View(a) = [opening |-> 0, balance |-> account[a].available,
                    posted |-> posted[a]]
      /\ View(a) # NoAccount
      /\ View(a).balance + (-p) >= 0
  BY <1>2, RowIsNotNull DEF View
<1>4. ASSUME NEW b \in Accounts
      PROVE  View(b)' = IF b = a THEN Ledger!Posted(View(a), -p) ELSE View(b)
  <2>1. CASE b = a
    BY <1>1, <1>2, <1>3, <2>1 DEF View, Ledger!Posted
  <2>2. CASE b # a
    BY <1>1, <2>2 DEF View, Inv, TypeOK
  <2>3. QED
    BY <2>1, <2>2
<1>5. Ledger!Post(a, -p)
  BY <1>3, <1>4 DEF Ledger!Post, Ledger!Posted, View
<1>6. QED
  BY <1>5 DEF Ledger!Next

\* An award posts to an account, or opens one and posts to it.
LEMMA AwardPosts ==
    ASSUME Inv, NEW a \in Accounts, NEW acc \in AccountRow,
           NEW g \in Grants, NEW p \in Points, NEW e \in Earning,
           account[a] = NoAccount => acc.available = 0,
           account[a] # NoAccount => acc = account[a],
           Award(a, acc, g, p, e)
    PROVE  Ledger!Next
<1>1. /\ account'[a] \in AccountRow
      /\ account'[a].available = acc.available + p
      /\ posted'[a] = posted[a] + p
      /\ account' = [account EXCEPT ![a] = account'[a]]
      /\ posted' = [posted EXCEPT ![a] = posted'[a]]
  BY AwardEffect DEF Inv
<1>2. /\ p \in Nat /\ p \in LedgerChanges
      /\ acc.available \in Int /\ acc.available >= 0
      /\ posted[a] \in Int /\ posted[a] = acc.available
      /\ account'[a] # NoAccount
  <2>1. p \in Nat
    OBVIOUS
  <2>2. p \in LedgerChanges
    BY <2>1, WithinItself DEF LedgerChanges
  <2>3. posted[a] = acc.available /\ acc.available >= 0
    BY DEF Inv, Balanced
  <2>4. QED
    BY <1>1, <2>1, <2>2, <2>3 DEF Inv, TypeOK, AccountRow
<1>3. ASSUME NEW b \in Accounts, b # a
      PROVE  View(b)' = View(b)
  BY <1>1, <1>3 DEF View, Inv, TypeOK
<1>4. View(a)' = [opening |-> 0, balance |-> acc.available + p,
                  posted |-> posted[a] + p]
  BY <1>1, <1>2 DEF View
<1>5. CASE account[a] = NoAccount
  <2>1. View(a) = NoAccount /\ acc.available = 0 /\ posted[a] = 0
    BY <1>2, <1>5 DEF View
  <2>2. Ledger!Posted(Ledger!Opened(0), p)
          = [opening |-> 0, balance |-> 0 + p, posted |-> 0 + p]
    BY PostedRow DEF Ledger!Opened
  <2>3. ASSUME NEW b \in Accounts
        PROVE  View(b)' = IF b = a THEN Ledger!Posted(Ledger!Opened(0), p)
                                   ELSE View(b)
    BY <1>3, <1>4, <2>1, <2>2
  <2>4. Ledger!OpenAndPost(a, 0, p)
    <3>1. [b \in Accounts |-> View(b)]' =
             [[b \in Accounts |-> View(b)] EXCEPT
                ![a] = Ledger!Posted(Ledger!Opened(0), p)]
      BY <2>3
    <3>2. [b \in Accounts |-> View(b)][a] = NoAccount
      BY <2>1
    <3>3. QED
      BY <1>2, <3>1, <3>2 DEF Ledger!OpenAndPost, View
  <2>5. QED
    BY <1>2, <2>4 DEF Ledger!Next
<1>6. CASE account[a] # NoAccount
  <2>1. /\ View(a) = [opening |-> 0, balance |-> acc.available,
                      posted |-> posted[a]]
        /\ View(a) # NoAccount
    BY <1>2, <1>6, RowIsNotNull DEF View
  <2>2. ASSUME NEW b \in Accounts
        PROVE  View(b)' = IF b = a THEN Ledger!Posted(View(a), p) ELSE View(b)
    BY <1>2, <1>3, <1>4, <2>1, PostedRow
  <2>3. View(a).balance + p >= 0
    <3>1. View(a).balance = acc.available
      BY <2>1
    <3>2. QED
      BY <1>2, <3>1
  <2>4. Ledger!Post(a, p)
    <3>1. [b \in Accounts |-> View(b)]' =
             [[b \in Accounts |-> View(b)] EXCEPT
                ![a] = Ledger!Posted(View(a), p)]
      BY <2>2
    <3>2. [b \in Accounts |-> View(b)][a] = View(a)
      OBVIOUS
    <3>3. QED
      BY <2>1, <2>3, <3>1, <3>2 DEF Ledger!Post, View
  <2>5. QED
    BY <1>2, <2>4 DEF Ledger!Next
<1>7. QED
  BY <1>5, <1>6

\* However requests, runs of the task and cancellations interleave, the
\* points of every account implement the abstract account.
THEOREM PointsKeepLedger == Spec => KeepsLedger
<1>1. Init => Ledger!Init
  BY DEF Init, Ledger!Init
<1>2. Inv /\ Inv' /\ [Next]_vars => [Ledger!Next]_([a \in Accounts |-> View(a)])
  <2> SUFFICES ASSUME Inv, Inv', [Next]_vars
               PROVE  \/ Ledger!Next
                      \/ UNCHANGED [a \in Accounts |-> View(a)]
    OBVIOUS
  <2>0. TypeOK /\ Balanced /\ Granted
    BY DEF Inv
  <2>1. ASSUME NEW a \in Accounts, CreateAccount(a)
        PROVE  Ledger!Next
    <3>1. posted[a] = 0
      BY <2>0, <2>1 DEF CreateAccount, Balanced
    <3>2. ASSUME NEW b \in Accounts
          PROVE  View(b)' = IF b = a THEN Ledger!Opened(0) ELSE View(b)
      BY <2>0, <2>1, <3>1, NewAccountRow
      DEF CreateAccount, View, Ledger!Opened, TypeOK
    <3>3. [b \in Accounts |-> View(b)]' =
             [[b \in Accounts |-> View(b)] EXCEPT ![a] = Ledger!Opened(0)]
      BY <3>2
    <3>4. [b \in Accounts |-> View(b)][a] = NoAccount
      BY <2>1 DEF CreateAccount, View
    <3>5. Ledger!Open(a, 0)
      BY <3>3, <3>4 DEF Ledger!Open, View
    <3>6. QED
      BY <3>5 DEF Ledger!Next
  <2>2. ASSUME NEW a \in Accounts, DestroyAccount(a)
        PROVE  Ledger!Next
    <3>1. ASSUME NEW b \in Accounts
          PROVE  View(b)' = IF b = a THEN NoAccount ELSE View(b)
      BY <2>0, <2>2 DEF DestroyAccount, View, TypeOK
    <3>2. View(a) # NoAccount
      BY <2>0, <2>2, RowIsNotNull DEF DestroyAccount, View, TypeOK, AccountRow
    <3>3. [b \in Accounts |-> View(b)]' =
             [[b \in Accounts |-> View(b)] EXCEPT ![a] = NoAccount]
      BY <3>1
    <3>4. [b \in Accounts |-> View(b)][a] # NoAccount
      BY <3>2
    <3>5. Ledger!Close(a)
      BY <3>3, <3>4 DEF Ledger!Close, View
    <3>6. QED
      BY <3>5 DEF Ledger!Next
  <2>3. ASSUME NEW a \in Accounts, NEW p \in Points, RedeemPoints(a, p)
        PROVE  Ledger!Next
    <3>1. p \in Nat /\ -p \in LedgerChanges
      BY DEF LedgerChanges
    <3>2. QED
      BY <2>3, <3>1, DebitPosts DEF RedeemPoints, Covered
  <2>4. ASSUME NEW a \in Accounts, NEW g \in Grants, NEW p \in Points,
               NEW e \in Earning, AwardPoints(a, g, p, e)
        PROVE  Ledger!Next
    <3>1. account[a] \in AccountRow /\ account[a] # NoAccount
      BY <2>0, <2>4 DEF AwardPoints, TypeOK
    <3>2. QED
      BY <2>4, <3>1, AwardPosts DEF AwardPoints
  <2>5. ASSUME NEW o \in Orders, NEW a \in Accounts, NEW g \in Grants,
               NEW p \in Points, NEW e \in Earning, CreateOrder(o, a, g, p, e)
        PROVE  Ledger!Next
    <3> DEFINE acc == IF account[a] = NoAccount THEN NewAccount ELSE account[a]
    <3>1. /\ acc \in AccountRow
          /\ account[a] = NoAccount => acc.available = 0
          /\ account[a] # NoAccount => acc = account[a]
          /\ Award(a, acc, g, p, e)
      BY <2>0, <2>5 DEF CreateOrder, TypeOK, NewAccount, AccountRow, Tier
    <3> HIDE DEF acc
    <3>2. QED
      BY <3>1, AwardPosts
  <2>6. ASSUME NEW o \in Orders, NEW a \in Accounts, NEW enrol \in BOOLEAN,
               CreateOrderWithoutPoints(o, a, enrol)
        PROVE  Ledger!Next \/ UNCHANGED [b \in Accounts |-> View(b)]
    <3>1. CASE enrol /\ account[a] = NoAccount
      <4>1. posted[a] = 0 /\ posted' = posted
        BY <2>0, <2>6, <3>1 DEF CreateOrderWithoutPoints, Balanced
      <4>2. ASSUME NEW b \in Accounts
            PROVE  View(b)' = IF b = a THEN Ledger!Opened(0) ELSE View(b)
        BY <2>0, <2>6, <3>1, <4>1, NewAccountRow
        DEF CreateOrderWithoutPoints, View, Ledger!Opened, TypeOK
      <4>3. [b \in Accounts |-> View(b)]' =
               [[b \in Accounts |-> View(b)] EXCEPT ![a] = Ledger!Opened(0)]
        BY <4>2
      <4>4. [b \in Accounts |-> View(b)][a] = NoAccount
        BY <3>1 DEF View
      <4>5. Ledger!Open(a, 0)
        BY <4>3, <4>4 DEF Ledger!Open, View
      <4>6. QED
        BY <4>5 DEF Ledger!Next
    <3>2. CASE ~ (enrol /\ account[a] = NoAccount)
      BY <2>6, <3>2 DEF CreateOrderWithoutPoints, View
    <3>3. QED
      BY <3>1, <3>2
  \* Both ways of taking a grant back.
  <2>7. ASSUME NEW g \in Grants, grant[g].account # NoAccount,
               IF TakenBack(g) > 0 THEN Debit(grant[g].account, TakenBack(g))
                                   ELSE UNCHANGED <<account, posted>>
        PROVE  Ledger!Next \/ UNCHANGED [a \in Accounts |-> View(a)]
    <3>1. CASE TakenBack(g) > 0
      <4>1. /\ grant[g].account \in Accounts
            /\ account[grant[g].account] # NoAccount
            /\ TakenBack(g) \in Nat
            /\ TakenBack(g) <= grant[g].points
            /\ TakenBack(g) <= account[grant[g].account].available
        BY <2>7, TakenBackBound
      <4>2. -TakenBack(g) \in LedgerChanges
        <5>1. grant[g].points \in Points \cup {0} /\ grant[g].points # 0
          BY <2>0, <3>1, <4>1 DEF TypeOK
        <5>2. PICK p \in Points : p = grant[g].points
          BY <5>1
        <5>3. -TakenBack(g) \in -p..p
          BY <4>1, <5>2
        <5>4. QED
          BY <5>3 DEF LedgerChanges
      <4>3. QED
        BY <2>7, <3>1, <4>1, <4>2, DebitPosts
    <3>2. CASE ~ (TakenBack(g) > 0)
      BY <2>7, <3>2 DEF View
    <3>3. QED
      BY <3>1, <3>2
  <2>8. ASSUME NEW o \in Orders, CancelOrder(o)
        PROVE  Ledger!Next \/ UNCHANGED [a \in Accounts |-> View(a)]
    <3>1. CASE order[o].earned = {}
      BY <2>8, <3>1 DEF CancelOrder, View
    <3>2. CASE order[o].earned # {}
      <4>1. PICK g \in order[o].earned :
               IF TakenBack(g) > 0
                 THEN Debit(grant[g].account, TakenBack(g))
                 ELSE UNCHANGED <<account, posted>>
        BY <2>8, <3>2 DEF CancelOrder
      <4>2. g \in Grants /\ grant[g].account # NoAccount
        BY <2>0 DEF TypeOK, Granted
      <4>3. QED
        BY <2>7, <4>1, <4>2
    <3>3. QED
      BY <3>1, <3>2
  <2>9. ASSUME NEW r \in Runs, NEW g \in Grants, ExpireGrant(r, g)
        PROVE  Ledger!Next \/ UNCHANGED [a \in Accounts |-> View(a)]
    <3>1. CASE Uncompensated(g)
      <4>1. grant[g].account # NoAccount
        BY <2>0, <2>9 DEF ExpireGrant, Granted, NoGrant
      <4>2. QED
        BY <2>7, <2>9, <3>1, <4>1 DEF ExpireGrant
    <3>2. CASE ~ Uncompensated(g)
      BY <2>9, <3>2 DEF ExpireGrant, View
    <3>3. QED
      BY <3>1, <3>2
  \* The actions that leave accounts and ledger alone.
  <2>10. CASE UNCHANGED <<account, posted>>
    BY <2>10 DEF View
  <2>11. ASSUME \/ \E s \in Settings : ChangeSettings(s)
                \/ \E o \in Orders : ConvertOrder(o) \/ InvoiceDeleted(o)
                \/ \E g \in Grants : FallsDue(g)
                \/ \E r \in Runs : BeginExpiry(r) \/ KillRun(r)
                \/ UNCHANGED vars
         PROVE  UNCHANGED <<account, posted>>
    BY <2>11 DEF ChangeSettings, ConvertOrder, InvoiceDeleted, FallsDue,
                 BeginExpiry, KillRun, vars
  <2>12. QED
    BY <2>1, <2>2, <2>3, <2>4, <2>5, <2>6, <2>8, <2>9, <2>10, <2>11 DEF Next
<1>3. QED
  BY <1>1, <1>2, LoyaltyInvariant, PTL DEF Spec, KeepsLedger, Ledger!Spec, View

(***************************************************************************)
(* Bills: every step of a bill is one of an invoice.                       *)
(***************************************************************************)

\* A worker is idle or handles a bill.
Addressed == \A w \in BillWorkers : billRequest[w] = BillIdle \/ billRequest[w].bill \in Bills
BillsInv == BillsTypeOK /\ Addressed

\* Every reachable state of bills, payments and requests is well typed, and a
\* request names a bill.
LEMMA BillsInvariant == BillsInit /\ [][BillsNext]_billsVars => []BillsInv
<1>1. BillsInit => BillsInv
  BY DEF BillsInit, BillsInv, BillsTypeOK, Addressed, Bill, NoBillRow, Unpaid, BillIdle
<1>2. BillsInv /\ [BillsNext]_billsVars => BillsInv'
  <2> SUFFICES ASSUME BillsInv, [BillsNext]_billsVars
               PROVE  BillsInv'
    OBVIOUS
  <2> USE DEF BillsInv, BillsTypeOK, Addressed
  <2>1. \A b \in Bills : bills[b] \in Bill
    OBVIOUS
  <2>2. ASSUME NEW w \in BillWorkers, NEW b \in Bills, NEW total \in BillTotals,
               NEW late \in BOOLEAN, CreateBill(w, b, total, late)
        PROVE  BillsInv'
    BY <2>2, AmountAssumption DEF CreateBill, Bill
  <2>3. ASSUME NEW w \in BillWorkers, NEW b \in Bills, NEW total \in BillTotals,
               NEW late \in BOOLEAN, UpdateBill(w, b, total, late)
        PROVE  BillsInv'
    BY <2>1, <2>3, AmountAssumption DEF UpdateBill, Serving, Bill, BillIdle
  <2>4. ASSUME NEW w \in BillWorkers, NEW b \in Bills,
               NEW op \in {"receive", "cancel", "edit"}, BeginBill(w, b, op)
        PROVE  BillsInv'
    BY <2>4 DEF BeginBill
  <2>5. ASSUME NEW w \in BillWorkers, NEW b \in Bills, NEW op, NEW status,
               status \in {"received", "cancelled"}, Serving(w, b, op), SaveStatus(b, op, status)
        PROVE  BillsInv'
    <3>1. bills' \in [Bills -> Bill]
      BY <2>1, <2>5 DEF SaveStatus, Bill
    <3>2. lateSaves' \subseteq Bills /\ lateEdits' \subseteq Bills
      BY <2>5 DEF SaveStatus
    <3>3. QED
      BY <2>5, <3>1, <3>2 DEF Serving, BillIdle
  <2>6. ASSUME NEW w \in BillWorkers, NEW b \in Bills, DestroyBill(w, b)
        PROVE  BillsInv'
    <3>1. bills' \in [Bills -> Bill]
      BY <2>1, <2>6 DEF DestroyBill, Bill, NoBillRow
    <3>2. payments' \in [Payments -> [bill : Bills \cup {NoBill}, amount : Nat]]
      BY <2>6 DEF DestroyBill
    <3>3. QED
      BY <2>6, <3>1, <3>2 DEF DestroyBill
  <2>7. ASSUME NEW w \in BillWorkers, NEW b \in Bills, NEW p \in Payments,
               NEW amount \in BillAmounts, RecordBillPayment(w, b, p, amount)
        PROVE  BillsInv'
    BY <2>1, <2>7, AmountAssumption DEF RecordBillPayment, StatusAfterPayment, Bill
  <2>8. ASSUME NEW w \in BillWorkers, FailBill(w)
        PROVE  BillsInv'
    BY <2>8 DEF FailBill, BillIdle
  <2>9. ASSUME NEW b \in Bills, DueDatePasses(b)
        PROVE  BillsInv'
    BY <2>1, <2>9 DEF DueDatePasses, Bill
  <2>10. CASE MarkOverdueBills
    BY <2>1, <2>10 DEF MarkOverdueBills, Bill
  <2>11. CASE UNCHANGED billsVars
    BY <2>11 DEF billsVars
  <2>12. QED
    BY <2>2, <2>3, <2>4, <2>5, <2>6, <2>7, <2>8, <2>9, <2>10, <2>11
       DEF BillsNext, ServeBill, ReceiveBill, CancelBill
<1>3. QED
  BY <1>1, <1>2, PTL

\* Every reachable state of bills, payments and requests is well typed.
THEOREM BillsTypeCorrect == BillsSpec => []BillsTypeOK
BY BillsInvariant, PTL DEF BillsSpec, BillsInv

\* What the payments `rows` of a bill add up to.
Amount(rows) == [p \in Payments |-> rows[p].amount]
Made(rows, b) == {p \in Payments : rows[p].bill = b}
AmountsOf(rows, b) == MapThenSumSet(LAMBDA p : rows[p].amount, Made(rows, b))

\* The fold of paid_total is the sum of the bill's payments.
LEMMA PaidIsSum ==
    ASSUME NEW rows, NEW b
    PROVE  AmountsOf(rows, b) = SumOver(Amount(rows), Made(rows, b))
<1> DEFINE S == Made(rows, b)
           f == Amount(rows)
           iter == CHOOSE g : g = [s \in SUBSET S |->
                     IF s = {} THEN 0 ELSE rows[Picked(s)].amount + g[s \ {Picked(s)}]]
<1>1. IsFiniteSet(S) /\ S \subseteq Payments
  BY PaymentsAssumption, FS_Subset DEF Made
<1>2. AmountsOf(rows, b) = iter[S]
  BY DEF AmountsOf, MapThenSumSet, MapThenFoldSet, Picked
<1>3. ASSUME NEW g
      PROVE  [s \in SUBSET S |-> IF s = {} THEN 0
                                 ELSE rows[Picked(s)].amount + g[s \ {Picked(s)}]]
             = [s \in SUBSET S |-> IF s = {} THEN 0 ELSE f[Picked(s)] + g[s \ {Picked(s)}]]
  <2>1. ASSUME NEW s \in SUBSET S, s # {}
        PROVE  f[Picked(s)] = rows[Picked(s)].amount
    <3>1. Picked(s) \in Payments
      BY <1>1, <2>1, PickedIsIn
    <3>2. QED
      BY <3>1 DEF Amount
  <2> HIDE DEF f, S
  <2>2. QED
    BY <2>1
<1>4. PICK g : Adds(g, f, S)
  <2> HIDE DEF f, S
  <2>1. QED
    BY <1>1, AddsExists
<1>5. g = [s \in SUBSET S |-> IF s = {} THEN 0
                              ELSE rows[Picked(s)].amount + g[s \ {Picked(s)}]]
  BY <1>3, <1>4 DEF Adds
<1>6. iter = [s \in SUBSET S |-> IF s = {} THEN 0
                                 ELSE rows[Picked(s)].amount + iter[s \ {Picked(s)}]]
  <2> HIDE DEF S
  <2>1. QED
    BY <1>5
<1> HIDE DEF iter
<1>7. Adds(iter, f, S)
  BY <1>3, <1>6 DEF Adds
<1> HIDE DEF f, S
<1>8. iter[S] = SumOver(f, S)
  BY <1>1, <1>7, SumIsUnique
<1>9. QED
  BY <1>2, <1>8 DEF f, S

\* The rows a payment may be.
PaymentRow == [bill : Bills \cup {NoBill}, amount : Nat]

\* What is paid on a bill is a natural number.
LEMMA PaidIsNat ==
    ASSUME NEW rows \in [Payments -> PaymentRow], NEW b
    PROVE  AmountsOf(rows, b) \in Nat
<1>1. IsFiniteSet(Made(rows, b)) /\ Made(rows, b) \subseteq Payments
  BY PaymentsAssumption, FS_Subset DEF Made
<1>2. \A p \in Made(rows, b) : Amount(rows)[p] \in Nat
  BY <1>1 DEF Amount, PaymentRow
<1>3. SumOver(Amount(rows), Made(rows, b)) \in Int /\ SumOver(Amount(rows), Made(rows, b)) >= 0
  <2>1. \A p \in Made(rows, b) : Amount(rows)[p] \in Int /\ Amount(rows)[p] >= 0
    BY <1>2
  <2>2. QED
    BY <1>1, <2>1, SumType
<1>4. QED
  BY <1>3, PaidIsSum

\* A bill has the same payments in both.
SamePayments(rows, later, b) ==
    /\ Made(rows, b) = Made(later, b)
    /\ \A p \in Made(rows, b) : rows[p].amount = later[p].amount

\* The sum of a bill's payments depends on nothing but these.
LEMMA PaidSame ==
    ASSUME NEW rows, NEW later, NEW b, SamePayments(rows, later, b)
    PROVE  AmountsOf(rows, b) = AmountsOf(later, b)
<1>1. IsFiniteSet(Made(rows, b)) /\ Made(rows, b) \subseteq Payments
  BY PaymentsAssumption, FS_Subset DEF Made
<1>2. \A p \in Made(rows, b) : Amount(rows)[p] = Amount(later)[p]
  BY <1>1 DEF Amount, SamePayments
<1>3. Made(rows, b) = Made(later, b)
  BY DEF SamePayments
<1>4. QED
  BY <1>1, <1>2, <1>3, PaidIsSum, SumSame

\* One row is written.
Written(rows, b, r, later) == later = [rows EXCEPT ![b] = r]

\* A payment adds its amount to what is paid on its bill, and to no other's.
LEMMA PaymentAdds ==
    ASSUME NEW rows \in [Payments -> PaymentRow], NEW p \in Payments, NEW b \in Bills,
           NEW amount \in Nat, rows[p].bill = NoBill,
           NEW later, Written(rows, p, [bill |-> b, amount |-> amount], later)
    PROVE  /\ AmountsOf(later, b) = AmountsOf(rows, b) + amount
           /\ \A c \in Bills \ {b} : AmountsOf(later, c) = AmountsOf(rows, c)
<1>1. /\ Made(later, b) = Made(rows, b) \cup {p} /\ p \notin Made(rows, b)
      /\ \A c \in Bills \ {b} : Made(later, c) = Made(rows, c)
      /\ \A q \in Payments \ {p} : later[q].amount = rows[q].amount
      /\ later[p].amount = amount
  BY NoBillAssumption DEF Made, Written
<1>2. ASSUME NEW c \in Bills \ {b}
      PROVE  AmountsOf(later, c) = AmountsOf(rows, c)
  <2>1. p \notin Made(rows, c) /\ Made(rows, c) \subseteq Payments
    BY NoBillAssumption DEF Made
  <2>2. SamePayments(rows, later, c)
    BY <1>1, <2>1 DEF SamePayments
  <2>3. QED
    BY <2>2, PaidSame
<1>3. AmountsOf(later, b) = AmountsOf(rows, b) + amount
  <2> DEFINE S == Made(rows, b)
             f == Amount(later)
  <2>1. IsFiniteSet(S) /\ S \subseteq Payments /\ IsFiniteSet(S \cup {p})
    BY PaymentsAssumption, FS_Subset, <1>1 DEF Made
  <2>2. later \in [Payments -> PaymentRow]
    BY DEF PaymentRow, Written
  <2>3. \A q \in Payments : f[q] \in Int
    BY <2>2 DEF Amount, PaymentRow
  <2>4. f[p] = amount
    BY <1>1 DEF Amount
  <2>5. SumOver(f, S) = AmountsOf(rows, b)
    <3>1. \A q \in S : Amount(rows)[q] = f[q]
      BY <1>1, <2>1 DEF Amount
    <3> HIDE DEF f, S
    <3>2. SumOver(Amount(rows), S) = SumOver(f, S)
      BY <2>1, <3>1, SumSame
    <3>3. QED
      BY <3>2, PaidIsSum DEF S
  <2> HIDE DEF f
  <2>6. SumOver(f, S \cup {p}) = f[p] + SumOver(f, S)
    <3>1. (S \cup {p}) \ {p} = S /\ p \in S \cup {p} /\ \A q \in S \cup {p} : f[q] \in Int
      BY <1>1, <2>1, <2>3
    <3> HIDE DEF S
    <3>2. SumOver(f, S \cup {p}) = f[p] + SumOver(f, (S \cup {p}) \ {p})
      BY <2>1, <3>1, SumRemove
    <3>3. QED
      BY <3>1, <3>2
  <2>7. AmountsOf(later, b) = SumOver(f, S \cup {p})
    BY <1>1, PaidIsSum DEF f
  <2>8. AmountsOf(rows, b) \in Nat
    BY PaidIsNat
  <2>9. QED
    BY <2>4, <2>5, <2>6, <2>7, <2>8
<1>4. QED
  BY <1>2, <1>3

\* paid_total of a bill, in this state and the next.
LEMMA PaidIs ==
    ASSUME NEW b
    PROVE  PaidTotal(b) = AmountsOf(payments, b) /\ PaidTotal(b)' = AmountsOf(payments', b)
BY DEF PaidTotal, PaymentsOf, AmountsOf, Made, MapThenSumSet, MapThenFoldSet

\* A new bill database maps to a new invoice database.
LEMMA BillsInitMaps == BillsInit => AsInvoice!Init
<1> SUFFICES ASSUME BillsInit
             PROVE  AsInvoice!Init
  OBVIOUS
<1>1. ASSUME NEW b \in Bills
      PROVE  PaidTotal(b) = 0
  <2>1. Made(payments, b) = {}
    BY NoBillAssumption DEF BillsInit, Unpaid, Made
  <2>2. SumOver(Amount(payments), {}) = 0
    BY FS_EmptySet, SumStep
  <2>3. QED
    BY <2>1, <2>2, PaidIs, PaidIsSum
<1>2. QED
  BY <1>1 DEF BillsInit, AsInvoice!Init, Unpaid, BillIdle, AsInvoice!Unwritten, AsInvoice!Idle

\* The rows and requests of bills as those of invoices.
InvoiceStatus(s) == IF s = "received" THEN "sent" ELSE s
InvoiceRequest(r) ==
    [op |-> IF r.op = "receive" THEN "send" ELSE r.op, invoice |-> r.bill]
StatusOf(rows) ==
    [b \in Bills |-> IF rows[b].status = "received" THEN "sent" ELSE rows[b].status]
TotalOf(rows) == [b \in Bills |-> rows[b].total]
PastDueOf(rows) == [b \in Bills |-> rows[b].pastDue]
RequestOf(requests) ==
    [w \in BillWorkers |-> [op |-> IF requests[w].op = "receive" THEN "send" ELSE requests[w].op,
                            invoice |-> requests[w].bill]]
PaymentOf(rows) ==
    [p \in Payments |-> [invoice |-> rows[p].bill, amount |-> rows[p].amount, refunded |-> 0]]

\* What is written to a bill's row is written to the invoice's columns.
LEMMA RowMaps ==
    ASSUME NEW rows \in [Bills -> Bill], NEW b \in Bills, NEW r \in Bill,
           NEW later, Written(rows, b, r, later)
    PROVE  /\ StatusOf(later) = [StatusOf(rows) EXCEPT ![b] = InvoiceStatus(r.status)]
           /\ TotalOf(later) = [TotalOf(rows) EXCEPT ![b] = r.total]
           /\ PastDueOf(later) = [PastDueOf(rows) EXCEPT ![b] = r.pastDue]
<1>1. StatusOf(later) = [StatusOf(rows) EXCEPT ![b] = InvoiceStatus(r.status)]
  BY DEF StatusOf, InvoiceStatus, Written
<1>2. TotalOf(later) = [TotalOf(rows) EXCEPT ![b] = r.total]
  BY DEF TotalOf, Written
<1>3. PastDueOf(later) = [PastDueOf(rows) EXCEPT ![b] = r.pastDue]
  BY DEF PastDueOf, Written
<1>4. QED
  BY <1>1, <1>2, <1>3

\* A worker's request maps by itself.
LEMMA RequestMaps ==
    ASSUME NEW requests, DOMAIN requests = BillWorkers, NEW w \in BillWorkers, NEW r,
           NEW later, Written(requests, w, r, later)
    PROVE  RequestOf(later) = [RequestOf(requests) EXCEPT ![w] = InvoiceRequest(r)]
BY DEF RequestOf, InvoiceRequest, Written

\* A step that leaves the payments alone leaves alone what they map to.
LEMMA MoneyKept ==
    ASSUME payments' = payments
    PROVE  AsInvoice!moneyVars' = AsInvoice!moneyVars
<1>1. \A b \in Bills : PaidTotal(b)' = PaidTotal(b)
  BY PaidIs
<1>2. QED
  BY <1>1 DEF AsInvoice!moneyVars

\* Creating and editing a bill is creating and editing an invoice.
LEMMA WritesMap ==
    ASSUME BillsInv, NEW w \in BillWorkers, NEW b \in Bills, NEW total \in BillTotals,
           NEW late \in BOOLEAN, CreateBill(w, b, total, late) \/ UpdateBill(w, b, total, late)
    PROVE  AsInvoice!CreateInvoice(w, b, total, late) \/ AsInvoice!FinishEdit(w, b, total, late)
<1>1. /\ bills \in [Bills -> Bill] /\ bills[b] \in Bill /\ total \in Nat
      /\ DOMAIN billRequest = BillWorkers
  BY AmountAssumption DEF BillsInv, BillsTypeOK
<1>2. AsInvoice!moneyVars' = AsInvoice!moneyVars
  BY MoneyKept DEF CreateBill, UpdateBill, Serving
<1>3. CASE CreateBill(w, b, total, late)
  <2> DEFINE r == [status |-> "draft", total |-> total, pastDue |-> late]
  <2>1. /\ billRequest[w] = BillIdle /\ bills[b].status = "absent"
        /\ Written(bills, b, r, bills')
        /\ UNCHANGED <<billRequest, lateEdits, lateSaves>>
    BY <1>3 DEF CreateBill, Written
  <2>2. r \in Bill
    BY <1>1 DEF Bill
  <2>3. /\ StatusOf(bills') = [StatusOf(bills) EXCEPT ![b] = "draft"]
        /\ TotalOf(bills') = [TotalOf(bills) EXCEPT ![b] = total]
        /\ PastDueOf(bills') = [PastDueOf(bills) EXCEPT ![b] = late]
    <3>1. r.status = "draft" /\ r.total = total /\ r.pastDue = late
      OBVIOUS
    <3>2. InvoiceStatus("draft") = "draft"
      BY DEF InvoiceStatus
    <3> HIDE DEF r
    <3>3. QED
      BY <1>1, <2>1, <2>2, <3>1, <3>2, RowMaps
  <2>4. /\ RequestOf(billRequest)[w] = AsInvoice!Idle /\ StatusOf(bills)[b] = "absent"
        /\ RequestOf(billRequest)' = RequestOf(billRequest)
    BY <2>1 DEF RequestOf, StatusOf, BillIdle, AsInvoice!Idle
  <2>5. AsInvoice!CreateInvoice(w, b, total, late)
    BY <1>2, <2>1, <2>3, <2>4 DEF AsInvoice!CreateInvoice, AsInvoice!historyVars, AsInvoice!Idle,
       StatusOf, TotalOf, PastDueOf, RequestOf
  <2>6. QED
    BY <2>5
<1>4. CASE UpdateBill(w, b, total, late)
  <2> DEFINE r == [bills[b] EXCEPT !.total = total, !.pastDue = late]
  <2>1. /\ billRequest[w] = [op |-> "edit", bill |-> b] /\ BillExists(b)
        /\ Written(bills, b, r, bills') /\ Written(billRequest, w, BillIdle, billRequest')
        /\ lateEdits' = IF MayBegin("edit", bills[b].status) THEN lateEdits ELSE lateEdits \cup {b}
        /\ lateSaves' = lateSaves
    BY <1>1, <1>4 DEF UpdateBill, Serving, Written
  <2>2. r \in Bill /\ r.status = bills[b].status /\ r.total = total /\ r.pastDue = late
    BY <1>1 DEF Bill
  <2>3. /\ TotalOf(bills') = [TotalOf(bills) EXCEPT ![b] = total]
        /\ PastDueOf(bills') = [PastDueOf(bills) EXCEPT ![b] = late]
        /\ StatusOf(bills') = [StatusOf(bills) EXCEPT ![b] = InvoiceStatus(bills[b].status)]
    <3> HIDE DEF r
    <3>1. QED
      BY <1>1, <2>1, <2>2, RowMaps
  <2>4. StatusOf(bills') = StatusOf(bills)
    BY <2>3 DEF StatusOf, InvoiceStatus
  <2>5. /\ RequestOf(billRequest)[w] = [op |-> "edit", invoice |-> b]
        /\ StatusOf(bills)[b] \notin AsInvoice!NoRow
        /\ StatusOf(bills)[b] = "draft" <=> MayBegin("edit", bills[b].status)
    BY <2>1 DEF RequestOf, StatusOf, BillExists, NoBillRow, AsInvoice!NoRow, MayBegin
  <2>6. RequestOf(billRequest') = [RequestOf(billRequest) EXCEPT ![w] = AsInvoice!Idle]
    <3>1. InvoiceRequest(BillIdle) = AsInvoice!Idle
      BY DEF InvoiceRequest, BillIdle, AsInvoice!Idle
    <3>2. QED
      BY <1>1, <2>1, <3>1, RequestMaps
  <2>7. AsInvoice!FinishEdit(w, b, total, late)
    BY <1>2, <2>1, <2>3, <2>4, <2>5, <2>6 DEF AsInvoice!FinishEdit, AsInvoice!Serving,
       AsInvoice!Exists, StatusOf, TotalOf, PastDueOf, RequestOf
  <2>8. QED
    BY <2>7
<1>5. QED
  BY <1>3, <1>4

\* Fetching and checking a bill is fetching and checking an invoice.
LEMMA BeginMaps ==
    ASSUME BillsInv, NEW w \in BillWorkers, NEW b \in Bills,
           NEW op \in {"receive", "cancel", "edit"}, BeginBill(w, b, op)
    PROVE  AsInvoice!BeginSend(w, b) \/ AsInvoice!BeginCancel(w, b) \/ AsInvoice!BeginEdit(w, b)
<1> DEFINE mapped == IF op = "receive" THEN "send" ELSE op
           r == [op |-> op, bill |-> b]
<1>1. bills[b] \in Bill /\ DOMAIN billRequest = BillWorkers
  BY DEF BillsInv, BillsTypeOK
<1>2. /\ billRequest[w] = BillIdle /\ MayBegin(op, bills[b].status)
      /\ Written(billRequest, w, r, billRequest')
      /\ UNCHANGED <<bills, payments, lateEdits, lateSaves>>
  BY DEF BeginBill, Written
<1>3. AsInvoice!moneyVars' = AsInvoice!moneyVars
  BY <1>2, MoneyKept
<1>4. InvoiceRequest(r) = [op |-> mapped, invoice |-> b]
  BY DEF InvoiceRequest
<1>5. /\ RequestOf(billRequest') = [RequestOf(billRequest) EXCEPT ![w] = [op |-> mapped, invoice |-> b]]
      /\ RequestOf(billRequest)[w] = AsInvoice!Idle
  <2>1. RequestOf(billRequest)[w] = AsInvoice!Idle
    BY <1>2 DEF RequestOf, BillIdle, AsInvoice!Idle
  <2> HIDE DEF r
  <2>2. QED
    BY <1>1, <1>2, <1>4, <2>1, RequestMaps
<1>6. AsInvoice!Begin(w, b, mapped)
  <2> HIDE DEF mapped
  <2>1. QED
    BY <1>2, <1>3, <1>5 DEF AsInvoice!Begin, AsInvoice!rowVars, AsInvoice!historyVars, RequestOf
<1>7. /\ op \in {"receive", "edit"} => StatusOf(bills)[b] = "draft"
      /\ op = "cancel" => AsInvoice!Cancellable(StatusOf(bills)[b])
  BY <1>1, <1>2 DEF MayBegin, NoBillRow, StatusOf, AsInvoice!Cancellable, AsInvoice!NoRow, Bill
<1>8. QED
  BY <1>6, <1>7 DEF AsInvoice!BeginSend, AsInvoice!BeginCancel, AsInvoice!BeginEdit,
     AsInvoice!Sendable, AsInvoice!Editable, StatusOf

\* Receiving and cancelling a bill is sending and cancelling an invoice.
LEMMA SavesMap ==
    ASSUME BillsInv, NEW w \in BillWorkers, NEW b \in Bills,
           ReceiveBill(w, b) \/ CancelBill(w, b)
    PROVE  AsInvoice!FinishSend(w, b) \/ AsInvoice!FinishCancel(w, b)
<1>1. /\ bills \in [Bills -> Bill] /\ bills[b] \in Bill /\ DOMAIN billRequest = BillWorkers
  BY DEF BillsInv, BillsTypeOK
<1>2. ASSUME NEW op \in {"receive", "cancel"}, NEW status \in {"received", "cancelled"},
             Serving(w, b, op), SaveStatus(b, op, status)
      PROVE  /\ RequestOf(billRequest)[w] = [op |-> IF op = "receive" THEN "send" ELSE op,
                                             invoice |-> b]
             /\ StatusOf(bills)[b] \notin AsInvoice!NoRow
             /\ RequestOf(billRequest') = [RequestOf(billRequest) EXCEPT ![w] = AsInvoice!Idle]
             /\ StatusOf(bills') = [StatusOf(bills) EXCEPT ![b] = InvoiceStatus(status)]
             /\ TotalOf(bills') = TotalOf(bills) /\ PastDueOf(bills') = PastDueOf(bills)
             /\ lateSaves' = IF MayBegin(op, bills[b].status) THEN lateSaves
                                                              ELSE lateSaves \cup {b}
             /\ lateEdits' = lateEdits /\ AsInvoice!moneyVars' = AsInvoice!moneyVars
  <2> DEFINE r == [bills[b] EXCEPT !.status = status]
  <2>1. /\ billRequest[w] = [op |-> op, bill |-> b] /\ BillExists(b) /\ payments' = payments
        /\ Written(bills, b, r, bills') /\ Written(billRequest, w, BillIdle, billRequest')
        /\ lateSaves' = IF MayBegin(op, bills[b].status) THEN lateSaves ELSE lateSaves \cup {b}
        /\ lateEdits' = lateEdits
    BY <1>1, <1>2 DEF Serving, SaveStatus, Written
  <2>2. /\ r \in Bill /\ r.status = status /\ r.total = bills[b].total
        /\ r.pastDue = bills[b].pastDue
    BY <1>1 DEF Bill
  <2>3. /\ TotalOf(bills') = [TotalOf(bills) EXCEPT ![b] = bills[b].total]
        /\ PastDueOf(bills') = [PastDueOf(bills) EXCEPT ![b] = bills[b].pastDue]
        /\ StatusOf(bills') = [StatusOf(bills) EXCEPT ![b] = InvoiceStatus(status)]
    <3> HIDE DEF r
    <3>1. QED
      BY <1>1, <2>1, <2>2, RowMaps
  <2>4. TotalOf(bills') = TotalOf(bills) /\ PastDueOf(bills') = PastDueOf(bills)
    BY <2>3 DEF TotalOf, PastDueOf
  <2>5. /\ RequestOf(billRequest)[w] = [op |-> IF op = "receive" THEN "send" ELSE op, invoice |-> b]
        /\ StatusOf(bills)[b] \notin AsInvoice!NoRow
    BY <2>1 DEF RequestOf, StatusOf, BillExists, NoBillRow, AsInvoice!NoRow
  <2>6. RequestOf(billRequest') = [RequestOf(billRequest) EXCEPT ![w] = AsInvoice!Idle]
    <3>1. InvoiceRequest(BillIdle) = AsInvoice!Idle
      BY DEF InvoiceRequest, BillIdle, AsInvoice!Idle
    <3>2. QED
      BY <1>1, <2>1, <3>1, RequestMaps
  <2>7. QED
    BY <2>1, <2>3, <2>4, <2>5, <2>6, MoneyKept
<1>3. CASE ReceiveBill(w, b)
  <2>1. Serving(w, b, "receive") /\ SaveStatus(b, "receive", "received")
    BY <1>3 DEF ReceiveBill
  <2>2. AsInvoice!Sendable(StatusOf(bills)[b]) <=> MayBegin("receive", bills[b].status)
    BY DEF AsInvoice!Sendable, StatusOf, MayBegin
  <2>3. InvoiceStatus("received") = "sent"
    BY DEF InvoiceStatus
  <2>4. AsInvoice!FinishSend(w, b)
    BY <1>2, <2>1, <2>2, <2>3 DEF AsInvoice!FinishSend, AsInvoice!Serving, AsInvoice!Exists,
       AsInvoice!rowVars, StatusOf, TotalOf, PastDueOf, RequestOf
  <2>5. QED
    BY <2>4
<1>4. CASE CancelBill(w, b)
  <2>1. Serving(w, b, "cancel") /\ SaveStatus(b, "cancel", "cancelled")
    BY <1>4 DEF CancelBill
  <2>2. AsInvoice!Cancellable(StatusOf(bills)[b]) <=> MayBegin("cancel", bills[b].status)
    BY DEF AsInvoice!Cancellable, AsInvoice!NoRow, NoBillRow, StatusOf, MayBegin
  <2>3. InvoiceStatus("cancelled") = "cancelled"
    BY DEF InvoiceStatus
  <2>4. AsInvoice!FinishCancel(w, b)
    BY <1>2, <2>1, <2>2, <2>3 DEF AsInvoice!FinishCancel, AsInvoice!Serving, AsInvoice!Exists,
       AsInvoice!rowVars, StatusOf, TotalOf, PastDueOf, RequestOf
  <2>5. QED
    BY <2>4
<1>5. QED
  BY <1>3, <1>4

\* A write to a bill that has gone fails as one to an invoice does.
LEMMA FailureMaps ==
    ASSUME BillsInv, NEW w \in BillWorkers, FailBill(w)
    PROVE  AsInvoice!FinishOnDeleted(w)
<1> DEFINE b == billRequest[w].bill
<1>1. /\ billRequest[w] # BillIdle /\ ~ BillExists(b)
      /\ Written(billRequest, w, BillIdle, billRequest')
      /\ UNCHANGED <<bills, payments, lateEdits, lateSaves>>
  BY DEF FailBill, Written
<1>2. b \in Bills /\ DOMAIN billRequest = BillWorkers
  BY <1>1 DEF BillsInv, BillsTypeOK, Addressed
<1>3. RequestOf(billRequest)[w].invoice = b /\ RequestOf(billRequest)[w] # AsInvoice!Idle
  BY <1>2, NoBillAssumption DEF RequestOf, AsInvoice!Idle
<1>4. StatusOf(bills)[b] \in AsInvoice!NoRow
  BY <1>1, <1>2 DEF StatusOf, BillExists, NoBillRow, AsInvoice!NoRow
<1>5. RequestOf(billRequest') = [RequestOf(billRequest) EXCEPT ![w] = AsInvoice!Idle]
  <2>1. InvoiceRequest(BillIdle) = AsInvoice!Idle
    BY DEF InvoiceRequest, BillIdle, AsInvoice!Idle
  <2>2. QED
    BY <1>1, <1>2, <2>1, RequestMaps
<1>6. QED
  BY <1>1, <1>3, <1>4, <1>5, MoneyKept DEF AsInvoice!FinishOnDeleted, AsInvoice!Exists,
     AsInvoice!rowVars, AsInvoice!historyVars, StatusOf, RequestOf

\* Deleting a bill is deleting an invoice: its payments belong to none.
LEMMA DestroyMaps ==
    ASSUME BillsInv, NEW w \in BillWorkers, NEW b \in Bills, DestroyBill(w, b)
    PROVE  AsInvoice!DestroyInvoice(w, b)
<1> DEFINE r == [bills[b] EXCEPT !.status = "deleted"]
<1>1. /\ bills \in [Bills -> Bill] /\ bills[b] \in Bill
      /\ payments \in [Payments -> PaymentRow]
  BY DEF BillsInv, BillsTypeOK, PaymentRow
<1>2. /\ billRequest[w] = BillIdle /\ BillExists(b) /\ Written(bills, b, r, bills')
      /\ payments' = [p \in Payments |-> IF p \in PaymentsOf(b)
                                         THEN [payments[p] EXCEPT !.bill = NoBill]
                                         ELSE payments[p]]
      /\ UNCHANGED <<billRequest, lateEdits, lateSaves>>
  BY <1>1 DEF DestroyBill, Written
<1>3. /\ r \in Bill /\ r.status = "deleted" /\ r.total = bills[b].total
      /\ r.pastDue = bills[b].pastDue
  BY <1>1 DEF Bill, NoBillRow
<1>4. /\ StatusOf(bills') = [StatusOf(bills) EXCEPT ![b] = "deleted"]
      /\ TotalOf(bills') = TotalOf(bills) /\ PastDueOf(bills') = PastDueOf(bills)
  <2>1. InvoiceStatus("deleted") = "deleted"
    BY DEF InvoiceStatus
  <2>2. /\ StatusOf(bills') = [StatusOf(bills) EXCEPT ![b] = "deleted"]
        /\ TotalOf(bills') = [TotalOf(bills) EXCEPT ![b] = bills[b].total]
        /\ PastDueOf(bills') = [PastDueOf(bills) EXCEPT ![b] = bills[b].pastDue]
    <3> HIDE DEF r
    <3>1. QED
      BY <1>1, <1>2, <1>3, <2>1, RowMaps
  <2>3. QED
    BY <2>2 DEF TotalOf, PastDueOf
<1>5. ASSUME NEW p \in Payments
      PROVE  /\ payments'[p].bill = IF payments[p].bill = b THEN NoBill ELSE payments[p].bill
             /\ payments'[p].amount = payments[p].amount
  <2>1. payments[p] \in PaymentRow
    BY <1>1
  <2>2. QED
    BY <1>2, <2>1 DEF PaymentsOf, PaymentRow
<1>6. PaymentOf(payments') =
        [p \in Payments |-> IF PaymentOf(payments)[p].invoice = b
                            THEN [PaymentOf(payments)[p] EXCEPT !.invoice = NoBill]
                            ELSE PaymentOf(payments)[p]]
  <2>1. ASSUME NEW p \in Payments
        PROVE  PaymentOf(payments')[p] = IF PaymentOf(payments)[p].invoice = b
                                         THEN [PaymentOf(payments)[p] EXCEPT !.invoice = NoBill]
                                         ELSE PaymentOf(payments)[p]
    BY <1>5 DEF PaymentOf
  <2>2. PaymentOf(payments') = [p \in Payments |-> PaymentOf(payments')[p]]
    BY DEF PaymentOf
  <2>3. QED
    BY <2>1, <2>2
<1>7. AmountsOf(payments', b) = 0
  <2>1. Made(payments', b) = {}
    BY <1>5, NoBillAssumption DEF Made
  <2>2. SumOver(Amount(payments'), {}) = 0
    BY FS_EmptySet, SumStep
  <2>3. QED
    BY <2>1, <2>2, PaidIsSum
<1>8. ASSUME NEW c \in Bills, c # b
      PROVE  AmountsOf(payments', c) = AmountsOf(payments, c)
  <2>1. SamePayments(payments, payments', c)
    BY <1>5, <1>8, NoBillAssumption DEF SamePayments, Made
  <2>2. QED
    BY <2>1, PaidSame
<1>9. [c \in Bills |-> PaidTotal(c)]' = [[c \in Bills |-> PaidTotal(c)] EXCEPT ![b] = 0]
  <2>1. \A c \in Bills : PaidTotal(c)' = IF c = b THEN 0 ELSE PaidTotal(c)
    BY <1>7, <1>8, PaidIs
  <2>2. QED
    BY <2>1
<1>10. /\ RequestOf(billRequest)[w] = AsInvoice!Idle
       /\ StatusOf(bills)[b] \notin AsInvoice!NoRow
  BY <1>2 DEF RequestOf, StatusOf, BillIdle, AsInvoice!Idle, BillExists, NoBillRow, AsInvoice!NoRow
<1>11. AsInvoice!Unlink(b) = PaymentOf(payments')
  BY <1>6 DEF AsInvoice!Unlink, PaymentOf
<1>12. [c \in Bills |-> 0]' = [[c \in Bills |-> 0] EXCEPT ![b] = 0]
  OBVIOUS
<1>13. QED
  BY <1>2, <1>4, <1>9, <1>10, <1>11, <1>12 DEF AsInvoice!DestroyInvoice, AsInvoice!Exists,
     AsInvoice!rowVars, AsInvoice!historyVars, StatusOf, TotalOf, PastDueOf, RequestOf, PaymentOf

\* Paying a bill is paying an invoice.
LEMMA PaymentMaps ==
    ASSUME BillsInv, NEW w \in BillWorkers, NEW b \in Bills, NEW p \in Payments,
           NEW amount \in BillAmounts, RecordBillPayment(w, b, p, amount)
    PROVE  AsInvoice!RecordPayment(w, b, p, amount)
<1> DEFINE paid == PaidTotal(b) + amount
           status == StatusAfterPayment(bills[b].status, paid, bills[b].total)
           r == [bills[b] EXCEPT !.status = status]
           row == [bill |-> b, amount |-> amount]
<1>1. /\ bills \in [Bills -> Bill] /\ bills[b] \in Bill /\ amount \in Nat
      /\ payments \in [Payments -> PaymentRow]
  BY AmountAssumption DEF BillsInv, BillsTypeOK, PaymentRow
<1>2. /\ billRequest[w] = BillIdle /\ Payable(b) /\ paid <= bills[b].total
      /\ payments[p] = Unpaid /\ Written(payments, p, row, payments')
      /\ Written(bills, b, r, bills')
      /\ UNCHANGED <<billRequest, lateEdits, lateSaves>>
  BY <1>1 DEF RecordBillPayment, Written
<1>3. /\ r \in Bill /\ r.status = status /\ r.total = bills[b].total
      /\ r.pastDue = bills[b].pastDue
  BY <1>1 DEF Bill, StatusAfterPayment
<1>4. /\ StatusOf(bills') = [StatusOf(bills) EXCEPT ![b] = InvoiceStatus(status)]
      /\ TotalOf(bills') = TotalOf(bills) /\ PastDueOf(bills') = PastDueOf(bills)
  <2>1. /\ StatusOf(bills') = [StatusOf(bills) EXCEPT ![b] = InvoiceStatus(status)]
        /\ TotalOf(bills') = [TotalOf(bills) EXCEPT ![b] = bills[b].total]
        /\ PastDueOf(bills') = [PastDueOf(bills) EXCEPT ![b] = bills[b].pastDue]
    <3> HIDE DEF r, status
    <3>1. QED
      BY <1>1, <1>2, <1>3, RowMaps
  <2>2. QED
    BY <2>1 DEF TotalOf, PastDueOf
<1>5. /\ AmountsOf(payments', b) = AmountsOf(payments, b) + amount
      /\ \A c \in Bills \ {b} : AmountsOf(payments', c) = AmountsOf(payments, c)
  <2>1. payments[p].bill = NoBill
    BY <1>2 DEF Unpaid
  <2>2. QED
    BY <1>1, <1>2, <2>1, PaymentAdds
<1>6. [c \in Bills |-> PaidTotal(c)]' = [[c \in Bills |-> PaidTotal(c)] EXCEPT ![b] = paid]
  <2>1. \A c \in Bills : PaidTotal(c)' = IF c = b THEN paid ELSE PaidTotal(c)
    BY <1>5, PaidIs
  <2> HIDE DEF paid
  <2>2. QED
    BY <2>1
<1>7. PaymentOf(payments') =
        [PaymentOf(payments) EXCEPT ![p] = [invoice |-> b, amount |-> amount, refunded |-> 0]]
  BY <1>1, <1>2 DEF PaymentOf, Written
<1>8. /\ PaymentOf(payments)[p] = AsInvoice!Unwritten
      /\ RequestOf(billRequest)[w] = AsInvoice!Idle
      /\ AsInvoice!Payable(StatusOf(bills)[b])
  BY <1>2 DEF PaymentOf, Unpaid, AsInvoice!Unwritten, RequestOf, BillIdle, AsInvoice!Idle,
     AsInvoice!Payable, AsInvoice!NoRow, StatusOf, Payable, NoBillRow
<1>9. InvoiceStatus(status) =
        AsInvoice!StatusAfterPayment(StatusOf(bills)[b], paid, TotalOf(bills)[b])
  BY DEF InvoiceStatus, StatusAfterPayment, AsInvoice!StatusAfterPayment, StatusOf, TotalOf
<1>10. AsInvoice!Fits(b, amount)
  BY <1>2 DEF AsInvoice!Fits
<1> HIDE DEF status
<1>11. QED
  BY <1>2, <1>4, <1>6, <1>7, <1>8, <1>9, <1>10
     DEF AsInvoice!RecordPayment, AsInvoice!rowVars, AsInvoice!historyVars,
     StatusOf, TotalOf, PastDueOf, RequestOf, PaymentOf

\* The calendar and the daily task do to bills what they do to invoices.
LEMMA CalendarMaps ==
    ASSUME BillsInv, (\E b \in Bills : DueDatePasses(b)) \/ MarkOverdueBills
    PROVE  (\E b \in Bills : AsInvoice!DueDatePasses(b)) \/ AsInvoice!MarkOverdueInvoices
<1>1. bills \in [Bills -> Bill] /\ \A b \in Bills : bills[b] \in Bill
  BY DEF BillsInv, BillsTypeOK
<1>2. /\ AsInvoice!moneyVars' = AsInvoice!moneyVars
      /\ UNCHANGED <<billRequest, lateEdits, lateSaves>>
  BY MoneyKept DEF DueDatePasses, MarkOverdueBills
<1>3. ASSUME NEW b \in Bills, DueDatePasses(b)
      PROVE  AsInvoice!DueDatePasses(b)
  <2> DEFINE r == [bills[b] EXCEPT !.pastDue = TRUE]
  <2>1. BillExists(b) /\ ~bills[b].pastDue /\ Written(bills, b, r, bills')
    BY <1>1, <1>3 DEF DueDatePasses, Written
  <2>2. /\ r \in Bill /\ r.status = bills[b].status /\ r.total = bills[b].total
        /\ r.pastDue = TRUE
    BY <1>1 DEF Bill
  <2>3. /\ StatusOf(bills') = [StatusOf(bills) EXCEPT ![b] = InvoiceStatus(bills[b].status)]
        /\ TotalOf(bills') = [TotalOf(bills) EXCEPT ![b] = bills[b].total]
        /\ PastDueOf(bills') = [PastDueOf(bills) EXCEPT ![b] = TRUE]
    <3> HIDE DEF r
    <3>1. QED
      BY <1>1, <2>1, <2>2, RowMaps
  <2>4. StatusOf(bills') = StatusOf(bills) /\ TotalOf(bills') = TotalOf(bills)
    BY <2>3 DEF StatusOf, TotalOf, InvoiceStatus
  <2>5. StatusOf(bills)[b] \notin AsInvoice!NoRow /\ ~PastDueOf(bills)[b]
    BY <2>1 DEF StatusOf, PastDueOf, BillExists, NoBillRow, AsInvoice!NoRow
  <2>6. QED
    BY <1>2, <2>3, <2>4, <2>5 DEF AsInvoice!DueDatePasses, AsInvoice!Exists,
       AsInvoice!historyVars, StatusOf, TotalOf, PastDueOf
<1>4. CASE MarkOverdueBills
  <2>1. /\ \E b \in Bills : BecomesOverdue(b)
        /\ bills' = [b \in Bills |-> IF BecomesOverdue(b)
                                     THEN [bills[b] EXCEPT !.status = "overdue"]
                                     ELSE bills[b]]
    BY <1>4 DEF MarkOverdueBills
  <2>2. \A b \in Bills : AsInvoice!BecomesOverdue(b) <=> BecomesOverdue(b)
    BY <1>1 DEF AsInvoice!BecomesOverdue, BecomesOverdue, Bill, NoBillRow
  <2>3. ASSUME NEW b \in Bills
        PROVE  /\ bills'[b].status = IF BecomesOverdue(b) THEN "overdue" ELSE bills[b].status
               /\ bills'[b].total = bills[b].total /\ bills'[b].pastDue = bills[b].pastDue
    BY <1>1, <2>1 DEF Bill
  <2>4. TotalOf(bills') = TotalOf(bills) /\ PastDueOf(bills') = PastDueOf(bills)
    BY <2>3 DEF TotalOf, PastDueOf
  <2>5. StatusOf(bills') =
          [b \in Bills |-> IF AsInvoice!BecomesOverdue(b) THEN "overdue" ELSE StatusOf(bills)[b]]
    BY <2>2, <2>3 DEF StatusOf
  <2>6. AsInvoice!MarkOverdueInvoices
    BY <1>2, <2>1, <2>2, <2>4, <2>5 DEF AsInvoice!MarkOverdueInvoices, AsInvoice!rowVars,
       AsInvoice!historyVars, StatusOf, TotalOf, PastDueOf
  <2>7. QED
    BY <2>6
<1>5. QED
  BY <1>3, <1>4

\* For any number of bills, payments and workers: every step of a bill, the
\* racing ones included, is a step of an invoice that is never refunded.  (The
\* fairness that MirrorsInvoice adds is the daily task's.)
THEOREM BillsMirrorInvoices == BillsSpec => AsInvoice!Spec
<1>1. BillsInv /\ [BillsNext]_billsVars => [AsInvoice!Next]_(AsInvoice!vars)
  <2> SUFFICES ASSUME BillsInv, [BillsNext]_billsVars
               PROVE  [AsInvoice!Next]_(AsInvoice!vars)
    OBVIOUS
  <2>1. CASE UNCHANGED billsVars
    <3>1. AsInvoice!moneyVars' = AsInvoice!moneyVars
      BY <2>1, MoneyKept DEF billsVars
    <3>2. QED
      BY <2>1, <3>1 DEF billsVars, AsInvoice!vars, AsInvoice!moneyVars
  <2>2. CASE \E w \in BillWorkers : FailBill(w)
    BY <2>2, FailureMaps DEF AsInvoice!Next, AsInvoice!RequestStep
  <2>3. ASSUME NEW w \in BillWorkers, NEW b \in Bills, ServeBill(w, b)
        PROVE  AsInvoice!RequestStep(w)
    <3>1. CASE \E total \in BillTotals, late \in BOOLEAN :
                 CreateBill(w, b, total, late) \/ UpdateBill(w, b, total, late)
      BY <3>1, WritesMap DEF AsInvoice!RequestStep
    <3>2. CASE \E op \in {"receive", "cancel", "edit"} : BeginBill(w, b, op)
      BY <3>2, BeginMaps DEF AsInvoice!RequestStep
    <3>3. CASE ReceiveBill(w, b) \/ CancelBill(w, b)
      BY <3>3, SavesMap DEF AsInvoice!RequestStep
    <3>4. CASE DestroyBill(w, b)
      BY <3>4, DestroyMaps DEF AsInvoice!RequestStep
    <3>5. CASE \E p \in Payments, amount \in BillAmounts : RecordBillPayment(w, b, p, amount)
      BY <3>5, PaymentMaps DEF AsInvoice!RequestStep
    <3>6. QED
      BY <2>3, <3>1, <3>2, <3>3, <3>4, <3>5 DEF ServeBill
  <2>4. CASE (\E b \in Bills : DueDatePasses(b)) \/ MarkOverdueBills
    BY <2>4, CalendarMaps DEF AsInvoice!Next
  <2>5. QED
    BY <2>1, <2>2, <2>3, <2>4 DEF BillsNext, AsInvoice!Next
<1>2. QED
  BY <1>1, BillsInitMaps, BillsInvariant, PTL DEF BillsSpec, AsInvoice!Spec
=============================================================================

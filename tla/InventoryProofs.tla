-------------------------- MODULE InventoryProofs --------------------------
(***************************************************************************)
(* Theorems about Inventory, for every number of items and workers, every  *)
(* set of starting balances and changes and every width of the column.     *)
(***************************************************************************)
EXTENDS Inventory, TLAPS

USE QuantitiesAssumption, DeltasAssumption, MaxEntriesAssumption,
    NoItemAssumption

\* The state stays well-typed.
THEOREM TypeCorrect == Spec => []TypeOK
<1>1. Init => TypeOK
  BY DEF Init, TypeOK, Idle, Column
<1>2. TypeOK /\ [Next]_vars => TypeOK'
  <2> SUFFICES ASSUME TypeOK, [Next]_vars
               PROVE  TypeOK'
    OBVIOUS
  <2> USE DEF TypeOK, Column, Idle, Exists, ledgerVars
  <2>1. ASSUME NEW w \in Workers, NEW i \in Items, NEW q \in Quantities,
               CreateItem(w, i, q)
        PROVE  TypeOK'
    <3>1. q \in 0..MaxQuantity
      OBVIOUS
    <3>2. QED
      BY <2>1, <3>1 DEF CreateItem
  <2>2. ASSUME NEW w \in Workers, NEW i \in Items, DestroyItem(w, i)
        PROVE  TypeOK'
    BY <2>2 DEF DestroyItem
  <2>3. ASSUME NEW w \in Workers, NEW i \in Items, NEW d \in Deltas,
               AdjustStock(w, i, d)
        PROVE  TypeOK'
    <3>1. /\ quantity[i] \in Column
          /\ quantity[i] + d \in Column
          /\ posted[i] + d \in Int
          /\ entries[i] + 1 \in Nat
      <4>1. /\ quantity[i] \in Column /\ posted[i] \in Int /\ entries[i] \in Nat
            /\ d \in Int
        BY <2>3 DEF AdjustStock
      <4>2. quantity[i] + d >= 0 /\ quantity[i] + d <= MaxQuantity
        BY <2>3 DEF AdjustStock, Sufficient, NewQuantity, ColumnHolds
      <4>3. QED
        BY <4>1, <4>2
    <3>2. /\ quantity' \in [Items -> Column \cup {NoItem}]
          /\ posted' \in [Items -> Int]
          /\ entries' \in [Items -> Nat]
      <4>1. /\ quantity' = [quantity EXCEPT ![i] = quantity[i] + d]
            /\ posted' = [posted EXCEPT ![i] = posted[i] + d]
            /\ entries' = [entries EXCEPT ![i] = entries[i] + 1]
        BY <2>3 DEF AdjustStock, NewQuantity
      <4>2. QED
        BY <3>1, <4>1
    <3>3. QED
      BY <2>3, <3>2 DEF AdjustStock
  <2>4. ASSUME NEW w \in Workers, NEW i \in Items, BeginUpdate(w, i)
        PROVE  TypeOK'
    BY <2>4 DEF BeginUpdate
  <2>5. ASSUME NEW w \in Workers, FinishUpdate(w)
        PROVE  TypeOK'
    BY <2>5 DEF FinishUpdate, UpdatedQuantity
  <2>6. CASE UNCHANGED vars
    BY <2>6 DEF vars
  <2>7. QED
    BY <2>1, <2>2, <2>3, <2>4, <2>5, <2>6 DEF Next
<1>3. QED
  BY <1>1, <1>2, PTL DEF Spec

\* What CreateItem relies on: an item that does not exist has no ledger, and
\* a primary key that was never given out has neither row nor update nor a
\* stale write.
FreshKeys ==
    /\ \A i \in Items : ~ Exists(i) => opening[i] = 0 /\ posted[i] = 0
    /\ \A i \in Items : Exists(i) => i \in used
    /\ \A w \in Workers : request[w].item # NoItem => request[w].item \in used
    /\ staleWrites \subseteq used

\* Under any interleaving stock is never negative, and it differs from what
\* the ledger says only where a generic update saved an outdated quantity.
\* FreshKeys makes the two inductive.
THEOREM StockInvariant ==
    Spec => [](FreshKeys /\ NeverNegative /\ DriftOnlyByStaleUpdate)
<1> DEFINE Inv == FreshKeys /\ NeverNegative /\ DriftOnlyByStaleUpdate
<1> USE DEF FreshKeys, NeverNegative, DriftOnlyByStaleUpdate, Reconciled
<1>1. Init => Inv
  BY DEF Init, Exists, Idle
<1>2. TypeOK /\ Inv /\ [Next]_vars => Inv'
  <2> SUFFICES ASSUME TypeOK, Inv, [Next]_vars
               PROVE  Inv'
    OBVIOUS
  <2> USE DEF TypeOK, Column, Idle, Exists, ledgerVars
  <2>1. ASSUME NEW w \in Workers, NEW i \in Items, NEW q \in Quantities,
               CreateItem(w, i, q)
        PROVE  Inv'
    BY <2>1 DEF CreateItem
  <2>2. ASSUME NEW w \in Workers, NEW i \in Items, DestroyItem(w, i)
        PROVE  Inv'
    BY <2>2 DEF DestroyItem
  <2>3. ASSUME NEW w \in Workers, NEW i \in Items, NEW d \in Deltas,
               AdjustStock(w, i, d)
        PROVE  Inv'
    <3>1. /\ quantity[i] \in Int /\ d \in Int /\ quantity[i] + d >= 0
          /\ i \in used
          /\ quantity' = [quantity EXCEPT ![i] = quantity[i] + d]
          /\ posted' = [posted EXCEPT ![i] = posted[i] + d]
          /\ UNCHANGED <<opening, request, used, staleWrites>>
      BY <2>3 DEF AdjustStock, Sufficient, NewQuantity, ColumnHolds
    <3>2. FreshKeys'
      BY <3>1
    <3>3. NeverNegative'
      BY <3>1
    <3>4. DriftOnlyByStaleUpdate'
      BY <3>1
    <3>5. QED
      BY <3>2, <3>3, <3>4
  <2>4. ASSUME NEW w \in Workers, NEW i \in Items, BeginUpdate(w, i)
        PROVE  Inv'
    BY <2>4 DEF BeginUpdate
  <2>5. ASSUME NEW w \in Workers, FinishUpdate(w)
        PROVE  Inv'
    <3> DEFINE i == request[w].item
    <3>1. /\ i \in Items
          /\ i \in used
          /\ request[w].quantity \in Column
          /\ request[w].quantity >= 0
          /\ quantity' = [quantity EXCEPT ![i] = request[w].quantity]
          /\ request' = [request EXCEPT ![w] = Idle]
          /\ staleWrites' = IF quantity[i] # request[w].quantity
                              THEN staleWrites \cup {i} ELSE staleWrites
          /\ UNCHANGED <<opening, posted, entries, used>>
      BY <2>5 DEF FinishUpdate, UpdatedQuantity
    <3> HIDE DEF i
    <3>2. FreshKeys'
      BY <3>1
    <3>3. NeverNegative'
      BY <3>1
    <3>4. DriftOnlyByStaleUpdate'
      BY <3>1
    <3>5. QED
      BY <3>2, <3>3, <3>4
  <2>6. CASE UNCHANGED vars
    BY <2>6 DEF vars
  <2>7. QED
    BY <2>1, <2>2, <2>3, <2>4, <2>5, <2>6 DEF Next
<1>3. QED
  BY <1>1, <1>2, TypeCorrect, PTL DEF Spec

\* What a row looks like to the abstract account.
View(i) == IF Reconciled(i)
             THEN [opening |-> opening[i], balance |-> quantity[i],
                   posted |-> posted[i]]
             ELSE NoItem

\* A row is not taken for a missing one.
LEMMA RowIsNotNull ==
    ASSUME NEW o \in Nat, NEW q \in Int, NEW p \in Int
    PROVE  [opening |-> o, balance |-> q, posted |-> p] # NoItem
<1>1. [opening |-> o, balance |-> q, posted |-> p]
         \in [opening : Nat, balance : Int, posted : Int]
  OBVIOUS
<1>2. QED
  BY <1>1

\* Losing an item is closing its account, if it still had one.
LEMMA ClosedOrUnchanged ==
    ASSUME NEW i \in Items,
           \A j \in Items : View(j)' = IF j = i THEN NoItem ELSE View(j)
    PROVE  [Stock!Next]_([j \in Items |-> View(j)])
<1>1. CASE View(i) = NoItem
  BY <1>1
<1>2. CASE View(i) # NoItem
  <2>1. [j \in Items |-> View(j)]' = [[j \in Items |-> View(j)] EXCEPT ![i] = NoItem]
    OBVIOUS
  <2>2. Stock!Close(i)
    BY <1>2, <2>1 DEF Stock!Close, View
  <2>3. QED
    BY <2>2 DEF Stock!Next
<1>3. QED
  BY <1>1, <1>2

\* Stock and ledger implement the abstract account: creating an item opens
\* it, adjust_stock posts to it, deleting the item or overwriting a quantity
\* that has changed closes it, and any other update does not touch it.
THEOREM StockKeepsLedger == Spec => KeepsLedger
<1> USE DEF Exists, Reconciled
<1>1. Init => Stock!Init
  BY DEF Init, Stock!Init
<1>2. /\ TypeOK /\ FreshKeys
      /\ [Next]_vars
      => [Stock!Next]_([i \in Items |-> View(i)])
  <2> SUFFICES ASSUME TypeOK, FreshKeys, [Next]_vars
               PROVE  [Stock!Next]_([i \in Items |-> View(i)])
    OBVIOUS
  <2> USE DEF TypeOK, Column, Idle, ledgerVars, View
  <2>1. ASSUME NEW w \in Workers, NEW i \in Items, NEW q \in Quantities,
               CreateItem(w, i, q)
        PROVE  Stock!Open(i, q)
    <3>1. ~ Exists(i)
      BY <2>1 DEF CreateItem, FreshKeys
    <3> i \notin staleWrites
      BY <2>1 DEF CreateItem, FreshKeys
    <3>2. ASSUME NEW j \in Items
          PROVE  View(j)' = IF j = i THEN Stock!Opened(q) ELSE View(j)
      <4> q \in Nat
        BY QuantitiesAssumption
      <4>1. posted[i] = 0
        BY <3>1 DEF FreshKeys
      <4>2. /\ quantity' = [quantity EXCEPT ![i] = q]
            /\ opening' = [opening EXCEPT ![i] = q]
            /\ posted' = posted
            /\ staleWrites' = staleWrites
        BY <2>1 DEF CreateItem
      <4>3. CASE j = i
        BY <4>1, <4>2, <4>3 DEF Stock!Opened
      <4>4. CASE j # i
        BY <4>2, <4>4
      <4>5. QED
        BY <4>3, <4>4
    <3>3. QED
      BY <3>1, <3>2 DEF Stock!Open
  <2>2. ASSUME NEW w \in Workers, NEW i \in Items, DestroyItem(w, i)
        PROVE  [Stock!Next]_([j \in Items |-> View(j)])
    <3>1. \A j \in Items : View(j)' = IF j = i THEN NoItem ELSE View(j)
      BY <2>2 DEF DestroyItem
    <3>2. QED
      BY <3>1, ClosedOrUnchanged
  <2>3. ASSUME NEW w \in Workers, NEW i \in Items, NEW d \in Deltas,
               AdjustStock(w, i, d)
        PROVE  [Stock!Next]_([j \in Items |-> View(j)])
    <3>1. /\ opening[i] \in Nat /\ quantity[i] \in Int /\ posted[i] \in Int
          /\ quantity[i] + d \in Int /\ quantity[i] + d >= 0
      <4>1. quantity[i] # NoItem /\ quantity[i] + d >= 0
        BY <2>3 DEF AdjustStock, Sufficient
      <4>2. d \in Int
        BY DeltasAssumption
      <4>3. quantity[i] \in Column \cup {NoItem}
        OBVIOUS
      <4>4. quantity[i] \in Int
        BY <4>1, <4>3, QuantitiesAssumption
      <4>5. QED
        BY <4>1, <4>2, <4>4
    <3>2. /\ quantity' = [quantity EXCEPT ![i] = quantity[i] + d]
          /\ posted' = [posted EXCEPT ![i] = posted[i] + d]
          /\ opening' = opening
          /\ staleWrites' = staleWrites
          /\ quantity[i] # NoItem
      BY <2>3 DEF AdjustStock, NewQuantity
    <3>3. CASE i \in staleWrites
      BY <3>2, <3>3
    <3>4. CASE i \notin staleWrites
      <4>1. View(i) = [opening |-> opening[i], balance |-> quantity[i],
                       posted |-> posted[i]]
        BY <3>2, <3>4
      <4>2. ASSUME NEW j \in Items
            PROVE  View(j)' = IF j = i THEN Stock!Posted(View(i), d) ELSE View(j)
        <5>1. CASE j = i
          BY <3>1, <3>2, <3>4, <4>1, <5>1 DEF Stock!Posted
        <5>2. CASE j # i
          BY <3>2, <5>2
        <5>3. QED
          BY <5>1, <5>2
      <4>3. View(i) # NoItem /\ View(i).balance + d >= 0
        BY <3>1, <4>1, RowIsNotNull
      <4>4. Stock!Post(i, d)
        BY <4>2, <4>3 DEF Stock!Post, Stock!Posted
      <4>5. QED
        BY <4>4 DEF Stock!Next
    <3>5. QED
      BY <3>3, <3>4
  <2>4. ASSUME NEW w \in Workers, NEW i \in Items, BeginUpdate(w, i)
        PROVE  UNCHANGED [j \in Items |-> View(j)]
    BY <2>4 DEF BeginUpdate
  <2>5. ASSUME NEW w \in Workers, FinishUpdate(w)
        PROVE  [Stock!Next]_([j \in Items |-> View(j)])
    <3> DEFINE i == request[w].item
               q == request[w].quantity
    <3>1. /\ i \in Items
          /\ quantity' = [quantity EXCEPT ![i] = q]
          /\ staleWrites' = IF quantity[i] # q THEN staleWrites \cup {i}
                                               ELSE staleWrites
          /\ UNCHANGED <<opening, posted>>
      BY <2>5 DEF FinishUpdate, UpdatedQuantity
    <3> HIDE DEF i, q
    <3>2. CASE quantity[i] = q
      BY <3>1, <3>2
    <3>3. CASE quantity[i] # q
      <4>1. \A j \in Items : View(j)' = IF j = i THEN NoItem ELSE View(j)
        BY <3>1, <3>3
      <4>2. QED
        BY <3>1, <4>1, ClosedOrUnchanged
    <3>4. QED
      BY <3>2, <3>3
  <2>6. CASE UNCHANGED vars
    BY <2>6 DEF vars
  <2>7. QED
    BY <2>1, <2>2, <2>3, <2>4, <2>5, <2>6 DEF Next, Stock!Next
<1>3. QED
  BY <1>1, <1>2, TypeCorrect, StockInvariant, PTL
  DEF Spec, KeepsLedger, Stock!Spec, View
=============================================================================

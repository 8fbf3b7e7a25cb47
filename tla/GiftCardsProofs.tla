-------------------------- MODULE GiftCardsProofs --------------------------
(***************************************************************************)
(* Theorems about GiftCards, for every number of cards and workers, every  *)
(* set of amounts, every width of the column and every horizon.            *)
(***************************************************************************)
EXTENDS GiftCards, TLAPS

USE AmountsAssumption, MaxEntriesAssumption, HorizonAssumption,
    NoCardAssumption

(***************************************************************************)
(* Types.  A worker that is serving an update or a send has fetched a row  *)
(* of a card that exists, and cards are never deleted.                     *)
(***************************************************************************)

Fetched ==
    \A w \in Workers : request[w].op # "idle" =>
        /\ request[w].card \in Cards
        /\ Issued(request[w].card)
        /\ request[w].row \in Row

\* A balance within the column makes a row again.
LEMMA WithBalanceType ==
    ASSUME NEW r \in Row, NEW b \in -MaxBalance..MaxBalance
    PROVE  /\ WithBalance(r, b) \in Row
           /\ WithBalance(r, b).balance = b
           /\ WithBalance(r, b).sent = r.sent
BY DEF WithBalance, Row

\* So do the columns an update or a send writes.
LEMMA UpdatedRowType ==
    ASSUME NEW r \in Row, NEW active \in BOOLEAN, NEW e \in Dates,
           NEW addressed \in BOOLEAN, NEW sent \in BOOLEAN
    PROVE  /\ UpdatedRow(r, active, e, addressed, sent) \in Row
           /\ UpdatedRow(r, active, e, addressed, sent).balance = r.balance
           /\ UpdatedRow(r, active, e, addressed, sent).sent = sent
BY DEF UpdatedRow, Row

\* What send saves: the mark, and the other columns as they are.
SentRow(r) == UpdatedRow(r, r.active, r.expires, r.addressed, TRUE)

\* It is a row with the same balance.
LEMMA SentRowType ==
    ASSUME NEW r \in Row
    PROVE  /\ SentRow(r) \in Row
           /\ SentRow(r).balance = r.balance
BY DEF SentRow, UpdatedRow, Row

\* A row is not taken for a missing one.
LEMMA RowIsNotNull ==
    ASSUME NEW r \in Row
    PROVE  r # NoCard /\ r.balance \in Int /\ -MaxBalance <= r.balance
BY DEF Row

\* What a posting does to the card and the ledger, of that card alone.
LEMMA PostToEffect ==
    ASSUME TypeOK, NEW c \in Cards, Issued(c), NEW d \in Int,
           card[c].balance + d >= -MaxBalance, PostTo(c, d)
    PROVE  /\ card[c] \in Row
           /\ card[c].balance + d \in -MaxBalance..MaxBalance
           /\ card' = [card EXCEPT
                 ![c] = WithBalance(card[c], card[c].balance + d)]
           /\ card' \in [Cards -> Row \cup {NoCard}]
           /\ posted' = [posted EXCEPT ![c] = posted[c] + d]
           /\ posted' \in [Cards -> Int]
           /\ entries' \in [Cards -> 0..MaxEntries]
<1>1. card[c] \in Row
  BY DEF TypeOK, Issued
<1>2. card[c].balance + d \in -MaxBalance..MaxBalance
  <2>1. card[c].balance \in Int
    BY <1>1, RowIsNotNull
  <2>2. card[c].balance + d <= MaxBalance
    BY DEF PostTo, ColumnHolds
  <2>3. QED
    BY <2>1, <2>2
<1>3. WithBalance(card[c], card[c].balance + d) \in Row
  BY <1>1, <1>2, WithBalanceType
<1>4. /\ card' = [card EXCEPT
            ![c] = WithBalance(card[c], card[c].balance + d)]
      /\ posted' = [posted EXCEPT ![c] = posted[c] + d]
      /\ entries' = [entries EXCEPT ![c] = entries[c] + 1]
      /\ entries[c] < MaxEntries
  BY DEF PostTo
<1>5. posted[c] + d \in Int /\ entries[c] + 1 \in 0..MaxEntries
  BY <1>4 DEF TypeOK
<1>6. QED
  BY <1>1, <1>2, <1>3, <1>4, <1>5 DEF TypeOK

\* Types and fetched rows are inductive together: what an update saves is
\* the row it fetched, and that one was well-typed.
LEMMA TypesAndRows == Spec => [](TypeOK /\ Fetched)
<1>1. Init => TypeOK /\ Fetched
  BY DEF Init, TypeOK, Fetched, Idle, Row, Dates
<1>2. TypeOK /\ Fetched /\ [Next]_vars => TypeOK' /\ Fetched'
  <2> SUFFICES ASSUME TypeOK, Fetched, [Next]_vars
               PROVE  TypeOK' /\ Fetched'
    OBVIOUS
  <2>1. ASSUME Tick
        PROVE  TypeOK' /\ Fetched'
    BY <2>1 DEF Tick, TypeOK, Fetched, Issued, ledgerVars
  <2>2. ASSUME NEW w \in Workers, Deliver(w)
        PROVE  TypeOK' /\ Fetched'
    BY <2>2 DEF Deliver, TypeOK, Fetched, Issued, ledgerVars
  <2>3. ASSUME NEW w \in Workers, DeliverFails(w)
        PROVE  TypeOK' /\ Fetched'
    BY <2>3 DEF DeliverFails, TypeOK, Fetched, Issued, Idle, ledgerVars
  <2>4. ASSUME NEW w \in Workers, FinishSend(w)
        PROVE  TypeOK' /\ Fetched'
    <3> DEFINE c == request[w].card
               r == SentRow(card[c])
    <3>1. c \in Cards /\ card[c] \in Row
      BY <2>4 DEF FinishSend, AfterDelivery, Fetched, Issued, TypeOK
    <3>2. r \in Row /\ r # NoCard
      BY <3>1, SentRowType, RowIsNotNull
    <3>3. /\ card' = [card EXCEPT ![c] = r]
          /\ request' = [request EXCEPT ![w] = Idle]
          /\ UNCHANGED <<ledgerVars, now, delivered, staleWrites>>
      BY <2>4 DEF FinishSend, SentRow
    <3> HIDE DEF r, c
    <3>4. TypeOK'
      BY <3>1, <3>2, <3>3 DEF TypeOK, Idle, ledgerVars
    <3>5. \A b \in Cards : Issued(b) => Issued(b)'
      BY <3>1, <3>2, <3>3 DEF TypeOK, Issued
    <3>6. Fetched'
      BY <3>3, <3>5 DEF Fetched, TypeOK, Idle
    <3>7. QED
      BY <3>4, <3>6
  <2>5. ASSUME NEW w \in Workers, NEW active \in BOOLEAN, NEW e \in Dates,
               NEW addressed \in BOOLEAN, FinishUpdate(w, active, e, addressed)
        PROVE  TypeOK' /\ Fetched'
    <3> DEFINE c == request[w].card
               r == UpdatedRow(request[w].row, active, e, addressed,
                               request[w].row.sent)
    <3>1. c \in Cards /\ request[w].row \in Row
      BY <2>5 DEF FinishUpdate, Fetched
    <3>2. r \in Row /\ r # NoCard
      <4>1. request[w].row.sent \in BOOLEAN
        BY <3>1 DEF Row
      <4>2. QED
        BY <3>1, <4>1, UpdatedRowType, RowIsNotNull
    <3>3. card' = [card EXCEPT ![c] = r] /\ request' = [request EXCEPT ![w] = Idle]
      BY <2>5 DEF FinishUpdate
    <3>4. staleWrites' \subseteq Cards
      BY <2>5, <3>1 DEF FinishUpdate, TypeOK
    <3> HIDE DEF r
    <3>5. QED
      BY <2>5, <3>1, <3>2, <3>3, <3>4
      DEF FinishUpdate, TypeOK, Fetched, Issued, Idle, ledgerVars
  <2>6. ASSUME NEW w \in Workers, NEW c \in Cards, NEW op \in {"update", "send"},
               Begin(w, op, c)
        PROVE  TypeOK' /\ Fetched'
    BY <2>6 DEF Begin, TypeOK, Fetched, Issued, Idle, ledgerVars
  <2>8. ASSUME NEW c \in Cards, Issued(c), NEW d \in Int, PostTo(c, d),
               card[c].balance + d >= -MaxBalance,
               UNCHANGED <<request, now, delivered, staleWrites>>
        PROVE  TypeOK' /\ Fetched'
    <3>1. /\ card' \in [Cards -> Row \cup {NoCard}]
          /\ posted' \in [Cards -> Int]
          /\ entries' \in [Cards -> 0..MaxEntries]
          /\ card[c] \in Row
          /\ card[c].balance + d \in -MaxBalance..MaxBalance
          /\ card' = [card EXCEPT
                ![c] = WithBalance(card[c], card[c].balance + d)]
      BY <2>8, PostToEffect
    <3>2. WithBalance(card[c], card[c].balance + d) # NoCard
      BY <3>1, WithBalanceType, RowIsNotNull
    <3>3. \A b \in Cards : Issued(b) => card'[b] # NoCard
      BY <3>1, <3>2 DEF TypeOK, Issued
    <3>4. QED
      BY <2>8, <3>1, <3>3 DEF TypeOK, Fetched, Issued
  <2>7. ASSUME NEW w \in Workers, NEW c \in Cards, NEW p \in Amounts,
               Reload(w, c, p) \/ Redeem(w, c, p)
        PROVE  TypeOK' /\ Fetched'
    <3>1. /\ card[c].balance \in Int /\ -MaxBalance <= card[c].balance
          /\ Issued(c) /\ p \in Nat
      <4>1. Issued(c)
        BY <2>7 DEF Reload, Redeem
      <4>2. card[c] \in Row
        BY <4>1 DEF TypeOK, Issued
      <4>3. p \in Nat
        OBVIOUS
      <4>4. QED
        BY <4>1, <4>2, <4>3, RowIsNotNull
    <3>2. CASE Reload(w, c, p)
      BY <2>8, <3>1, <3>2 DEF Reload
    <3>3. CASE Redeem(w, c, p)
      <4>1. card[c].balance + (-p) >= -MaxBalance /\ PostTo(c, -p) /\ -p \in Int
        BY <3>1, <3>3 DEF Redeem, Redeemable
      <4>2. QED
        BY <2>8, <3>1, <3>3, <4>1 DEF Redeem
    <3>4. QED
      BY <2>7, <3>2, <3>3
  <2>9. ASSUME NEW w \in Workers, NEW c \in Cards, NEW b \in Amounts,
               NEW e \in Dates, NEW addressed \in BOOLEAN,
               CreateCard(w, c, b, e, addressed)
        PROVE  TypeOK' /\ Fetched'
    <3>1. NewCard(b, e, addressed) \in Row
      <4>1. b \in -MaxBalance..MaxBalance
        OBVIOUS
      <4>2. QED
        BY <4>1 DEF NewCard, Row
    <3>2. NewCard(b, e, addressed) # NoCard
      BY <3>1, RowIsNotNull
    <3>3. /\ b \in Int /\ entries[c] + 1 \in 0..MaxEntries
          /\ card' = [card EXCEPT ![c] = NewCard(b, e, addressed)]
      BY <2>9 DEF CreateCard, TypeOK
    <3> HIDE DEF NewCard
    <3>4. QED
      BY <2>9, <3>1, <3>2, <3>3 DEF CreateCard, TypeOK, Fetched, Issued
  <2>10. CASE UNCHANGED vars
    BY <2>10 DEF vars, TypeOK, Fetched, Issued
  <2>11. QED
    BY <2>1, <2>2, <2>3, <2>4, <2>5, <2>6, <2>7, <2>9, <2>10 DEF Next
<1>3. QED
  BY <1>1, <1>2, PTL DEF Spec

\* The state stays well-typed.
THEOREM TypeCorrect == Spec => []TypeOK
BY TypesAndRows, PTL

(***************************************************************************)
(* Balances and mails.  What holds of the rows in the table has to hold of *)
(* the rows fetched as well, since any of them may be saved later.         *)
(***************************************************************************)

Carried ==
    \A w \in Workers : request[w].op # "idle" =>
        /\ request[w].row.balance >= 0
        /\ request[w].row.sent => request[w].card \in delivered
        /\ request[w].op = "sent" => request[w].card \in delivered

CardInv == /\ BalanceNeverNegative /\ SentWasDelivered
           /\ DriftOnlyByStaleUpdate /\ Carried

USE DEF Reconciled

\* A posting the card covers keeps balance and ledger together.
LEMMA PostToKeeps ==
    ASSUME TypeOK, CardInv, NEW c \in Cards, Issued(c), NEW d \in Int,
           card[c].balance + d >= 0, PostTo(c, d),
           UNCHANGED <<request, now, delivered, staleWrites>>
    PROVE  CardInv'
<1> DEFINE r == WithBalance(card[c], card[c].balance + d)
<1>1. /\ card[c] \in Row
      /\ card' = [card EXCEPT ![c] = r]
      /\ posted' = [posted EXCEPT ![c] = posted[c] + d]
      /\ r \in Row /\ r.balance = card[c].balance + d /\ r.sent = card[c].sent
  <2>1. card[c].balance + d >= -MaxBalance
    <3>1. card[c] \in Row
      BY DEF TypeOK, Issued
    <3>2. card[c].balance + d \in Int
      BY <3>1, RowIsNotNull
    <3>3. QED
      BY <3>2
  <2>2. QED
    BY <2>1, PostToEffect, WithBalanceType
<1> HIDE DEF r
<1>2. r # NoCard /\ card[c].balance \in Int
  BY <1>1, RowIsNotNull
<1>3. \A b \in Cards : b # c =>
          /\ card'[b] = card[b] /\ posted'[b] = posted[b]
          /\ (Issued(b)' <=> Issued(b))
  BY <1>1 DEF TypeOK, Issued
<1>4. card'[c] = r /\ posted'[c] = posted[c] + d
  BY <1>1 DEF TypeOK
<1>5. BalanceNeverNegative'
  BY <1>1, <1>3, <1>4 DEF CardInv, BalanceNeverNegative
<1>6. SentWasDelivered'
  BY <1>1, <1>3, <1>4 DEF CardInv, SentWasDelivered
<1>7. DriftOnlyByStaleUpdate'
  <2>1. card[c].balance = posted[c] => r.balance = posted[c] + d
    BY <1>1
  <2>2. QED
    BY <2>1, <1>3, <1>4 DEF CardInv, DriftOnlyByStaleUpdate
<1>8. Carried'
  BY DEF CardInv, Carried
<1>9. QED
  BY <1>5, <1>6, <1>7, <1>8 DEF CardInv

\* However requests interleave, no balance is ever negative, only a card whose
\* mail was accepted is marked as sent, and a balance differs from its ledger
\* only where a generic update saved an outdated one.
THEOREM CardInvariant ==
    Spec => [](BalanceNeverNegative /\ SentWasDelivered /\ DriftOnlyByStaleUpdate)
<1>1. Init => CardInv
  BY DEF Init, CardInv, BalanceNeverNegative, SentWasDelivered,
         DriftOnlyByStaleUpdate, Carried, Issued, Idle
<1>2. TypeOK /\ Fetched /\ CardInv /\ [Next]_vars => CardInv'
  <2> SUFFICES ASSUME TypeOK, Fetched, CardInv, [Next]_vars
               PROVE  CardInv'
    OBVIOUS
  <2>1. CASE Tick
    BY <2>1 DEF Tick, CardInv, BalanceNeverNegative, SentWasDelivered,
                DriftOnlyByStaleUpdate, Carried, Issued, ledgerVars
  <2>2. ASSUME NEW w \in Workers, Deliver(w) \/ DeliverFails(w)
        PROVE  CardInv'
    <3>1. /\ UNCHANGED <<card, posted, staleWrites>>
          /\ delivered \subseteq delivered'
          /\ request[w].op = "send"
      BY <2>2 DEF Deliver, DeliverFails, ledgerVars
    <3>2. BalanceNeverNegative' /\ SentWasDelivered' /\ DriftOnlyByStaleUpdate'
      BY <3>1 DEF CardInv, BalanceNeverNegative, SentWasDelivered,
                  DriftOnlyByStaleUpdate, Issued
    <3>3. Carried'
      BY <2>2, <3>1 DEF Deliver, DeliverFails, CardInv, Carried, TypeOK, Idle
    <3>4. QED
      BY <3>2, <3>3 DEF CardInv
  <2>3. ASSUME NEW w \in Workers, NEW c \in Cards, NEW r \in Row,
               card' = [card EXCEPT ![c] = r], r.balance >= 0,
               r.sent => c \in delivered,
               c \notin staleWrites' => r.balance = card[c].balance,
               staleWrites \subseteq staleWrites', Issued(c),
               request' = [request EXCEPT ![w] = Idle],
               UNCHANGED <<posted, delivered>>
        PROVE  CardInv'
    <3>1. BalanceNeverNegative' /\ SentWasDelivered' /\ DriftOnlyByStaleUpdate'
      BY <2>3 DEF CardInv, BalanceNeverNegative, SentWasDelivered,
                  DriftOnlyByStaleUpdate, Issued, TypeOK
    <3>2. Carried'
      BY <2>3 DEF CardInv, Carried, TypeOK, Idle
    <3>3. QED
      BY <3>1, <3>2 DEF CardInv
  <2>4. ASSUME NEW w \in Workers, FinishSend(w)
        PROVE  CardInv'
    <3> DEFINE c == request[w].card
               r == SentRow(card[c])
    <3>1. c \in Cards /\ Issued(c) /\ card[c] \in Row /\ c \in delivered
      BY <2>4 DEF FinishSend, AfterDelivery, Fetched, Issued, TypeOK, CardInv,
                  Carried
    <3>2. r \in Row /\ r.balance = card[c].balance
      BY <3>1, SentRowType
    <3>3. r.balance >= 0
      BY <3>1, <3>2 DEF CardInv, BalanceNeverNegative
    <3>4. /\ card' = [card EXCEPT ![c] = r]
          /\ request' = [request EXCEPT ![w] = Idle]
          /\ UNCHANGED <<posted, delivered, staleWrites>>
      BY <2>4 DEF FinishSend, SentRow, ledgerVars
    <3> HIDE DEF r, c
    <3>5. QED
      BY <2>3, <3>1, <3>2, <3>3, <3>4
  <2>5. ASSUME NEW w \in Workers, NEW active \in BOOLEAN, NEW e \in Dates,
               NEW addressed \in BOOLEAN, FinishUpdate(w, active, e, addressed)
        PROVE  CardInv'
    <3> DEFINE c == request[w].card
               f == request[w].row
               r == UpdatedRow(f, active, e, addressed, f.sent)
    <3>1. /\ c \in Cards /\ Issued(c) /\ f \in Row
          /\ f.balance >= 0 /\ (f.sent => c \in delivered)
      BY <2>5 DEF FinishUpdate, Fetched, CardInv, Carried
    <3>2. r \in Row /\ r.balance = f.balance /\ r.sent = f.sent
      <4>1. f.sent \in BOOLEAN
        BY <3>1 DEF Row
      <4>2. QED
        BY <3>1, <4>1, UpdatedRowType
    <3>3. /\ card' = [card EXCEPT ![c] = r]
          /\ request' = [request EXCEPT ![w] = Idle]
          /\ staleWrites \subseteq staleWrites'
          /\ c \notin staleWrites' => f.balance = card[c].balance
          /\ UNCHANGED <<posted, delivered>>
      BY <2>5 DEF FinishUpdate, ledgerVars
    <3> HIDE DEF r, f, c
    <3>4. QED
      BY <2>3, <3>1, <3>2, <3>3
  <2>6. ASSUME NEW w \in Workers, NEW c \in Cards, NEW op \in {"update", "send"},
               Begin(w, op, c)
        PROVE  CardInv'
    <3>1. /\ UNCHANGED <<card, posted, delivered, staleWrites>>
          /\ Issued(c)
          /\ request' = [request EXCEPT
                ![w] = [op |-> op, card |-> c, row |-> card[c]]]
      BY <2>6 DEF Begin, ledgerVars
    <3>2. BalanceNeverNegative' /\ SentWasDelivered' /\ DriftOnlyByStaleUpdate'
      BY <3>1 DEF CardInv, BalanceNeverNegative, SentWasDelivered,
                  DriftOnlyByStaleUpdate, Issued
    <3>3. card[c].balance >= 0 /\ (card[c].sent => c \in delivered)
      BY <3>1 DEF CardInv, BalanceNeverNegative, SentWasDelivered
    <3>4. Carried'
      BY <3>1, <3>3 DEF CardInv, Carried, TypeOK
    <3>5. QED
      BY <3>2, <3>4 DEF CardInv
  <2>7. ASSUME NEW w \in Workers, NEW c \in Cards, NEW p \in Amounts,
               Reload(w, c, p)
        PROVE  CardInv'
    <3>1. Issued(c) /\ card[c] \in Row /\ card[c].balance >= 0
      BY <2>7 DEF Reload, TypeOK, Issued, CardInv, BalanceNeverNegative
    <3>2. card[c].balance + p >= 0 /\ p \in Int
      BY <3>1, RowIsNotNull
    <3>3. QED
      BY <2>7, <3>1, <3>2, PostToKeeps DEF Reload
  <2>8. ASSUME NEW w \in Workers, NEW c \in Cards, NEW p \in Amounts,
               Redeem(w, c, p)
        PROVE  CardInv'
    <3>1. Issued(c) /\ card[c] \in Row /\ p <= card[c].balance
      BY <2>8 DEF Redeem, Redeemable, TypeOK, Issued
    <3>2. card[c].balance + (-p) >= 0 /\ -p \in Int
      <4>1. p \in Int
        OBVIOUS
      <4>2. card[c].balance \in Int
        BY <3>1, RowIsNotNull
      <4>3. QED
        BY <3>1, <4>1, <4>2
    <3>3. QED
      BY <2>8, <3>1, <3>2, PostToKeeps DEF Redeem
  <2>9. ASSUME NEW w \in Workers, NEW c \in Cards, NEW b \in Amounts,
               NEW e \in Dates, NEW addressed \in BOOLEAN,
               CreateCard(w, c, b, e, addressed)
        PROVE  CardInv'
    <3>1. NewCard(b, e, addressed).balance = b /\ ~ NewCard(b, e, addressed).sent
      BY DEF NewCard
    <3>2. b >= 0
      OBVIOUS
    <3>3. /\ card' = [card EXCEPT ![c] = NewCard(b, e, addressed)]
          /\ posted' = [posted EXCEPT ![c] = b]
          /\ UNCHANGED <<request, delivered, staleWrites>>
      BY <2>9 DEF CreateCard
    <3>4. BalanceNeverNegative' /\ SentWasDelivered' /\ DriftOnlyByStaleUpdate'
      BY <3>1, <3>2, <3>3 DEF CardInv, BalanceNeverNegative, SentWasDelivered,
                              DriftOnlyByStaleUpdate, Issued, TypeOK
    <3>5. Carried'
      BY <3>3 DEF CardInv, Carried
    <3>6. QED
      BY <3>4, <3>5 DEF CardInv
  <2>10. CASE UNCHANGED vars
    BY <2>10 DEF vars, CardInv, BalanceNeverNegative, SentWasDelivered,
                 DriftOnlyByStaleUpdate, Carried, Issued
  <2>11. QED
    BY <2>1, <2>2, <2>4, <2>5, <2>6, <2>7, <2>8, <2>9, <2>10 DEF Next
<1>3. CardInv =>
        BalanceNeverNegative /\ SentWasDelivered /\ DriftOnlyByStaleUpdate
  BY DEF CardInv
<1>4. QED
  BY <1>1, <1>2, <1>3, TypesAndRows, PTL DEF Spec

HIDE DEF Reconciled

(***************************************************************************)
(* Refinement.  A card is never deleted, so only one that exists can have  *)
(* been overwritten by a stale update.                                     *)
(***************************************************************************)

StaleIsIssued == \A c \in staleWrites : Issued(c)

\* A card that has not been sold yet is not stale.
LEMMA OnlyIssuedIsStale == Spec => []StaleIsIssued
<1>1. Init => StaleIsIssued
  BY DEF Init, StaleIsIssued
<1>2. TypeOK /\ Fetched /\ StaleIsIssued /\ [Next]_vars
      => StaleIsIssued'
  <2> SUFFICES ASSUME TypeOK, Fetched, StaleIsIssued, [Next]_vars
               PROVE  StaleIsIssued'
    OBVIOUS
  <2>1. ASSUME NEW c \in Cards, NEW r \in Row, card' = [card EXCEPT ![c] = r],
               staleWrites' \subseteq staleWrites \cup {c}
        PROVE  StaleIsIssued'
    BY <2>1, RowIsNotNull DEF StaleIsIssued, Issued, TypeOK
  <2>2. ASSUME UNCHANGED <<card, staleWrites>>
        PROVE  StaleIsIssued'
    BY <2>2 DEF StaleIsIssued, Issued
  <2>3. CASE Tick \/ UNCHANGED vars
    BY <2>2, <2>3 DEF Tick, vars
  <2>4. ASSUME NEW w \in Workers, Deliver(w) \/ DeliverFails(w)
        PROVE  StaleIsIssued'
    BY <2>2, <2>4 DEF Deliver, DeliverFails
  <2>5. ASSUME NEW w \in Workers, FinishSend(w)
        PROVE  StaleIsIssued'
    <3> DEFINE c == request[w].card
    <3>1. c \in Cards /\ card[c] \in Row
      BY <2>5 DEF FinishSend, AfterDelivery, Fetched, Issued, TypeOK
    <3>2. SentRow(card[c]) \in Row
      BY <3>1, SentRowType
    <3>3. card' = [card EXCEPT ![c] = SentRow(card[c])] /\ staleWrites' = staleWrites
      BY <2>5 DEF FinishSend, SentRow
    <3> HIDE DEF c
    <3>4. QED
      BY <2>1, <3>1, <3>2, <3>3
  <2>6. ASSUME NEW w \in Workers, NEW active \in BOOLEAN, NEW e \in Dates,
               NEW addressed \in BOOLEAN, FinishUpdate(w, active, e, addressed)
        PROVE  StaleIsIssued'
    <3> DEFINE c == request[w].card
               f == request[w].row
               r == UpdatedRow(f, active, e, addressed, f.sent)
    <3>1. c \in Cards /\ f \in Row /\ f.sent \in BOOLEAN
      BY <2>6 DEF FinishUpdate, Fetched, Row
    <3>2. r \in Row
      BY <3>1, UpdatedRowType
    <3>3. card' = [card EXCEPT ![c] = r] /\ staleWrites' \subseteq staleWrites \cup {c}
      BY <2>6 DEF FinishUpdate
    <3> HIDE DEF r, f, c
    <3>4. QED
      BY <2>1, <3>1, <3>2, <3>3
  <2>7. ASSUME NEW w \in Workers, NEW c \in Cards, NEW op \in {"update", "send"},
               Begin(w, op, c)
        PROVE  StaleIsIssued'
    BY <2>2, <2>7 DEF Begin
  <2>8. ASSUME NEW c \in Cards, NEW d \in Int, Issued(c), PostTo(c, d),
               card[c].balance + d >= -MaxBalance, staleWrites' = staleWrites
        PROVE  StaleIsIssued'
    <3>1. WithBalance(card[c], card[c].balance + d) \in Row
      BY <2>8, PostToEffect, WithBalanceType
    <3>2. card' = [card EXCEPT ![c] = WithBalance(card[c], card[c].balance + d)]
      BY <2>8, PostToEffect
    <3>3. QED
      BY <2>1, <2>8, <3>1, <3>2
  <2>9. ASSUME NEW w \in Workers, NEW c \in Cards, NEW p \in Amounts,
               Reload(w, c, p) \/ Redeem(w, c, p)
        PROVE  StaleIsIssued'
    <3>1. Issued(c) /\ staleWrites' = staleWrites
      BY <2>9 DEF Reload, Redeem
    <3>2. card[c].balance \in Int /\ -MaxBalance <= card[c].balance /\ p \in Nat
      <4>1. card[c] \in Row
        BY <3>1 DEF TypeOK, Issued
      <4>2. p \in Nat
        OBVIOUS
      <4>3. QED
        BY <4>1, <4>2, RowIsNotNull
    <3>3. CASE Reload(w, c, p)
      BY <2>8, <3>1, <3>2, <3>3 DEF Reload
    <3>4. CASE Redeem(w, c, p)
      <4>1. card[c].balance + (-p) >= -MaxBalance /\ PostTo(c, -p) /\ -p \in Int
        BY <3>2, <3>4 DEF Redeem, Redeemable
      <4>2. QED
        BY <2>8, <3>1, <4>1
    <3>5. QED
      BY <2>9, <3>3, <3>4
  <2>10. ASSUME NEW w \in Workers, NEW c \in Cards, NEW b \in Amounts,
                NEW e \in Dates, NEW addressed \in BOOLEAN,
                CreateCard(w, c, b, e, addressed)
         PROVE  StaleIsIssued'
    <3>1. NewCard(b, e, addressed) \in Row
      <4>1. b \in -MaxBalance..MaxBalance
        OBVIOUS
      <4>2. QED
        BY <4>1 DEF NewCard, Row
    <3>2. QED
      BY <2>1, <2>10, <3>1 DEF CreateCard
  <2>11. QED
    BY <2>3, <2>4, <2>5, <2>6, <2>7, <2>9, <2>10 DEF Next
<1>3. QED
  BY <1>1, <1>2, TypesAndRows, PTL DEF Spec

\* What the abstract account sees of a card.
View(c) == IF Reconciled(c)
             THEN [opening |-> 0, balance |-> card[c].balance,
                   posted |-> posted[c]]
             ELSE NoCard

\* A view of a card is not taken for a missing account.
LEMMA ViewIsNotNull ==
    ASSUME NEW b \in Int, NEW q \in Int
    PROVE  [opening |-> 0, balance |-> b, posted |-> q] # NoCard
<1>1. [opening |-> 0, balance |-> b, posted |-> q]
         \in [opening : Nat, balance : Int, posted : Int]
  OBVIOUS
<1>2. QED
  BY <1>1

\* A reload or a redemption of a reconciled card is a posting to the abstract
\* account.
LEMMA PostToPosts ==
    ASSUME TypeOK, NEW c \in Cards, Reconciled(c),
           NEW d \in Int, d \in Amounts \cup {-p : p \in Amounts},
           card[c].balance + d >= 0, PostTo(c, d), staleWrites' = staleWrites
    PROVE  Ledger!Post(c, d)
<1> USE DEF Reconciled
<1> DEFINE r == WithBalance(card[c], card[c].balance + d)
<1>1. /\ card[c] \in Row /\ card[c].balance \in Int
      /\ card' = [card EXCEPT ![c] = r]
      /\ posted' = [posted EXCEPT ![c] = posted[c] + d]
      /\ r \in Row /\ r # NoCard /\ r.balance = card[c].balance + d
  <2>1. card[c] \in Row /\ card[c].balance \in Int
    <3>1. card[c] \in Row
      BY DEF TypeOK, Issued
    <3>2. QED
      BY <3>1, RowIsNotNull
  <2>2. card[c].balance + d >= -MaxBalance
    BY <2>1
  <2>3. QED
    BY <2>1, <2>2, PostToEffect, WithBalanceType, RowIsNotNull
<1> HIDE DEF r
<1>2. View(c) = [opening |-> 0, balance |-> card[c].balance, posted |-> posted[c]]
  BY DEF View
<1>3. ASSUME NEW b \in Cards
      PROVE  View(b)' = IF b = c THEN Ledger!Posted(View(c), d) ELSE View(b)
  <2>1. CASE b = c
    <3>1. card'[c] = r /\ posted'[c] = posted[c] + d
      BY <1>1 DEF TypeOK
    <3>2. QED
      BY <1>1, <1>2, <2>1, <3>1 DEF View, Issued, Ledger!Posted
  <2>2. CASE b # c
    BY <1>1, <2>2 DEF View, Issued, TypeOK
  <2>3. QED
    BY <2>1, <2>2
<1>4. View(c) # NoCard /\ View(c).balance + d >= 0
  <2>1. posted[c] \in Int
    BY DEF TypeOK
  <2>2. QED
    BY <1>1, <1>2, <2>1, ViewIsNotNull
<1>5. QED
  BY <1>3, <1>4 DEF Ledger!Post, Ledger!Posted, View

\* A change to a card that is stale afterwards closes the abstract account or
\* leaves it closed.
LEMMA ClosedOrUnchanged ==
    ASSUME NEW c \in Cards, c \in staleWrites',
           \A b \in Cards : b # c => card'[b] = card[b] /\ posted'[b] = posted[b],
           \A b \in Cards : b # c => (b \in staleWrites' <=> b \in staleWrites)
    PROVE  [Ledger!Next]_([b \in Cards |-> View(b)])
<1> USE DEF Reconciled, Issued
<1>1. \A b \in Cards : View(b)' = IF b = c THEN NoCard ELSE View(b)
  BY DEF View
<1>2. CASE View(c) = NoCard
  BY <1>1, <1>2
<1>3. CASE View(c) # NoCard
  <2>1. [b \in Cards |-> View(b)]' = [[b \in Cards |-> View(b)] EXCEPT ![c] = NoCard]
    BY <1>1
  <2>2. Ledger!Close(c)
    BY <1>3, <2>1 DEF Ledger!Close, View
  <2>3. QED
    BY <2>2 DEF Ledger!Next
<1>4. QED
  BY <1>2, <1>3

\* Gift cards implement the abstract account: selling a card opens it and
\* posts to it, reload and redeem post to it, overwriting a balance that has
\* changed closes it, and neither another update nor a send touches it.
THEOREM CardsKeepLedger == Spec => KeepsLedger
<1>1. Init => Ledger!Init
  BY DEF Init, Ledger!Init, Issued, Reconciled
<1>2. /\ TypeOK /\ Fetched /\ BalanceNeverNegative /\ StaleIsIssued
      /\ [Next]_vars
      => [Ledger!Next]_([c \in Cards |-> View(c)])
  <2> SUFFICES ASSUME TypeOK, Fetched, BalanceNeverNegative, StaleIsIssued,
                      [Next]_vars
               PROVE  [Ledger!Next]_([c \in Cards |-> View(c)])
    OBVIOUS
  <2>1. ASSUME NEW c \in Cards, NEW d \in Int,
               d \in Amounts \cup {-p : p \in Amounts}, Issued(c),
               card[c].balance + d >= 0, PostTo(c, d), staleWrites' = staleWrites
        PROVE  [Ledger!Next]_([b \in Cards |-> View(b)])
    <3>1. CASE Reconciled(c)
      <4>1. Ledger!Post(c, d)
        BY <2>1, <3>1, PostToPosts
      <4>2. QED
        BY <2>1, <4>1 DEF Ledger!Next
    <3>2. CASE ~ Reconciled(c)
      <4>1. c \in staleWrites'
        BY <2>1, <3>2 DEF Reconciled
      <4>2. \A b \in Cards : b # c => card'[b] = card[b] /\ posted'[b] = posted[b]
        BY <2>1 DEF PostTo, TypeOK
      <4>3. QED
        BY <2>1, <4>1, <4>2, ClosedOrUnchanged
    <3>3. QED
      BY <3>1, <3>2
  <2>2. ASSUME NEW w \in Workers, NEW c \in Cards, NEW p \in Amounts,
               Reload(w, c, p)
        PROVE  [Ledger!Next]_([b \in Cards |-> View(b)])
    <3>1. /\ Issued(c) /\ p \in Int /\ PostTo(c, p) /\ staleWrites' = staleWrites
          /\ p \in Amounts \cup {-q : q \in Amounts}
      BY <2>2 DEF Reload
    <3>2. card[c] \in Row /\ card[c].balance >= 0
      BY <3>1 DEF TypeOK, Issued, BalanceNeverNegative
    <3>3. card[c].balance + p >= 0
      BY <3>2, RowIsNotNull
    <3>4. QED
      BY <2>1, <3>1, <3>3
  <2>3. ASSUME NEW w \in Workers, NEW c \in Cards, NEW p \in Amounts,
               Redeem(w, c, p)
        PROVE  [Ledger!Next]_([b \in Cards |-> View(b)])
    <3>1. /\ Issued(c) /\ p \in Int /\ -p \in Int /\ PostTo(c, -p) /\ staleWrites' = staleWrites
          /\ -p \in Amounts \cup {-q : q \in Amounts}
          /\ p <= card[c].balance
      BY <2>3 DEF Redeem, Redeemable
    <3>2. card[c] \in Row
      BY <3>1 DEF TypeOK, Issued
    <3>3. card[c].balance + (-p) >= 0
      BY <3>1, <3>2, RowIsNotNull
    <3>4. QED
      BY <2>1, <3>1, <3>3
  <2>4. ASSUME NEW w \in Workers, NEW c \in Cards, NEW b \in Amounts,
               NEW e \in Dates, NEW addressed \in BOOLEAN,
               CreateCard(w, c, b, e, addressed)
        PROVE  Ledger!Next
    <3>1. NewCard(b, e, addressed) \in Row
      <4>1. b \in -MaxBalance..MaxBalance
        OBVIOUS
      <4>2. QED
        BY <4>1 DEF NewCard, Row
    <3>2. NewCard(b, e, addressed) # NoCard
      BY <3>1, RowIsNotNull
    <3>3. NewCard(b, e, addressed).balance = b
      BY DEF NewCard
    <3>4. /\ card[c] = NoCard
          /\ card' = [card EXCEPT ![c] = NewCard(b, e, addressed)]
          /\ posted' = [posted EXCEPT ![c] = b]
          /\ staleWrites' = staleWrites
          /\ c \notin staleWrites
      BY <2>4 DEF CreateCard, StaleIsIssued, Issued
    <3>5. b \in Nat
      OBVIOUS
    <3>6. ASSUME NEW a \in Cards
          PROVE  View(a)' = IF a = c THEN Ledger!Posted(Ledger!Opened(0), b)
                            ELSE View(a)
      <4>1. CASE a = c
        <5>1. card'[c] = NewCard(b, e, addressed) /\ posted'[c] = b
          BY <3>4 DEF TypeOK
        <5>2. View(c)' = [opening |-> 0, balance |-> b, posted |-> b]
          BY <3>2, <3>3, <3>4, <5>1 DEF View, Reconciled, Issued
        <5>3. QED
          BY <3>5, <4>1, <5>2 DEF Ledger!Posted, Ledger!Opened
      <4>2. CASE a # c
        BY <3>4, <4>2 DEF View, Reconciled, Issued, TypeOK
      <4>3. QED
        BY <4>1, <4>2
    <3>7. View(c) = NoCard
      BY <3>4 DEF View, Reconciled, Issued
    <3>8. Ledger!OpenAndPost(c, 0, b)
      <4>1. [a \in Cards |-> View(a)]' =
              [[a \in Cards |-> View(a)] EXCEPT
                 ![c] = Ledger!Posted(Ledger!Opened(0), b)]
        BY <3>6
      <4>2. 0 + b >= 0 /\ [a \in Cards |-> View(a)][c] = NoCard
        BY <3>5, <3>7
      <4>3. QED
        BY <4>1, <4>2 DEF Ledger!OpenAndPost, View
    <3>9. QED
      BY <3>8 DEF Ledger!Next
  <2>5. ASSUME NEW w \in Workers, NEW c \in Cards, NEW r \in Row,
               card' = [card EXCEPT ![c] = r], r.balance = card[c].balance,
               Issued(c), posted' = posted, staleWrites' = staleWrites
        PROVE  \A b \in Cards : View(b)' = View(b)
    BY <2>5, RowIsNotNull DEF View, Reconciled, Issued, TypeOK
  <2>6. ASSUME NEW w \in Workers, FinishSend(w)
        PROVE  \A b \in Cards : View(b)' = View(b)
    <3> DEFINE c == request[w].card
               r == SentRow(card[c])
    <3>1. c \in Cards /\ Issued(c) /\ card[c] \in Row
      BY <2>6 DEF FinishSend, AfterDelivery, Fetched, Issued, TypeOK
    <3>2. r \in Row /\ r.balance = card[c].balance
      BY <3>1, SentRowType
    <3>3. /\ card' = [card EXCEPT ![c] = r]
          /\ posted' = posted /\ staleWrites' = staleWrites
      BY <2>6 DEF FinishSend, SentRow, ledgerVars
    <3> HIDE DEF r, c
    <3>4. QED
      BY <2>5, <3>1, <3>2, <3>3
  <2>7. ASSUME NEW w \in Workers, NEW active \in BOOLEAN, NEW e \in Dates,
               NEW addressed \in BOOLEAN, FinishUpdate(w, active, e, addressed)
        PROVE  [Ledger!Next]_([b \in Cards |-> View(b)])
    <3> DEFINE c == request[w].card
               f == request[w].row
               r == UpdatedRow(f, active, e, addressed, f.sent)
    <3>1. c \in Cards /\ Issued(c) /\ f \in Row /\ f.sent \in BOOLEAN
      BY <2>7 DEF FinishUpdate, Fetched, Row
    <3>2. r \in Row /\ r.balance = f.balance
      BY <3>1, UpdatedRowType
    <3>3. /\ card' = [card EXCEPT ![c] = r] /\ posted' = posted
          /\ staleWrites' = IF card[c].balance # f.balance
                              THEN staleWrites \cup {c} ELSE staleWrites
      BY <2>7 DEF FinishUpdate, ledgerVars
    <3> HIDE DEF r, f, c
    <3>4. CASE card[c].balance = f.balance
      BY <2>5, <3>1, <3>2, <3>3, <3>4
    <3>5. CASE card[c].balance # f.balance
      BY <3>1, <3>3, <3>5, ClosedOrUnchanged DEF TypeOK
    <3>6. QED
      BY <3>4, <3>5
  <2>8. ASSUME \/ Tick \/ UNCHANGED vars
               \/ \E w \in Workers : Deliver(w) \/ DeliverFails(w)
               \/ \E w \in Workers, c \in Cards, op \in {"update", "send"} :
                     Begin(w, op, c)
        PROVE  \A b \in Cards : View(b)' = View(b)
    <3>1. card' = card /\ posted' = posted /\ staleWrites' = staleWrites
      BY <2>8 DEF Tick, vars, Deliver, DeliverFails, Begin, ledgerVars
    <3>2. QED
      BY <3>1 DEF View, Reconciled, Issued
  <2>9. QED
    BY <2>2, <2>3, <2>4, <2>6, <2>7, <2>8 DEF Next
<1>3. QED
  BY <1>1, <1>2, TypesAndRows, OnlyIssuedIsStale, CardInvariant, PTL
  DEF Spec, KeepsLedger, Ledger!Spec, View, Reconciled
=============================================================================

----------------------------- MODULE Inventory -----------------------------
(***************************************************************************)
(* Stock levels and the ledger of their changes (inventory/services.py and *)
(* the generic item endpoints of inventory/views.py).                      *)
(*                                                                         *)
(* adjust_stock locks the item and is one atomic action.  The generic PUT  *)
(* and PATCH of an item fetch the whole row, assign the validated fields   *)
(* and save every column: two actions, and the quantity that is saved is   *)
(* the quantity that was fetched.                                          *)
(***************************************************************************)
EXTENDS Integers

CONSTANTS
    Items,          \* primary keys of inventory items
    Workers,        \* web workers, each serving one request at a time
    Quantities,     \* starting balances a request may create an item with
    Deltas,         \* changes a request may ask adjust_stock for
    MaxQuantity,    \* the largest value of the numeric(12, 3) column
    MaxEntries,     \* bound: ledger entries per item
    NoItem          \* no row

ASSUME QuantitiesAssumption == MaxQuantity \in Nat /\ Quantities \subseteq 0..MaxQuantity
ASSUME DeltasAssumption == Deltas \subseteq Int \ {0}
ASSUME MaxEntriesAssumption == MaxEntries \in Nat
ASSUME NoItemAssumption ==
    /\ NoItem \notin Items \cup Int
    /\ NoItem \notin [opening : Nat, balance : Int, posted : Int]

VARIABLES
    quantity,       \* InventoryItem.current_quantity, or NoItem for no row
    opening,        \* history: the balance the row was created with
    posted,         \* the sum of the item's InventoryTransaction rows
    entries,        \* how many of them there are
    request,        \* the row each worker has fetched for an update
    used,           \* primary keys that have been given out
    staleWrites     \* history: items saved with an outdated quantity

ledgerVars == <<opening, posted, entries>>
vars == <<quantity, opening, posted, entries, request, used, staleWrites>>

Column == -MaxQuantity..MaxQuantity
Idle == [item |-> NoItem, quantity |-> 0]
Exists(i) == quantity[i] # NoItem

TypeOK ==
    /\ quantity \in [Items -> Column \cup {NoItem}]
    /\ opening \in [Items -> Nat]
    /\ posted \in [Items -> Int]
    /\ entries \in [Items -> Nat]
    /\ request \in [Workers -> [item : Items \cup {NoItem},
                                quantity : Column]]
    /\ used \subseteq Items
    /\ staleWrites \subseteq Items

Init ==
    /\ quantity = [i \in Items |-> NoItem]
    /\ opening = [i \in Items |-> 0]
    /\ posted = [i \in Items |-> 0]
    /\ entries = [i \in Items |-> 0]
    /\ request = [w \in Workers |-> Idle]
    /\ used = {}
    /\ staleWrites = {}

\* POST: the starting balance is no ledger entry.
CreateItem(w, i, q) ==
    /\ request[w] = Idle
    /\ i \notin used
    /\ quantity' = [quantity EXCEPT ![i] = q]
    /\ opening' = [opening EXCEPT ![i] = q]
    /\ used' = used \cup {i}
    /\ UNCHANGED <<posted, entries, request, staleWrites>>

\* DELETE: the foreign key cascades, the ledger of the item goes with it.
DestroyItem(w, i) ==
    /\ request[w] = Idle
    /\ Exists(i)
    /\ quantity' = [quantity EXCEPT ![i] = NoItem]
    /\ opening' = [opening EXCEPT ![i] = 0]
    /\ posted' = [posted EXCEPT ![i] = 0]
    /\ entries' = [entries EXCEPT ![i] = 0]
    /\ UNCHANGED <<request, used, staleWrites>>

NewQuantity(i, d) == quantity[i] + d
Sufficient(i, d) == quantity[i] + d >= 0

ColumnHolds(i, d) == NewQuantity(i, d) <= MaxQuantity

\* adjust_stock, as a whole: an insufficient stock raises and rolls back, and
\* so does a quantity the column cannot hold.
AdjustStock(w, i, d) ==
    /\ request[w] = Idle
    /\ Exists(i)
    /\ Sufficient(i, d)
    /\ ColumnHolds(i, d)
    /\ entries[i] < MaxEntries
    /\ quantity' = [quantity EXCEPT ![i] = NewQuantity(i, d)]
    /\ posted' = [posted EXCEPT ![i] = @ + d]
    /\ entries' = [entries EXCEPT ![i] = @ + 1]
    /\ UNCHANGED <<opening, request, used, staleWrites>>

\* PUT or PATCH, first half: get_object reads the row.
BeginUpdate(w, i) ==
    /\ request[w] = Idle
    /\ Exists(i)
    /\ request' = [request EXCEPT ![w] = [item |-> i, quantity |-> quantity[i]]]
    /\ UNCHANGED <<quantity, ledgerVars, used, staleWrites>>

WritableQuantity(r) == MaxQuantity - r.quantity   \* faulty variant: a field like any other

UpdatedQuantity(r) == r.quantity

\* Second half: serializer.save() writes every column.  Model.save updates
\* the row by primary key and, when no row was there to update, inserts it.
FinishUpdate(w) ==
    LET r == request[w]
        i == r.item
    IN  /\ i # NoItem
        /\ quantity' = [quantity EXCEPT ![i] = UpdatedQuantity(r)]
        /\ staleWrites' = IF quantity[i] # r.quantity THEN staleWrites \cup {i}
                                                      ELSE staleWrites
        /\ request' = [request EXCEPT ![w] = Idle]
        /\ UNCHANGED <<ledgerVars, used>>

Next == \E w \in Workers :
    \/ FinishUpdate(w)
    \/ \E i \in Items :
          \/ DestroyItem(w, i)
          \/ BeginUpdate(w, i)
          \/ \E q \in Quantities : CreateItem(w, i, q)
          \/ \E d \in Deltas : AdjustStock(w, i, d)

Spec == Init /\ [][Next]_vars

(***************************************************************************)
(* Properties.                                                             *)
(***************************************************************************)

\* Stock is never negative, whichever updates are lost: every quantity that
\* is ever written was checked or fetched as a nonnegative one.
NeverNegative ==
    /\ \A i \in Items : Exists(i) => quantity[i] >= 0
    /\ \A w \in Workers : request[w].quantity >= 0

\* An item whose quantity the ledger vouches for.
Reconciled(i) == Exists(i) /\ i \notin staleWrites

\* The stored quantity and the ledger disagree only where a generic update
\* saved a quantity it had fetched before somebody else changed it.
DriftOnlyByStaleUpdate ==
    \A i \in Items :
        Reconciled(i) => quantity[i] = opening[i] + posted[i]

\* The stock and its ledger as an abstract account, which ends when a stale
\* update overwrites the quantity.
Stock == INSTANCE LedgerAccount WITH
    Accounts <- Items,
    Openings <- Quantities,
    Changes <- Deltas,
    NoAccount <- NoItem,
    account <- [i \in Items |->
                  IF Reconciled(i)
                    THEN [opening |-> opening[i], balance |-> quantity[i],
                          posted |-> posted[i]]
                    ELSE NoItem]

\* Until then items implement the abstract account: adjust_stock alone moves
\* the quantity, always together with a ledger entry and never below zero.
KeepsLedger == Stock!Spec
=============================================================================

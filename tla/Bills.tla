-------------------------------- MODULE Bills --------------------------------
(***************************************************************************)
(* Vendors' bills and the payments made on them (finance/services.py,      *)
(* finance/tasks.py and BillViewSet).  The code says throughout that a     *)
(* bill mirrors an invoice exactly; this module is translated from the     *)
(* bill's own code and shown to implement Invoicing, so that all that      *)
(* holds of an invoice in every interleaving holds of a bill.              *)
(*                                                                         *)
(* A payment locks the bill: one step.  The other services check the bill  *)
(* their view has fetched and write later, two steps.                      *)
(***************************************************************************)
EXTENDS Integers, FiniteSetsExt

CONSTANTS
    Bills,        \* primary keys of bill rows
    Payments,     \* primary keys of bill payment rows
    NoBill,       \* a payment of no bill
    BillWorkers,  \* web workers, each serving one request at a time
    BillTotals,   \* what lines, discount and tax can add up to, see Billing
    BillAmounts   \* amounts a request may ask to pay

ASSUME AmountAssumption == BillTotals \subseteq Nat /\ BillAmounts \subseteq Nat \ {0}
ASSUME NoBillAssumption == NoBill \notin Bills
ASSUME PaymentsAssumption == IsFiniteSet(Payments)

VARIABLES
    bills,        \* the Bill rows
    payments,     \* the BillPayment rows; a deleted one is known by its amount
    billRequest,  \* what each worker is in the middle of
    lateEdits,    \* history: bills whose total changed after draft
    lateSaves     \* history: bills received or cancelled on an outdated check

billsVars == <<bills, payments, billRequest, lateEdits, lateSaves>>

NoBillRow == {"absent", "deleted"}
Bill == [status : {"draft", "received", "paid", "overdue", "cancelled"} \cup NoBillRow,
         total : Nat, pastDue : BOOLEAN]
Unpaid == [bill |-> NoBill, amount |-> 0]
BillIdle == [op |-> "idle", bill |-> NoBill]

BillExists(b) == bills[b].status \notin NoBillRow
PaymentsOf(b) == {p \in Payments : payments[p].bill = b}
PaidTotal(b) == MapThenSumSet(LAMBDA p : payments[p].amount, PaymentsOf(b))

BillsTypeOK ==
    /\ bills \in [Bills -> Bill]
    /\ payments \in [Payments -> [bill : Bills \cup {NoBill}, amount : Nat]]
    /\ billRequest \in [BillWorkers -> [op : {"idle", "receive", "cancel", "edit"},
                                    bill : Bills \cup {NoBill}]]
    /\ lateEdits \subseteq Bills /\ lateSaves \subseteq Bills

BillsInit ==
    /\ bills = [b \in Bills |-> [status |-> "absent", total |-> 0, pastDue |-> FALSE]]
    /\ payments = [p \in Payments |-> Unpaid]
    /\ billRequest = [w \in BillWorkers |-> BillIdle]
    /\ lateEdits = {} /\ lateSaves = {}

(***************************************************************************)
(* Creating, deleting, receiving, cancelling and editing.                  *)
(***************************************************************************)

CreateBill(w, b, total, late) ==
    /\ billRequest[w] = BillIdle
    /\ bills[b].status = "absent"
    /\ bills' = [bills EXCEPT ![b] = [status |-> "draft", total |-> total, pastDue |-> late]]
    /\ UNCHANGED <<payments, billRequest, lateEdits, lateSaves>>

\* BillPayment.bill is CASCADE: append-only payments go with their bill.
DestroyBill(w, b) ==
    /\ billRequest[w] = BillIdle
    /\ BillExists(b)
    /\ bills' = [bills EXCEPT ![b].status = "deleted"]
    /\ payments' = [p \in Payments |-> IF p \in PaymentsOf(b)
                                       THEN [payments[p] EXCEPT !.bill = NoBill]
                                       ELSE payments[p]]
    /\ UNCHANGED <<billRequest, lateEdits, lateSaves>>

MayBegin(op, status) ==
    CASE op = "receive" -> status = "draft"
      [] op = "edit" -> status = "draft"
      [] op = "cancel" -> status \notin {"paid", "cancelled"} \cup NoBillRow

BeginBill(w, b, op) ==
    /\ billRequest[w] = BillIdle
    /\ MayBegin(op, bills[b].status)
    /\ billRequest' = [billRequest EXCEPT ![w] = [op |-> op, bill |-> b]]
    /\ UNCHANGED <<bills, payments, lateEdits, lateSaves>>

Serving(w, b, op) ==
    /\ billRequest[w] = [op |-> op, bill |-> b]
    /\ BillExists(b)
    /\ billRequest' = [billRequest EXCEPT ![w] = BillIdle]
    /\ UNCHANGED payments

SaveStatus(b, op, status) ==
    /\ bills' = [bills EXCEPT ![b].status = status]
    /\ lateSaves' = IF MayBegin(op, bills[b].status) THEN lateSaves ELSE lateSaves \cup {b}
    /\ UNCHANGED lateEdits
ReceiveBill(w, b) == Serving(w, b, "receive") /\ SaveStatus(b, "receive", "received")
CancelBill(w, b) == Serving(w, b, "cancel") /\ SaveStatus(b, "cancel", "cancelled")

\* update_bill locks the row, but does not check it again.
UpdateBill(w, b, total, late) ==
    /\ Serving(w, b, "edit")
    /\ bills' = [bills EXCEPT ![b] = [@ EXCEPT !.total = total, !.pastDue = late]]
    /\ lateEdits' = IF MayBegin("edit", bills[b].status) THEN lateEdits ELSE lateEdits \cup {b}
    /\ UNCHANGED lateSaves

\* The row has been deleted: the write raises.
FailBill(w) ==
    /\ billRequest[w] # BillIdle
    /\ ~BillExists(billRequest[w].bill)
    /\ billRequest' = [billRequest EXCEPT ![w] = BillIdle]
    /\ UNCHANGED <<bills, payments, lateEdits, lateSaves>>

(***************************************************************************)
(* Payments, the calendar and the daily task.                              *)
(***************************************************************************)

Payable(b) == bills[b].status \notin {"cancelled", "draft"} \cup NoBillRow

PaidOnceCovered(status, paid, total) == \* faulty variant: "exceeds" for "reaches"
    IF paid > total THEN "paid" ELSE status
StatusAfterPayment(status, paid, total) == IF paid >= total THEN "paid" ELSE status

RecordBillPayment(w, b, p, amount) ==
    LET paid == PaidTotal(b) + amount
    IN /\ billRequest[w] = BillIdle
       /\ Payable(b)
       /\ paid <= bills[b].total
       /\ payments[p] = Unpaid
       /\ payments' = [payments EXCEPT ![p] = [bill |-> b, amount |-> amount]]
       /\ bills' = [bills EXCEPT ![b].status = StatusAfterPayment(@, paid, bills[b].total)]
       /\ UNCHANGED <<billRequest, lateEdits, lateSaves>>

DueDatePasses(b) ==
    /\ BillExists(b) /\ ~bills[b].pastDue
    /\ bills' = [bills EXCEPT ![b].pastDue = TRUE]
    /\ UNCHANGED <<payments, billRequest, lateEdits, lateSaves>>

BecomesOverdue(b) == bills[b].status = "received" /\ bills[b].pastDue

MarkOverdueBills ==
    /\ \E b \in Bills : BecomesOverdue(b)
    /\ bills' = [b \in Bills |-> IF BecomesOverdue(b)
                                 THEN [bills[b] EXCEPT !.status = "overdue"] ELSE bills[b]]
    /\ UNCHANGED <<payments, billRequest, lateEdits, lateSaves>>

(***************************************************************************)
(* The specification.                                                      *)
(***************************************************************************)

ServeBill(w, b) ==
    \/ \E total \in BillTotals, late \in BOOLEAN :
         CreateBill(w, b, total, late) \/ UpdateBill(w, b, total, late)
    \/ \E op \in {"receive", "cancel", "edit"} : BeginBill(w, b, op)
    \/ ReceiveBill(w, b) \/ CancelBill(w, b) \/ DestroyBill(w, b)
    \/ \E p \in Payments, amount \in BillAmounts : RecordBillPayment(w, b, p, amount)

BillsNext ==
    \/ \E w \in BillWorkers : FailBill(w) \/ \E b \in Bills : ServeBill(w, b)
    \/ \E b \in Bills : DueDatePasses(b)
    \/ MarkOverdueBills

\* Celery Beat runs the overdue task every day.
BillsSpec == BillsInit /\ [][BillsNext]_billsVars /\ WF_billsVars(MarkOverdueBills)

(***************************************************************************)
(* A bill is an invoice that is never refunded: received is sent, and the  *)
(* payments deleted with a bill are those a deleted invoice leaves behind. *)
(***************************************************************************)

AsInvoice == INSTANCE Invoicing WITH
    Invoices <- Bills,
    NoInvoice <- NoBill,
    Workers <- BillWorkers,
    Totals <- BillTotals,
    Amounts <- BillAmounts,
    status <- [b \in Bills |-> IF bills[b].status = "received" THEN "sent"
                                                               ELSE bills[b].status],
    total <- [b \in Bills |-> bills[b].total],
    pastDue <- [b \in Bills |-> bills[b].pastDue],
    paidTotal <- [b \in Bills |-> PaidTotal(b)],
    refundedTotal <- [b \in Bills |-> 0],
    payments <- [p \in Payments |-> [invoice |-> payments[p].bill,
                                     amount |-> payments[p].amount, refunded |-> 0]],
    request <- [w \in BillWorkers |->
                  [op |-> IF billRequest[w].op = "receive" THEN "send" ELSE billRequest[w].op,
                   invoice |-> billRequest[w].bill]]

\* The docstrings of Bill, BillViewSet and record_bill_payment: a bill mirrors
\* an invoice exactly.  Every step of a bill is one an invoice can take, with
\* the same races between unlocked checks and payments, and a bill past its due
\* date is flagged as an invoice is.
MirrorsInvoice == AsInvoice!FairSpec
==============================================================================

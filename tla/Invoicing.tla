----------------------------- MODULE Invoicing -----------------------------
(***************************************************************************)
(* Customer invoices, the payments recorded against them and the refunds   *)
(* of those payments (finance/services.py, finance/tasks.py and the        *)
(* viewsets of finance/views.py that call them).                           *)
(*                                                                         *)
(* Several web workers serve requests against one PostgreSQL database at   *)
(* READ COMMITTED.  A service that takes SELECT ... FOR UPDATE and checks  *)
(* after the lock is one atomic action.  A service that checks the row the *)
(* view fetched earlier and then writes is two actions: Begin* (the fetch, *)
(* with the check that is made on the fetched row) and Finish* (the        *)
(* write), and anything may happen to the row in between.  The daily       *)
(* overdue task is a single UPDATE statement.                              *)
(***************************************************************************)
EXTENDS Integers

CONSTANTS
    Invoices,       \* primary keys of invoice rows
    Payments,       \* primary keys of payment rows
    Workers,        \* web workers, each serving one request at a time
    Totals,         \* totals that line items, discount and tax can add up to
    Amounts,        \* amounts a request may ask to pay or to refund
    NoInvoice       \* SQL NULL in Payment.invoice

ASSUME TotalsAssumption == Totals \subseteq Nat
ASSUME AmountsAssumption == Amounts \subseteq Nat \ {0}
ASSUME NoInvoiceAssumption == NoInvoice \notin Invoices

VARIABLES
    status,         \* Invoice.status, or "absent" / "deleted" for no row
    total,          \* Invoice.total
    pastDue,        \* due_date is set and lies before today
    paidTotal,      \* Invoice.paid_total: the sum of the linked payments
    refundedTotal,  \* Invoice.refunded_total: the sum of their refunds
    payments,       \* Payment rows, each with the sum of its Refund rows
    request,        \* what each worker is in the middle of
    lateEdits,      \* history: invoices whose total changed after draft
    lateSaves       \* history: invoices sent or cancelled on an outdated check

rowVars == <<total, pastDue>>
moneyVars == <<paidTotal, refundedTotal, payments>>
historyVars == <<lateEdits, lateSaves>>
vars == <<status, total, pastDue, paidTotal, refundedTotal, payments,
          request, lateEdits, lateSaves>>

Status == {"draft", "sent", "paid", "overdue", "cancelled", "refunded"}
NoRow == {"absent", "deleted"}

\* A payment row that has not been written has amount 0.
Unwritten == [invoice |-> NoInvoice, amount |-> 0, refunded |-> 0]
Idle == [op |-> "idle", invoice |-> NoInvoice]

Exists(i) == status[i] \notin NoRow
NetPaid(i) == paidTotal[i] - refundedTotal[i]

TypeOK ==
    /\ status \in [Invoices -> Status \cup NoRow]
    /\ total \in [Invoices -> Nat]
    /\ pastDue \in [Invoices -> BOOLEAN]
    /\ paidTotal \in [Invoices -> Nat]
    /\ refundedTotal \in [Invoices -> Nat]
    /\ payments \in [Payments -> [invoice : Invoices \cup {NoInvoice},
                                  amount : Nat, refunded : Nat]]
    /\ request \in [Workers -> [op : {"idle", "send", "cancel", "edit"},
                                invoice : Invoices \cup {NoInvoice}]]
    /\ lateEdits \subseteq Invoices
    /\ lateSaves \subseteq Invoices

Init ==
    /\ status = [i \in Invoices |-> "absent"]
    /\ total = [i \in Invoices |-> 0]
    /\ pastDue = [i \in Invoices |-> FALSE]
    /\ paidTotal = [i \in Invoices |-> 0]
    /\ refundedTotal = [i \in Invoices |-> 0]
    /\ payments = [p \in Payments |-> Unwritten]
    /\ request = [w \in Workers |-> Idle]
    /\ lateEdits = {}
    /\ lateSaves = {}

(***************************************************************************)
(* Creating and deleting an invoice.                                       *)
(***************************************************************************)

\* create_invoice: the row, its number and its lines in one transaction.
CreateInvoice(w, i, t, late) ==
    /\ request[w] = Idle
    /\ status[i] = "absent"
    /\ status' = [status EXCEPT ![i] = "draft"]
    /\ total' = [total EXCEPT ![i] = t]
    /\ pastDue' = [pastDue EXCEPT ![i] = late]
    /\ UNCHANGED <<moneyVars, request, historyVars>>

\* DELETE on the invoice, in any status: Payment.invoice is SET_NULL, so
\* the payments stay and no longer belong to an invoice.
Unlink(i) ==
    [p \in Payments |-> IF payments[p].invoice = i
                        THEN [payments[p] EXCEPT !.invoice = NoInvoice]
                        ELSE payments[p]]

DestroyInvoice(w, i) ==
    /\ request[w] = Idle
    /\ Exists(i)
    /\ status' = [status EXCEPT ![i] = "deleted"]
    /\ payments' = Unlink(i)
    /\ paidTotal' = [paidTotal EXCEPT ![i] = 0]
    /\ refundedTotal' = [refundedTotal EXCEPT ![i] = 0]
    /\ UNCHANGED <<rowVars, request, historyVars>>

(***************************************************************************)
(* The services that check the fetched row and write later.  A request     *)
(* whose check fails answers 400 and changes nothing.                      *)
(***************************************************************************)

SendableAgain(s) == s \in {"draft", "cancelled"}        \* faulty variant
CancellableUnlessTwice(s) == s \notin {"cancelled"} \cup NoRow   \* faulty variant

Sendable(s) == s = "draft"
Cancellable(s) == s \notin {"paid", "cancelled"} \cup NoRow
Editable(s) == s = "draft"

Begin(w, i, op) ==
    /\ request[w] = Idle
    /\ request' = [request EXCEPT ![w] = [op |-> op, invoice |-> i]]
    /\ UNCHANGED <<status, rowVars, moneyVars, historyVars>>

BeginSend(w, i) == Sendable(status[i]) /\ Begin(w, i, "send")
BeginCancel(w, i) == Cancellable(status[i]) /\ Begin(w, i, "cancel")
BeginEdit(w, i) == Editable(status[i]) /\ Begin(w, i, "edit")

Serving(w, i, op) ==
    /\ request[w] = [op |-> op, invoice |-> i]
    /\ Exists(i)
    /\ request' = [request EXCEPT ![w] = Idle]

\* send_invoice and cancel_invoice save only the status, whatever it is now.
FinishSend(w, i) ==
    /\ Serving(w, i, "send")
    /\ status' = [status EXCEPT ![i] = "sent"]
    /\ lateSaves' = IF Sendable(status[i]) THEN lateSaves ELSE lateSaves \cup {i}
    /\ UNCHANGED <<rowVars, moneyVars, lateEdits>>

FinishCancel(w, i) ==
    /\ Serving(w, i, "cancel")
    /\ status' = [status EXCEPT ![i] = "cancelled"]
    /\ lateSaves' = IF Cancellable(status[i]) THEN lateSaves ELSE lateSaves \cup {i}
    /\ UNCHANGED <<rowVars, moneyVars, lateEdits>>

\* update_invoice locks and re-reads the row, but does not check it again.
FinishEdit(w, i, t, late) ==
    /\ Serving(w, i, "edit")
    /\ total' = [total EXCEPT ![i] = t]
    /\ pastDue' = [pastDue EXCEPT ![i] = late]
    /\ lateEdits' = IF status[i] = "draft" THEN lateEdits
                                           ELSE lateEdits \cup {i}
    /\ UNCHANGED <<status, moneyVars, lateSaves>>

\* The row went away in between: the write raises, nothing is changed.
FinishOnDeleted(w) ==
    /\ request[w] # Idle
    /\ ~ Exists(request[w].invoice)
    /\ request' = [request EXCEPT ![w] = Idle]
    /\ UNCHANGED <<status, rowVars, moneyVars, historyVars>>

(***************************************************************************)
(* The services that lock the invoice and then check.                      *)
(***************************************************************************)

FitsAlone(i, a) == a <= total[i]                               \* faulty variant
PaidByAnyPayment(s, paid, due) == IF paid > 0 THEN "paid" ELSE s   \* faulty variant

Payable(s) == s \notin {"draft", "cancelled"} \cup NoRow
Fits(i, a) == paidTotal[i] + a <= total[i]
StatusAfterPayment(s, paid, due) == IF paid >= due THEN "paid" ELSE s

RecordPayment(w, i, p, a) ==
    /\ request[w] = Idle
    /\ payments[p] = Unwritten
    /\ Payable(status[i])
    /\ Fits(i, a)
    /\ payments' = [payments EXCEPT
          ![p] = [invoice |-> i, amount |-> a, refunded |-> 0]]
    /\ paidTotal' = [paidTotal EXCEPT ![i] = @ + a]
    /\ status' = [status EXCEPT
          ![i] = StatusAfterPayment(@, paidTotal[i] + a, total[i])]
    /\ UNCHANGED <<rowVars, refundedTotal, request, historyVars>>

RefundableInFull(p) == payments[p].amount      \* faulty variant

Refundable(p) == payments[p].amount - payments[p].refunded

StatusAfterRefund(s, net, due) ==
    CASE net <= 0 -> "refunded"
      [] net > 0 /\ s = "paid" /\ net < due -> "sent"
      [] OTHER -> s

RecordRefund(w, i, p, a) ==
    /\ request[w] = Idle
    /\ payments[p].invoice = i
    /\ a <= Refundable(p)
    /\ payments' = [payments EXCEPT ![p].refunded = @ + a]
    /\ refundedTotal' = [refundedTotal EXCEPT ![i] = @ + a]
    /\ status' = [status EXCEPT
          ![i] = StatusAfterRefund(@, NetPaid(i) - a, total[i])]
    /\ UNCHANGED <<rowVars, paidTotal, request, historyVars>>

(***************************************************************************)
(* The calendar and the daily task.                                        *)
(***************************************************************************)

DueDatePasses(i) ==
    /\ Exists(i)
    /\ ~ pastDue[i]
    /\ pastDue' = [pastDue EXCEPT ![i] = TRUE]
    /\ UNCHANGED <<status, total, moneyVars, request, historyVars>>

DraftBecomesOverdue(i) == status[i] = "draft" /\ pastDue[i]   \* faulty variant

BecomesOverdue(i) == status[i] = "sent" /\ pastDue[i]

MarkOverdueInvoices ==
    /\ \E i \in Invoices : BecomesOverdue(i)
    /\ status' = [i \in Invoices |->
                    IF BecomesOverdue(i) THEN "overdue" ELSE status[i]]
    /\ UNCHANGED <<rowVars, moneyVars, request, historyVars>>

(***************************************************************************)
(* The specification.                                                      *)
(***************************************************************************)

RequestStep(w) ==
    \/ \E i \in Invoices, t \in Totals, late \in BOOLEAN :
          CreateInvoice(w, i, t, late) \/ FinishEdit(w, i, t, late)
    \/ \E i \in Invoices :
          \/ DestroyInvoice(w, i)
          \/ BeginSend(w, i) \/ BeginCancel(w, i) \/ BeginEdit(w, i)
          \/ FinishSend(w, i) \/ FinishCancel(w, i)
    \/ FinishOnDeleted(w)
    \/ \E i \in Invoices, p \in Payments, a \in Amounts :
          RecordPayment(w, i, p, a) \/ RecordRefund(w, i, p, a)

Next ==
    \/ \E w \in Workers : RequestStep(w)
    \/ \E i \in Invoices : DueDatePasses(i)
    \/ MarkOverdueInvoices

Spec == Init /\ [][Next]_vars

\* Celery Beat runs the overdue task every day.
FairSpec == Spec /\ WF_vars(MarkOverdueInvoices)

(***************************************************************************)
(* What holds however many workers interleave.                             *)
(***************************************************************************)

\* No payment is ever refunded by more than its amount, although refunds of
\* one payment race and record_refund checks a sum it has just read.
RefundsWithinPayments ==
    \A p \in Payments : payments[p].refunded <= payments[p].amount

\* An invoice not yet sent has neither payments nor refunds, so what an edit
\* of a draft recalculates is owed by nobody yet.
UnsentHasNoMoney ==
    \A i \in Invoices : status[i] \in {"absent", "draft"} =>
        /\ paidTotal[i] = 0 /\ refundedTotal[i] = 0
        /\ \A p \in Payments : payments[p].invoice # i

\* The payments of an invoice exceed its total only where an edit of the
\* total landed after the invoice had left draft.
OverpaidOnlyByLateEdit ==
    \A i \in Invoices : i \notin lateEdits => paidTotal[i] <= total[i]

\* A paid invoice whose total was not edited late has been paid its total,
\* no less and no more (before refunds).
PaidIsCovered ==
    \A i \in Invoices :
        status[i] = "paid" /\ i \notin lateEdits => paidTotal[i] = total[i]

\* The daily task gets to every sent invoice that is past its due date.
PastDueIsFlagged ==
    \A i \in Invoices :
        status[i] = "sent" /\ pastDue[i] ~> status[i] # "sent" \/ ~ pastDue[i]

(***************************************************************************)
(* The life of an invoice.  What the service layer says of it holds where  *)
(* no request acts on an outdated check; the exceptions are those, and     *)
(* nothing else.                                                           *)
(***************************************************************************)

\* Once paid, only a refund makes an invoice anything else (or a deletion, or
\* a send or cancel whose check was outdated).
PaidLeftOnlyByRefund ==
    [][\A i \in Invoices \ lateSaves' :
          status[i] = "paid" /\ status'[i] \notin {"paid", "deleted"}
             => refundedTotal'[i] > refundedTotal[i]]_vars

\* A cancelled invoice is never live again: it can only be refunded or go,
\* unless it was sent on an outdated check.
CancelledIsFinal ==
    [][\A i \in Invoices \ lateSaves' : status[i] = "cancelled" =>
          status'[i] \in {"cancelled", "refunded", "deleted"}]_vars

\* cancel_invoice: "Cannot cancel a fully paid invoice."
PaidNeverCancelled ==
    [][\A i \in Invoices : status[i] = "paid" => status'[i] # "cancelled"]_vars

\* Overpayment is rejected outright: payments never exceed the total.
NoOverpayment == \A i \in Invoices : paidTotal[i] <= total[i]

\* update_invoice: "Only a draft invoice can be edited."
OnlyDraftsAreEdited == lateEdits = {}

(***************************************************************************)
(* What the refund rule says of balances, even with a single worker.       *)
(***************************************************************************)

Owed(i) == total[i] - NetPaid(i)

\* record_refund: a sent invoice with an outstanding balance is "the same
\* state it would be in had it never been fully paid", so it can be paid.
OutstandingIsPayable ==
    \A i \in Invoices :
        status[i] \in {"sent", "overdue"} /\ Owed(i) > 0 => Fits(i, 1)
=============================================================================

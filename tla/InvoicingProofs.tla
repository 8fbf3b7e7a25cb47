-------------------------- MODULE InvoicingProofs --------------------------
(***************************************************************************)
(* Theorems about Invoicing, for every number of invoices, payments and    *)
(* workers and every set of totals and amounts.                            *)
(***************************************************************************)
EXTENDS Invoicing, TLAPS

USE TotalsAssumption, AmountsAssumption, NoInvoiceAssumption

\* The state stays well-typed under every step of every worker, of the
\* calendar and of the daily task.
THEOREM TypeCorrect == Spec => []TypeOK
<1>1. Init => TypeOK
  BY DEF Init, TypeOK, NoRow, Unwritten, Idle
<1>2. TypeOK /\ [Next]_vars => TypeOK'
  <2> SUFFICES ASSUME TypeOK, [Next]_vars
               PROVE  TypeOK'
    OBVIOUS
  <2> USE DEF TypeOK, Status, NoRow, rowVars, historyVars, moneyVars, Idle, Unwritten
  <2>1. ASSUME NEW w \in Workers, NEW i \in Invoices, NEW t \in Totals,
               NEW late \in BOOLEAN, CreateInvoice(w, i, t, late)
        PROVE  TypeOK'
    <3>1. t \in Nat
      OBVIOUS
    <3>2. QED
      BY <2>1, <3>1 DEF CreateInvoice
  <2>2. ASSUME NEW w \in Workers, NEW i \in Invoices, DestroyInvoice(w, i)
        PROVE  TypeOK'
    <3>1. payments' \in [Payments -> [invoice : Invoices \cup {NoInvoice},
                                      amount : Nat, refunded : Nat]]
      BY <2>2 DEF DestroyInvoice, Unlink
    <3>2. QED
      BY <2>2, <3>1 DEF DestroyInvoice
  <2>3. ASSUME NEW w \in Workers, NEW i \in Invoices,
               BeginSend(w, i) \/ BeginCancel(w, i) \/ BeginEdit(w, i)
        PROVE  TypeOK'
    BY <2>3 DEF BeginSend, BeginCancel, BeginEdit, Begin
  <2>4. ASSUME NEW w \in Workers, NEW i \in Invoices,
               FinishSend(w, i) \/ FinishCancel(w, i)
        PROVE  TypeOK'
    <3>1. CASE FinishSend(w, i)
      BY <3>1 DEF FinishSend, Serving
    <3>2. CASE FinishCancel(w, i)
      BY <3>2 DEF FinishCancel, Serving
    <3>3. QED
      BY <2>4, <3>1, <3>2
  <2>5. ASSUME NEW w \in Workers, NEW i \in Invoices, NEW t \in Totals,
               NEW late \in BOOLEAN, FinishEdit(w, i, t, late)
        PROVE  TypeOK'
    BY <2>5 DEF FinishEdit, Serving
  <2>6. ASSUME NEW w \in Workers, FinishOnDeleted(w)
        PROVE  TypeOK'
    BY <2>6 DEF FinishOnDeleted
  <2>7. ASSUME NEW w \in Workers, NEW i \in Invoices, NEW p \in Payments,
               NEW a \in Amounts, RecordPayment(w, i, p, a)
        PROVE  TypeOK'
    BY <2>7 DEF RecordPayment, StatusAfterPayment
  <2>8. ASSUME NEW w \in Workers, NEW i \in Invoices, NEW p \in Payments,
               NEW a \in Amounts, RecordRefund(w, i, p, a)
        PROVE  TypeOK'
    <3>1. StatusAfterRefund(status[i], NetPaid(i) - a, total[i])
             \in Status \cup NoRow
      BY DEF StatusAfterRefund, NetPaid
    <3>2. payments' \in [Payments -> [invoice : Invoices \cup {NoInvoice},
                                      amount : Nat, refunded : Nat]]
      BY <2>8 DEF RecordRefund
    <3>3. QED
      BY <2>8, <3>1, <3>2 DEF RecordRefund
  <2>9. ASSUME NEW i \in Invoices, DueDatePasses(i)
        PROVE  TypeOK'
    BY <2>9 DEF DueDatePasses
  <2>10. CASE MarkOverdueInvoices
    BY <2>10 DEF MarkOverdueInvoices
  <2>11. CASE UNCHANGED vars
    BY <2>11 DEF vars
  <2>12. QED
    BY <2>1, <2>2, <2>3, <2>4, <2>5, <2>6, <2>7, <2>8, <2>9, <2>10, <2>11
       DEF Next, RequestStep
<1>3. QED
  BY <1>1, <1>2, PTL DEF Spec

(***************************************************************************)
(* The money invariant.  It is inductive together with the types: an edit  *)
(* needs UnsentHasNoMoney to know that a draft's total may change freely,  *)
(* and a payment needs OverpaidOnlyByLateEdit's guard to make a covered    *)
(* invoice exactly covered.                                                *)
(***************************************************************************)

MoneyInv ==
    /\ TypeOK
    /\ RefundsWithinPayments
    /\ UnsentHasNoMoney
    /\ OverpaidOnlyByLateEdit
    /\ PaidIsCovered

\* record_refund puts an invoice in no status but refunded and sent, and in
\* sent only from paid.
LEMMA RefundStatus ==
    ASSUME NEW s \in Status \cup NoRow, NEW net \in Int, NEW due \in Nat
    PROVE  StatusAfterRefund(s, net, due) \in {"refunded", s}
              \cup (IF s = "paid" THEN {"sent"} ELSE {})
  BY DEF StatusAfterRefund

\* No row step that leaves money and totals alone, and moves no invoice into
\* draft or paid, can disturb the money invariant.
LEMMA StatusOnlyStep ==
    ASSUME MoneyInv, TypeOK', UNCHANGED <<total, moneyVars, lateEdits>>,
           \A i \in Invoices : status'[i] = status[i]
                               \/ status'[i] \notin {"absent", "draft", "paid"}
    PROVE  MoneyInv'
  BY DEF MoneyInv, RefundsWithinPayments, UnsentHasNoMoney,
         OverpaidOnlyByLateEdit, PaidIsCovered, moneyVars

\* Every step of a worker, the calendar or the daily task preserves the money
\* invariant: the inductive step of MoneyInvariant.
LEMMA MoneyStep == MoneyInv /\ TypeOK' /\ [Next]_vars => MoneyInv'
<1> SUFFICES ASSUME MoneyInv, TypeOK', [Next]_vars
             PROVE  MoneyInv'
  OBVIOUS
<1>0. TypeOK
  BY DEF MoneyInv
<1>1. ASSUME NEW w \in Workers, NEW i \in Invoices, NEW t \in Totals,
             NEW late \in BOOLEAN, CreateInvoice(w, i, t, late)
      PROVE  MoneyInv'
  <2>1. /\ status[i] = "absent" /\ status' = [status EXCEPT ![i] = "draft"]
        /\ total' = [total EXCEPT ![i] = t] /\ t \in Nat
        /\ UNCHANGED <<paidTotal, refundedTotal, payments, lateEdits>>
    BY <1>1 DEF CreateInvoice, moneyVars, historyVars
  <2>2. UnsentHasNoMoney'
    BY <1>0, <2>1 DEF MoneyInv, UnsentHasNoMoney, TypeOK
  <2>3. OverpaidOnlyByLateEdit' /\ PaidIsCovered'
    BY <1>0, <2>1 DEF MoneyInv, OverpaidOnlyByLateEdit, PaidIsCovered,
                      UnsentHasNoMoney, TypeOK
  <2>4. QED
    BY <2>1, <2>2, <2>3 DEF MoneyInv, RefundsWithinPayments
<1>2. ASSUME NEW w \in Workers, NEW i \in Invoices, DestroyInvoice(w, i)
      PROVE  MoneyInv'
  <2>1. /\ status' = [status EXCEPT ![i] = "deleted"]
        /\ payments' = Unlink(i)
        /\ paidTotal' = [paidTotal EXCEPT ![i] = 0]
        /\ refundedTotal' = [refundedTotal EXCEPT ![i] = 0]
        /\ UNCHANGED <<total, lateEdits>>
    BY <1>2 DEF DestroyInvoice, rowVars, historyVars
  <2>2. RefundsWithinPayments'
    <3> SUFFICES ASSUME NEW p \in Payments
                 PROVE  payments'[p].refunded <= payments'[p].amount
      BY DEF RefundsWithinPayments
    <3>1. /\ payments'[p].refunded = payments[p].refunded
          /\ payments'[p].amount = payments[p].amount
      BY <1>0, <2>1 DEF Unlink, TypeOK
    <3>2. QED
      BY <3>1 DEF MoneyInv, RefundsWithinPayments
  <2>3. \A p \in Payments, j \in Invoices :
            payments'[p].invoice = j => payments[p].invoice = j
    BY <1>0, <2>1 DEF Unlink, TypeOK
  <2>4. UnsentHasNoMoney'
    BY <1>0, <2>1, <2>3 DEF MoneyInv, UnsentHasNoMoney, TypeOK
  <2>5. OverpaidOnlyByLateEdit' /\ PaidIsCovered'
    BY <1>0, <2>1 DEF MoneyInv, OverpaidOnlyByLateEdit, PaidIsCovered, TypeOK
  <2>6. QED
    BY <2>2, <2>4, <2>5 DEF MoneyInv
<1>3. ASSUME NEW w \in Workers, NEW i \in Invoices,
             BeginSend(w, i) \/ BeginCancel(w, i) \/ BeginEdit(w, i)
      PROVE  MoneyInv'
  BY <1>3, StatusOnlyStep
     DEF BeginSend, BeginCancel, BeginEdit, Begin, rowVars, historyVars
<1>4. ASSUME NEW w \in Workers, NEW i \in Invoices,
             FinishSend(w, i) \/ FinishCancel(w, i)
      PROVE  MoneyInv'
  <2>1. \A j \in Invoices : status'[j] = status[j]
                            \/ status'[j] \in {"sent", "cancelled"}
    BY <1>0, <1>4 DEF FinishSend, FinishCancel, TypeOK
  <2>2. QED
    BY <1>4, <2>1, StatusOnlyStep DEF FinishSend, FinishCancel, rowVars, historyVars
<1>5. ASSUME NEW w \in Workers, NEW i \in Invoices, NEW t \in Totals,
             NEW late \in BOOLEAN, FinishEdit(w, i, t, late)
      PROVE  MoneyInv'
  <2>1. /\ total' = [total EXCEPT ![i] = t] /\ t \in Nat
        /\ lateEdits' = IF status[i] = "draft" THEN lateEdits
                                               ELSE lateEdits \cup {i}
        /\ UNCHANGED <<status, paidTotal, refundedTotal, payments>>
    BY <1>5 DEF FinishEdit, moneyVars
  <2>2. OverpaidOnlyByLateEdit' /\ PaidIsCovered'
    <3>1. CASE status[i] = "draft"
      BY <1>0, <2>1, <3>1 DEF MoneyInv, OverpaidOnlyByLateEdit, PaidIsCovered,
                              UnsentHasNoMoney, TypeOK
    <3>2. CASE status[i] # "draft"
      BY <1>0, <2>1, <3>2 DEF MoneyInv, OverpaidOnlyByLateEdit, PaidIsCovered,
                              TypeOK
    <3>3. QED
      BY <3>1, <3>2
  <2>3. QED
    BY <2>1, <2>2 DEF MoneyInv, RefundsWithinPayments, UnsentHasNoMoney
<1>6. ASSUME NEW w \in Workers, FinishOnDeleted(w)
      PROVE  MoneyInv'
  BY <1>6, StatusOnlyStep DEF FinishOnDeleted, rowVars, historyVars
<1>7. ASSUME NEW w \in Workers, NEW i \in Invoices, NEW p \in Payments,
             NEW a \in Amounts, RecordPayment(w, i, p, a)
      PROVE  MoneyInv'
  <2>1. /\ status[i] \notin {"absent", "draft"}
        /\ paidTotal[i] + a <= total[i] /\ a \in Nat
        /\ payments' = [payments EXCEPT
              ![p] = [invoice |-> i, amount |-> a, refunded |-> 0]]
        /\ paidTotal' = [paidTotal EXCEPT ![i] = paidTotal[i] + a]
        /\ status' = [status EXCEPT
              ![i] = IF paidTotal[i] + a >= total[i] THEN "paid" ELSE status[i]]
        /\ UNCHANGED <<total, refundedTotal, lateEdits>>
    BY <1>7 DEF RecordPayment, Payable, NoRow, Fits, StatusAfterPayment, rowVars, historyVars
  <2>2. RefundsWithinPayments'
    <3> SUFFICES ASSUME NEW q \in Payments
                 PROVE  payments'[q].refunded <= payments'[q].amount
      BY DEF RefundsWithinPayments
    <3>1. CASE q = p
      BY <1>0, <2>1, <3>1 DEF TypeOK
    <3>2. CASE q # p
      BY <1>0, <2>1, <3>2 DEF MoneyInv, RefundsWithinPayments, TypeOK
    <3>3. QED
      BY <3>1, <3>2
  <2>3. UnsentHasNoMoney'
    <3> SUFFICES ASSUME NEW j \in Invoices, status'[j] \in {"absent", "draft"}
                 PROVE  /\ paidTotal'[j] = 0 /\ refundedTotal'[j] = 0
                        /\ \A q \in Payments : payments'[q].invoice # j
      BY DEF UnsentHasNoMoney
    <3>1. j # i
      BY <1>0, <2>1 DEF TypeOK
    <3>2. /\ status'[j] = status[j] /\ paidTotal'[j] = paidTotal[j]
          /\ \A q \in Payments : payments'[q].invoice = j
                                  => payments[q].invoice = j
      BY <1>0, <2>1, <3>1 DEF TypeOK
    <3>3. QED
      BY <2>1, <3>2 DEF MoneyInv, UnsentHasNoMoney
  <2>4. ASSUME NEW j \in Invoices, j \notin lateEdits'
        PROVE  /\ paidTotal'[j] <= total'[j]
               /\ status'[j] = "paid" => paidTotal'[j] = total'[j]
    <3>1. /\ paidTotal[j] <= total[j]
          /\ status[j] = "paid" => paidTotal[j] = total[j]
      BY <2>1, <2>4 DEF MoneyInv, OverpaidOnlyByLateEdit, PaidIsCovered
    <3>2. CASE j = i
      <4>1. /\ paidTotal'[i] = paidTotal[i] + a /\ total'[i] = total[i]
            /\ status'[i] = IF paidTotal[i] + a >= total[i] THEN "paid"
                                                           ELSE status[i]
            /\ paidTotal[i] \in Nat /\ total[i] \in Nat
        BY <1>0, <2>1 DEF TypeOK
      <4>2. CASE paidTotal[i] + a >= total[i]
        BY <2>1, <3>2, <4>1, <4>2
      <4>3. CASE paidTotal[i] + a < total[i]
        <5>1. paidTotal[i] # total[i]
          BY <2>1, <4>1, <4>3
        <5>2. status'[i] # "paid"
          BY <3>1, <3>2, <4>1, <4>3, <5>1
        <5>3. QED
          BY <2>1, <3>2, <4>1, <5>2
      <4>4. QED
        BY <2>1, <4>1, <4>2, <4>3
    <3>3. CASE j # i
      BY <1>0, <2>1, <3>1, <3>3 DEF TypeOK
    <3>4. QED
      BY <3>2, <3>3
  <2>5. QED
    BY <2>2, <2>3, <2>4
       DEF MoneyInv, OverpaidOnlyByLateEdit, PaidIsCovered
<1>8. ASSUME NEW w \in Workers, NEW i \in Invoices, NEW p \in Payments,
             NEW a \in Amounts, RecordRefund(w, i, p, a)
      PROVE  MoneyInv'
  <2> DEFINE s == StatusAfterRefund(status[i], NetPaid(i) - a, total[i])
  <2>1. /\ payments[p].invoice = i
        /\ a <= payments[p].amount - payments[p].refunded /\ a \in Nat
        /\ payments' = [payments EXCEPT ![p].refunded = payments[p].refunded + a]
        /\ refundedTotal' = [refundedTotal EXCEPT ![i] = refundedTotal[i] + a]
        /\ status' = [status EXCEPT ![i] = s]
        /\ UNCHANGED <<total, paidTotal, lateEdits>>
    BY <1>8 DEF RecordRefund, Refundable, rowVars, historyVars
  <2>2. status[i] \notin {"absent", "draft"}
    BY <2>1 DEF MoneyInv, UnsentHasNoMoney
  <2>3. s \in {"refunded", "sent", status[i]}
    BY <1>0, RefundStatus DEF TypeOK, NetPaid
  <2> HIDE DEF s
  <2>4. RefundsWithinPayments'
    <3> SUFFICES ASSUME NEW q \in Payments
                 PROVE  payments'[q].refunded <= payments'[q].amount
      BY DEF RefundsWithinPayments
    <3>1. CASE q = p
      BY <1>0, <2>1, <3>1 DEF TypeOK
    <3>2. CASE q # p
      BY <1>0, <2>1, <3>2 DEF MoneyInv, RefundsWithinPayments, TypeOK
    <3>3. QED
      BY <3>1, <3>2
  <2>5. \A q \in Payments : payments'[q].invoice = payments[q].invoice
    BY <1>0, <2>1 DEF TypeOK
  <2>6. UnsentHasNoMoney'
    BY <1>0, <2>1, <2>2, <2>3, <2>5 DEF MoneyInv, UnsentHasNoMoney, TypeOK
  <2>7. OverpaidOnlyByLateEdit' /\ PaidIsCovered'
    BY <1>0, <2>1, <2>3 DEF MoneyInv, OverpaidOnlyByLateEdit, PaidIsCovered,
                            TypeOK
  <2>8. QED
    BY <2>4, <2>6, <2>7 DEF MoneyInv
<1>9. ASSUME NEW i \in Invoices, DueDatePasses(i)
      PROVE  MoneyInv'
  BY <1>9, StatusOnlyStep DEF DueDatePasses, historyVars
<1>10. CASE MarkOverdueInvoices
  <2>1. \A i \in Invoices : status'[i] = status[i] \/ status'[i] = "overdue"
    BY <1>10 DEF MarkOverdueInvoices
  <2>2. QED
    BY <1>10, <2>1, StatusOnlyStep DEF MarkOverdueInvoices, rowVars, historyVars
<1>11. CASE UNCHANGED vars
  BY <1>11, StatusOnlyStep DEF vars, moneyVars
<1>12. QED
  BY <1>1, <1>2, <1>3, <1>4, <1>5, <1>6, <1>7, <1>8, <1>9, <1>10, <1>11
     DEF Next, RequestStep

\* However the workers interleave: refunds stay within their payment, an
\* unsent invoice has no money, and unless its total was edited late an
\* invoice is never overpaid and is exactly covered when it is paid.
THEOREM MoneyInvariant ==
    Spec => [](/\ RefundsWithinPayments /\ UnsentHasNoMoney
               /\ OverpaidOnlyByLateEdit /\ PaidIsCovered)
<1>1. Init => MoneyInv
  <2> SUFFICES ASSUME Init
               PROVE  MoneyInv
    OBVIOUS
  <2>1. TypeOK
    BY DEF Init, TypeOK, NoRow, Unwritten, Idle
  <2>2. QED
    BY <2>1 DEF Init, MoneyInv, RefundsWithinPayments, UnsentHasNoMoney,
                OverpaidOnlyByLateEdit, PaidIsCovered, Unwritten
<1>2. MoneyInv => /\ RefundsWithinPayments /\ UnsentHasNoMoney
                  /\ OverpaidOnlyByLateEdit /\ PaidIsCovered
  BY DEF MoneyInv
<1>3. QED
  BY <1>1, <1>2, MoneyStep, TypeCorrect, PTL DEF Spec

(***************************************************************************)
(* What each step may do to the status of an invoice.                      *)
(***************************************************************************)

\* From paid only a refund, a deletion or an outdated save leads away, and a
\* cancelled invoice only becomes refunded or is deleted.
LEMMA StatusMove ==
    ASSUME TypeOK, Next, NEW i \in Invoices, i \notin lateSaves'
    PROVE  /\ status[i] = "paid" /\ status'[i] \notin {"paid", "deleted"}
                => refundedTotal'[i] > refundedTotal[i]
           /\ status[i] = "cancelled"
                => status'[i] \in {"cancelled", "refunded", "deleted"}
<1> DEFINE Moved == /\ status[i] = "paid" /\ status'[i] \notin {"paid", "deleted"}
                         => refundedTotal'[i] > refundedTotal[i]
                    /\ status[i] = "cancelled"
                         => status'[i] \in {"cancelled", "refunded", "deleted"}
<1> USE DEF TypeOK
<1>1. ASSUME NEW w \in Workers, NEW j \in Invoices, NEW t \in Totals,
             NEW late \in BOOLEAN, CreateInvoice(w, j, t, late) \/ FinishEdit(w, j, t, late)
      PROVE  Moved
  BY <1>1 DEF CreateInvoice, FinishEdit
<1>2. ASSUME NEW w \in Workers, NEW j \in Invoices,
             \/ DestroyInvoice(w, j)
             \/ BeginSend(w, j) \/ BeginCancel(w, j) \/ BeginEdit(w, j)
      PROVE  Moved
  BY <1>2 DEF DestroyInvoice, BeginSend, BeginCancel, BeginEdit, Begin
<1>3. ASSUME NEW w \in Workers, NEW j \in Invoices, FinishSend(w, j)
      PROVE  Moved
  BY <1>3 DEF FinishSend, Sendable
<1>4. ASSUME NEW w \in Workers, NEW j \in Invoices, FinishCancel(w, j)
      PROVE  Moved
  BY <1>4 DEF FinishCancel, Cancellable
<1>5. ASSUME NEW w \in Workers, FinishOnDeleted(w)
      PROVE  Moved
  BY <1>5 DEF FinishOnDeleted
<1>6. ASSUME NEW w \in Workers, NEW j \in Invoices, NEW p \in Payments,
             NEW a \in Amounts, RecordPayment(w, j, p, a)
      PROVE  Moved
  BY <1>6 DEF RecordPayment, Payable, StatusAfterPayment
<1>7. ASSUME NEW w \in Workers, NEW j \in Invoices, NEW p \in Payments,
             NEW a \in Amounts, RecordRefund(w, j, p, a)
      PROVE  Moved
  <2>1. CASE i = j
    <3>1. /\ status'[i] = StatusAfterRefund(status[i], NetPaid(i) - a, total[i])
          /\ refundedTotal'[i] = refundedTotal[i] + a
      BY <1>7, <2>1 DEF RecordRefund
    <3>2. refundedTotal'[i] > refundedTotal[i]
      BY <3>1, AmountsAssumption
    <3>3. status[i] = "cancelled" => status'[i] \in {"cancelled", "refunded"}
      BY <3>1, RefundStatus DEF NetPaid
    <3>4. QED
      BY <3>2, <3>3
  <2>2. CASE i # j
    BY <1>7, <2>2 DEF RecordRefund
  <2>3. QED
    BY <2>1, <2>2
<1>8. ASSUME NEW j \in Invoices, DueDatePasses(j)
      PROVE  Moved
  BY <1>8 DEF DueDatePasses
<1>9. CASE MarkOverdueInvoices
  BY <1>9 DEF MarkOverdueInvoices, BecomesOverdue
<1>10. QED
  BY <1>1, <1>2, <1>3, <1>4, <1>5, <1>6, <1>7, <1>8, <1>9 DEF Next, RequestStep

\* However the workers interleave, paid and cancelled invoices change as the
\* service layer promises unless a save rested on an outdated check.
THEOREM SettledInvoicesStay == Spec => PaidLeftOnlyByRefund /\ CancelledIsFinal
<1>1. TypeOK /\ [Next]_vars =>
        [\A i \in Invoices \ lateSaves' :
            status[i] = "paid" /\ status'[i] \notin {"paid", "deleted"}
               => refundedTotal'[i] > refundedTotal[i]]_vars
  BY StatusMove
<1>2. TypeOK /\ [Next]_vars =>
        [\A i \in Invoices \ lateSaves' : status[i] = "cancelled" =>
            status'[i] \in {"cancelled", "refunded", "deleted"}]_vars
  BY StatusMove
<1>3. QED
  BY <1>1, <1>2, TypeCorrect, PTL DEF Spec, PaidLeftOnlyByRefund, CancelledIsFinal

(***************************************************************************)
(* One worker.  The fetched row cannot go stale, so an edit in progress is *)
(* always of a draft and no edit is ever late.                             *)
(***************************************************************************)

SerialInv ==
    /\ OnlyDraftsAreEdited
    /\ \A w \in Workers : request[w].op = "edit" =>
          \A i \in Invoices : request[w].invoice = i =>
              status[i] \in {"draft", "deleted"}

\* With a single worker the serial invariant is inductive: nothing runs
\* between the check a service makes and the write it belongs to.
LEMMA SerialStep ==
    ASSUME \A v, w \in Workers : v = w,
           TypeOK, SerialInv, [Next]_vars
    PROVE  SerialInv'
<1> USE DEF SerialInv, OnlyDraftsAreEdited, TypeOK, rowVars, historyVars, moneyVars
<1>1. ASSUME NEW w \in Workers, request'[w] = Idle, UNCHANGED lateEdits,
             request' \in [Workers -> [op : {"idle", "send", "cancel", "edit"},
                                       invoice : Invoices \cup {NoInvoice}]]
      PROVE  SerialInv'
  BY <1>1 DEF Idle
<1>2. ASSUME NEW w \in Workers, request[w] = Idle,
             UNCHANGED <<request, lateEdits>>
      PROVE  SerialInv'
  BY <1>2, <1>1
<1>3. ASSUME NEW w \in Workers, NEW i \in Invoices,
             BeginSend(w, i) \/ BeginCancel(w, i) \/ BeginEdit(w, i)
      PROVE  SerialInv'
  BY <1>3 DEF BeginSend, BeginCancel, BeginEdit, Begin, Editable
<1>4. ASSUME NEW w \in Workers, NEW i \in Invoices, NEW t \in Totals,
             NEW late \in BOOLEAN, FinishEdit(w, i, t, late)
      PROVE  SerialInv'
  <2>1. status[i] = "draft"
    BY <1>4 DEF FinishEdit, Serving, Exists, NoRow
  <2>2. request'[w] = Idle /\ UNCHANGED lateEdits
    BY <1>4, <2>1 DEF FinishEdit, Serving
  <2>3. request' \in [Workers -> [op : {"idle", "send", "cancel", "edit"},
                                  invoice : Invoices \cup {NoInvoice}]]
    BY <1>4 DEF FinishEdit, Serving, Idle
  <2>4. QED
    BY <1>1, <2>2, <2>3
<1>5. ASSUME NEW w \in Workers, NEW i \in Invoices,
             FinishSend(w, i) \/ FinishCancel(w, i)
      PROVE  SerialInv'
  <2>1. request' = [request EXCEPT ![w] = Idle] /\ UNCHANGED lateEdits
    BY <1>5 DEF FinishSend, FinishCancel, Serving
  <2>2. QED
    BY <1>1, <2>1 DEF Idle
<1>6. ASSUME NEW w \in Workers, FinishOnDeleted(w)
      PROVE  SerialInv'
  <2>1. request' = [request EXCEPT ![w] = Idle] /\ UNCHANGED lateEdits
    BY <1>6 DEF FinishOnDeleted
  <2>2. QED
    BY <1>1, <2>1 DEF Idle
<1>7. ASSUME NEW w \in Workers, NEW i \in Invoices, NEW t \in Totals,
             NEW late \in BOOLEAN, CreateInvoice(w, i, t, late)
      PROVE  SerialInv'
  BY <1>7, <1>2 DEF CreateInvoice
<1>8. ASSUME NEW w \in Workers, NEW i \in Invoices, DestroyInvoice(w, i)
      PROVE  SerialInv'
  BY <1>8, <1>2 DEF DestroyInvoice
<1>9. ASSUME NEW w \in Workers, NEW i \in Invoices, NEW p \in Payments,
             NEW a \in Amounts,
             RecordPayment(w, i, p, a) \/ RecordRefund(w, i, p, a)
      PROVE  SerialInv'
  BY <1>9, <1>2 DEF RecordPayment, RecordRefund
<1>10. ASSUME NEW i \in Invoices, DueDatePasses(i)
       PROVE  SerialInv'
  BY <1>10 DEF DueDatePasses
<1>11. CASE MarkOverdueInvoices
  BY <1>11 DEF MarkOverdueInvoices, BecomesOverdue
<1>12. CASE UNCHANGED vars
  BY <1>12 DEF vars
<1>13. QED
  BY <1>3, <1>4, <1>5, <1>6, <1>7, <1>8, <1>9, <1>10, <1>11, <1>12
     DEF Next, RequestStep

\* With a single worker overpayment is impossible and only drafts are edited:
\* what the service layer promises outright holds without the stale checks.
THEOREM SingleWorkerNeverOverpays ==
    ASSUME \A v, w \in Workers : v = w
    PROVE  Spec => [](NoOverpayment /\ OnlyDraftsAreEdited)
<1>1. Init => SerialInv
  BY DEF Init, SerialInv, OnlyDraftsAreEdited, Idle
<1>2. TypeOK /\ SerialInv /\ [Next]_vars => SerialInv'
  BY SerialStep
<1>3. OverpaidOnlyByLateEdit /\ SerialInv
         => NoOverpayment /\ OnlyDraftsAreEdited
  BY DEF OverpaidOnlyByLateEdit, SerialInv, OnlyDraftsAreEdited, NoOverpayment
<1>4. QED
  BY <1>1, <1>2, <1>3, TypeCorrect, MoneyInvariant, PTL DEF Spec
=============================================================================

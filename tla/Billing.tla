------------------------------ MODULE Billing ------------------------------
(***************************************************************************)
(* Estimates, the invoices made from them, and the numbers both are given  *)
(* (finance/services.py and the viewsets that call it).                    *)
(*                                                                         *)
(* A creation is one transaction that takes the next number of its kind    *)
(* from a sequence row, which stays locked until the transaction commits   *)
(* or rolls back.  A conversion fetches the estimate, locks and re-checks  *)
(* it, and then creates an invoice inside the same transaction.  What      *)
(* becomes of an invoice afterwards is the subject of Invoicing.           *)
(***************************************************************************)
EXTENDS Totals, FiniteSets

CONSTANTS
    Estimates,  \* estimate rows
    Invoices,   \* invoice rows
    NoRow,      \* SQL NULL
    Workers,    \* web workers, each serving one request at a time
    Contents    \* what a document may say: its lines, discount and tax rate

ASSUME NoRowAssumption == NoRow \notin Estimates \cup Invoices
\* Neither a price nor a discount has a least value, see finance/serializers.py.
ASSUME ContentsAssumption ==
    Contents \subseteq [lines : Seq([quantity : Nat \ {0}, price : Int]),
                        discount : [type : {"none", "percentage", "fixed"}, value : Int],
                        tax : Nat]

VARIABLES
    estimates,   \* Estimate rows with their lines
    invoices,    \* Invoice rows with their lines
    nextNumber,  \* next_number of the two committed sequence rows
    request      \* what each worker is in the middle of

billingVars == <<estimates, invoices, nextNumber, request>>

OpenStatus == {"draft", "sent", "accepted", "declined"}
Kinds == {"estimate", "invoice"}

\* A deleted row keeps its number, as history.
Absent == [status |-> "none", number |-> 0]
\* `source` is history: the estimate an invoice was made from.
Estimate(number, content) ==
    [status |-> "draft", number |-> number, content |-> content,
     totals |-> CalculateTotals(content), invoice |-> NoRow]
Invoice(number, content, source) ==
    [status |-> "exists", number |-> number, content |-> content,
     totals |-> CalculateTotals(content), source |-> source]

\* `number`: the one this transaction has taken, 0 if none; `locked`: whether
\* it holds the lock of its estimate.
Idle == [op |-> "idle", row |-> NoRow, kind |-> "estimate", number |-> 0,
         locked |-> FALSE]

Exists(row) == row.status \notin {"none", "deleted"}

Amounts == [subtotal : Int, discount : Int, taxable : Int, tax : Int, total : Int]
EstimateRow == [status : OpenStatus \cup {"converted"}, number : Nat, content : Contents,
                totals : Amounts, invoice : Invoices \cup {NoRow}]
InvoiceRow == [status : {"exists"}, number : Nat, content : Contents,
               totals : Amounts, source : Estimates \cup {NoRow}]
Request == [op : {"idle", "create", "update", "convert"}, row : Estimates \cup {NoRow},
            kind : Kinds, number : Nat, locked : BOOLEAN]

BillingTypeOK ==
    /\ estimates \in [Estimates -> EstimateRow \cup [status : {"deleted"}, number : Nat]
                                     \cup {Absent}]
    /\ invoices \in [Invoices -> InvoiceRow \cup {Absent}
                       \cup [status : {"deleted"}, number : Nat, source : Estimates \cup {NoRow}]]
    /\ nextNumber \in [Kinds -> Nat \ {0}]
    /\ request \in [Workers -> Request]

BillingInit ==
    /\ estimates = [e \in Estimates |-> Absent]
    /\ invoices = [i \in Invoices |-> Absent]
    /\ nextNumber = [k \in Kinds |-> 1]
    /\ request = [w \in Workers |-> Idle]

Answer(w) == request' = [request EXCEPT ![w] = Idle]

\* Every number that a row of this kind has or had; those still in the table
\* are what the unique constraint compares with.
Numbered(kind) ==
    IF kind = "estimate" THEN {estimates[e].number : e \in Estimates} \ {0}
                         ELSE {invoices[i].number : i \in Invoices} \ {0}
Duplicate(kind, number) ==
    IF kind = "estimate"
    THEN \E e \in Estimates : Exists(estimates[e]) /\ estimates[e].number = number
    ELSE \E i \in Invoices : Exists(invoices[i]) /\ invoices[i].number = number

(***************************************************************************)
(* Numbers.                                                                *)
(***************************************************************************)

NeverHeld(kind) == FALSE \* faulty variant: no select_for_update
HeldByAnother(kind) == \E w \in Workers : request[w].kind = kind /\ request[w].number # 0

\* _generate_number.  A first use inserts the row, and another first use waits
\* for that insert as it waits for the lock later.
TakeNumber(w, taken) ==
    /\ ~HeldByAnother(taken.kind)
    /\ request' = [request EXCEPT ![w] = [taken EXCEPT !.number = nextNumber[taken.kind]]]

\* The counter and the document commit together.
Commit(w, kind) ==
    /\ request[w].kind = kind
    /\ request[w].number # 0
    /\ ~Duplicate(kind, request[w].number)
    /\ nextNumber' = [nextNumber EXCEPT ![kind] = request[w].number + 1]
    /\ Answer(w)

\* An amount too long for its column, a duplicate, a lost connection: all is
\* rolled back, the counter and the estimate's lock with it.
Fail(w) ==
    /\ request[w].number # 0 \/ request[w].locked
    /\ Answer(w)
    /\ UNCHANGED <<estimates, invoices, nextNumber>>

(***************************************************************************)
(* Creating and deleting.                                                  *)
(***************************************************************************)

BeginCreate(w, kind) ==
    /\ request[w] = Idle
    /\ TakeNumber(w, [Idle EXCEPT !.op = "create", !.kind = kind])
    /\ UNCHANGED <<estimates, invoices, nextNumber>>

CreateEstimate(w, e, content) ==
    /\ request[w].op = "create"
    /\ Commit(w, "estimate")
    /\ estimates[e] = Absent
    /\ estimates' = [estimates EXCEPT ![e] = Estimate(request[w].number, content)]
    /\ UNCHANGED invoices

CreateInvoice(w, i, content) ==
    /\ request[w].op = "create"
    /\ Commit(w, "invoice")
    /\ invoices[i] = Absent
    /\ invoices' = [invoices EXCEPT ![i] = Invoice(request[w].number, content, NoRow)]
    /\ UNCHANGED estimates

\* Locked by a conversion: a write waits until that has ended.
Locked(e) == \E w \in Workers : request[w].row = e /\ request[w].locked

DestroyEstimate(e) ==
    /\ Exists(estimates[e])
    /\ ~Locked(e)
    /\ estimates' = [estimates EXCEPT ![e] = [Absent EXCEPT !.status = "deleted",
                                                            !.number = estimates[e].number]]
    /\ UNCHANGED <<invoices, nextNumber, request>>

\* Estimate.converted_invoice is SET_NULL; the estimate stays converted.
DestroyInvoice(i) ==
    /\ Exists(invoices[i])
    /\ invoices' = [invoices EXCEPT ![i] = [status |-> "deleted",
                                            number |-> invoices[i].number,
                                            source |-> invoices[i].source]]
    /\ estimates' = [e \in Estimates |->
                       IF Exists(estimates[e]) /\ estimates[e].invoice = i
                       THEN [estimates[e] EXCEPT !.invoice = NoRow] ELSE estimates[e]]
    /\ UNCHANGED <<nextNumber, request>>

(***************************************************************************)
(* Editing and converting an estimate.  Both check the fetched row, lock   *)
(* it, and check it again.                                                 *)
(***************************************************************************)

Open(e) == estimates[e].status \in OpenStatus

Begin(w, e, op) ==
    /\ request[w] = Idle
    /\ Open(e)
    /\ request' = [request EXCEPT ![w] = [Idle EXCEPT !.op = op, !.row = e]]
    /\ UNCHANGED <<estimates, invoices, nextNumber>>

Reached(w, op) ==
    /\ request[w].op = op
    /\ ~request[w].locked
    /\ ~Locked(request[w].row)

Editable(e) == Open(e)

TotalsOfNewLines(row, content) == \* faulty variant: new lines only
    IF content.lines = row.content.lines THEN row.totals ELSE CalculateTotals(content)
TotalsAfter(row, content) == CalculateTotals(content)

\* update_estimate.  What the request leaves out stays as it is.
UpdateEstimate(w, content, status) ==
    LET e == request[w].row
    IN /\ Reached(w, "update")
       /\ Editable(e)
       /\ estimates' = [estimates EXCEPT
            ![e] = [@ EXCEPT !.content = content, !.status = status,
                             !.totals = TotalsAfter(estimates[e], content)]]
       /\ Answer(w)
       /\ UNCHANGED <<invoices, nextNumber>>

MayConvertUnchecked(e) == Exists(estimates[e]) \* faulty variant
MayConvert(e) == Open(e)

\* convert_estimate_to_invoice: lock, check again, read the estimate's lines
\* and take a number for the invoice.
LockEstimate(w) ==
    /\ Reached(w, "convert")
    /\ MayConvert(request[w].row)
    /\ request' = [request EXCEPT ![w].locked = TRUE]
    /\ UNCHANGED <<estimates, invoices, nextNumber>>

NumberConversion(w) ==
    /\ request[w].locked
    /\ request[w].number = 0
    /\ TakeNumber(w, [request[w] EXCEPT !.kind = "invoice"])
    /\ UNCHANGED <<estimates, invoices, nextNumber>>

ConvertEstimate(w, i) ==
    LET e == request[w].row
    IN /\ request[w].op = "convert"
       /\ Commit(w, "invoice")
       /\ invoices[i] = Absent
       /\ invoices' = [invoices EXCEPT
                         ![i] = Invoice(request[w].number, estimates[e].content, e)]
       /\ estimates' = [estimates EXCEPT
             ![e] = [@ EXCEPT !.status = "converted", !.invoice = i]]

\* The second check fails, or the row is gone.
Refuse(w) ==
    /\ \/ Reached(w, "update") /\ ~Editable(request[w].row)
       \/ Reached(w, "convert") /\ ~MayConvert(request[w].row)
    /\ Answer(w)
    /\ UNCHANGED <<estimates, invoices, nextNumber>>

(***************************************************************************)
(* The system.                                                             *)
(***************************************************************************)

Serve(w) ==
    \/ \E k \in Kinds : BeginCreate(w, k)
    \/ \E content \in Contents :
         \/ \E e \in Estimates : CreateEstimate(w, e, content)
         \/ \E i \in Invoices : CreateInvoice(w, i, content)
         \/ \E status \in OpenStatus : UpdateEstimate(w, content, status)
    \/ \E e \in Estimates : Begin(w, e, "update") \/ Begin(w, e, "convert")
    \/ LockEstimate(w) \/ NumberConversion(w) \/ Refuse(w) \/ Fail(w)
    \/ \E i \in Invoices : ConvertEstimate(w, i)

BillingNext ==
    \/ \E w \in Workers : Serve(w)
    \/ \E e \in Estimates : DestroyEstimate(e)
    \/ \E i \in Invoices : DestroyInvoice(i)

BillingSpec == BillingInit /\ [][BillingNext]_billingVars

(***************************************************************************)
(* Properties.                                                             *)
(***************************************************************************)

\* The rows of a kind were numbered 1, 2, 3, ... with neither a gap nor a
\* number given twice, over every failed creation and every deletion, and a
\* number in hand is the next one and in nobody else's hand.
NumberedInSequence ==
    \A kind \in Kinds :
        LET holders == {w \in Workers : request[w].kind = kind /\ request[w].number # 0}
        IN /\ Numbered(kind) = 1 .. nextNumber[kind] - 1
           /\ \A e, f \in Estimates : estimates[e].number = estimates[f].number
                                        => e = f \/ estimates[e].number = 0
           /\ \A i, j \in Invoices : invoices[i].number = invoices[j].number
                                        => i = j \/ invoices[i].number = 0
           /\ Cardinality(holders) <= 1
           /\ \A w \in holders : request[w].number \notin Numbered(kind)

\* However many conversions of an estimate race, it becomes one invoice: no
\* other was ever made from it, and the estimate knows it while it exists.
ConvertedOnce ==
    \A i \in Invoices : invoices[i].status # "none" /\ invoices[i].source # NoRow =>
        LET estimate == estimates[invoices[i].source]
        IN /\ \A j \in Invoices : invoices[j].status # "none"
                                    /\ invoices[j].source = invoices[i].source => j = i
           /\ Exists(estimate) =>
                /\ estimate.status = "converted"
                /\ estimate.invoice = (IF Exists(invoices[i]) THEN i ELSE NoRow)

\* The invoice asks for what the customer accepted: the lines and every amount
\* of a converted estimate stay those its invoice was made with.
ConvertedAsQuoted ==
    \A i \in Invoices :
        Exists(invoices[i]) /\ invoices[i].source # NoRow
          /\ Exists(estimates[invoices[i].source])
        => /\ estimates[invoices[i].source].content = invoices[i].content
           /\ estimates[invoices[i].source].totals = invoices[i].totals

\* The five amounts, rounded one by one, add up to within a cent, and a
\* discount never turns what is taxed negative.
AmountsAddUp ==
    \A row \in {estimates[e] : e \in Estimates} \cup {invoices[i] : i \in Invoices} :
        Exists(row) =>
          LET t == row.totals
          IN /\ t.taxable >= 0 /\ t.tax >= 0
             /\ t.total \in t.taxable + t.tax - 1 .. t.taxable + t.tax + 1
             /\ t.discount <= t.subtotal =>
                  t.taxable \in t.subtotal - t.discount - 1 .. t.subtotal - t.discount + 1

\* InvoiceNumberSequence: a creation that fails after the counter was
\* incremented leaves a gap, its number "never gets used".
FailureLeavesGap ==
    [][\A w \in Workers : request[w].number # 0 /\ request'[w].number = 0
         => nextNumber'[request[w].kind] > request[w].number]_billingVars
=============================================================================

---------------------------- MODULE Subscription ----------------------------
(***************************************************************************)
(* One business's right to use the service: the Stripe webhook             *)
(* (finance/webhooks.py) and the daily task that locks lapsed businesses   *)
(* out (core/tasks.py), which both write its row.                          *)
(*                                                                         *)
(* Stripe delivers each event at least once and in any order.  A handler   *)
(* reads the row without a lock, so a worker takes two steps; what it      *)
(* writes and the event's own row commit together or not at all.  The task *)
(* is one transaction of three UPDATEs, each seeing what has committed by  *)
(* then.  One that matches locks the row until the commit, and no later    *)
(* one matches what it wrote: it stands for the rest of its run, and a run *)
(* that dies is one that stops before its write.                           *)
(***************************************************************************)
EXTENDS Naturals, Sequences

CONSTANTS
    Workers,        \* web workers, each serving one request at a time
    Customers,      \* Stripe's customers that have to do with the business
    NoCustomer,     \* the empty stripe_customer_id
    OpeningStatus,  \* the statuses a subscription opens with
    MaxSubs,        \* bound: the subscriptions opened for the business
    MaxEvents       \* bound: the events Stripe sends

ASSUME CustomersAssumption == NoCustomer \notin Customers
ASSUME BoundsAssumption == MaxSubs \in Nat /\ MaxEvents \in Nat

VARIABLES
    row,            \* the Business row
    legacy,         \* Business.is_legacy, set by an administrator
    trialEnded,     \* trial_ends_at is in the past
    stripe,         \* Stripe: the status of each subscription, in their order
    sent,           \* Stripe: the events so far; an event_id is an index
    recorded,       \* the event_ids of the StripeWebhookEvent rows
    request,        \* what each worker serves: the event, and the row it read
    task,           \* the next statement of check_expired_trials
    applied,        \* history: how often each event's handler has committed
    overtaken,      \* history: an event was handled before an earlier one was done
    assumed         \* history: the status was last set to a handler's own "active"

historyVars == <<applied, overtaken, assumed>>
webhookVars == <<sent, recorded, request, historyVars>>
vars == <<row, legacy, trialEnded, stripe, sent, recorded, request, task, historyVars>>

Events == 1..MaxEvents
\* "unpaid" stands for Stripe's other statuses that are neither paid nor past due.
LiveStatus == {"trialing", "active", "past_due", "unpaid"}
Status == LiveStatus \cup {"", "canceled"}

ASSUME OpeningAssumption == OpeningStatus \subseteq LiveStatus

\* 0 is the empty stripe_subscription_id.
Row == [active : BOOLEAN, trialExpired : BOOLEAN, status : Status,
        sub : 0..MaxSubs, customer : Customers \cup {NoCustomer}]
NewRow == [active |-> TRUE, trialExpired |-> FALSE, status |-> "", sub |-> 0,
           customer |-> NoCustomer]
Event == [kind : {"checkout", "stray", "updated", "deleted", "paid"}, sub : 0..MaxSubs,
          customer : Customers \cup {NoCustomer}, status : Status]
Idle == [event |-> 0, read |-> NewRow]

TypeOK ==
    /\ row \in Row
    /\ legacy \in BOOLEAN /\ trialEnded \in BOOLEAN
    /\ stripe \in Seq(LiveStatus \cup {"canceled"}) /\ Len(stripe) <= MaxSubs
    /\ sent \in Seq(Event) /\ Len(sent) <= MaxEvents
    /\ recorded \subseteq Events
    /\ request \in [Workers -> [event : Events, read : Row] \cup {Idle}]
    /\ task \in {"expire", "reactivate", "deactivate"}
    /\ applied \in [Events -> Nat]
    /\ overtaken \in BOOLEAN /\ assumed \in BOOLEAN

Init ==
    /\ row = NewRow
    /\ legacy \in BOOLEAN
    /\ trialEnded = FALSE
    /\ stripe = <<>>
    /\ sent = <<>>
    /\ recorded = {}
    /\ request = [w \in Workers |-> Idle]
    /\ task = "expire"
    /\ applied = [e \in Events |-> 0]
    /\ overtaken = FALSE
    /\ assumed = FALSE

(***************************************************************************)
(* Stripe, and time.  A business may have several subscriptions at once,   *)
(* of any customer, and invoices that belong to none of them.              *)
(***************************************************************************)

EventOf(kind, sub, c, s) == [kind |-> kind, sub |-> sub, customer |-> c, status |-> s]

Send(e) ==
    /\ Len(sent) < MaxEvents
    /\ sent' = Append(sent, e)
    /\ UNCHANGED <<row, legacy, trialEnded, recorded, request, task, historyVars>>

Checkout(c, s) ==
    /\ Len(stripe) < MaxSubs
    /\ stripe' = Append(stripe, s)
    /\ Send(EventOf("checkout", Len(stripe) + 1, c, s))

\* A session for a single payment: no subscription, and perhaps no customer.
PaymentCheckout(c) ==
    /\ UNCHANGED stripe
    /\ Send(EventOf("checkout", 0, c, ""))

\* A session whose client_reference_id resolves to no business.
StrayCheckout ==
    /\ UNCHANGED stripe
    /\ Send(EventOf("stray", 0, NoCustomer, ""))

\* Any change of a subscription sends an update, also one that is not of its status.
StatusChanges(i, s) ==
    /\ stripe[i] \in LiveStatus
    /\ stripe' = [stripe EXCEPT ![i] = s]
    /\ Send(EventOf("updated", i, NoCustomer, s))

\* An invoice of the customer's, whichever: what becomes of a subscription is
\* a change of its own, before this event, after it, or never.
InvoicePaid(c) ==
    /\ UNCHANGED stripe
    /\ Send(EventOf("paid", 0, c, ""))

SubscriptionEnds(i) ==
    /\ stripe[i] \in LiveStatus
    /\ stripe' = [stripe EXCEPT ![i] = "canceled"]
    /\ Send(EventOf("deleted", i, NoCustomer, "canceled"))

TrialEnds ==
    /\ ~trialEnded
    /\ trialEnded' = TRUE
    /\ UNCHANGED <<row, legacy, stripe, task, webhookVars>>

(***************************************************************************)
(* StripeWebhookView.  A delivery of a recorded event, answered 200 at the *)
(* failed insert, changes nothing and is left out.                         *)
(***************************************************************************)

\* The insert of the event's row: one that another worker has not committed
\* yet makes it wait.  Faulty variant: looking the event up instead.
NotFound(e) == e \notin recorded
Insertable(e) == e \notin recorded /\ \A v \in Workers : request[v].event # e

Begin(w, e) ==
    /\ request[w] = Idle
    /\ e \in DOMAIN sent
    /\ Insertable(e)
    /\ overtaken' = (overtaken \/ \E f \in 1..(e - 1) : f \notin recorded)
    /\ request' = [request EXCEPT ![w] = [event |-> e, read |-> row]]
    /\ UNCHANGED <<row, legacy, trialEnded, stripe, task, sent, recorded, applied, assumed>>

\* Whether the handler's query finds the business.
AnySubscription(e, read) ==                      \* faulty variant: whichever it is linked to
    \/ e.kind \in {"checkout", "updated", "deleted"}
    \/ e.kind = "paid" /\ read.customer = e.customer
Resolves(e, read) ==
    \/ e.kind = "checkout"
    \/ e.kind \in {"updated", "deleted"} /\ read.sub = e.sub
    \/ e.kind = "paid" /\ read.customer = e.customer

\* save(update_fields) of the row as it was read, over the row as it is now.
Saved(e, read, now) ==
    CASE e.kind = "checkout" ->
            [now EXCEPT !.sub = IF e.sub = 0 THEN read.sub ELSE e.sub,
                        !.customer = IF e.customer = NoCustomer THEN read.customer ELSE e.customer,
                        !.status = "active", !.active = TRUE]
      [] e.kind = "updated"  -> [now EXCEPT !.status = e.status]
      [] e.kind = "deleted"  -> [now EXCEPT !.status = "canceled", !.active = legacy /\ read.active]
      [] e.kind = "paid"     -> [now EXCEPT !.active = TRUE,
                                   !.status = IF read.status = "past_due" THEN "active"
                                              ELSE read.status]

\* Whether the status then is one a handler assumes, not one Stripe has told.
Assumes(e, read) ==
    \/ e.kind = "checkout"
    \/ e.kind = "paid" /\ (assumed \/ read.status = "past_due")

Finish(w) ==
    LET id == request[w].event
        read == request[w].read
    IN
    /\ request[w] # Idle
    /\ row' = IF Resolves(sent[id], read) THEN Saved(sent[id], read, row) ELSE row
    /\ assumed' = IF Resolves(sent[id], read) THEN Assumes(sent[id], read) ELSE assumed
    /\ recorded' = recorded \cup {id}
    /\ applied' = [applied EXCEPT ![id] = @ + 1]
    /\ request' = [request EXCEPT ![w] = Idle]
    /\ UNCHANGED <<legacy, trialEnded, stripe, sent, task, overtaken>>

\* The handler raises, or the worker dies: Stripe will deliver it again.
Abort(w) ==
    /\ request[w] # Idle
    /\ request' = [request EXCEPT ![w] = Idle]
    /\ UNCHANGED <<row, legacy, trialEnded, stripe, sent, recorded, task, historyVars>>

(***************************************************************************)
(* check_expired_trials.                                                   *)
(***************************************************************************)

PayingInFull == row.status = "active"   \* faulty variant: trialing left out
Paying == row.status \in {"active", "trialing"}

TrialLapses == ~row.trialExpired /\ trialEnded /\ ~Paying

\* Faulty variants: whatever the subscription, or the trial; only one that ended;
\* legacy businesses too.
AfterTrial == ~legacy /\ row.trialExpired /\ row.active
Lapsed == ~legacy /\ row.active /\ ~Paying
CanceledAfterTrial == ~legacy /\ row.trialExpired /\ row.active /\ row.status = "canceled"
LegacyToo == row.trialExpired /\ row.active /\ ~Paying
LapsedAfterTrial == ~legacy /\ row.trialExpired /\ row.active /\ ~Paying

Update(statement, matches, new, next) ==
    /\ task = statement
    /\ row' = IF matches THEN new ELSE row
    /\ task' = IF matches THEN "expire" ELSE next
    /\ UNCHANGED <<legacy, trialEnded, stripe, webhookVars>>

Expire ==
    Update("expire", TrialLapses, [row EXCEPT !.trialExpired = TRUE, !.active = FALSE], "reactivate")
Reactivate ==
    Update("reactivate", Paying /\ ~row.active, [row EXCEPT !.active = TRUE], "deactivate")
Deactivate ==
    Update("deactivate", LapsedAfterTrial, [row EXCEPT !.active = FALSE], "expire")

KillTask ==
    /\ task # "expire"
    /\ task' = "expire"
    /\ UNCHANGED <<row, legacy, trialEnded, stripe, webhookVars>>

StripeStep ==
    \/ \E c \in Customers : (\E s \in OpeningStatus : Checkout(c, s)) \/ InvoicePaid(c)
    \/ \E c \in Customers \cup {NoCustomer} : PaymentCheckout(c)
    \/ StrayCheckout
    \/ \E i \in DOMAIN stripe : SubscriptionEnds(i) \/ \E s \in LiveStatus : StatusChanges(i, s)
WebhookStep == \E w \in Workers : Finish(w) \/ Abort(w) \/ \E e \in Events : Begin(w, e)
TaskStep == Expire \/ Reactivate \/ Deactivate \/ KillTask

Next == StripeStep \/ TrialEnds \/ WebhookStep \/ TaskStep

Spec == Init /\ [][Next]_vars

\* A run starts every day, and not every one dies on the way.
Fairness == WF_vars(Expire) /\ SF_vars(Reactivate) /\ SF_vars(Deactivate)
FairSpec == Spec /\ Fairness

(***************************************************************************)
(* Properties.                                                             *)
(***************************************************************************)

Subscribed == row.status \in {"active", "trialing"}

\* However often Stripe delivers an event and to however many workers, however
\* many attempts fail: it is recorded exactly when its handler has committed,
\* and that happened once.
ExactlyOnce == \A e \in Events : applied[e] = IF e \in recorded THEN 1 ELSE 0

\* No step locks a business out while its subscription is active or trialing:
\* whatever interleaves, the one that does leaves a lapsed status behind.
NeverLocksOutPaying == [][row.active /\ ~row'.active => ~Subscribed']_vars

\* Access lost for good reasons only: an inactive business has run out of its
\* trial, or had a subscription end, which a legacy one survives.
LockedOutForAReason ==
    ~row.active => \/ row.trialExpired
                   \/ ~legacy /\ \E e \in recorded : sent[e].kind = "deleted"

\* What is_legacy protects from: a legacy business is locked out when its trial
\* expires and at no other time, but for a deletion that read the row while it
\* was inactive and saves that over what has let the business in since.
StaleDeletion ==
    \E w \in Workers : /\ request[w] # Idle /\ request'[w] = Idle
                       /\ sent[request[w].event].kind = "deleted"
                       /\ ~request[w].read.active
LegacyLockedOutByTrialOnly ==
    [][legacy /\ row.active /\ ~row'.active =>
         (~row.trialExpired /\ row'.trialExpired) \/ StaleDeletion]_vars

\* A business that pays is let in again, by the webhook or the next run.
PayingIsReactivated == Subscribed ~> (row.active \/ ~Subscribed)

\* A business past its trial that does not pay is locked out by the next run,
\* also if it had been reactivated in between.
LapsedIsLockedOut == (trialEnded /\ ~legacy /\ ~Subscribed) ~> (~row.active \/ Subscribed)

\* Once Stripe has had its 200 for every event, the row is linked to the latest
\* subscription and shows that one's status, unless one event has overtaken
\* another, or a handler has written "active" of itself and no update or
\* deletion of that subscription has come since.
StripeSays == IF row.sub = 0 THEN "" ELSE stripe[row.sub]
MirrorsUnlessOvertaken ==
    recorded = DOMAIN sent /\ ~overtaken =>
        /\ row.sub = Len(stripe)
        /\ row.status = StripeSays \/ (assumed /\ row.status = "active")

\* "Mirrors the Stripe subscription status string."
MirrorsStripeStatus == recorded = DOMAIN sent /\ ~overtaken => row.status = StripeSays

\* "Grandfathered accounts that never expire regardless of trial/subscription
\* status."
LegacyStaysActive == legacy => row.active
=============================================================================
